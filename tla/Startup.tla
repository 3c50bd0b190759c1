------------------------------ MODULE Startup ------------------------------
(***************************************************************************)
(* How a program starts: framework/setup.go with the settings it puts in   *)
(* force (conf: ApplyEnv, Validate, Init, Freeze) and the apps it          *)
(* registers (apps: Registry, Bootstrap, AppConfig.Ready).                 *)
(*                                                                         *)
(* The main goroutine calls Setup, and calls it again after an error or a  *)
(* panic it recovered from, with the same or other settings and apps.      *)
(* Meanwhile any other goroutine may ask an app whether it is ready.       *)
(* Settings are objects that Setup changes where they are, so a call that  *)
(* fails has changed them too.                                             *)
(***************************************************************************)
EXTENDS Naturals, Sequences, FiniteSets

CONSTANTS
    None,         \* the nil pointer, and a map entry that is not there
    Objects,      \* the Settings the program has allocated
    Given,        \* Given[o]: what the program wrote into o
    Environ,      \* the JANGO_ variables of the process
    Apps, Label,  \* the installed apps and their labels
    Programs      \* the programs: each is the sequence of the calls [object, apps]
                  \* that its main goroutine makes of Setup

VARIABLES
    settings,     \* settings[o]: the content of o
    global,       \* conf.global
    frozen,       \* conf.frozen
    configs,      \* configs[l]: the app registered under label l, or None
    ordered,      \* the labels in the order of registration
    stage,        \* Registry.state
    readyOnce,    \* readyOnce[a]: "unasked", or what AppConfig.Ready keeps answering
    setup,        \* the call of Setup: [pc, object, apps, next]
    calls,        \* the calls of Setup that are still to be made
    up            \* history: the call of Setup that returned no error, or None

confVars == <<settings, global, frozen>>
registryVars == <<configs, ordered, stage, readyOnce>>
startupVars == <<settings, global, frozen, configs, ordered, stage, readyOnce, setup, calls, up>>

\* A program makes its calls with settings and apps it has.
ASSUME StartupAssumption ==
    /\ None \notin Objects \cup Apps
    /\ Programs \subseteq Seq([object : Objects, apps : Seq(Apps)])

Labels == {Label[a] : a \in Apps}
-----------------------------------------------------------------------------
(* Settings.                                                               *)

\* conf.DefaultSettings, as far as the framework looks at it itself.
DefaultSettings ==
    [ProjectName |-> "", Debug |-> TRUE, SecretKey |-> "", AllowedHosts |-> {},
     Engine |-> "postgresql", Password |-> "", Backends |-> <<1>>, SessionEngine |-> "db",
     SSLRedirect |-> FALSE, HSTSSeconds |-> 0, BrowserXSSFilter |-> FALSE, ContentTypeNoSniff |-> FALSE]

Booleans == [text \in {"true", "false"} |-> text = "true"]
BooleanSettings == {"Debug", "SSLRedirect", "BrowserXSSFilter", "ContentTypeNoSniff"}

\* A variable that is empty, or no boolean where one is expected, changes nothing.
Overlaid(s, f) ==
    CASE f \notin DOMAIN Environ \/ f \in {"Backends"} -> s[f]
      [] f \in DOMAIN Environ /\ f \in BooleanSettings ->
             IF Environ[f] \in DOMAIN Booleans THEN Booleans[Environ[f]] ELSE s[f]
      [] OTHER -> Environ[f]

\* conf.ApplyEnv; where there is no default database it makes an empty one.
ApplyEnv(s) ==
    [f \in DOMAIN s |->
        IF f = "Engine" /\ Overlaid(s, f) = None THEN "" ELSE Overlaid(s, f)]

\* The fields conf.Validate complains about.
Validate(s) ==
       {f \in {"ProjectName"} : s[f] = ""}
  \cup {f \in {"SecretKey"} : s[f] = "short" \/ (s[f] = "" /\ ~s.Debug)}
  \cup {f \in {"AllowedHosts"} : "" \in s[f] \/ (~s.Debug /\ (s[f] = {} \/ "*" \in s[f]))}
  \cup {f \in {"Engine"} : s[f] = ""}
  \cup {f \in {"Backends"} : \E i \in DOMAIN s[f] : s[f][i] = 0}

\* The fields conf.ValidateDeploy warns about; Setup asks it if Debug is off.
ValidateDeploy(s) ==
       {f \in {"SSLRedirect", "BrowserXSSFilter", "ContentTypeNoSniff"} : ~s[f]}
  \cup {f \in {"Debug"} : s[f]}
  \cup {f \in {"SecretKey", "Password", "SessionEngine"} : s[f] = ""}
  \cup {f \in {"AllowedHosts"} : s[f] = {} \/ "*" \in s[f]}
  \cup {f \in {"HSTSSeconds"} : s[f] = 0}
-----------------------------------------------------------------------------
Idle == [pc |-> "idle", object |-> None, apps |-> <<>>, next |-> 1]

StartupInit ==
    /\ settings = [o \in Objects |-> Given[o]]
    /\ global = None
    /\ frozen = FALSE
    /\ configs = [l \in Labels |-> None]
    /\ ordered = <<>>
    /\ stage = "initializing"
    /\ readyOnce = [a \in Apps |-> "unasked"]
    /\ setup = Idle
    /\ calls \in Programs
    /\ up = None

\* Setup returns an error, or panics: nothing is taken back.
Fail == setup' = Idle /\ UNCHANGED up

\* Setup is called: ApplyEnv changes the settings it is given, then Validate.
BeginSetup ==
    /\ setup.pc = "idle"
    /\ calls # <<>>
    /\ calls' = Tail(calls)
    /\ LET o == Head(calls).object IN
       /\ settings' = [settings EXCEPT ![o] = ApplyEnv(@)]
       /\ IF Validate(settings'[o]) # {} THEN Fail
          ELSE /\ setup' = [pc |-> "init", object |-> o, apps |-> Head(calls).apps, next |-> 1]
               /\ UNCHANGED up
    /\ UNCHANGED <<global, frozen, registryVars>>

\* Mutant of InitSettings: Init does not ask whether the settings are frozen.
InitThawed ==
    /\ setup.pc = "init"
    /\ global' = setup.object
    /\ setup' = [setup EXCEPT !.pc = "bootstrap"]
    /\ UNCHANGED <<settings, frozen, registryVars, calls, up>>

\* conf.Init panics once the settings are frozen.
InitSettings ==
    /\ setup.pc = "init"
    /\ IF frozen THEN Fail /\ UNCHANGED global
       ELSE /\ global' = setup.object
            /\ setup' = [setup EXCEPT !.pc = "bootstrap"]
            /\ UNCHANGED up
    /\ UNCHANGED <<settings, frozen, registryVars, calls>>

\* Bootstrap sets the registry back to its first stage (its second conf.Init
\* finds what the first one left) ...
Bootstrap ==
    /\ setup.pc = "bootstrap"
    /\ stage' = "initializing"
    /\ setup' = [setup EXCEPT !.pc = "register"]
    /\ UNCHANGED <<confVars, configs, ordered, readyOnce, calls, up>>

\* ... registers the apps, of which an empty or a taken label is an error ...
RegisterApp ==
    /\ setup.pc = "register"
    /\ setup.next <= Len(setup.apps)
    /\ LET a == setup.apps[setup.next] IN
       IF Label[a] = "" \/ configs[Label[a]] # None
       THEN Fail /\ UNCHANGED <<configs, ordered>>
       ELSE /\ configs' = [configs EXCEPT ![Label[a]] = a]
            /\ ordered' = Append(ordered, Label[a])
            /\ setup' = [setup EXCEPT !.next = @ + 1]
            /\ UNCHANGED up
    /\ UNCHANGED <<confVars, stage, readyOnce, calls>>

\* ... declares the models registered ...
SetModelsRegistered ==
    /\ setup.pc = "register"
    /\ setup.next > Len(setup.apps)
    /\ stage' = "models_registered"
    /\ setup' = [setup EXCEPT !.pc = "hooks"]
    /\ UNCHANGED <<confVars, configs, ordered, readyOnce, calls, up>>

\* ... and RunReadyHooks declares itself ready before it asks the apps.
RunReadyHooks ==
    /\ setup.pc = "hooks"
    /\ stage' = "ready"
    /\ setup' = [setup EXCEPT !.pc = "ready", !.next = 1]
    /\ UNCHANGED <<confVars, configs, ordered, readyOnce, calls, up>>

\* What AppConfig.Ready answers for a: the first answer, for ever.
ReadyAnswer(a) ==
    IF readyOnce[a] # "unasked" THEN readyOnce[a]
    ELSE IF stage = "ready" THEN "ok" ELSE "error"

\* The next app, of those any call of Setup has registered, is asked.
RunReady ==
    /\ setup.pc = "ready"
    /\ setup.next <= Len(ordered)
    /\ LET a == configs[ordered[setup.next]] IN
       /\ readyOnce' = [readyOnce EXCEPT ![a] = ReadyAnswer(a)]
       /\ IF ReadyAnswer(a) = "error" THEN Fail
          ELSE setup' = [setup EXCEPT !.next = @ + 1] /\ UNCHANGED up
    /\ UNCHANGED <<confVars, configs, ordered, stage, calls>>

\* Setup freezes the settings and returns the warnings and no error.
Freeze ==
    /\ setup.pc = "ready"
    /\ setup.next > Len(ordered)
    /\ frozen' = TRUE
    /\ up' = [object |-> setup.object, apps |-> setup.apps,
              warnings |-> IF settings[setup.object].Debug THEN {}
                           ELSE ValidateDeploy(settings[setup.object])]
    /\ setup' = Idle
    /\ UNCHANGED <<settings, global, registryVars, calls>>

\* Any code that holds an app asks it whether it is ready.
AskReady(a) ==
    /\ readyOnce' = [readyOnce EXCEPT ![a] = ReadyAnswer(a)]
    /\ UNCHANGED <<confVars, configs, ordered, stage, setup, calls, up>>

StartupNext ==
    \/ BeginSetup
    \/ InitSettings
    \/ Bootstrap
    \/ RegisterApp
    \/ SetModelsRegistered
    \/ RunReadyHooks
    \/ RunReady
    \/ Freeze
    \/ \E a \in Apps : AskReady(a)

StartupSpec == StartupInit /\ [][StartupNext]_startupVars
-----------------------------------------------------------------------------
(* Properties.                                                             *)

StartupTypeOK ==
    /\ global \in Objects \cup {None}
    /\ frozen \in BOOLEAN
    /\ configs \in [Labels -> Apps \cup {None}]
    /\ ordered \in Seq(Labels)
    /\ stage \in {"initializing", "models_registered", "ready"}
    /\ readyOnce \in [Apps -> {"unasked", "ok", "error"}]
    /\ setup.pc \in {"idle", "init", "bootstrap", "register", "hooks", "ready"}

\* Setup succeeds once, and for good: whatever failed before it and is tried
\* after it, the settings in force are those it was given, valid and frozen,
\* and each of its apps is registered under its own label and ready.
SetupHolds ==
    up # None =>
        /\ frozen
        /\ global = up.object
        /\ Validate(settings[global]) = {}
        /\ stage = "ready"
        /\ \A i \in DOMAIN up.apps : configs[Label[up.apps[i]]] = up.apps[i]
        /\ \A l \in Labels : configs[l] # None => readyOnce[configs[l]] = "ok"
=============================================================================
