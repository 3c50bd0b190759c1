--------------------------- MODULE Startup_proofs ---------------------------
(***************************************************************************)
(* Proofs about Startup, for any settings, environment, apps and programs. *)
(*                                                                         *)
(* The environment is laid over the same settings as often as Setup is     *)
(* called with them; that this changes nothing from the second time on     *)
(* (EnvIsAppliedOnce) is why settings in force stay valid.  The inductive  *)
(* invariant SetupInv says what a call of Setup has achieved at each of    *)
(* its stages, and that none gets past Init once settings are frozen.      *)
(***************************************************************************)
EXTENDS Startup, SequenceTheorems, TLAPS

Stages == {"idle", "init", "bootstrap", "register", "hooks", "ready"}
PastInit == {"bootstrap", "register", "hooks", "ready"}
CallSet == [object : Objects, apps : Seq(Apps)]
SetupSet == [pc : Stages, object : Objects \cup {None}, apps : Seq(Apps), next : Nat \ {0}]

\* The types of what Setup and the registry keep.
SetupTyped ==
    /\ settings = [o \in Objects |-> settings[o]]
    /\ configs \in [Labels -> Apps \cup {None}]
    /\ ordered \in Seq(Labels)
    /\ readyOnce \in [Apps -> {"unasked", "ok", "error"}]
    /\ calls \in Seq(CallSet)
    /\ setup \in SetupSet
    /\ frozen \in BOOLEAN

\* Settings that the environment does not change any more, and that are valid.
Settled(s) == ApplyEnv(s) = s /\ Validate(s) = {}

InHand == setup.pc # "idle" => setup.object \in Objects /\ Settled(settings[setup.object])

InForce == setup.pc \in PastInit => ~frozen /\ global = setup.object

\* The registry knows each app that has a label, in its order.
Listed ==
    /\ \A l \in Labels : configs[l] # None => \E i \in DOMAIN ordered : ordered[i] = l
    /\ \A i \in DOMAIN ordered : configs[ordered[i]] \in Apps

\* The apps of the call that have been registered.
RegisteredSoFar ==
    /\ setup.pc \in {"init", "bootstrap"} => setup.next = 1
    /\ setup.pc = "register" =>
           \A i \in DOMAIN setup.apps : i < setup.next => configs[Label[setup.apps[i]]] = setup.apps[i]
    /\ setup.pc \in {"hooks", "ready"} =>
           \A i \in DOMAIN setup.apps : configs[Label[setup.apps[i]]] = setup.apps[i]

\* The apps that have been asked and were ready.
ReadySoFar ==
    setup.pc = "ready" =>
        /\ stage = "ready"
        /\ \A i \in DOMAIN ordered : i < setup.next => readyOnce[configs[ordered[i]]] = "ok"

FrozenIsSettled == frozen => global \in Objects /\ Settled(settings[global])

SetupInv ==
    /\ SetupTyped
    /\ InHand
    /\ InForce
    /\ Listed
    /\ RegisteredSoFar
    /\ ReadySoFar
    /\ FrozenIsSettled
    /\ SetupHolds
-----------------------------------------------------------------------------
\* ApplyEnv (env.go:9) a second time changes nothing, whatever the environment.
LEMMA EnvIsAppliedOnce ==
    ASSUME NEW s PROVE ApplyEnv(ApplyEnv(s)) = ApplyEnv(s)
<1> DEFINE t == ApplyEnv(s)
<1>1. DOMAIN t = DOMAIN s
  BY DEF ApplyEnv
<1>2. ASSUME NEW f \in DOMAIN s PROVE ApplyEnv(t)[f] = t[f]
  <2>1. t[f] = IF f = "Engine" /\ Overlaid(s, f) = None THEN "" ELSE Overlaid(s, f)
    BY DEF ApplyEnv
  <2>2. ApplyEnv(t)[f] = IF f = "Engine" /\ Overlaid(t, f) = None THEN "" ELSE Overlaid(t, f)
    BY <1>1 DEF ApplyEnv
  <2> HIDE DEF t
  <2>3. CASE f \notin DOMAIN Environ \/ f \in {"Backends"}
    BY <2>1, <2>2, <2>3 DEF Overlaid
  <2>4. CASE f \in DOMAIN Environ /\ f # "Backends" /\ f \in BooleanSettings
    <3>1. Overlaid(s, f) = IF Environ[f] \in DOMAIN Booleans THEN Booleans[Environ[f]] ELSE s[f]
      BY <2>4 DEF Overlaid
    <3>2. Overlaid(t, f) = IF Environ[f] \in DOMAIN Booleans THEN Booleans[Environ[f]] ELSE t[f]
      BY <2>4 DEF Overlaid
    <3> QED BY <2>1, <2>2, <2>4, <3>1, <3>2 DEF BooleanSettings
  <2>5. CASE f \in DOMAIN Environ /\ f # "Backends" /\ f \notin BooleanSettings
    <3>1. Overlaid(s, f) = Environ[f] /\ Overlaid(t, f) = Environ[f]
      BY <2>5 DEF Overlaid
    <3> QED BY <2>1, <2>2, <3>1
  <2> QED BY <2>3, <2>4, <2>5
<1>3. ApplyEnv(t) = [f \in DOMAIN t |-> ApplyEnv(t)[f]]
  BY DEF ApplyEnv
<1>4. t = [f \in DOMAIN s |-> t[f]]
  BY DEF ApplyEnv
<1> HIDE DEF t
<1>5. ApplyEnv(t) = t
  BY <1>1, <1>2, <1>3, <1>4
<1> QED BY <1>5 DEF t

\* A call of Setup that goes on to another stage, or to the next app.
LEMMA CallMoves ==
    ASSUME setup \in SetupSet, NEW p \in Stages, NEW n \in Nat \ {0}
    PROVE  /\ [setup EXCEPT !.pc = p] \in SetupSet
           /\ [setup EXCEPT !.next = n] \in SetupSet
           /\ [setup EXCEPT !.pc = p, !.next = n] \in SetupSet
BY DEF SetupSet

LEMMA InitSettled ==
    StartupInit => SetupInv
<1> SUFFICES ASSUME StartupInit PROVE SetupInv
  OBVIOUS
<1>1. SetupTyped
  <2>1. Idle \in SetupSet
    BY DEF SetupSet, Stages, Idle
  <2>2. calls \in Seq(CallSet)
    BY StartupAssumption DEF StartupInit, CallSet
  <2>3. settings = [o \in Objects |-> settings[o]]
    BY DEF StartupInit
  <2>4. configs \in [Labels -> Apps \cup {None}] /\ readyOnce \in [Apps -> {"unasked", "ok", "error"}]
    BY DEF StartupInit
  <2>5. frozen \in BOOLEAN /\ setup = Idle /\ ordered = <<>>
    BY DEF StartupInit
  <2>6. ordered \in Seq(Labels)
    BY <2>5
  <2> QED BY <2>1, <2>2, <2>3, <2>4, <2>5, <2>6 DEF SetupTyped
<1>2. InHand /\ InForce /\ RegisteredSoFar /\ ReadySoFar
  BY DEF StartupInit, InHand, InForce, RegisteredSoFar, ReadySoFar, Idle, PastInit
<1>3. Listed
  BY DEF StartupInit, Listed
<1>4. FrozenIsSettled /\ SetupHolds
  BY DEF StartupInit, FrozenIsSettled, SetupHolds
<1> QED BY <1>1, <1>2, <1>3, <1>4 DEF SetupInv

\* A call that ends with an error leaves what it has done, and that is all.
LEMMA FailKeeps ==
    ASSUME SetupInv, Fail, UNCHANGED <<confVars, registryVars, calls>> PROVE SetupInv'
<1> USE DEF SetupInv, Fail, confVars, registryVars
<1>1. SetupTyped'
  BY DEF SetupTyped, SetupSet, Stages, Idle
<1>2. InHand' /\ InForce' /\ RegisteredSoFar' /\ ReadySoFar'
  BY DEF InHand, InForce, RegisteredSoFar, ReadySoFar, Idle, PastInit
<1>3. Listed' /\ FrozenIsSettled' /\ SetupHolds'
  BY DEF Listed, FrozenIsSettled, SetupHolds
<1> QED BY <1>1, <1>2, <1>3

LEMMA BeginKeeps ==
    ASSUME SetupInv, BeginSetup PROVE SetupInv'
<1> DEFINE o == Head(calls).object
<1> USE DEF SetupInv
<1>1. calls # <<>> /\ Head(calls) \in CallSet /\ Tail(calls) \in Seq(CallSet)
  BY DEF SetupTyped, BeginSetup
<1>2. o \in Objects /\ Head(calls).apps \in Seq(Apps)
  BY <1>1 DEF CallSet
<1>3. settings' = [settings EXCEPT ![o] = ApplyEnv(settings[o])]
  BY DEF BeginSetup
<1>4. /\ settings' = [x \in Objects |-> settings'[x]]
      /\ settings'[o] = ApplyEnv(settings[o])
      /\ \A x \in Objects : x # o => settings'[x] = settings[x]
  BY <1>2, <1>3 DEF SetupTyped
<1>5. ApplyEnv(settings'[o]) = settings'[o]
  BY <1>4, EnvIsAppliedOnce
<1>6. UNCHANGED <<global, frozen, registryVars, up>> /\ calls' = Tail(calls)
  BY DEF BeginSetup, Fail
<1>7. \/ setup' = Idle
      \/ /\ setup' = [pc |-> "init", object |-> o, apps |-> Head(calls).apps, next |-> 1]
         /\ Validate(settings'[o]) = {}
  BY DEF BeginSetup, Fail
<1> HIDE DEF o
<1>8. SetupTyped'
  <2>1. setup' \in SetupSet
    <3>1. Idle \in SetupSet
      BY DEF SetupSet, Stages, Idle
    <3>2. [pc |-> "init", object |-> o, apps |-> Head(calls).apps, next |-> 1] \in SetupSet
      <4> DEFINE these == Head(calls).apps
      <4>1. these \in Seq(Apps)
        BY <1>2
      <4> HIDE DEF these
      <4>2. [pc |-> "init", object |-> o, apps |-> these, next |-> 1] \in SetupSet
        BY <1>2, <4>1 DEF SetupSet, Stages
      <4> QED BY <4>2 DEF these
    <3> QED BY <1>7, <3>1, <3>2
  <2>2. frozen' \in BOOLEAN /\ calls' \in Seq(CallSet)
    BY <1>1, <1>6 DEF SetupTyped
  <2> QED BY <1>4, <1>6, <2>1, <2>2 DEF SetupTyped, registryVars
<1>9. InHand'
  BY <1>2, <1>5, <1>7 DEF InHand, Settled, Idle
<1>10. InForce' /\ RegisteredSoFar' /\ ReadySoFar'
  BY <1>7 DEF InForce, RegisteredSoFar, ReadySoFar, Idle, PastInit
<1>11. Listed'
  BY <1>6 DEF Listed, registryVars
<1>12. FrozenIsSettled'
  BY <1>2, <1>4, <1>6 DEF FrozenIsSettled, Settled
<1>13. SetupHolds'
  BY <1>6, <1>12 DEF SetupHolds, FrozenIsSettled, Settled, registryVars
<1> QED BY <1>8, <1>9, <1>10, <1>11, <1>12, <1>13

LEMMA InitKeeps ==
    ASSUME SetupInv, InitSettings PROVE SetupInv'
<1>1. CASE frozen
  BY <1>1, FailKeeps DEF InitSettings, confVars
<1>2. CASE ~frozen
  <2> USE DEF SetupInv
  <2>1. /\ global' = setup.object /\ setup' = [setup EXCEPT !.pc = "bootstrap"] /\ setup.pc = "init"
        /\ UNCHANGED <<settings, frozen, registryVars, calls, up>>
    BY <1>2 DEF InitSettings
  <2>2. SetupTyped'
    BY <2>1 DEF SetupTyped, SetupSet, Stages, registryVars
  <2>3. InHand' /\ InForce'
    BY <1>2, <2>1 DEF InHand, InForce, SetupTyped, SetupSet
  <2>4. Listed' /\ RegisteredSoFar' /\ ReadySoFar'
    BY <2>1 DEF Listed, RegisteredSoFar, ReadySoFar, registryVars, SetupTyped, SetupSet
  <2>5. FrozenIsSettled' /\ SetupHolds'
    BY <1>2, <2>1 DEF FrozenIsSettled, SetupHolds
  <2> QED BY <2>2, <2>3, <2>4, <2>5
<1> QED BY <1>1, <1>2

\* Past Init no call has succeeded yet.
LEMMA NotUpYet ==
    ASSUME SetupInv, setup.pc \in PastInit PROVE up = None /\ ~frozen
BY DEF SetupInv, InForce, SetupHolds

LEMMA BootstrapKeeps ==
    ASSUME SetupInv, Bootstrap PROVE SetupInv'
<1> USE DEF SetupInv
<1>1. setup.pc = "bootstrap" /\ setup' = [setup EXCEPT !.pc = "register"]
  BY DEF Bootstrap
<1>2. UNCHANGED <<confVars, configs, ordered, readyOnce, calls, up>>
  BY DEF Bootstrap
<1>3. up = None /\ ~frozen
  BY <1>1, NotUpYet DEF PastInit
<1>4. SetupTyped'
  BY <1>1, <1>2 DEF SetupTyped, SetupSet, Stages, confVars
<1>5. InHand' /\ InForce'
  BY <1>1, <1>2, <1>3 DEF InHand, InForce, PastInit, confVars, SetupTyped, SetupSet
<1>6. RegisteredSoFar'
  BY <1>1, <1>2 DEF RegisteredSoFar, SetupTyped, SetupSet
<1>7. Listed' /\ ReadySoFar' /\ FrozenIsSettled' /\ SetupHolds'
  BY <1>1, <1>2, <1>3 DEF Listed, ReadySoFar, FrozenIsSettled, SetupHolds, confVars, SetupTyped, SetupSet
<1> QED BY <1>4, <1>5, <1>6, <1>7

\* The next app to be registered.
LEMMA NextApp ==
    ASSUME SetupInv, setup.next <= Len(setup.apps)
    PROVE setup.next \in DOMAIN setup.apps /\ setup.apps[setup.next] \in Apps
BY DEF SetupInv, SetupTyped, SetupSet

LEMMA RegisterKeeps ==
    ASSUME SetupInv, RegisterApp PROVE SetupInv'
<1> DEFINE a == setup.apps[setup.next]
<1> USE DEF SetupInv
<1>0. setup.pc = "register" /\ setup.next \in DOMAIN setup.apps /\ a \in Apps /\ Label[a] \in Labels
  BY NextApp DEF RegisterApp, Labels
<1>1. CASE Label[a] = "" \/ configs[Label[a]] # None
  BY <1>1, FailKeeps DEF RegisterApp, registryVars
<1>2. CASE Label[a] # "" /\ configs[Label[a]] = None
  <2>1. /\ configs' = [configs EXCEPT ![Label[a]] = a]
        /\ ordered' = Append(ordered, Label[a])
        /\ setup' = [setup EXCEPT !.next = setup.next + 1]
        /\ UNCHANGED <<confVars, stage, readyOnce, calls, up>>
    BY <1>2 DEF RegisterApp
  <2> HIDE DEF a
  <2>2. up = None /\ ~frozen
    BY <1>0, NotUpYet DEF PastInit
  <2>3. SetupTyped'
    <3>1. setup.next + 1 \in Nat \ {0} /\ setup.pc \in Stages
      BY DEF SetupTyped, SetupSet
    <3>2. setup' \in SetupSet
      BY <2>1, <3>1, CallMoves DEF SetupTyped
    <3>3. configs' \in [Labels -> Apps \cup {None}] /\ ordered' \in Seq(Labels)
      BY <1>0, <2>1 DEF SetupTyped
    <3> QED BY <2>1, <3>2, <3>3 DEF SetupTyped, confVars
  <2>4. setup' \in SetupSet /\ setup'.pc = setup.pc /\ setup'.object = setup.object
        /\ setup'.apps = setup.apps /\ setup'.next = setup.next + 1
    BY <2>1, <2>3 DEF SetupTyped, SetupSet
  <2>5. InHand' /\ InForce'
    BY <1>0, <2>1, <2>2, <2>4 DEF InHand, InForce, PastInit, confVars
  <2>6. /\ configs'[Label[a]] = a
        /\ \A l \in Labels : l # Label[a] => configs'[l] = configs[l]
    BY <1>0, <2>1 DEF SetupTyped
  <2>7. /\ DOMAIN ordered' = 1 .. Len(ordered) + 1
        /\ \A i \in DOMAIN ordered : ordered'[i] = ordered[i] /\ ordered[i] \in Labels
        /\ ordered'[Len(ordered) + 1] = Label[a]
        /\ DOMAIN ordered = 1 .. Len(ordered) /\ Len(ordered) \in Nat
    BY <1>0, <2>1 DEF SetupTyped
  <2>8. Listed'
    <3>1. ASSUME NEW l \in Labels, configs'[l] # None PROVE \E i \in DOMAIN ordered' : ordered'[i] = l
      <4>1. CASE l = Label[a]
        BY <2>7, <4>1
      <4>2. CASE l # Label[a]
        <5>1. PICK i \in DOMAIN ordered : ordered[i] = l
          BY <2>6, <3>1, <4>2 DEF Listed
        <5> QED BY <2>7, <5>1
      <4> QED BY <4>1, <4>2
    <3>2. ASSUME NEW i \in DOMAIN ordered' PROVE configs'[ordered'[i]] \in Apps
      <4>1. CASE i \in DOMAIN ordered
        BY <1>0, <2>6, <2>7, <4>1 DEF Listed
      <4>2. CASE i = Len(ordered) + 1
        BY <1>0, <2>6, <2>7, <4>2
      <4> QED BY <2>7, <4>1, <4>2
    <3> QED BY <3>1, <3>2 DEF Listed
  <2>9. RegisteredSoFar'
    <3>1. ASSUME NEW i \in DOMAIN setup.apps, i < setup.next + 1
          PROVE configs'[Label[setup.apps[i]]] = setup.apps[i]
      <4>1. i \in Nat /\ setup.next \in Nat /\ setup.apps[i] \in Apps /\ Label[setup.apps[i]] \in Labels
        BY DEF SetupTyped, SetupSet, Labels
      <4>2. CASE i = setup.next
        BY <2>6, <4>2 DEF a
      <4>3. CASE i < setup.next
        <5>1. configs[Label[setup.apps[i]]] = setup.apps[i]
          BY <1>0, <4>3 DEF RegisteredSoFar
        <5>2. Label[setup.apps[i]] # Label[a]
          BY <1>2, <4>1, <5>1, StartupAssumption
        <5> QED BY <2>6, <4>1, <5>1, <5>2
      <4> QED BY <3>1, <4>1, <4>2, <4>3
    <3> QED BY <1>0, <2>4, <3>1 DEF RegisteredSoFar
  <2>10. ReadySoFar' /\ FrozenIsSettled' /\ SetupHolds'
    BY <1>0, <2>1, <2>2, <2>4 DEF ReadySoFar, FrozenIsSettled, SetupHolds, confVars
  <2> QED BY <2>3, <2>5, <2>8, <2>9, <2>10
<1> QED BY <1>1, <1>2

LEMMA ModelsKeeps ==
    ASSUME SetupInv, SetModelsRegistered PROVE SetupInv'
<1> USE DEF SetupInv
<1>1. /\ setup.pc = "register" /\ setup.next > Len(setup.apps)
      /\ setup' = [setup EXCEPT !.pc = "hooks"]
      /\ UNCHANGED <<confVars, configs, ordered, readyOnce, calls, up>>
  BY DEF SetModelsRegistered
<1>2. up = None /\ ~frozen
  BY <1>1, NotUpYet DEF PastInit
<1>3. SetupTyped'
  BY <1>1 DEF SetupTyped, SetupSet, Stages, confVars
<1>4. setup'.pc = "hooks" /\ setup'.object = setup.object /\ setup'.apps = setup.apps
  BY <1>1 DEF SetupTyped, SetupSet
<1>5. InHand' /\ InForce'
  BY <1>1, <1>2, <1>4 DEF InHand, InForce, PastInit, confVars
<1>6. \A i \in DOMAIN setup.apps : i < setup.next
  BY <1>1 DEF SetupTyped, SetupSet
<1>7. RegisteredSoFar'
  BY <1>1, <1>4, <1>6 DEF RegisteredSoFar
<1>8. Listed' /\ ReadySoFar' /\ FrozenIsSettled' /\ SetupHolds'
  BY <1>1, <1>2, <1>4 DEF Listed, ReadySoFar, FrozenIsSettled, SetupHolds, confVars
<1> QED BY <1>3, <1>5, <1>7, <1>8

LEMMA HooksKeeps ==
    ASSUME SetupInv, RunReadyHooks PROVE SetupInv'
<1> USE DEF SetupInv
<1>1. /\ setup.pc = "hooks"
      /\ stage' = "ready"
      /\ setup' = [setup EXCEPT !.pc = "ready", !.next = 1]
      /\ UNCHANGED <<confVars, configs, ordered, readyOnce, calls, up>>
  BY DEF RunReadyHooks
<1>2. up = None /\ ~frozen
  BY <1>1, NotUpYet DEF PastInit
<1>3. SetupTyped'
  <2>1. setup' \in SetupSet
    <3>1. "ready" \in Stages /\ 1 \in Nat \ {0} /\ setup \in SetupSet
      BY DEF SetupTyped, Stages
    <3>2. [setup EXCEPT !.pc = "ready", !.next = 1] \in SetupSet
      BY <3>1, CallMoves
    <3> QED BY <1>1, <3>2
  <2> QED BY <1>1, <2>1 DEF SetupTyped, confVars
<1>4. setup'.pc = "ready" /\ setup'.object = setup.object /\ setup'.apps = setup.apps /\ setup'.next = 1
  BY <1>1 DEF SetupTyped, SetupSet
<1>5. InHand' /\ InForce'
  BY <1>1, <1>2, <1>4 DEF InHand, InForce, PastInit, confVars
<1>6. ReadySoFar'
  BY <1>1, <1>4 DEF ReadySoFar, SetupTyped
<1>7. Listed' /\ RegisteredSoFar' /\ FrozenIsSettled' /\ SetupHolds'
  BY <1>1, <1>2, <1>4 DEF Listed, RegisteredSoFar, FrozenIsSettled, SetupHolds, confVars
<1> QED BY <1>3, <1>5, <1>6, <1>7

\* An app that was asked stays what it was, and in the last stage every answer is ok.
LEMMA AskedOnce ==
    ASSUME SetupInv, NEW a \in Apps, readyOnce' = [readyOnce EXCEPT ![a] = ReadyAnswer(a)]
    PROVE  /\ readyOnce' \in [Apps -> {"unasked", "ok", "error"}]
           /\ \A b \in Apps : readyOnce[b] = "ok" => readyOnce'[b] = "ok"
           /\ readyOnce'[a] = ReadyAnswer(a)
           /\ ReadyAnswer(a) \in {"ok", "error"}
BY DEF SetupInv, SetupTyped, ReadyAnswer

LEMMA AskKeeps ==
    ASSUME SetupInv, NEW a \in Apps, AskReady(a) PROVE SetupInv'
<1> USE DEF SetupInv
<1>1. /\ readyOnce' = [readyOnce EXCEPT ![a] = ReadyAnswer(a)]
      /\ UNCHANGED <<confVars, configs, ordered, stage, setup, calls, up>>
  BY DEF AskReady
<1>2. /\ readyOnce' \in [Apps -> {"unasked", "ok", "error"}]
      /\ \A b \in Apps : readyOnce[b] = "ok" => readyOnce'[b] = "ok"
  BY <1>1, AskedOnce
<1>3. SetupTyped' /\ InHand' /\ InForce' /\ Listed' /\ RegisteredSoFar' /\ FrozenIsSettled'
  BY <1>1, <1>2 DEF SetupTyped, InHand, InForce, Listed, RegisteredSoFar, FrozenIsSettled, confVars
<1>4. ReadySoFar'
  BY <1>1, <1>2 DEF ReadySoFar, Listed
<1>5. SetupHolds'
  <2>1. ASSUME NEW l \in Labels, configs[l] # None PROVE configs[l] \in Apps
    BY <2>1 DEF SetupTyped
  <2> QED BY <1>1, <1>2, <2>1 DEF SetupHolds, confVars
<1> QED BY <1>3, <1>4, <1>5

LEMMA ReadyKeeps ==
    ASSUME SetupInv, RunReady PROVE SetupInv'
<1> DEFINE a == configs[ordered[setup.next]]
<1> USE DEF SetupInv
<1>1. /\ setup.pc = "ready" /\ setup.next <= Len(ordered)
      /\ readyOnce' = [readyOnce EXCEPT ![a] = ReadyAnswer(a)]
      /\ UNCHANGED <<confVars, configs, ordered, stage, calls>>
  BY DEF RunReady
<1>2. setup.next \in DOMAIN ordered /\ a \in Apps
  BY <1>1 DEF SetupTyped, SetupSet, Listed
<1> HIDE DEF a
<1>3. /\ readyOnce' \in [Apps -> {"unasked", "ok", "error"}]
      /\ \A b \in Apps : readyOnce[b] = "ok" => readyOnce'[b] = "ok"
      /\ readyOnce'[a] = ReadyAnswer(a)
      /\ ReadyAnswer(a) \in {"ok", "error"}
  BY <1>1, <1>2, AskedOnce
<1>4. up = None /\ ~frozen
  BY <1>1, NotUpYet DEF PastInit
<1>5. up' = up
  BY DEF RunReady, Fail
<1>6. SetupTyped' /\ InHand' /\ InForce' /\ RegisteredSoFar'
  <2>1. \/ setup' = Idle
        \/ setup' = [setup EXCEPT !.next = setup.next + 1]
    BY DEF RunReady, Fail
  <2>2. CASE setup' = Idle
    BY <1>1, <1>3, <2>2 DEF SetupTyped, SetupSet, Stages, InHand, InForce, PastInit, RegisteredSoFar, Idle, confVars
  <2>3. CASE setup' = [setup EXCEPT !.next = setup.next + 1]
    <3>1. setup.next + 1 \in Nat \ {0} /\ setup.pc \in Stages
      BY DEF SetupTyped, SetupSet
    <3>2. setup' \in SetupSet
      BY <2>3, <3>1, CallMoves DEF SetupTyped
    <3>3. setup'.pc = setup.pc /\ setup'.object = setup.object /\ setup'.apps = setup.apps
      BY <2>3 DEF SetupTyped, SetupSet
    <3>4. SetupTyped'
      BY <1>1, <1>3, <3>2 DEF SetupTyped, confVars
    <3> QED BY <1>1, <1>4, <3>3, <3>4 DEF InHand, InForce, PastInit, RegisteredSoFar, confVars
  <2> QED BY <2>1, <2>2, <2>3
<1>7. ReadySoFar'
  <2>1. CASE ReadyAnswer(a) = "error"
    BY <2>1 DEF RunReady, Fail, ReadySoFar, Idle, a
  <2>2. CASE ReadyAnswer(a) = "ok"
    <3>1. setup'.next = setup.next + 1 /\ setup'.pc = "ready"
      BY <1>1, <2>2 DEF RunReady, SetupTyped, SetupSet, a
    <3>2. ASSUME NEW i \in DOMAIN ordered, i < setup.next + 1 PROVE readyOnce'[configs[ordered[i]]] = "ok"
      <4>1. CASE i = setup.next
        BY <1>3, <2>2, <4>1 DEF a
      <4>2. CASE i < setup.next
        BY <1>1, <1>3, <4>2 DEF ReadySoFar, Listed
      <4> QED BY <3>2, <4>1, <4>2 DEF SetupTyped, SetupSet
    <3> QED BY <1>1, <3>1, <3>2 DEF ReadySoFar
  <2> QED BY <1>3, <2>1, <2>2
<1>8. Listed' /\ FrozenIsSettled' /\ SetupHolds'
  BY <1>1, <1>4, <1>5 DEF Listed, FrozenIsSettled, SetupHolds, confVars
<1> QED BY <1>6, <1>7, <1>8

LEMMA FreezeKeeps ==
    ASSUME SetupInv, Freeze PROVE SetupInv'
<1> USE DEF SetupInv
<1>1. /\ setup.pc = "ready" /\ setup.next > Len(ordered)
      /\ frozen' = TRUE /\ setup' = Idle
      /\ up'.object = setup.object /\ up'.apps = setup.apps
      /\ UNCHANGED <<settings, global, registryVars, calls>>
  BY DEF Freeze
<1>2. global = setup.object /\ setup.object \in Objects /\ Settled(settings[global])
  BY <1>1 DEF InForce, InHand, PastInit
<1>3. SetupTyped' /\ InHand' /\ InForce' /\ RegisteredSoFar' /\ ReadySoFar'
  BY <1>1 DEF SetupTyped, SetupSet, Stages, InHand, InForce, PastInit, RegisteredSoFar, ReadySoFar, Idle, registryVars
<1>4. Listed' /\ FrozenIsSettled'
  BY <1>1, <1>2 DEF Listed, FrozenIsSettled, registryVars
<1>5. \A l \in Labels : configs[l] # None => readyOnce[configs[l]] = "ok"
  <2>1. \A i \in DOMAIN ordered : i < setup.next
    BY <1>1 DEF SetupTyped, SetupSet
  <2> QED BY <1>1, <2>1 DEF ReadySoFar, Listed
<1>6. SetupHolds'
  BY <1>1, <1>2, <1>5 DEF SetupHolds, RegisteredSoFar, ReadySoFar, Settled, registryVars
<1> QED BY <1>3, <1>4, <1>6

LEMMA StutterKeeps ==
    ASSUME SetupInv, UNCHANGED startupVars PROVE SetupInv'
BY DEF SetupInv, startupVars, SetupTyped, InHand, InForce, Listed, RegisteredSoFar, ReadySoFar,
       FrozenIsSettled, SetupHolds

LEMMA SetupKeeps ==
    ASSUME SetupInv, [StartupNext]_startupVars PROVE SetupInv'
<1>1. CASE StartupNext
  BY <1>1, BeginKeeps, InitKeeps, BootstrapKeeps, RegisterKeeps, ModelsKeeps, HooksKeeps, ReadyKeeps,
     FreezeKeeps, AskKeeps DEF StartupNext
<1>2. CASE UNCHANGED startupVars
  BY <1>2, StutterKeeps
<1> QED BY <1>1, <1>2

\* However often Setup is called, before and after the call that succeeds, with
\* whatever settings and apps: SetupHolds (setup.go:17-58).
THEOREM SetupHoldsAlways == StartupSpec => []SetupHolds
<1>1. SetupInv => SetupHolds
  BY DEF SetupInv
<1> QED BY <1>1, InitSettled, SetupKeeps, PTL DEF StartupSpec

\* Once the settings are frozen, their content stays as it is, although a later call
\* of Setup still lays the environment over the settings it is given, before it
\* panics (setup.go:18, store.go:14).
FrozenStays == frozen => frozen' /\ global' = global /\ settings'[global] = settings[global]

LEMMA StepLeavesFrozen ==
    ASSUME SetupInv, [StartupNext]_startupVars PROVE FrozenStays
<1> SUFFICES ASSUME frozen PROVE frozen' /\ global' = global /\ settings'[global] = settings[global]
  BY DEF FrozenStays
<1>1. setup.pc \notin PastInit
  BY DEF SetupInv, InForce
<1>2. CASE BeginSetup
  <2> DEFINE o == Head(calls).object
  <2>1. settings' = [settings EXCEPT ![o] = ApplyEnv(settings[o])] /\ UNCHANGED <<global, frozen>>
    BY <1>2 DEF BeginSetup
  <2>2. ApplyEnv(settings[global]) = settings[global] /\ global \in Objects
    BY DEF SetupInv, FrozenIsSettled, Settled
  <2> QED BY <2>1, <2>2 DEF SetupInv, SetupTyped
<1>3. CASE InitSettings
  BY <1>3 DEF InitSettings
<1>4. CASE \E a \in Apps : AskReady(a)
  BY <1>4 DEF AskReady, confVars
<1>5. CASE UNCHANGED startupVars
  BY <1>5 DEF startupVars
<1>6. ~(Bootstrap \/ RegisterApp \/ SetModelsRegistered \/ RunReadyHooks \/ RunReady \/ Freeze)
  BY <1>1 DEF Bootstrap, RegisterApp, SetModelsRegistered, RunReadyHooks, RunReady, Freeze, PastInit
<1> QED BY <1>2, <1>3, <1>4, <1>5, <1>6 DEF StartupNext

\* What Setup froze is what every later request is served with.
THEOREM FrozenStaysAlways == StartupSpec => [][FrozenStays]_startupVars
<1>1. SetupInv /\ [StartupNext]_startupVars => [FrozenStays]_startupVars
  BY StepLeavesFrozen
<1> QED BY <1>1, InitSettled, SetupKeeps, PTL DEF StartupSpec
=============================================================================
