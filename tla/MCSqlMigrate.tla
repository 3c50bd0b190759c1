---------------------------- MODULE MCSqlMigrate ----------------------------
(* Instances of SqlMigrate for TLC. *)
EXTENDS SqlMigrate

MCSnakeCase == [n \in {"id"} |-> n]
MCWithId == [n \in {"id"} |-> n]

Create ==
    [kind |-> "CreateModel", id |-> 1, model |-> "Post", table |-> "blog_post", options |-> "none",
     fields |-> <<[name |-> "id", db |-> "", type |-> "serial", pk |-> TRUE, null |-> FALSE, uniq |-> FALSE, dflt |-> ""]>>,
     indexes |-> <<>>, constraints |-> <<>>]

MCInitial == << <<Create>> >>
=============================================================================
