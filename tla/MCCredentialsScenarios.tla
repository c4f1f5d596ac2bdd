------------------------ MODULE MCCredentialsScenarios ------------------------
(***************************************************************************)
(* Credentials under one of three workloads, each within bounds of its own:*)
(* the calls of long-lived clients without faults, the same calls with     *)
(* them, and the commands of the CLI on two profiles.                      *)
(***************************************************************************)
EXTENDS MCCredentials

Clients == {"auth", "force", "delete"}
Commands == {"refresh", "login", "use", "delete", "deleteAll"}

WorkOf(tasks, ops) ==
    [t \in Tasks |-> IF t \in tasks THEN [calls |-> 2, ops |-> ops]
                     ELSE [calls |-> 0, ops |-> {}]]

(* The two tasks of p1 are alike: the workloads name either. *)
MCWorkloads ==
    {WorkOf(Tasks, Clients)}
    \cup {WorkOf({t, t3}, ops) : t \in {t1, t2}, ops \in {Clients, Commands}}

Alike == Permutations({t1, t2})

(* Which workload this behaviour is of, and the bounds that go with it. *)
Scenario ==
    IF opsLeft[t3].ops = Commands
    THEN [profiles |-> {work, home}, grants |-> 3, ageings |-> 0, faults |-> 1,
          kinds |-> {"damage", "save"}, keeps |-> FALSE]
    ELSE IF \E t \in Tasks : opsLeft[t].ops = {}
    THEN [profiles |-> {work}, grants |-> 3, ageings |-> 1, faults |-> 2,
          kinds |-> Faults, keeps |-> TRUE]
    ELSE [profiles |-> {work}, grants |-> 4, ageings |-> 2, faults |-> 0,
          kinds |-> {}, keeps |-> FALSE]

(* The kind of a step that is a fault. *)
Kind == IF \E p \in Processes : Crash(p) THEN "crash"
        ELSE IF MoveAside THEN "aside"
        ELSE IF \E t \in Tasks : pc[t] = "sending" /\ pc'[t] = "idle" THEN "lost"
        ELSE IF damaged' # damaged THEN "damage" ELSE "save"

InScenario ==
    LET s == Scenario
    IN  /\ granted' <= s.grants /\ ageings' <= s.ageings /\ faults' <= s.faults
        /\ \A t \in Tasks : job'[t].prof \in s.profiles \/ job'[t].op \in {"none", "deleteAll"}
        /\ faults' # faults => Kind \in s.kinds
        /\ s.keeps \/ Cardinality(live' \ live) = granted' - granted
=============================================================================
