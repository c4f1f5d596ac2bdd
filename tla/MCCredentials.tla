--------------------------- MODULE MCCredentials ---------------------------
(***************************************************************************)
(* Credentials for model checking: p1 runs two tasks and p2 one; the       *)
(* first profile is stored from the start, a second one is not.            *)
(***************************************************************************)
EXTENDS Credentials, TLC, FiniteSets

CONSTANTS p1, p2, t1, t2, t3, work, home

MCProcessOf == [t \in Tasks |-> IF t = t3 THEN p2 ELSE p1]

Every(ops) == [t \in Tasks |-> [calls |-> 1, ops |-> ops]]

ConsentWork == {Every({"token", "widen", "logout"})}

(* Only the two tasks of p1, twice each. *)
ReplayWork == {[t \in Tasks |-> IF t = t3 THEN [calls |-> 0, ops |-> {}]
                                ELSE [calls |-> 2, ops |-> {"force", "widen"}]]}

MCSeed == [n \in Profiles |-> IF n = work THEN 1 ELSE 0]
=============================================================================
