--------------------------- MODULE MCFileCommands ---------------------------
(***************************************************************************)
(* The instance of FileCommands.cfg.  The environments and the             *)
(* .kagura.json files are those in which one source could be taken for     *)
(* another; c1 meets each of them alone, and a second upload, c2, with     *)
(* nothing but credentials.json.                                           *)
(***************************************************************************)
EXTENDS FileCommands, TLC

CONSTANTS c1, c2

Bare == [key |-> FALSE, url |-> FALSE, context |-> FALSE, profile |-> "none", strict |-> FALSE]
MCEnvironments ==
    {Bare, [Bare EXCEPT !.profile = "work"], [Bare EXCEPT !.strict = TRUE],
     [Bare EXCEPT !.key = TRUE, !.context = TRUE]}
MCConfigFiles ==
    {[readable |-> TRUE, key |-> TRUE, url |-> TRUE, context |-> "file"],
     [readable |-> TRUE, key |-> TRUE, url |-> FALSE, context |-> "auto"],
     [readable |-> TRUE, key |-> FALSE, url |-> TRUE, context |-> "file"]}
MCCommands == {c1, c2}
MCKinds == (c1 :> {"upload", "remember", "import", "workspace", "data"}) @@ (c2 :> {"upload"})

AloneInit ==    \* c2 was refused before it began
    /\ SourcesInit /\ ServiceInit
    /\ cmd = (c1 :> Idle(c1)) @@ (c2 :> Failed([Idle(c2) EXCEPT !.kind = "upload"]))

MCInit ==
    \/ AloneInit
    \/ Init /\ env = Bare /\ config = {} /\ creds.stored = Profiles
MCSpec == MCInit /\ [][Next]_vars /\ \A c \in Commands : WF_vars(Step(c))
=============================================================================
