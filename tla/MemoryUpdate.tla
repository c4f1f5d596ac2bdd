----------------------------- MODULE MemoryUpdate -----------------------------
(***************************************************************************)
(* `kagura-memory update-memory --details-patch | --merge-details`         *)
(* (cli/commands/memory.ts): one edit of a memory, over servers that know  *)
(* the patch, refuse it, or ignore it without a word, while others edit    *)
(* the same memory and the server may be upgraded between two calls.       *)
(***************************************************************************)
EXTENDS Naturals, FiniteSets

CONSTANTS MaxEdits, MaxUpdateFaults   \* bounds: edits by others, failed or odd answers

ASSUME UpdateAssumption == MaxEdits \in Nat /\ MaxUpdateFaults \in Nat

VARIABLES
  memory,     \* its version, the edits its details carry, and our fields it took
  era,        \* the server's version, which only grows: see Declares
  command,    \* the invocation
  wrote,      \* what its calls wrote
  lost,       \* the edits of others that were overwritten
  edits, updateFaults    \* counters of the bounds

updateVars == <<memory, era, command, wrote, lost, edits, updateFaults>>

Ours == 0
Asked == SUBSET {"tags", "expected", "summary"}
CommandPhases == {"patch", "probe", "read", "write", "end"}
Exits == {"none", "ok", "error", "unconfirmed", "named"}

MemoryTypeOK ==
  /\ memory \in [version: Nat, details: SUBSET (0..MaxEdits),
                 fields: SUBSET {"tags", "summary"}]
  /\ era \in 1..4
  /\ command \in [phase: CommandPhases, asked: Asked, expects: Nat, first: 0..4,
                  details: SUBSET (0..MaxEdits), resend: Asked, exit: Exits]
  /\ wrote \subseteq {"patch", "edit", "details"}
  /\ lost \subseteq 1..MaxEdits
  /\ edits \in 0..MaxEdits /\ updateFaults \in 0..MaxUpdateFaults

UpdateFault == updateFaults < MaxUpdateFaults /\ updateFaults' = updateFaults + 1

Exit(exit) == command' = [command EXCEPT !.phase = "end", !.exit = exit]
Step(phase) == command' = [command EXCEPT !.phase = phase]

-----------------------------------------------------------------------------
(* The server's update_memory.                                             *)

\* memory-cloud before 0.82.0 (era 1) ignores an argument it does not declare, a
\* later one refuses the call; expected_version is declared since 0.113.0 (era 3),
\* details_patch and add_tags since 0.140.0 (era 4).
Declares(e) ==
  CASE e \in {1, 2} -> {}
    [] e = 3 -> {"expected"}
    [] e = 4 -> {"expected", "tags", "patch"}

\* What a call that sends `sent` is refused for.
Unknown(sent) == IF era = 1 THEN {} ELSE (sent \cap {"expected", "tags", "patch"}) \ Declares(era)

\* Another edit landed since the version the caller expects.
Conflict(sent) == "expected" \in sent \cap Declares(era) /\ memory.version # command.expects

\* The memory after the call, with these details.
Written(sent, details) ==
  [version |-> memory.version + 1,
   details |-> details,
   fields |-> memory.fields \cup (sent \cap ({"summary"} \cup (Declares(era) \cap {"tags"})))]

\* A reply carries the memory's new version since 0.113.0.
HasVersion == era >= 3

-----------------------------------------------------------------------------
(* updateWithPatch.                                                        *)

\* A refusal that lists the patch and nothing else: any other stands, since the
\* fallback would send what it lists again.
DetailsPatchRefused(sent) == Unknown(sent) = {"patch"}

\* One call with the edit and the patch.
SendPatch ==
  LET sent == command.asked \cup {"patch"}
      patched == IF "patch" \in Declares(era) THEN memory.details \cup {Ours} ELSE memory.details
  IN /\ command.phase = "patch"
     /\ \/ /\ Unknown(sent) # {}
           /\ command' = [command EXCEPT !.first = era, !.resend = command.asked,
                            !.phase = IF DetailsPatchRefused(sent) THEN "read" ELSE "end",
                            !.exit = IF DetailsPatchRefused(sent) THEN "none" ELSE "error"]
           /\ UNCHANGED <<memory, wrote, updateFaults>>
        \/ /\ Unknown(sent) = {} /\ Conflict(sent)
           /\ Exit("error") /\ UNCHANGED <<memory, wrote, updateFaults>>
        \/ /\ Unknown(sent) = {} /\ ~Conflict(sent)
           /\ memory' = Written(sent, patched)
           /\ wrote' = {"edit"} \cup (IF "patch" \in Declares(era) THEN {"patch"} ELSE {})
           /\ \/ /\ HasVersion
                 /\ command' = [command EXCEPT !.first = era, !.phase = "end", !.exit = "ok"]
                 /\ UNCHANGED updateFaults
              \* a reply that lost its version on the way
              \/ /\ HasVersion => UpdateFault
                 /\ ~HasVersion => UNCHANGED updateFaults
                 /\ command' = [command EXCEPT !.first = era, !.phase = "probe", !.resend = {}]
  /\ UNCHANGED <<era, lost, edits>>

\* getServerInfo: only a server before 0.82.0 ignores the patch.
ConfirmOlder ==
  /\ command.phase = "probe"
  /\ \/ era = 1 /\ Step("read") /\ UNCHANGED updateFaults
     \/ era # 1 /\ Exit("unconfirmed") /\ UNCHANGED updateFaults
     \/ UpdateFault /\ Exit("unconfirmed")
  /\ UNCHANGED <<memory, era, wrote, lost, edits>>

\* currentDetailsForMerge: the whole details, or no merge at all.
ReadDetails ==
  /\ command.phase = "read"
  /\ \/ /\ command' = [command EXCEPT !.phase = "write", !.details = memory.details]
        /\ UNCHANGED updateFaults
     \/ UpdateFault /\ Exit("error")
  /\ UNCHANGED <<memory, era, wrote, lost, edits>>

NoneDropped == {}

\* The flags a server that ignored the patch ignored too.
Dropped == IF "edit" \in wrote THEN command.asked \cap {"tags", "expected"} ELSE {}

\* The merged details in a call of their own, with the edit where the first call
\* was refused; the dropped flags are named and the exit is 1.
WriteMerged ==
  /\ command.phase = "write"
  /\ \/ /\ Unknown(command.resend) = {} /\ ~Conflict(command.resend)
        /\ memory' = Written(command.resend, command.details \cup {Ours})
        /\ lost' = lost \cup (memory.details \ (command.details \cup {Ours}))
        /\ wrote' = wrote \cup {"details"} \cup (IF command.first = 1 THEN {} ELSE {"edit"})
        /\ Exit(IF Dropped = {} THEN "ok" ELSE "named")
        /\ UNCHANGED updateFaults
     \/ /\ Unknown(command.resend) # {} \/ Conflict(command.resend)
        /\ Exit("error") /\ UNCHANGED <<memory, lost, wrote, updateFaults>>
     \/ UpdateFault /\ Exit("error") /\ UNCHANGED <<memory, lost, wrote>>
  /\ UNCHANGED <<era, edits>>

-----------------------------------------------------------------------------
\* Somebody else patches or rewrites the details, reading and writing at once.
OtherEdit ==
  /\ edits < MaxEdits /\ edits' = edits + 1
  /\ memory' = [memory EXCEPT !.version = @ + 1, !.details = @ \cup {edits + 1}]
  /\ UNCHANGED <<era, command, wrote, lost, updateFaults>>

Upgrade ==
  /\ era < 4 /\ era' \in (era + 1)..4
  /\ UNCHANGED <<memory, command, wrote, lost, edits, updateFaults>>

UpdateInit ==
  /\ memory = [version |-> 1, details |-> {}, fields |-> {}]
  /\ era \in 1..4
  /\ \E asked \in Asked :
       command = [phase |-> "patch", asked |-> asked, expects |-> 1, first |-> 0,
                  details |-> {}, resend |-> {}, exit |-> "none"]
  /\ wrote = {} /\ lost = {} /\ edits = 0 /\ updateFaults = 0

UpdateNext ==
  \/ SendPatch \/ ConfirmOlder \/ ReadDetails \/ WriteMerged
  \/ OtherEdit \/ Upgrade

UpdateSpec == UpdateInit /\ [][UpdateNext]_updateVars

-----------------------------------------------------------------------------
\* An exit 0 means that everything asked was done, by one call or two, over a
\* server that ignores what it does not know, refuses it or was upgraded in
\* between: the patch and every other edit are stored, and with
\* --expected-version nobody's edit went missing (updateWithPatch).
AppliedAsAsked ==
  command.exit = "ok" =>
    /\ wrote \cap {"patch", "details"} # {}
    /\ command.asked \cap {"summary", "tags"} \subseteq memory.fields
    /\ "expected" \in command.asked => lost = {}

\* An edit of somebody else is overwritten only over a server that could not
\* take the patch: one that applied it is never written again, whatever its
\* reply lacked (updateWithPatch: "merging onto it could undo what it did").
NeverUndoes ==
  /\ lost # {} => command.first < 4
  /\ "patch" \in wrote => "details" \notin wrote

\* An update tells what became of it, over any server (updateWithPatch).
UpdateTruthful == AppliedAsAsked /\ NeverUndoes
=============================================================================
