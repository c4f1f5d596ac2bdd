------------------------------ MODULE CommandProofs ------------------------------
(***************************************************************************)
(* What the commands of the CLI promise, for any bounds: the run of a      *)
(* child, a list over pages, update-memory, setup of a harness and of      *)
(* Claude Code, and how mcp cuts the streams it reads into messages.       *)
(*                                                                         *)
(* That last part follows the reader along one stream s, whole before it   *)
(* starts.  What it has emitted is what the first n bytes say, and what it *)
(* keeps is how the line and the event go on that these have begun         *)
(* (StdioInv, SseInv, JsonInv).  A text is compared with the set of        *)
(* positions of s that it comes from: it Spells them.                      *)
(***************************************************************************)
EXTENDS ClaudeSetup, HarnessSetup, MemoryUpdate, ChildProcess, Paging, MessageFraming,
        FiniteSetTheorems, SequenceTheorems, WellFoundedInduction, TLAPS

-----------------------------------------------------------------------------
(* execFile (cli/exec.ts).                                                 *)

\* Nobody of the child's group is left.
GroupGone == program # "running" /\ helper # "inGroup"

ExecInv ==
  /\ spawned \in {"no", "group", "single"}
  /\ spawned = "no" => program = "none" /\ helper = "none" /\ settled = "no" /\ listening = FALSE
  /\ spawned = "group" /\ settled = "no" => listening = TRUE \/ GroupGone
  /\ settled = "timedOut" /\ spawned = "group" => GroupGone
  /\ settled = "ok" => program = "ok" /\ helper \in {"none", "gone"}
  /\ settled # "no" \/ self = "ended" => listening = FALSE

LEMMA ExecInitially == ExecInit => ExecInv
  BY DEF ExecInit, ExecInv, GroupGone

LEMMA ExecStep == ExecInv /\ [ExecNext]_execVars => ExecInv'
  <1> SUFFICES ASSUME ExecInv, [ExecNext]_execVars PROVE ExecInv'
    OBVIOUS
  <1> USE DEF ExecInv, GroupGone
  <1>1. CASE Spawn
    <2>1. spawned' \in {"group", "single"} /\ helper = "none" /\ helper' = "none"
      BY <1>1 DEF Spawn
    <2>2. CASE program' = "running" /\ listening' = (spawned' = "group") /\ UNCHANGED settled
      <3>1. CASE spawned' = "group"
        <4>1. listening' = TRUE
          BY <2>2, <3>1, Zenon
        <4> QED BY <1>1, <2>2, <3>1, <4>1 DEF Spawn, Alive
      <3>2. CASE spawned' = "single"
        <4>1. (spawned' = "group") = FALSE
          BY <3>2
        <4>2. listening' = FALSE
          BY <2>2, <4>1, Zenon
        <4> QED BY <1>1, <2>2, <3>2, <4>2 DEF Spawn, Alive
      <3> QED BY <2>1, <3>1, <3>2
    <2>3. CASE program' = "error" /\ settled' = "127" /\ UNCHANGED listening
      BY <1>1, <2>1, <2>3 DEF Spawn, Alive
    <2> QED BY <1>1, <2>2, <2>3 DEF Spawn
  <1>2. CASE StartHelper
    BY <1>2 DEF StartHelper
  <1>3. CASE ProgramEnds
    BY <1>3 DEF ProgramEnds
  <1>4. CASE HelperEnds
    BY <1>4 DEF HelperEnds
  <1>5. CASE Closed
    BY <1>5 DEF Closed, SettleAs, Alive
  <1>6. CASE TimesOut
    BY <1>6 DEF TimesOut, KillAll, SettleAs, Alive
  <1>7. CASE Signal
    <2>1. CASE listening = TRUE
      BY <1>7, <2>1 DEF Signal, KillAll, Alive
    <2>2. CASE listening # TRUE
      BY <1>7, <2>2 DEF Signal, KillAll, Alive
    <2> QED BY <2>1, <2>2
  <1>8. CASE UNCHANGED execVars
    BY <1>8 DEF execVars
  <1> QED BY <1>1, <1>2, <1>3, <1>4, <1>5, <1>6, <1>7, <1>8 DEF ExecNext

\* A run that timed out, or that this process did not outlive, leaves nothing of
\* the child's process group, in any order of events (execFile, exec.ts:180-206).
THEOREM ChildrenDie == ExecSpec => []NothingLeftRunning
  <1>1. ExecInv => NothingLeftRunning
    BY DEF ExecInv, GroupGone, NothingLeftRunning
  <1> QED BY <1>1, ExecInitially, ExecStep, PTL DEF ExecSpec

-----------------------------------------------------------------------------
(* listAgents (iterPages and collectPages, client.ts).                     *)

\* An agent that stayed and is not among the rows yet is beyond the cursor.
Ahead ==
  \A a \in stayed : listing.rows[a] = 0 => listing.cursor < Place(a)

PagingInv ==
  /\ ListingTypeOK
  /\ \A a \in Agents : listing.rows[a] <= 1
  /\ ~Started => listing.cursor = 0 /\ deleted = FALSE
  /\ listing.phase = "paging" /\ Started => stayed \subseteq agents
  /\ listing.phase = "paging" /\ Started /\ deleted = FALSE => Ahead
  /\ ListedOnce

\* The agents are finitely many, and so is every part of them.
LEMMA AgentsFinite ==
  ASSUME ListingTypeOK, NEW S \in SUBSET agents
  PROVE  IsFiniteSet(S) /\ Cardinality(S) \in Nat /\ Cardinality(S) <= Cardinality(agents)
         /\ IsFiniteSet(agents) /\ Cardinality(agents) \in Nat
  <1>1. IsFiniteSet(1..registered)
    BY FS_Interval, PagingAssumption DEF ListingTypeOK
  <1>2. IsFiniteSet(agents)
    BY <1>1, FS_Subset DEF ListingTypeOK
  <1> QED BY <1>2, FS_Subset, FS_CardinalityType

\* The place of an agent is one of 1, 2, ... up to the number of agents.
LEMMA PlaceInList ==
  ASSUME ListingTypeOK, NEW a \in agents
  PROVE  Place(a) \in 1..Cardinality(agents)
  <1> DEFINE S == {b \in agents : b >= a}
  <1>1. S \in SUBSET agents /\ a \in S
    BY DEF ListingTypeOK
  <1>2. IsFiniteSet(S) /\ Cardinality(S) \in Nat /\ Cardinality(S) <= Cardinality(agents)
        /\ Cardinality(agents) \in Nat
    BY <1>1, AgentsFinite
  <1>3. Cardinality(S) # 0
    BY <1>1, <1>2, FS_EmptySet
  <1> QED BY <1>2, <1>3 DEF Place

\* A new agent moves each of the others one place back.
LEMMA RegisterMoves ==
  ASSUME ListingTypeOK, Register, NEW a \in agents
  PROVE  Place(a)' = Place(a) + 1
  <1> DEFINE S == {b \in agents : b >= a}
             n == registered + 1
  <1>1. S \in SUBSET agents /\ n \notin S /\ n \in Nat /\ a \in Nat /\ n >= a
    BY PagingAssumption DEF ListingTypeOK
  <1>2. {b \in agents \cup {n} : b >= a} = S \cup {n}
    BY <1>1
  <1>3. IsFiniteSet(S)
    BY <1>1, AgentsFinite
  <1>4. Cardinality(S \cup {n}) = Cardinality(S) + 1
    BY <1>1, <1>3, FS_AddElement
  <1>5. Place(a)' = Cardinality({b \in agents \cup {n} : b >= a})
    BY DEF Place, Register
  <1> QED BY <1>2, <1>4, <1>5 DEF Place

\* No row, and the cursor at the start.
LEMMA PagingInitially == PagingInit => PagingInv
  <1> SUFFICES ASSUME PagingInit PROVE PagingInv
    OBVIOUS
  <1>1. ListingTypeOK
    BY PagingAssumption DEF PagingInit, ListingTypeOK, Agents
  <1>2. \A a \in Agents : listing.rows[a] = 0
    BY DEF PagingInit
  <1> QED BY <1>1, <1>2 DEF PagingInit, PagingInv, Started, ListedOnce

\* A page lists who is on it, and its cursor is past them.
LEMMA FetchKeeps == ASSUME PagingInv, FetchPage PROVE PagingInv'
  <1> DEFINE page == PageOf(listing.cursor)
             rows == WithNew(listing.rows, page)
             next == listing.cursor + PageSize
             more == next < Cardinality(agents)
             wasThere == IF listing.seen = {} THEN agents ELSE stayed
  <1>1. ListingTypeOK /\ listing.phase = "paging" /\ PageSize \in Nat \ {0}
    BY PagingAssumption DEF PagingInv, FetchPage
  <1>2. agents \subseteq Agents /\ wasThere \subseteq agents /\ agents' = agents /\ stayed' = wasThere
        /\ deleted' = deleted /\ registered' = registered
    BY <1>1, PagingAssumption DEF PagingInv, FetchPage, ListingTypeOK, Agents, Started
  <1>3. /\ rows \in [Agents -> Nat] /\ \A a \in Agents : rows[a] <= 1
        /\ \A a \in Agents : rows[a] = 0 <=> (a \notin page /\ listing.rows[a] = 0)
    BY <1>1 DEF PagingInv, WithNew, ListingTypeOK
  <1>4. \A a \in agents : Place(a) \in 1..Cardinality(agents)
    BY <1>1, PlaceInList
  <1>5. Cardinality(agents) \in Nat
    BY <1>1, AgentsFinite
  \* Who is there and not listed before this page is on it or beyond it.
  <1>6. ASSUME deleted = FALSE, NEW a \in wasThere, rows[a] = 0
        PROVE  next < Place(a)
    <2>1. a \in agents /\ a \in Agents /\ listing.rows[a] = 0 /\ a \notin page
      BY <1>2, <1>3, <1>6
    <2>2. listing.cursor < Place(a)
      BY <1>1, <1>4, <1>6, <2>1 DEF PagingInv, Started, Ahead
    <2>3. listing.cursor \in Nat
      BY <1>1 DEF ListingTypeOK
    <2> QED BY <1>1, <1>4, <2>1, <2>2, <2>3 DEF PageOf
  <1>7. \A a \in Agents : Place(a)' = Place(a)
    BY <1>2 DEF Place
  <1>8. CASE ~more /\ listing' = [listing EXCEPT !.phase = "complete", !.rows = rows]
    <2>1. deleted = FALSE => \A a \in wasThere : rows[a] = 1
      <3> SUFFICES ASSUME deleted = FALSE, NEW a \in wasThere, rows[a] = 0 PROVE FALSE
        <4> HIDE DEF rows, wasThere
        <4>1. \A a \in wasThere : rows[a] \in {0, 1}
          BY <1>2, <1>3
        <4> QED BY <4>1
      <3> HIDE DEF next, rows, wasThere
      <3>1. next < Place(a) /\ a \in agents
        BY <1>2, <1>6
      <3> QED BY <1>1, <1>4, <1>5, <1>8, <3>1 DEF next, ListingTypeOK
    <2> HIDE DEF rows, wasThere
    <2>2. /\ listing'.phase = "complete" /\ listing'.rows = rows /\ listing'.seen = listing.seen
          /\ listing'.cursor = listing.cursor
          /\ listing' \in [phase : {"paging", "complete", "refused"}, cursor : Nat,
                           seen : SUBSET Nat, rows : [Agents -> Nat]]
      BY <1>1, <1>3, <1>8 DEF ListingTypeOK
    <2>3. ListingTypeOK'
      BY <1>1, <1>2, <2>2 DEF ListingTypeOK
    <2>4. ListedOnce'
      BY <1>1, <1>2, <1>3, <2>1, <2>2 DEF ListedOnce, ListingTypeOK
    <2> QED BY <1>2, <1>3, <2>2, <2>3, <2>4 DEF PagingInv, Started
  <1>9. CASE /\ more
             /\ listing' = [listing EXCEPT
                  !.phase = IF Cardinality(listing.seen) + 1 = MaxPages \/ next \in listing.seen
                            THEN "refused" ELSE "paging",
                  !.cursor = next, !.seen = @ \cup {next}, !.rows = rows]
    <2>1. next \in Nat
      BY <1>1 DEF ListingTypeOK
    <2>2. deleted = FALSE => \A a \in wasThere : rows[a] = 0 => next < Place(a)
      BY <1>6
    <2> HIDE DEF rows, wasThere, next
    <2>3. /\ listing'.phase \in {"paging", "refused"} /\ listing'.rows = rows
          /\ listing'.seen = listing.seen \cup {next} /\ listing'.cursor = next
          /\ listing' \in [phase : {"paging", "complete", "refused"}, cursor : Nat,
                           seen : SUBSET Nat, rows : [Agents -> Nat]]
      BY <1>1, <1>3, <1>9, <2>1 DEF ListingTypeOK
    <2>4. ListingTypeOK'
      BY <1>1, <1>2, <2>3 DEF ListingTypeOK
    <2>5. deleted = FALSE => Ahead'
      <3> SUFFICES ASSUME deleted = FALSE, NEW a \in wasThere, rows[a] = 0 PROVE next < Place(a)'
        BY <1>2, <2>3 DEF Ahead
      <3> QED BY <1>2, <1>7, <2>2
    <2> QED BY <1>2, <1>3, <2>3, <2>4, <2>5 DEF PagingInv, Started, ListedOnce
  <1>10. CASE more /\ listing' = [listing EXCEPT !.phase = "refused", !.rows = rows]
    <2> HIDE DEF rows, wasThere
    <2>2. /\ listing'.phase = "refused" /\ listing'.rows = rows /\ listing'.seen = listing.seen
          /\ listing'.cursor = listing.cursor
          /\ listing' \in [phase : {"paging", "complete", "refused"}, cursor : Nat,
                           seen : SUBSET Nat, rows : [Agents -> Nat]]
      BY <1>1, <1>3, <1>10 DEF ListingTypeOK
    <2>3. ListingTypeOK'
      BY <1>1, <1>2, <2>2 DEF ListingTypeOK
    <2> QED BY <1>2, <1>3, <2>2, <2>3 DEF PagingInv, Started, ListedOnce
  <1> QED BY <1>8, <1>9, <1>10 DEF FetchPage

\* Registering moves the others away from the cursor, deleting is excepted.
LEMMA PagingStep == PagingInv /\ [PagingNext]_pagingVars => PagingInv'
  <1> SUFFICES ASSUME PagingInv, [PagingNext]_pagingVars PROVE PagingInv'
    OBVIOUS
  <1>0. ListingTypeOK
    BY DEF PagingInv
  <1>1. CASE FetchUnpaged
    <2> DEFINE rows == WithNew(listing.rows, agents)
    <2>1. agents \subseteq Agents
      BY <1>0, PagingAssumption DEF ListingTypeOK, Agents
    <2>2. /\ rows \in [Agents -> Nat] /\ \A a \in Agents : rows[a] <= 1
          /\ \A a \in agents : rows[a] = 1
      BY <1>0, <2>1 DEF PagingInv, WithNew, ListingTypeOK
    <2> HIDE DEF rows
    <2>3. /\ listing'.phase = "complete" /\ listing'.rows = rows /\ listing'.seen = listing.seen
          /\ listing'.cursor = listing.cursor
          /\ listing' \in [phase : {"paging", "complete", "refused"}, cursor : Nat,
                           seen : SUBSET Nat, rows : [Agents -> Nat]]
      BY <1>0, <1>1, <2>2 DEF ListingTypeOK, FetchUnpaged, rows
    <2> QED BY <1>0, <1>1, <2>1, <2>2, <2>3
            DEF PagingInv, FetchUnpaged, Started, ListedOnce, ListingTypeOK
  <1>2. CASE Register
    <2>1. ListingTypeOK'
      BY <1>0, <1>2, PagingAssumption DEF ListingTypeOK, Register
    <2>2. listing.phase = "paging" /\ Started /\ UNCHANGED <<listing, stayed, deleted>>
          /\ agents \subseteq agents' /\ stayed \subseteq agents
      BY <1>2 DEF Register, PagingInv
    <2>3. deleted = FALSE => Ahead'
      <3> SUFFICES ASSUME deleted = FALSE, NEW a \in stayed, listing.rows[a] = 0
                   PROVE  listing.cursor < Place(a)'
        BY <2>2 DEF Ahead
      <3>1. a \in agents /\ listing.cursor < Place(a)
        BY <2>2 DEF PagingInv, Ahead
      <3>2. Place(a) \in Nat /\ listing.cursor \in Nat
        BY <1>0, <3>1, PlaceInList DEF ListingTypeOK
      <3>3. Place(a)' = Place(a) + 1
        BY <1>0, <1>2, <3>1, RegisterMoves
      <3> QED BY <3>1, <3>2, <3>3
    <2> QED BY <2>1, <2>2, <2>3 DEF PagingInv, Started, ListedOnce
  <1>3. CASE Delete
    <2>1. ListingTypeOK'
      BY <1>0, <1>3 DEF ListingTypeOK, Delete
    <2>2. listing.phase = "paging" /\ Started /\ listing' = listing /\ deleted' = TRUE
          /\ stayed' \subseteq agents'
      BY <1>3 DEF Delete, PagingInv
    <2> QED BY <2>1, <2>2 DEF PagingInv, Started, ListedOnce
  <1>4. CASE UNCHANGED pagingVars
    BY <1>4 DEF pagingVars, PagingInv, ListingTypeOK, Started, Ahead, Place, ListedOnce
  <1> QED BY <1>1, <1>2, <1>3, <1>4, FetchKeeps DEF PagingNext

\* A list that is returned has each agent once and leaves out none that was there
\* all the time, unless one was deleted meanwhile (collectPages, client.ts:3541),
\* for pages of any size and any number of agents.
THEOREM ListsAreWhole == PagingSpec => []ListedOnce
  <1>1. PagingInv => ListedOnce
    BY DEF PagingInv
  <1> QED BY <1>1, PagingInitially, PagingStep, PTL DEF PagingSpec

-----------------------------------------------------------------------------
(* updateWithPatch (cli/commands/memory.ts).                               *)

Memory == [version: Nat, details: SUBSET Int, fields: SUBSET {"tags", "summary"}]
Command == [phase: CommandPhases, asked: Asked, expects: {1}, first: 0..4,
            details: SUBSET Int, resend: Asked, exit: Exits]

Stored == "summary" \in command.asked => "summary" \in memory.fields
Untouched == lost = {} /\ command.exit = "none"

\* What has been written when the command is at each of its calls.
WrittenSoFar ==
  /\ command.phase = "patch" => Untouched /\ wrote = {} /\ command.first = 0
  /\ command.phase = "probe" =>
       /\ Untouched /\ Stored
       /\ command.resend = {} /\ command.first \in {1, 4}
       /\ command.first = 1 => wrote = {"edit"}
       /\ command.first = 4 => wrote = {"edit", "patch"}
  /\ command.phase \in {"read", "write"} /\ command.first = 1 =>
       Untouched /\ Stored /\ wrote = {"edit"} /\ command.resend = {}
  /\ command.phase \in {"read", "write"} /\ command.first # 1 =>
       /\ Untouched /\ wrote = {}
       /\ command.first \in {2, 3} /\ command.resend = command.asked
       /\ "tags" \notin command.asked
       /\ "expected" \in command.asked => command.first = 3
  /\ command.phase = "end" => AppliedAsAsked /\ NeverUndoes

\* A memory that somebody edited is no longer the version the caller expects.
UpdateInv ==
  /\ memory \in Memory /\ memory.version >= 1
  /\ memory.version = 1 => memory.details = {}
  /\ command \in Command /\ command.first <= era
  /\ era \in 1..4 /\ edits \in Nat
  /\ WrittenSoFar

LEMMA UpdateInitially == UpdateInit => UpdateInv
  <1> SUFFICES ASSUME UpdateInit PROVE UpdateInv
    OBVIOUS
  <1> USE DEF UpdateInit
  <1>1. PICK asked \in Asked :
          command = [phase |-> "patch", asked |-> asked, expects |-> 1, first |-> 0,
                     details |-> {}, resend |-> {}, exit |-> "none"]
    OBVIOUS
  <1>2. memory \in Memory
    BY DEF Memory
  <1>3. command \in Command
    BY <1>1 DEF Command, Asked, CommandPhases, Exits
  <1>4. WrittenSoFar
    BY <1>1 DEF WrittenSoFar, Untouched
  <1>5. memory.version = 1 /\ memory.details = {} /\ edits = 0 /\ era \in 1..4
    OBVIOUS
  <1>6. command.first = 0
    BY <1>1
  <1> QED BY <1>2, <1>3, <1>4, <1>5, <1>6 DEF UpdateInv

\* What a server of each era declares.
LEMMA DeclaredByEra ==
  /\ Declares(1) = {} /\ Declares(2) = {} /\ Declares(3) = {"expected"}
  /\ Declares(4) = {"expected", "tags", "patch"}
  BY DEF Declares

\* The memory after a call keeps its type and its fields, and has those it was sent.
LEMMA WrittenKeeps ==
  ASSUME memory \in Memory, memory.version >= 1, NEW sent, NEW details \in SUBSET Int,
         memory' = Written(sent, details)
  PROVE  /\ memory' \in Memory
         /\ memory'.version >= 1 /\ memory'.version # 1
         /\ memory'.fields =
              memory.fields \cup (sent \cap ({"summary"} \cup (Declares(era) \cap {"tags"})))
  <1> DEFINE fields ==
        memory.fields \cup (sent \cap ({"summary"} \cup (Declares(era) \cap {"tags"})))
  <1>1. memory.version \in Nat /\ memory.fields \subseteq {"tags", "summary"}
    BY DEF Memory
  <1>2. memory' = [version |-> memory.version + 1, details |-> details, fields |-> fields]
    BY DEF Written
  <1>3. fields \in SUBSET {"tags", "summary"}
    BY <1>1
  <1> HIDE DEF fields
  <1>4. memory' \in Memory
    BY <1>1, <1>2, <1>3 DEF Memory
  <1>5. memory'.version >= 1 /\ memory'.version # 1
    BY <1>1, <1>2
  <1>6. memory'.fields = fields
    BY <1>2
  <1> QED BY <1>4, <1>5, <1>6 DEF fields

\* A command stays typed, and a step sets the fields it names.
LEMMA CommandTyped ==
  ASSUME command \in Command, NEW phase \in CommandPhases, NEW exit \in Exits,
         NEW first \in 0..4, NEW resend \in Asked, NEW details \in SUBSET Int,
         command' = [phase |-> phase, asked |-> command.asked, expects |-> command.expects,
                     first |-> first, details |-> details, resend |-> resend, exit |-> exit]
  PROVE  /\ command' \in Command
         /\ command'.phase = phase /\ command'.exit = exit /\ command'.first = first
         /\ command'.resend = resend /\ command'.asked = command.asked
  BY DEF Command

\* The first call is refused: nothing was written, and only a refusal of the patch
\* alone is followed by a merge.
LEMMA RefusedPatch ==
  ASSUME UpdateInv, command.phase = "patch",
         UNCHANGED <<memory, era, lost, edits, wrote>>,
         LET sent == command.asked \cup {"patch"}
         IN  /\ Unknown(sent) # {}
             /\ command' = [command EXCEPT !.first = era, !.resend = command.asked,
                              !.phase = IF DetailsPatchRefused(sent) THEN "read" ELSE "end",
                              !.exit = IF DetailsPatchRefused(sent) THEN "none" ELSE "error"]
  PROVE  UpdateInv'
  <1> DEFINE sent == command.asked \cup {"patch"}
             phase == IF DetailsPatchRefused(sent) THEN "read" ELSE "end"
             exit == IF DetailsPatchRefused(sent) THEN "none" ELSE "error"
  <1>1. command \in Command /\ command.asked \in Asked /\ era \in 1..4 /\ lost = {} /\ wrote = {}
    BY DEF UpdateInv, WrittenSoFar, Untouched, Command
  <1>2. command' = [command EXCEPT !.first = era, !.resend = command.asked,
                      !.phase = phase, !.exit = exit]
    OBVIOUS
  <1>3. phase \in CommandPhases /\ exit \in Exits
    BY DEF CommandPhases, Exits
  <1>4. DetailsPatchRefused(sent) =>
          /\ era \in {2, 3} /\ "tags" \notin command.asked
          /\ "expected" \in command.asked => era = 3
    BY <1>1, DeclaredByEra DEF DetailsPatchRefused, Unknown
  <1>5. \/ DetailsPatchRefused(sent) /\ phase = "read" /\ exit = "none"
        \/ phase = "end" /\ exit = "error"
    OBVIOUS
  <1> HIDE DEF phase, exit, sent
  <1>6. /\ command'.first = era /\ command'.phase = phase /\ command'.exit = exit
        /\ command'.asked = command.asked /\ command'.resend = command.asked
    BY <1>1, <1>2 DEF Command
  <1>7. command' \in Command
    <2>1. command' = [phase |-> phase, asked |-> command.asked, expects |-> command.expects,
                      first |-> era, details |-> command.details, resend |-> command.asked, exit |-> exit]
      BY <1>1, <1>2 DEF Command
    <2>2. era \in 0..4 /\ command.details \in SUBSET Int
      BY <1>1 DEF Command
    <2>3. command.expects \in {1}
      BY <1>1 DEF Command
    <2> QED BY <1>1, <1>3, <2>1, <2>2, <2>3 DEF Command
  <1>8. WrittenSoFar'
    BY <1>1, <1>4, <1>5, <1>6 DEF WrittenSoFar, Untouched, AppliedAsAsked, NeverUndoes
  <1> QED BY <1>1, <1>6, <1>7, <1>8 DEF UpdateInv

\* The first call is taken: by a server that ignores the patch, or by one that
\* applies it.
LEMMA TakenPatch ==
  ASSUME UpdateInv, command.phase = "patch", UNCHANGED <<era, lost, edits>>,
         LET sent == command.asked \cup {"patch"}
             patched == IF "patch" \in Declares(era) THEN memory.details \cup {Ours}
                        ELSE memory.details
         IN  Unknown(sent) = {} /\ memory' = Written(sent, patched),
         wrote' = {"edit"} \cup (IF "patch" \in Declares(era) THEN {"patch"} ELSE {}),
         \/ /\ HasVersion
            /\ command' = [command EXCEPT !.first = era, !.phase = "end", !.exit = "ok"]
         \/ command' = [command EXCEPT !.first = era, !.phase = "probe", !.resend = {}]
  PROVE  UpdateInv'
  <1> DEFINE sent == command.asked \cup {"patch"}
             patched == IF "patch" \in Declares(era) THEN memory.details \cup {Ours}
                        ELSE memory.details
  <1>1. /\ command \in Command /\ command.asked \in Asked /\ memory \in Memory
        /\ era \in 1..4 /\ lost = {} /\ command.exit = "none" /\ memory.version >= 1
        /\ edits \in Nat
    BY DEF UpdateInv, WrittenSoFar, Untouched, Command
  <1>2. era \in {1, 4}
    BY <1>1, DeclaredByEra DEF Unknown
  <1>3. /\ era = 1 => wrote' = {"edit"}
        /\ era = 4 => wrote' = {"edit", "patch"}
    BY DeclaredByEra
  <1>4. patched \in SUBSET Int
    BY <1>1 DEF Ours, Memory
  <1>5. /\ memory' \in Memory /\ memory'.version >= 1 /\ memory'.version # 1
        /\ memory'.fields = memory.fields \cup (sent \cap ({"summary"} \cup (Declares(era) \cap {"tags"})))
    <2> HIDE DEF sent, patched
    <2>1. memory' = Written(sent, patched)
      BY DEF sent, patched
    <2> QED BY <1>1, <1>4, <2>1, WrittenKeeps
  <1>6. /\ "summary" \in command.asked => "summary" \in memory'.fields
        /\ era = 4 => command.asked \cap {"summary", "tags"} \subseteq memory'.fields
    BY <1>5, DeclaredByEra
  <1> HIDE DEF sent, patched
  <1>7. CASE HasVersion /\ command' = [command EXCEPT !.first = era, !.phase = "end", !.exit = "ok"]
    <2>1. era = 4
      BY <1>2, <1>7 DEF HasVersion
    <2>2. /\ command'.asked = command.asked /\ command'.phase = "end" /\ command'.first = era
          /\ command' \in Command
      <3>1. command' = [phase |-> "end", asked |-> command.asked, expects |-> command.expects,
                        first |-> era, details |-> command.details, resend |-> command.resend, exit |-> "ok"]
        BY <1>1, <1>7 DEF Command
      <3>2. /\ era \in 0..4 /\ command.details \in SUBSET Int /\ command.resend \in Asked
            /\ "end" \in CommandPhases /\ "ok" \in Exits
        BY <1>1 DEF Command, CommandPhases, Exits
      <3> QED BY <1>1, <3>1, <3>2, CommandTyped
    <2>3. AppliedAsAsked' /\ NeverUndoes'
      BY <1>1, <1>3, <1>6, <2>1, <2>2 DEF AppliedAsAsked, NeverUndoes
    <2>4. WrittenSoFar'
      BY <2>2, <2>3 DEF WrittenSoFar
    <2>5. command'.first <= era
      BY <1>1, <2>2
    <2> QED BY <1>1, <1>5, <2>2, <2>4, <2>5 DEF UpdateInv
  <1>8. CASE command' = [command EXCEPT !.first = era, !.phase = "probe", !.resend = {}]
    <2>1. /\ command'.asked = command.asked /\ command'.phase = "probe" /\ command'.first = era
          /\ command'.resend = {} /\ command'.exit = "none" /\ command' \in Command
      <3>1. command' = [phase |-> "probe", asked |-> command.asked, expects |-> command.expects,
                        first |-> era, details |-> command.details, resend |-> {}, exit |-> "none"]
        BY <1>1, <1>8 DEF Command
      <3>2. /\ era \in 0..4 /\ command.details \in SUBSET Int /\ {} \in Asked
            /\ "probe" \in CommandPhases /\ "none" \in Exits
        BY <1>1 DEF Command, CommandPhases, Exits, Asked
      <3> QED BY <1>1, <3>1, <3>2, CommandTyped
    <2>2. WrittenSoFar'
      BY <1>1, <1>2, <1>3, <1>6, <2>1 DEF WrittenSoFar, Untouched, Stored
    <2> QED BY <1>1, <1>5, <2>1, <2>2 DEF UpdateInv
  <1> QED BY <1>7, <1>8

\* The merged details are written.
LEMMA MergeWritten ==
  ASSUME UpdateInv, command.phase = "write", UNCHANGED <<era, edits>>,
         ~Conflict(command.resend), Unknown(command.resend) = {},
         memory' = Written(command.resend, command.details \cup {Ours}),
         lost' = lost \cup (memory.details \ (command.details \cup {Ours})),
         wrote' = wrote \cup {"details"} \cup (IF command.first = 1 THEN {} ELSE {"edit"}),
         Exit(IF Dropped = {} THEN "ok" ELSE "named")
  PROVE  UpdateInv'
  <1> DEFINE exit == IF Dropped = {} THEN "ok" ELSE "named"
  <1>1. /\ command \in Command /\ command.asked \in Asked /\ memory \in Memory
        /\ era \in 1..4 /\ lost = {} /\ memory.version >= 1
        /\ memory.version = 1 => memory.details = {}
        /\ command.first \in {1, 2, 3} /\ command.first <= era /\ "patch" \notin wrote
    BY DEF UpdateInv, WrittenSoFar, Untouched, Command
  <1>2. command.details \cup {Ours} \in SUBSET Int
    BY <1>1 DEF Ours, Command
  <1>3. /\ memory' \in Memory /\ memory'.version >= 1 /\ memory'.version # 1
        /\ memory.fields \subseteq memory'.fields
        /\ "summary" \in command.resend => "summary" \in memory'.fields
    BY <1>1, <1>2, WrittenKeeps
  <1>4. /\ command' = [command EXCEPT !.phase = "end", !.exit = exit]
        /\ exit \in {"ok", "named"}
        /\ exit = "ok" => Dropped = {}
    BY DEF Exit
  <1> HIDE DEF exit
  <1>5. /\ command'.asked = command.asked /\ command'.phase = "end" /\ command'.exit = exit
        /\ command'.first = command.first /\ command' \in Command
    BY <1>1, <1>4 DEF Command, CommandPhases, Exits
  <1>6. "details" \in wrote' /\ "patch" \notin wrote'
    BY <1>1
  <1>7. NeverUndoes'
    BY <1>1, <1>5, <1>6 DEF NeverUndoes
  <1>8. ASSUME Dropped = {}
        PROVE  /\ command.asked \cap {"summary", "tags"} \subseteq memory'.fields
               /\ "expected" \in command.asked => lost' = {}
    <2>1. CASE command.first = 1
      <3>1. wrote = {"edit"} /\ Stored
        BY <2>1 DEF UpdateInv, WrittenSoFar
      <3>2. "tags" \notin command.asked /\ "expected" \notin command.asked
        BY <1>8, <3>1 DEF Dropped
      <3> QED BY <1>3, <3>1, <3>2 DEF Stored
    <2>2. CASE command.first # 1
      <3>1. /\ command.resend = command.asked /\ "tags" \notin command.asked
            /\ "expected" \in command.asked => era \in {3, 4}
        BY <1>1, <2>2 DEF UpdateInv, WrittenSoFar
      <3>2. ASSUME "expected" \in command.asked PROVE memory.version = 1
        <4>1. "expected" \in command.resend \cap Declares(era) /\ command.expects = 1
          BY <1>1, <3>1, <3>2, DeclaredByEra DEF Command
        <4> QED BY <4>1 DEF Conflict
      <3>3. ASSUME "expected" \in command.asked PROVE lost' = {}
        BY <1>1, <3>2, <3>3
      <3> QED BY <1>3, <3>1, <3>3
    <2> QED BY <2>1, <2>2
  <1>9. AppliedAsAsked'
    BY <1>4, <1>5, <1>6, <1>8 DEF AppliedAsAsked
  <1>10. WrittenSoFar'
    BY <1>5, <1>7, <1>9 DEF WrittenSoFar
  <1> QED BY <1>1, <1>3, <1>5, <1>10 DEF UpdateInv

LEMMA UpdateStep == UpdateInv /\ [UpdateNext]_updateVars => UpdateInv'
  <1> SUFFICES ASSUME UpdateInv, [UpdateNext]_updateVars PROVE UpdateInv'
    OBVIOUS
  <1>0. /\ command \in Command /\ memory \in Memory /\ memory.version >= 1
        /\ era \in 1..4 /\ edits \in Nat /\ command.first \in 0..4 /\ command.first <= era
    BY DEF UpdateInv, Command
  <1>1. ASSUME NEW exit \in {"error", "unconfirmed"}, Exit(exit), command.phase # "end",
               UNCHANGED <<memory, era, lost, edits, wrote>>
        PROVE  UpdateInv'
    <2>1. /\ command'.phase = "end" /\ command'.exit = exit /\ command'.first = command.first
          /\ command' \in Command
      BY <1>0, <1>1 DEF Exit, Command, CommandPhases, Exits
    <2>2. lost = {} /\ ("patch" \in wrote => "details" \notin wrote)
      BY <1>0, <1>1 DEF UpdateInv, WrittenSoFar, Untouched, Command, CommandPhases
    <2>3. WrittenSoFar'
      BY <1>1, <2>1, <2>2 DEF WrittenSoFar, AppliedAsAsked, NeverUndoes
    <2> QED BY <1>1, <2>1, <2>3 DEF UpdateInv
  <1>2. CASE SendPatch
    <2>1. command.phase = "patch" /\ UNCHANGED <<era, lost, edits>>
      BY <1>2 DEF SendPatch
    <2>2. CASE Unknown(command.asked \cup {"patch"}) # {} /\ UNCHANGED <<memory, wrote>> /\ ~Exit("error")
      BY <1>2, <2>1, <2>2, RefusedPatch DEF SendPatch
    <2>3. CASE Exit("error") /\ UNCHANGED <<memory, wrote>>
      BY <1>1, <2>1, <2>3
    <2>4. CASE ~(Exit("error") /\ UNCHANGED <<memory, wrote>>) /\ Unknown(command.asked \cup {"patch"}) = {}
      BY <1>2, <2>1, <2>4, TakenPatch DEF SendPatch
    <2> QED BY <1>2, <2>2, <2>3, <2>4 DEF SendPatch
  <1>3. CASE ConfirmOlder
    <2>1. command.phase = "probe" /\ UNCHANGED <<memory, era, wrote, lost, edits>>
      BY <1>3 DEF ConfirmOlder
    <2>2. CASE era = 1 /\ Step("read")
      <3>1. /\ command'.phase = "read" /\ command'.exit = command.exit /\ command'.asked = command.asked
            /\ command'.first = command.first /\ command'.resend = command.resend
            /\ command' \in Command
        BY <1>0, <2>2 DEF Step, Command, CommandPhases
      <3>2. WrittenSoFar'
        BY <1>0, <2>1, <2>2, <3>1 DEF UpdateInv, WrittenSoFar, Untouched, Stored
      <3> QED BY <2>1, <3>1, <3>2 DEF UpdateInv
    <2>3. CASE Exit("unconfirmed")
      BY <1>1, <2>1, <2>3
    <2> QED BY <1>3, <2>2, <2>3 DEF ConfirmOlder
  <1>4. CASE ReadDetails
    <2>1. command.phase = "read" /\ UNCHANGED <<memory, era, wrote, lost, edits>>
      BY <1>4 DEF ReadDetails
    <2>2. CASE command' = [command EXCEPT !.phase = "write", !.details = memory.details]
      <3>1. /\ command'.phase = "write" /\ command'.exit = command.exit /\ command'.asked = command.asked
            /\ command'.first = command.first /\ command'.resend = command.resend
            /\ command' \in Command
        BY <1>0, <2>2 DEF Command, Memory, CommandPhases
      <3>2. WrittenSoFar'
        BY <2>1, <3>1 DEF UpdateInv, WrittenSoFar, Untouched, Stored
      <3> QED BY <2>1, <3>1, <3>2 DEF UpdateInv
    <2>3. CASE Exit("error")
      BY <1>1, <2>1, <2>3
    <2> QED BY <1>4, <2>2, <2>3 DEF ReadDetails
  <1>5. CASE WriteMerged
    <2>1. command.phase = "write" /\ UNCHANGED <<era, edits>>
      BY <1>5 DEF WriteMerged
    <2>2. CASE Exit("error") /\ UNCHANGED <<memory, lost, wrote>>
      BY <1>1, <2>1, <2>2
    <2> QED BY <1>5, <2>1, <2>2, MergeWritten DEF WriteMerged
  <1>6. CASE OtherEdit
    <2>1. UNCHANGED <<era, command, wrote, lost>> /\ edits' \in Nat
      BY <1>0, <1>6 DEF OtherEdit
    <2>2. memory.details \cup {edits + 1} \in SUBSET Int /\ memory.version + 1 \in Nat
      BY <1>0 DEF Memory
    <2>3. memory' \in Memory /\ memory'.fields = memory.fields /\ memory'.version = memory.version + 1
      BY <1>0, <1>6, <2>2 DEF OtherEdit, Memory
    <2>4. WrittenSoFar'
      BY <2>1, <2>3 DEF UpdateInv, WrittenSoFar, Untouched, Stored, AppliedAsAsked, NeverUndoes
    <2>5. memory'.version >= 1 /\ memory'.version # 1
      BY <1>0, <2>3 DEF Memory
    <2> QED BY <2>1, <2>3, <2>4, <2>5 DEF UpdateInv
  <1>7. CASE Upgrade
    <2>1. UNCHANGED <<memory, command, wrote, lost, edits>> /\ era' \in 1..4 /\ era' > era
      BY <1>0, <1>7 DEF Upgrade
    <2>2. WrittenSoFar'
      BY <2>1 DEF UpdateInv, WrittenSoFar, Untouched, Stored, AppliedAsAsked, NeverUndoes
    <2> QED BY <1>0, <2>1, <2>2 DEF UpdateInv
  <1>8. CASE UNCHANGED updateVars
    BY <1>8 DEF updateVars, UpdateInv, WrittenSoFar, Untouched, Stored, AppliedAsAsked, NeverUndoes
  <1> QED BY <1>2, <1>3, <1>4, <1>5, <1>6, <1>7, <1>8 DEF UpdateNext

\* What update-memory reports is so, and it never writes over a patch that a server
\* applied, whatever the server's version was at each call and whoever else edits
\* the memory (updateWithPatch, memory.ts:737).
THEOREM UpdatesAreTruthful == UpdateSpec => []UpdateTruthful
  <1>1. UpdateInv => UpdateTruthful
    BY DEF UpdateInv, Command, WrittenSoFar, Untouched, UpdateTruthful, AppliedAsAsked,
           NeverUndoes, CommandPhases
  <1> QED BY <1>1, UpdateInitially, UpdateStep, PTL DEF UpdateSpec

-----------------------------------------------------------------------------
(* applyPlan (cli/commands/setup.ts).                                      *)

\* What holds of the harness's entry at each step of an invocation.
SoFar ==
  /\ plan.phase \in {"begin", "server", "settle", "apply"} =>
       entry = was /\ agreed = "no" /\ plan.applied = "no"
  /\ plan.phase \in {"settle", "apply"} /\ plan.harness = "codex" /\ was # "none" =>
       plan.found = "yes"
  /\ plan.phase = "apply" => "cli" \in plan.flags /\ ~Stops
  /\ plan.phase = "readBack" =>
       plan.applied = "no" /\ (plan.harness # "hermes" => entry = "wanted")
  /\ plan.phase = "export" => entry = IF plan.applied = "yes" THEN "wanted" ELSE was
  /\ plan.phase # "end" => export = "asBefore"

HarnessInv ==
  /\ plan \in [phase: PlanPhases, harness: Harnesses, flags: SUBSET HarnessFlags,
               found: {"yes", "no"}, applied: {"yes", "no"}, result: PlanResults]
  /\ SoFar /\ ReportTruthful /\ NothingReplacedUnasked

LEMMA HarnessInitially == HarnessInit => HarnessInv
  BY DEF HarnessInit, HarnessInv, SoFar, ReportTruthful, NothingReplacedUnasked,
         PlanPhases, Harnesses, HarnessFlags, PlanResults

LEMMA HarnessStep == HarnessInv /\ [HarnessNext]_harnessVars => HarnessInv'
  <1> SUFFICES ASSUME HarnessInv, [HarnessNext]_harnessVars PROVE HarnessInv'
    OBVIOUS
  <1> USE DEF HarnessInv, SoFar, ReportTruthful, NothingReplacedUnasked, PlanPhases,
              PlanResults, Finish, Proceed
  <1>1. ASSUME NEW harness \in Harnesses, NEW flags \in SUBSET HarnessFlags,
               HarnessBegin(harness, flags)
        PROVE  HarnessInv'
    BY <1>1 DEF HarnessBegin
  <1>2. CASE CheckServer
    <2>1. CASE Finish("refused")
      BY <1>2, <2>1 DEF CheckServer
    <2>2. ASSUME NEW found \in Scanned,
                 plan' = [plan EXCEPT !.phase = "settle", !.found = found]
          PROVE  HarnessInv'
      <3>1. found \in {"yes", "no"} /\ (plan.harness = "codex" /\ entry # "none" => found = "yes")
        BY DEF Scanned
      <3> QED BY <1>2, <2>2, <3>1 DEF CheckServer
    <2> QED BY <1>2, <2>1, <2>2 DEF CheckServer
  <1>3. CASE Settle
    <2>1. plan.phase = "settle" /\ UNCHANGED <<entry, export, was, agreed>>
      BY <1>3 DEF Settle
    <2>2. CASE Finish("refused") \/ Finish("dryRun")
      BY <2>1, <2>2
    <2>3. CASE Proceed("apply") /\ Applies /\ ~Stops
      BY <2>1, <2>3 DEF Applies, Stops
    <2>4. CASE Proceed("export")
      BY <2>1, <2>4
    <2> QED BY <1>3, <2>2, <2>3, <2>4 DEF Settle
  <1>4. CASE Apply
    <2>1. /\ plan.phase = "apply" /\ UNCHANGED <<export, was>>
          /\ entry = was /\ agreed = "no" /\ plan.applied = "no" /\ export = "asBefore"
      BY <1>4 DEF Apply
    <2>2. \/ CodexAdd \/ OpenclawAdd \/ HermesAdd
      BY <1>4 DEF Apply
    <2>3. NothingReplacedUnasked'
      <3>1. CASE CodexAdd
        BY <2>1, <3>1 DEF CodexAdd, Stops
      <3>2. CASE OpenclawAdd
        BY <2>1, <3>2 DEF OpenclawAdd, Stops
      <3>3. CASE HermesAdd
        BY <2>1, <3>3 DEF HermesAdd
      <3> QED BY <2>2, <3>1, <3>2, <3>3
    <2>4. CASE Proceed("readBack")
      <3>1. plan.harness # "hermes" => entry' = "wanted"
        <4>1. CASE CodexAdd
          BY <2>1, <2>4, <4>1 DEF CodexAdd
        <4>2. CASE OpenclawAdd
          BY <2>1, <2>4, <4>2 DEF OpenclawAdd
        <4>3. CASE HermesAdd
          BY <4>3 DEF HermesAdd
        <4> QED BY <2>2, <4>1, <4>2, <4>3
      <3> QED BY <2>1, <2>3, <2>4, <3>1
    <2>5. CASE Finish("failed")
      BY <2>1, <2>3, <2>5
    <2> QED BY <2>2, <2>4, <2>5 DEF CodexAdd, OpenclawAdd, HermesAdd
  <1>5. CASE NotSaved
    BY <1>5 DEF NotSaved, Saved, Harnesses
  <1>6. CASE WriteExport
    BY <1>6 DEF WriteExport
  <1>7. CASE UNCHANGED harnessVars
    BY <1>7 DEF harnessVars, Stops
  <1> QED BY <1>1, <1>2, <1>3, <1>4, <1>5, <1>6, <1>7 DEF HarnessNext

\* What a setup of Codex, Hermes or OpenClaw reports is what the harness has, and it
\* replaces no entry unasked, whatever its scan missed and its CLI's exit code left
\* unsaid (applyPlan, setup.ts).
THEOREM SetupsAreTruthful == HarnessSpec => []HarnessTruthful
  <1>1. HarnessInv => HarnessTruthful
    BY DEF HarnessInv, HarnessTruthful
  <1> QED BY <1>1, HarnessInitially, HarnessStep, PTL DEF HarnessSpec

-----------------------------------------------------------------------------
(* runClaude and writeUserEntry (cli/commands/setup.ts).                   *)

Writing == {"kagura", "mcp", "ignore"}

ClaudeTypes ==
  /\ kagura \in [state: {"absent", "ok", "bad"}, key: Keys \cup {None}, url: Urls \cup {None}]
  /\ mcp \in [state: {"absent", "ok", "bad"}, entry: Entries \cup {None}]
  /\ claude \in [local: Entries \cup {None}, user: Entries \cup {None}, parent: Entries \cup {None}]
  /\ run \in [phase: Phases, scope: Scopes, key: Keys \cup {None}, url: Urls \cup {None},
              wanted: Entries \cup {None}, replaces: Entries \cup {None},
              result: Results, note: Notes]
  /\ before.user \in Entries \cup {None}

\* What an invocation has settled, whatever anybody else does meanwhile.
Settled ==
  /\ run.phase # "idle" =>
       run.key \in Keys /\ run.url \in Urls /\ run.wanted = ClaudeEntry(run.scope, run.key, run.url)
  /\ run.phase = "lookup" /\ run.scope = "user" /\ before.user # run.wanted =>
       run.replaces = before.user
  /\ run.phase \in {"remove", "add", "restore"} =>
       run.scope = "user" /\ run.replaces = before.user
  /\ run.phase \in {"remove", "restore"} => run.replaces # None
  /\ run.phase = "mcp" => run.scope = "project"

\* What it can rely on while nobody else interferes.
Undisturbed ==
  touched = "no" =>
    /\ run.phase # "idle" => claude.local = None
    /\ run.phase # "idle" /\ run.scope = "user" =>
         (mcp.state = "ok" => mcp.entry = None) /\ claude.parent = None
    /\ run.phase \in {"lookup", "remove", "add", "restore"} => files = before.files
    /\ run.phase \in {"lookup", "remove"} => claude.user = before.user
    /\ run.phase = "add" => claude.user = None
    /\ run.phase \in Writing /\ run.scope = "user" => claude.user = run.wanted
    /\ run.phase \in {"mcp", "ignore"} => kagura.key = run.key /\ kagura.url = run.url
    /\ run.phase = "ignore" /\ run.scope = "project" =>
         mcp.state = "ok" /\ mcp.entry = run.wanted

Claims == SuccessIsEffective /\ SetupAccounted /\ KeysIgnored

ClaudeInv == ClaudeTypes /\ argv \subseteq {Ref} /\ Settled /\ Undisturbed /\ Claims

LEMMA ClaudeInitially == Init => ClaudeInv
  <1> SUFFICES ASSUME Init PROVE ClaudeInv
    OBVIOUS
  <1>1. ClaudeTypes
    BY DEF Init, ClaudeTypes, Absent, NoMcp, Phases, Scopes, Results, Notes
  <1>2. Claims
    BY DEF Init, Claims, SuccessIsEffective, SetupAccounted, EntryAccounted, FilesUntouched,
           KeysIgnored, Ended
  <1> QED BY <1>1, <1>2 DEF Init, ClaudeInv, Settled, Undisturbed, Writing

\* While an invocation is under way it claims nothing.
LEMMA UnderWay ==
  ASSUME run'.phase # "idle"
  PROVE  Claims'
  BY DEF Claims, SuccessIsEffective, SetupAccounted, EntryAccounted, FilesUntouched,
         KeysIgnored, Ended

LEMMA BeginKeeps ==
  ASSUME ClaudeInv, NEW scope \in Scopes, NEW key \in Keys \cup {None},
         NEW env \in Keys \cup {None}, NEW url \in Urls \cup {None}, NEW has \in BOOLEAN,
         Begin(scope, key, url, env, has)
  PROVE  ClaudeInv'
  <1> DEFINE k == IF key # None THEN key ELSE IF kagura.key # None THEN kagura.key ELSE env
             u == IF url # None THEN url ELSE IF kagura.url # None THEN kagura.url
                  ELSE CHOOSE v \in Urls : TRUE
             wanted == ClaudeEntry(scope, k, u)
             changed == scope = "user" /\ claude.user # wanted
             refused == \/ kagura.state = "bad"
                        \/ k = None
                        \/ Shadowed(scope)
                        \/ scope = "project" /\ mcp.state = "bad"
                        \/ changed /\ ~has
  <1>1. /\ UNCHANGED <<kagura, mcp, ignored, claude, argv>> /\ touched' = "no"
        /\ before' = [files |-> files, user |-> claude.user]
        /\ run' = [phase |-> IF refused THEN "idle" ELSE "lookup",
                   scope |-> scope, key |-> k, url |-> u,
                   wanted |-> IF k = None THEN None ELSE wanted,
                   replaces |-> IF changed THEN claude.user ELSE None,
                   result |-> IF refused THEN "refused" ELSE "none", note |-> "none"]
    BY DEF Begin, files
  <1>2. k \in Keys \cup {None} /\ u \in Urls
    BY SetupAssumption DEF ClaudeInv, ClaudeTypes
  <1>3. k \in Keys => wanted \in Entries
    BY <1>2 DEF ClaudeEntry, Entries
  <1>4. claude.user \in Entries \cup {None} /\ before'.user = claude.user /\ before'.files = files
    BY <1>1 DEF ClaudeInv, ClaudeTypes
  <1>5. ~refused => /\ k # None /\ claude.local = None
                    /\ scope = "user" =>
                         (mcp.state = "ok" => mcp.entry = None) /\ claude.parent = None
    BY DEF Shadowed, ProjectEntry
  <1> DEFINE phase == IF refused THEN "idle" ELSE "lookup"
             result == IF refused THEN "refused" ELSE "none"
             entry2 == IF k = None THEN None ELSE wanted
             replaces == IF changed THEN claude.user ELSE None
  <1>6. /\ phase \in Phases /\ result \in Results /\ entry2 \in Entries \cup {None}
        /\ replaces \in Entries \cup {None}
    BY <1>2, <1>3, <1>4 DEF Phases, Results
  <1>7. /\ phase = "lookup" => ~refused /\ result = "none"
        /\ phase # "lookup" => phase = "idle" /\ result = "refused"
        /\ k # None => entry2 = wanted
        /\ scope = "user" /\ claude.user # wanted => replaces = claude.user
    OBVIOUS
  <1> HIDE DEF k, u, wanted, changed, refused, phase, result, entry2, replaces
  <1>8. run' = [phase |-> phase, scope |-> scope, key |-> k, url |-> u, wanted |-> entry2,
               replaces |-> replaces, result |-> result, note |-> "none"]
    BY <1>1 DEF phase, result, entry2, replaces
  <1>9. /\ run'.phase = phase /\ run'.scope = scope /\ run'.key = k /\ run'.url = u
        /\ run'.wanted = entry2 /\ run'.replaces = replaces /\ run'.result = result
    BY <1>8
  <1>10. ClaudeTypes'
    BY <1>1, <1>2, <1>4, <1>6, <1>8 DEF ClaudeInv, ClaudeTypes, Notes
  <1>11. Settled'
    BY <1>2, <1>4, <1>5, <1>7, <1>9 DEF Settled, wanted
  <1>12. Undisturbed'
    BY <1>1, <1>4, <1>5, <1>7, <1>9 DEF Undisturbed, Writing, files
  <1>13. Claims'
    BY <1>1, <1>4, <1>7, <1>9 DEF Claims, SuccessIsEffective, SetupAccounted, EntryAccounted,
           FilesUntouched, KeysIgnored, Ended, files
  <1> QED BY <1>1, <1>10, <1>11, <1>12, <1>13 DEF ClaudeInv

\* An invocation that ends as it says: what `result` and `note` promise holds of the
\* files and of the user-scope entry then.
LEMMA EndKeeps ==
  ASSUME ClaudeInv, NEW result \in {"failed", "stopped"}, NEW note \in Notes,
         End(result, note), UNCHANGED <<before, touched>>,
         ClaudeTypes', argv' \subseteq {Ref},
         result = "failed" /\ touched = "no" =>
           /\ files' = before.files
           /\ note = "putBack" => claude'.user = before.user
           /\ before.user # None /\ claude'.user # before.user => note \in {"told", "removeFailed"}
  PROVE  ClaudeInv'
  <1>1. run'.phase = "idle" /\ run'.result = result /\ run'.note = note
    BY DEF End, ClaudeInv, ClaudeTypes
  <1>2. Claims'
    BY <1>1 DEF Claims, SuccessIsEffective, SetupAccounted, EntryAccounted, FilesUntouched,
           KeysIgnored, Ended, files
  <1> QED BY <1>1, <1>2 DEF ClaudeInv, Settled, Undisturbed, Writing

\* A step of an invocation that ends in another phase keeps the rest of `run`.
LEMMA GotoKeeps ==
  ASSUME ClaudeInv, NEW phase \in Phases, Goto(phase)
  PROVE  /\ run' \in [phase: Phases, scope: Scopes, key: Keys \cup {None}, url: Urls \cup {None},
                      wanted: Entries \cup {None}, replaces: Entries \cup {None},
                      result: Results, note: Notes]
         /\ run'.phase = phase /\ run'.scope = run.scope /\ run'.key = run.key
         /\ run'.url = run.url /\ run'.wanted = run.wanted /\ run'.replaces = run.replaces
  BY DEF Goto, ClaudeInv, ClaudeTypes

LEMMA EndTypes ==
  ASSUME ClaudeInv, NEW result \in Results, NEW note \in Notes, End(result, note)
  PROVE  run' \in [phase: Phases, scope: Scopes, key: Keys \cup {None}, url: Urls \cup {None},
                  wanted: Entries \cup {None}, replaces: Entries \cup {None},
                  result: Results, note: Notes]
  BY DEF End, ClaudeInv, ClaudeTypes, Phases

LEMMA CliKeeps ==
  ASSUME ClaudeInv, Remove \/ Add \/ Restore
  PROVE  ClaudeInv'
  <1>1. /\ UNCHANGED <<kagura, mcp, ignored, before, touched>>
        /\ run.phase \in {"remove", "add", "restore"}
    BY DEF Remove, Add, Restore, files
  <1>2. /\ ClaudeTypes /\ argv \subseteq {Ref} /\ run.scope = "user" /\ run.replaces = before.user
        /\ run.wanted \in Entries /\ run.wanted.auth = Ref /\ None \notin Entries
        /\ before.user \in Entries \cup {None}
        /\ run.phase \in {"remove", "restore"} => run.replaces # None
        /\ touched = "no" => files = before.files
    BY <1>1, SetupAssumption DEF ClaudeInv, ClaudeTypes, Settled, Undisturbed, ClaudeEntry, Entries
  <1>3. UNCHANGED files
    BY <1>1 DEF files
  <1>4. ASSUME NEW entry2 \in Entries \cup {None}, claude' = [claude EXCEPT !.user = entry2]
        PROVE  /\ claude' \in [local: Entries \cup {None}, user: Entries \cup {None},
                               parent: Entries \cup {None}]
               /\ claude'.user = entry2 /\ claude'.local = claude.local
               /\ claude'.parent = claude.parent
    BY <1>2, <1>4 DEF ClaudeTypes
  <1>5. ASSUME NEW note \in Notes, End("failed", note), argv' \subseteq {Ref},
               claude' \in [local: Entries \cup {None}, user: Entries \cup {None},
                           parent: Entries \cup {None}],
               touched = "no" =>
                 /\ note = "putBack" => claude'.user = before.user
                 /\ before.user # None /\ claude'.user # before.user =>
                      note \in {"told", "removeFailed"}
        PROVE  ClaudeInv'
    <2>1. run' \in [phase: Phases, scope: Scopes, key: Keys \cup {None}, url: Urls \cup {None},
                   wanted: Entries \cup {None}, replaces: Entries \cup {None},
                   result: Results, note: Notes]
      BY <1>5, EndTypes DEF Results
    <2>2. ClaudeTypes'
      BY <1>1, <1>2, <1>5, <2>1 DEF ClaudeTypes
    <2> QED BY <1>1, <1>2, <1>3, <1>5, <2>2, EndKeeps
  <1>6. CASE Remove
    <2>1. run.phase = "remove" /\ UNCHANGED argv
      BY <1>6 DEF Remove
    <2>2. CASE Removed /\ Goto("add")
      <3>1. claude'.user = None /\ claude'.local = claude.local /\ claude'.parent = claude.parent
            /\ claude' \in [local: Entries \cup {None}, user: Entries \cup {None},
                            parent: Entries \cup {None}]
        BY <1>4, <2>2 DEF Removed
      <3>2. "add" \in Phases
        BY DEF Phases
      <3>3. /\ run'.phase = "add" /\ run'.scope = run.scope /\ run'.key = run.key
            /\ run'.url = run.url /\ run'.wanted = run.wanted /\ run'.replaces = run.replaces
            /\ ClaudeTypes'
        BY <1>1, <1>2, <2>2, <3>1, <3>2, GotoKeeps DEF ClaudeTypes
      <3>4. Claims'
        BY <3>3, UnderWay
      <3> QED BY <1>1, <1>2, <1>3, <2>1, <3>1, <3>3, <3>4
              DEF ClaudeInv, Settled, Undisturbed, Writing
    <2>3. CASE End("failed", "removeFailed")
      BY <1>2, <1>4, <1>5, <1>6, <2>1, <2>3 DEF Remove, Removed, ClaudeTypes, Notes
    <2> QED BY <1>6, <2>2, <2>3 DEF Remove
  <1>7. CASE Add
    <2>1. run.phase = "add" /\ argv' \subseteq {Ref}
      BY <1>2, <1>7 DEF Add
    <2>2. claude' \in [local: Entries \cup {None}, user: Entries \cup {None},
                      parent: Entries \cup {None}]
          /\ claude'.local = claude.local /\ claude'.parent = claude.parent
      BY <1>2, <1>4, <1>7 DEF Add, Added, ClaudeTypes
    <2>3. ASSUME NEW phase \in {"kagura", "restore"}, Goto(phase),
                 phase = "kagura" => claude'.user = run.wanted,
                 phase = "restore" => run.replaces # None
          PROVE  ClaudeInv'
      <3>1. phase \in Phases
        BY DEF Phases
      <3>2. /\ run'.phase = phase /\ run'.scope = run.scope /\ run'.key = run.key
            /\ run'.url = run.url /\ run'.wanted = run.wanted /\ run'.replaces = run.replaces
            /\ ClaudeTypes'
        BY <1>1, <1>2, <2>2, <2>3, <3>1, GotoKeeps DEF ClaudeTypes
      <3>3. Claims'
        BY <3>2, UnderWay
      <3> QED BY <1>1, <1>2, <1>3, <2>1, <2>2, <2>3, <3>2, <3>3
              DEF ClaudeInv, Settled, Undisturbed, Writing
    <2>4. CASE Added(run.wanted) /\ Goto("kagura")
      <3>1. claude'.user = run.wanted
        BY <1>2, <1>4, <2>4 DEF Added
      <3> QED BY <2>3, <2>4, <3>1
    <2>5. CASE AddFailed
      <3>1. CASE run.replaces = None /\ End("failed", "none")
        BY <1>2, <1>5, <2>1, <2>2, <3>1 DEF Notes
      <3>2. CASE run.replaces # None /\ Goto("restore")
        BY <2>3, <3>2
      <3> QED BY <2>5, <3>1, <3>2 DEF AddFailed
    <2> QED BY <1>7, <2>4, <2>5 DEF Add
  <1>8. CASE Restore
    <2>1. run.phase = "restore" /\ run.replaces \in Entries /\ argv' \subseteq {Ref}
      BY <1>2, <1>8 DEF Restore, HoldsCredential
    <2>2. claude' \in [local: Entries \cup {None}, user: Entries \cup {None},
                      parent: Entries \cup {None}]
      BY <1>2, <1>4, <1>8, <2>1 DEF Restore, Added, ClaudeTypes
    <2>3. CASE End("failed", "told")
      BY <1>5, <2>1, <2>2, <2>3 DEF Notes
    <2>4. CASE Added(run.replaces) /\ End("failed", "putBack")
      <3>1. claude'.user = before.user
        BY <1>2, <1>4, <2>4 DEF Added
      <3> QED BY <1>5, <2>1, <2>2, <2>4, <3>1 DEF Notes
    <2> QED BY <1>8, <2>3, <2>4 DEF Restore
  <1> QED BY <1>6, <1>7, <1>8

LEMMA WritesKeep ==
  ASSUME ClaudeInv, WriteKagura \/ WriteMcp \/ ProtectSecrets \/ WriteFails
  PROVE  ClaudeInv'
  <1>1. UNCHANGED <<claude, argv, before, touched>> /\ run.phase \in Writing
    BY DEF WriteKagura, WriteMcp, ProtectSecrets, WriteFails, Writing
  <1>2. /\ ClaudeTypes /\ argv \subseteq {Ref} /\ run.key \in Keys /\ run.url \in Urls
        /\ run.wanted \in Entries /\ run.wanted = ClaudeEntry(run.scope, run.key, run.url)
        /\ run.scope \in Scopes /\ None \notin Entries
    BY <1>1, SetupAssumption
       DEF ClaudeInv, ClaudeTypes, Settled, ClaudeEntry, Entries, Writing
  <1>3. CASE WriteKagura
    <2> DEFINE phase == IF run.scope = "project" THEN "mcp" ELSE "ignore"
    <2>1. phase \in Phases /\ (phase = "mcp" <=> run.scope = "project")
      BY DEF Phases
    <2>2. /\ run'.phase = phase /\ run'.scope = run.scope /\ run'.key = run.key
          /\ run'.url = run.url /\ run'.wanted = run.wanted /\ run'.replaces = run.replaces
          /\ ClaudeTypes' /\ kagura'.key = run.key /\ kagura'.url = run.url
      BY <1>1, <1>2, <1>3, <2>1, GotoKeeps DEF WriteKagura, ClaudeTypes
    <2>3. phase \in {"mcp", "ignore"} /\ run.phase = "kagura" /\ UNCHANGED mcp
      BY <1>3 DEF WriteKagura
    <2> HIDE DEF phase
    <2>4. Claims'
      BY <2>2, <2>3, UnderWay
    <2> QED BY <1>1, <1>2, <2>1, <2>2, <2>3, <2>4 DEF ClaudeInv, Settled, Undisturbed, Writing
  <1>4. CASE WriteMcp
    <2>1. "ignore" \in Phases
      BY DEF Phases
    <2>2. /\ run'.phase = "ignore" /\ run'.scope = run.scope /\ run'.key = run.key
          /\ run'.url = run.url /\ run'.wanted = run.wanted /\ run'.replaces = run.replaces
          /\ ClaudeTypes' /\ mcp'.entry = run.wanted /\ mcp'.state = "ok"
      BY <1>1, <1>2, <1>4, <2>1, GotoKeeps DEF WriteMcp, ClaudeTypes
    <2>3. run.phase = "mcp" /\ run.scope = "project" /\ UNCHANGED kagura
      BY <1>4 DEF WriteMcp, ClaudeInv, Settled
    <2>4. Claims'
      BY <2>2, UnderWay
    <2> QED BY <1>1, <1>2, <2>2, <2>3, <2>4 DEF ClaudeInv, Settled, Undisturbed, Writing
  <1>5. CASE ProtectSecrets
    <2>1. /\ run.phase = "ignore" /\ UNCHANGED <<kagura, mcp>>
          /\ ignored' = ignored \cup (IF run.scope = "project" THEN Files ELSE {"kagura"})
          /\ End("success", "none")
      BY <1>5 DEF ProtectSecrets
    <2>2. ClaudeTypes'
      BY <1>1, <1>2, <2>1, EndTypes DEF ClaudeTypes, Results, Notes
    <2>3. /\ run'.phase = "idle" /\ run'.result = "success" /\ run'.wanted = run.wanted
          /\ run'.key = run.key /\ run'.url = run.url /\ run'.scope = run.scope
      BY <1>2, <2>1 DEF End, ClaudeTypes
    <2>4. ASSUME touched = "no"
          PROVE  /\ Effective' = run.wanted
                 /\ kagura.key = run.key /\ kagura.url = run.url
                 /\ "kagura" \in ignored'
                 /\ "mcp" \in ignored' \/ run.scope = "user"
                 /\ run.scope = "user" => mcp.state # "ok" \/ mcp.entry = None
      <3>1. claude.local = None /\ kagura.key = run.key /\ kagura.url = run.url
        BY <2>1, <2>4 DEF ClaudeInv, Undisturbed
      <3>2. CASE run.scope = "project"
        BY <1>1, <1>2, <2>1, <2>4, <3>1, <3>2
           DEF ClaudeInv, Undisturbed, Effective, ProjectEntry, Files
      <3>3. CASE run.scope = "user"
        BY <1>1, <1>2, <2>1, <2>4, <3>1, <3>3
           DEF ClaudeInv, Undisturbed, Effective, ProjectEntry, Writing
      <3> QED BY <1>2, <3>2, <3>3 DEF Scopes
    <2>5. Claims'
      BY <1>1, <2>1, <2>3, <2>4 DEF Claims, SuccessIsEffective, SetupAccounted, EntryAccounted,
             FilesUntouched, KeysIgnored, OverlookedMcp, Ended
    <2> QED BY <1>1, <1>2, <2>2, <2>3, <2>5 DEF ClaudeInv, Settled, Undisturbed, Writing
  <1>6. CASE WriteFails
    <2>1. /\ End("stopped", "none")
          /\ kagura' \in {kagura, Absent, BadJson(None), BadJson(run.key)}
          /\ mcp' \in {mcp, NoMcp, BadMcp(None), BadMcp(run.wanted)}
      BY <1>6 DEF WriteFails
    <2>2. /\ "stopped" \in Results /\ "none" \in Notes
      BY DEF Results, Notes
    <2>3. ClaudeTypes'
      BY <1>1, <1>2, <2>1, <2>2, EndTypes DEF ClaudeTypes, Absent, BadJson, NoMcp, BadMcp
    <2> QED BY <1>1, <1>2, <2>1, <2>2, <2>3, EndKeeps
  <1> QED BY <1>3, <1>4, <1>5, <1>6

LEMMA ClaudeStep == ClaudeInv /\ [Next]_vars => ClaudeInv'
  <1> SUFFICES ASSUME ClaudeInv, [Next]_vars PROVE ClaudeInv'
    OBVIOUS
  <1>0. ClaudeTypes /\ argv \subseteq {Ref}
    BY DEF ClaudeInv
  <1>1. CASE LookedUp
    <2>1. /\ run.phase = "lookup" /\ Goto(NextPhase)
          /\ UNCHANGED <<kagura, mcp, ignored, claude, argv, before, touched>>
      BY <1>1 DEF LookedUp, files
    <2>2. /\ NextPhase \in {"remove", "add", "kagura"} /\ NextPhase \in Phases
          /\ NextPhase \in {"remove", "add"} => run.scope = "user" /\ before.user # run.wanted
          /\ NextPhase = "remove" <=> NextPhase # "kagura" /\ run.replaces # None
          /\ NextPhase = "kagura" => run.scope # "user" \/ before.user = run.wanted
      BY DEF NextPhase, Phases
    <2>3. /\ run'.phase = NextPhase /\ run'.scope = run.scope /\ run'.key = run.key
          /\ run'.url = run.url /\ run'.wanted = run.wanted /\ run'.replaces = run.replaces
          /\ ClaudeTypes'
      BY <1>0, <2>1, <2>2, GotoKeeps DEF ClaudeTypes
    <2>4. Claims'
      BY <2>2, <2>3, UnderWay
    <2> QED BY <1>0, <2>1, <2>2, <2>3, <2>4 DEF ClaudeInv, Settled, Undisturbed, Writing, files
  <1>2. CASE LookupFails \/ Crash
    <2>1. PICK result \in {"failed", "stopped"} : End(result, "none") /\ (result = "failed" => run.phase = "lookup")
      BY <1>2 DEF LookupFails, Crash
    <2>2. UNCHANGED <<kagura, mcp, ignored, claude, argv, before, touched>>
      BY <1>2 DEF LookupFails, Crash, files
    <2>3. result \in Results /\ "none" \in Notes
      BY DEF Results, Notes
    <2>4. ClaudeTypes'
      BY <1>0, <2>1, <2>2, <2>3, EndTypes DEF ClaudeTypes
    <2>5. result = "failed" /\ touched = "no" => files' = before.files /\ claude'.user = before.user
      BY <2>1, <2>2 DEF ClaudeInv, Undisturbed, files
    <2> QED BY <1>0, <2>1, <2>2, <2>3, <2>4, <2>5, EndKeeps
  <1>3. CASE Outside
    <2>1. touched' = "yes" /\ UNCHANGED <<run, argv, before>>
      BY <1>3 DEF Outside
    <2>2. ClaudeTypes'
      <3>1. CASE UNCHANGED files /\ \E scope \in {"local", "user", "parent"}, e \in Entries \cup {None} :
                   claude' = [claude EXCEPT ![scope] = e]
        BY <1>0, <2>1, <3>1 DEF ClaudeTypes, files
      <3>2. CASE /\ UNCHANGED <<kagura, claude>>
                 /\ mcp' \in {NoMcp} \cup [state: {"ok", "bad"}, entry: Entries \cup {None}]
        BY <1>0, <2>1, <3>2 DEF ClaudeTypes, NoMcp
      <3>3. CASE UNCHANGED <<mcp, claude>> /\ kagura' \in {Absent, BadJson(None)}
        BY <1>0, <2>1, <3>3 DEF ClaudeTypes, Absent, BadJson
      <3> QED BY <1>3, <3>1, <3>2, <3>3 DEF Outside
    <2>3. Claims'
      BY <2>1 DEF Claims, SuccessIsEffective, SetupAccounted, EntryAccounted, FilesUntouched,
             KeysIgnored, Ended
    <2> QED BY <1>0, <2>1, <2>2, <2>3 DEF ClaudeInv, Settled, Undisturbed
  <1>4. CASE UNCHANGED vars
    BY <1>4 DEF vars, files, ClaudeInv, ClaudeTypes, Settled, Undisturbed, Claims,
           SuccessIsEffective, SetupAccounted, EntryAccounted, FilesUntouched, KeysIgnored,
           OverlookedMcp, Ended, Effective, ProjectEntry
  <1> QED BY <1>1, <1>2, <1>3, <1>4, BeginKeeps, CliKeeps, WritesKeep DEF Next

\* A setup of Claude Code that reports success took effect (refuseShadowedEntry), a
\* failed one accounts for the entry it replaced and the files (writeUserEntry), and
\* no key is put on a command line or left for a commit (protectSecrets), wherever
\* earlier setups stopped.
THEOREM SetupIsAccounted == Spec => []SetupAccounted
  <1>1. ClaudeInv => SetupAccounted
    BY DEF ClaudeInv, Claims
  <1> QED BY <1>1, ClaudeInitially, ClaudeStep, PTL DEF Spec

\* The entry a setup wrote is the one Claude Code takes (refuseShadowedEntry).
THEOREM SuccessTakesEffect == Spec => []SuccessIsEffective
  <1>1. ClaudeInv => SuccessIsEffective
    BY DEF ClaudeInv, Claims
  <1> QED BY <1>1, ClaudeInitially, ClaudeStep, PTL DEF Spec

\* No key goes on a command line or into a file that is committed (writeUserEntry,
\* protectSecrets).
THEOREM KeysAreKept == Spec => []KeysKept
  <1>1. ClaudeInv => KeysKept
    BY DEF ClaudeInv, Claims, KeysKept, KeyOffArgv
  <1> QED BY <1>1, ClaudeInitially, ClaudeStep, PTL DEF Spec

-----------------------------------------------------------------------------
(* Sets of positions, and the text that stands at them.                    *)

\* A set of positions that has an element has a first one.
LEMMA FirstPosition ==
  ASSUME NEW S \in SUBSET Nat, S # {}
  PROVE  \E e \in S : \A d \in S : e <= d
<1> DEFINE R == OpToRel(<, Nat)
<1>1. IsWellFoundedOn(R, Nat)
  BY NatLessThanWellFounded
<1>2. \A x, y \in Nat : y < x => <<y, x>> \in R
  BY DEF OpToRel
<1> HIDE DEF R
<1>3. PICK e \in S : \A d \in S : ~(<<d, e>> \in R)
  BY <1>1, WFMin
<1>4. ASSUME NEW d \in S PROVE e <= d
  <2>1. e \in Nat /\ d \in Nat /\ ~(d < e)
    BY <1>2, <1>3
  <2> QED BY <2>1
<1> QED BY <1>4

\* A set of positions up to n.
LEMMA Positions ==
  ASSUME NEW n \in Nat, NEW S \in SUBSET (1..n)
  PROVE  /\ IsFiniteSet(S) /\ Cardinality(S) \in Nat /\ (S = {} <=> Cardinality(S) = 0)
         /\ \A q \in S : q \in Nat /\ 1 <= q /\ q <= n
<1>1. IsFiniteSet(1..n)
  BY FS_Interval
<1>2. IsFiniteSet(S)
  BY <1>1, FS_Subset
<1>3. Cardinality(S) \in Nat /\ (S = {} <=> Cardinality(S) = 0)
  BY <1>2, FS_CardinalityType, FS_EmptySet
<1>4. ASSUME NEW q \in S PROVE q \in Nat /\ 1 <= q /\ q <= n
  <2>1. q \in 1..n
    OBVIOUS
  <2> QED BY <2>1
<1> QED BY <1>2, <1>3, <1>4

\* The ranks of the positions of a set are 1, 2, ... up to how many they are.
LEMMA RankType ==
  ASSUME NEW n \in Nat, NEW S \in SUBSET (1..n), NEW p \in S
  PROVE  Rank(S, p) \in 1..Cardinality(S)
<1> DEFINE T == {q \in S : q <= p}
<1>1. T \in SUBSET S /\ T \in SUBSET (1..n)
  OBVIOUS
<1>2. p \in T
  BY Positions
<1>3. Cardinality(T) \in Nat /\ Cardinality(T) # 0
  <2> HIDE DEF T
  <2> QED BY <1>1, <1>2, Positions
<1>4. Cardinality(T) <= Cardinality(S) /\ Cardinality(S) \in Nat
  <2> HIDE DEF T
  <2> QED BY <1>1, Positions, FS_Subset
<1> QED BY <1>3, <1>4 DEF Rank

\* Of two positions the later has the higher rank.
LEMMA RankStrict ==
  ASSUME NEW n \in Nat, NEW S \in SUBSET (1..n), NEW p \in S, NEW q \in S, p < q
  PROVE  Rank(S, p) < Rank(S, q)
<1> DEFINE P == {i \in S : i <= p}
           Q == {i \in S : i <= q}
<1>1. \A i \in S : i \in Nat
  BY Positions
<1>2. P \in SUBSET Q /\ q \in Q /\ q \notin P
  <2>1. p \in Nat /\ q \in Nat /\ ~(q <= p) /\ q <= q
    BY <1>1
  <2>2. ASSUME NEW i \in P PROVE i \in Q
    <3>1. i \in Nat /\ i \in S /\ i <= p
      BY <1>1
    <3>2. i <= q
      BY <2>1, <3>1
    <3> QED BY <3>1, <3>2
  <2> QED BY <2>1, <2>2
<1>3. Q \in SUBSET (1..n) /\ P \in SUBSET (1..n)
  OBVIOUS
<1>4. Rank(S, p) = Cardinality(P) /\ Rank(S, q) = Cardinality(Q)
  BY DEF Rank
<1> HIDE DEF P, Q
<1>5. IsFiniteSet(Q) /\ Cardinality(Q) \in Nat /\ Cardinality(P) \in Nat
  BY <1>3, Positions
<1>6. Cardinality(P) <= Cardinality(Q) /\ (Cardinality(Q) = Cardinality(P) => Q = P)
  BY <1>2, <1>5, FS_Subset
<1>7. Q # P
  BY <1>2
<1> QED BY <1>4, <1>5, <1>6, <1>7

\* Each number up to the count is the rank of a position.
LEMMA RankOnto ==
  ASSUME NEW n \in Nat, NEW S \in SUBSET (1..n), NEW i \in 1..Cardinality(S)
  PROVE  \E p \in S : Rank(S, p) = i
<1> DEFINE f == [p \in S |-> Rank(S, p)]
           T == 1..Cardinality(S)
<1>1. IsFiniteSet(S) /\ Cardinality(S) \in Nat
  BY Positions
<1>2. IsFiniteSet(T) /\ Cardinality(T) = Cardinality(S)
  BY <1>1, FS_Interval
<1>3. \A p \in S : Rank(S, p) \in T
  BY RankType
<1>4. f \in [S -> T]
  BY <1>3
<1>5. ASSUME NEW p \in S, NEW q \in S, f[p] = f[q] PROVE p = q
  <2>1. Rank(S, p) = Rank(S, q) /\ Rank(S, p) \in Nat /\ Rank(S, q) \in Nat
    BY <1>1, <1>3, <1>5
  <2>2. ~(p < q) /\ ~(q < p)
    <3>1. CASE p < q
      <4>1. Rank(S, p) < Rank(S, q)
        BY <3>1, RankStrict
      <4> QED BY <2>1, <4>1
    <3>2. CASE q < p
      <4>1. Rank(S, q) < Rank(S, p)
        BY <3>2, RankStrict
      <4> QED BY <2>1, <4>1
    <3> QED BY <3>1, <3>2
  <2>3. p \in Nat /\ q \in Nat
    BY Positions
  <2> QED BY <2>2, <2>3
<1>6. f \in Injection(S, T)
  BY <1>4, <1>5 DEF Injection, IsInjective
<1>7. f \in Surjection(S, T)
  <2> HIDE DEF f, T
  <2> QED BY <1>2, <1>6, FS_Injection
<1>8. \E p \in S : f[p] = i
  BY <1>7 DEF Surjection
<1> QED BY <1>8

\* A position after all of a set is the last of the two.
LEMMA RankLast ==
  ASSUME NEW n \in Nat, NEW S \in SUBSET (1..n), NEW e \in Nat, \A p \in S : p < e
  PROVE  /\ Cardinality(S \cup {e}) = Cardinality(S) + 1
         /\ Rank(S \cup {e}, e) = Cardinality(S) + 1
         /\ \A p \in S : Rank(S \cup {e}, p) = Rank(S, p)
<1>1. IsFiniteSet(S) /\ \A q \in S : q \in Nat
  BY Positions
<1>2. e \notin S
  BY <1>1
<1>3. Cardinality(S \cup {e}) = Cardinality(S) + 1
  BY <1>1, <1>2, FS_AddElement
<1>4. {q \in S \cup {e} : q <= e} = S \cup {e}
  <2>1. ASSUME NEW q \in S \cup {e} PROVE q <= e
    <3>1. CASE q \in S
      <4>1. q \in Nat /\ q < e
        BY <1>1, <3>1
      <4> QED BY <4>1
    <3> QED BY <3>1
  <2> QED BY <2>1
<1>5. ASSUME NEW p \in S PROVE {q \in S \cup {e} : q <= p} = {q \in S : q <= p}
  <2>1. p \in Nat /\ ~(e <= p)
    BY <1>1
  <2> QED BY <2>1
<1> QED BY <1>3, <1>4, <1>5 DEF Rank

\* The positions from a up to b, without b.
LEMMA Interval ==
  ASSUME NEW a \in Nat \ {0}, NEW b \in Nat, a <= b
  PROVE  /\ IsFiniteSet(a..b - 1) /\ Cardinality(a..b - 1) = b - a
         /\ \A p \in a..b - 1 : Rank(a..b - 1, p) = p - a + 1
<1>1. IsFiniteSet(a..b - 1) /\ Cardinality(a..b - 1) = b - a
  <2>1. a \in Int /\ b - 1 \in Int
    OBVIOUS
  <2>2. IsFiniteSet(a..b - 1) /\ Cardinality(a..b - 1) = (IF a > b - 1 THEN 0 ELSE b - 1 - a + 1)
    BY <2>1, FS_Interval
  <2> QED BY <2>2
<1>2. ASSUME NEW p \in a..b - 1 PROVE Rank(a..b - 1, p) = p - a + 1
  <2>1. {q \in a..b - 1 : q <= p} = a..p
    OBVIOUS
  <2>2. Cardinality(a..p) = p - a + 1
    BY FS_Interval
  <2> QED BY <2>1, <2>2 DEF Rank
<1> QED BY <1>1, <1>2

\* An interval after all of a set.
LEMMA RankBlock ==
  ASSUME NEW a \in Nat \ {0}, NEW b \in Nat, a <= b, NEW S \in SUBSET (1..a - 1)
  PROVE  /\ Cardinality(S \cup (a..b - 1)) = Cardinality(S) + (b - a)
         /\ \A p \in S : Rank(S \cup (a..b - 1), p) = Rank(S, p)
         /\ \A p \in a..b - 1 : Rank(S \cup (a..b - 1), p) = Cardinality(S) + (p - a + 1)
<1>1. a - 1 \in Nat
  OBVIOUS
<1>2. IsFiniteSet(S) /\ Cardinality(S) \in Nat /\ \A q \in S : q \in Nat /\ q <= a - 1
  BY <1>1, Positions
<1>3. ASSUME NEW c \in Nat, a <= c
      PROVE  Cardinality(S \cup (a..c - 1)) = Cardinality(S) + (c - a)
  <2>1. IsFiniteSet(a..c - 1) /\ Cardinality(a..c - 1) = c - a
    BY <1>3, Interval
  <2>2. S \cap (a..c - 1) = {}
    BY <1>2
  <2>3. Cardinality(S \cap (a..c - 1)) = 0
    BY <2>2, FS_EmptySet
  <2>4. Cardinality(S \cup (a..c - 1))
          = Cardinality(S) + Cardinality(a..c - 1) - Cardinality(S \cap (a..c - 1))
    BY <1>2, <2>1, FS_Union
  <2> QED BY <1>2, <2>1, <2>3, <2>4
<1>4. ASSUME NEW p \in S PROVE Rank(S \cup (a..b - 1), p) = Rank(S, p)
  <2>1. {q \in S \cup (a..b - 1) : q <= p} = {q \in S : q <= p}
    <3>1. p \in Nat /\ p <= a - 1
      BY <1>2
    <3>2. \A q \in a..b - 1 : ~(q <= p)
      BY <3>1
    <3> QED BY <3>2
  <2> QED BY <2>1 DEF Rank
<1>5. ASSUME NEW p \in a..b - 1
      PROVE  Rank(S \cup (a..b - 1), p) = Cardinality(S) + (p - a + 1)
  <2>1. {q \in S \cup (a..b - 1) : q <= p} = S \cup (a..(p + 1) - 1)
    <3>1. \A q \in S : q <= p
      BY <1>2
    <3>2. \A q : q \in a..(p + 1) - 1 <=> q \in a..b - 1 /\ q <= p
      OBVIOUS
    <3> QED BY <3>1, <3>2
  <2>2. p + 1 \in Nat /\ a <= p + 1 /\ (p + 1) - a = p - a + 1
    OBVIOUS
  <2>3. Cardinality(S \cup (a..(p + 1) - 1)) = Cardinality(S) + ((p + 1) - a)
    BY <1>3, <2>2
  <2> QED BY <2>1, <2>2, <2>3 DEF Rank
<1> QED BY <1>3, <1>4, <1>5

\* A part of the stream.
LEMMA Part ==
  ASSUME NEW A, NEW s \in Seq(A), NEW a \in Nat \ {0}, NEW b \in Nat, a <= b, b <= Len(s) + 1
  PROVE  /\ SubSeq(s, a, b - 1) \in Seq(A) /\ Len(SubSeq(s, a, b - 1)) = b - a
         /\ \A p \in a..b - 1 : SubSeq(s, a, b - 1)[p - a + 1] = s[p]
         /\ \A i \in 1..b - a : SubSeq(s, a, b - 1)[i] = s[a + i - 1]
<1>1. Len(s) \in Nat
  BY LenProperties
<1>2. \A i \in a..b - 1 : s[i] \in A
  BY <1>1, ElementOfSeq
<1>3. a \in Int /\ b - 1 \in Int /\ (b - 1) - a + 1 = b - a
  OBVIOUS
<1>4. /\ SubSeq(s, a, b - 1) \in Seq(A)
      /\ Len(SubSeq(s, a, b - 1)) = (IF a <= b - 1 THEN (b - 1) - a + 1 ELSE 0)
      /\ \A i \in 1..(b - 1) - a + 1 : SubSeq(s, a, b - 1)[i] = s[a + i - 1]
  BY <1>2, <1>3, SubSeqProperties
<1>5. \A i \in 1..b - a : SubSeq(s, a, b - 1)[i] = s[a + i - 1]
  BY <1>3, <1>4
<1>6. ASSUME NEW p \in a..b - 1 PROVE SubSeq(s, a, b - 1)[p - a + 1] = s[p]
  <2>1. p - a + 1 \in 1..b - a /\ a + (p - a + 1) - 1 = p
    OBVIOUS
  <2> QED BY <1>5, <2>1
<1> QED BY <1>4, <1>5, <1>6

\* Text that has the bytes of an interval spells it.
LEMMA SpellsPart ==
  ASSUME NEW a \in Nat \ {0}, NEW b \in Nat, a <= b, NEW bytes, NEW text,
         Len(text) = b - a, \A p \in a..b - 1 : text[p - a + 1] = bytes[p]
  PROVE  Spells(text, a..b - 1, bytes)
BY Interval DEF Spells

\* Text that is appended spells the positions after those of the text before.
LEMMA SpellsMore ==
  ASSUME NEW a \in Nat \ {0}, NEW b \in Nat, a <= b, NEW S \in SUBSET (1..a - 1), NEW bytes,
         NEW A, NEW t \in Seq(A), NEW u \in Seq(A), Spells(t, S, bytes),
         Len(u) = b - a, \A p \in a..b - 1 : u[p - a + 1] = bytes[p]
  PROVE  Spells(t \o u, S \cup (a..b - 1), bytes)
<1> DEFINE T == S \cup (a..b - 1)
<1>1. Cardinality(S) \in Nat /\ Len(t) = Cardinality(S) /\ a - 1 \in Nat
  BY Positions DEF Spells
<1>2. Len(t \o u) = Len(t) + Len(u) /\ \A i \in 1..Len(t) + Len(u) :
        (t \o u)[i] = IF i <= Len(t) THEN t[i] ELSE u[i - Len(t)]
  BY ConcatProperties
<1>3. /\ Cardinality(T) = Cardinality(S) + (b - a)
      /\ \A p \in S : Rank(T, p) = Rank(S, p)
      /\ \A p \in a..b - 1 : Rank(T, p) = Cardinality(S) + (p - a + 1)
  BY RankBlock
<1>4. ASSUME NEW p \in S PROVE (t \o u)[Rank(T, p)] = bytes[p]
  <2>1. Rank(T, p) = Rank(S, p) /\ Rank(S, p) \in 1..Cardinality(S)
    BY <1>1, <1>3, RankType
  <2>2. t[Rank(S, p)] = bytes[p]
    BY DEF Spells
  <2> QED BY <1>1, <1>2, <2>1, <2>2
<1>5. ASSUME NEW p \in a..b - 1 PROVE (t \o u)[Rank(T, p)] = bytes[p]
  <2>1. Rank(T, p) = Cardinality(S) + (p - a + 1)
    BY <1>3
  <2> HIDE DEF T
  <2>2. Rank(T, p) \in 1..Len(t) + Len(u) /\ ~(Rank(T, p) <= Len(t))
        /\ Rank(T, p) - Len(t) = p - a + 1
    BY <1>1, <2>1
  <2> QED BY <1>2, <2>2
<1>6. Len(t \o u) = Cardinality(T)
  BY <1>1, <1>2, <1>3
<1> QED BY <1>4, <1>5, <1>6 DEF Spells

\* What is anywhere in a text is at one of the positions it spells.
LEMMA SpellsAll ==
  ASSUME NEW n \in Nat, NEW S \in SUBSET (1..n), NEW bytes, NEW A, NEW text \in Seq(A),
         Spells(text, S, bytes), NEW C
  PROVE  (\E i \in DOMAIN text : text[i] \in C) <=> (\E p \in S : bytes[p] \in C)
  <1>1. DOMAIN text = 1..Cardinality(S)
    BY DEF Spells
  <1>2. ASSUME NEW i \in DOMAIN text PROVE \E p \in S : text[i] = bytes[p]
    <2>1. i \in 1..Cardinality(S)
      BY <1>1
    <2>2. PICK p \in S : Rank(S, p) = i
      BY <2>1, RankOnto
    <2> QED BY <2>2 DEF Spells
  <1>3. ASSUME NEW p \in S PROVE \E i \in DOMAIN text : text[i] = bytes[p]
    BY <1>1, RankType DEF Spells
  <1> QED BY <1>2, <1>3

-----------------------------------------------------------------------------
(* The lines of a stream.                                                  *)

\* A line is a set of positions before its end.
LEMMA LineInside ==
  ASSUME NEW s, NEW e \in Nat \ {0}
  PROVE  /\ Line(s, e) \in SUBSET (1..e - 1) /\ e - 1 \in Nat
         /\ Cardinality(Line(s, e)) \in Nat /\ (Line(s, e) = {} <=> Cardinality(Line(s, e)) = 0)
<1>1. Line(s, e) \in SUBSET (1..e - 1) /\ e - 1 \in Nat
  BY DEF Line
<1> QED BY <1>1, Positions

\* The ends of lines within n bytes are among them.
LEMMA EndsInside ==
  ASSUME NEW s, NEW n \in Nat
  PROVE  Ends(s, n) \in SUBSET (1..n)
BY DEF Ends

\* After a terminator, and at the start, there is no line yet.
LEMMA LineStart ==
  ASSUME NEW s, NEW a \in Nat \ {0}, a = 1 \/ s[a - 1] \in Terminators
  PROVE  Line(s, a) = {}
BY DEF Line

\* The bytes up to the next terminator join the line, and no line ends there.
LEMMA LineGrows ==
  ASSUME NEW s, NEW a \in Nat \ {0}, NEW b \in Nat, a <= b,
         \A i \in a..b - 1 : s[i] \notin Terminators
  PROVE  Line(s, b) = Line(s, a) \cup a..b - 1 /\ Ends(s, b - 1) = Ends(s, a - 1)
<1>1. ASSUME NEW p \in Line(s, a) PROVE p \in Line(s, b)
  BY DEF Line
<1>2. ASSUME NEW p \in a..b - 1 PROVE p \in Line(s, b)
  BY DEF Line
<1>3. ASSUME NEW p \in Line(s, b), p \notin a..b - 1 PROVE p \in Line(s, a)
  BY <1>3 DEF Line
<1>4. ASSUME NEW p \in Ends(s, b - 1) PROVE p \in Ends(s, a - 1)
  BY DEF Ends, IsEnd, Terminators
<1>5. ASSUME NEW p \in Ends(s, a - 1) PROVE p \in Ends(s, b - 1)
  BY DEF Ends
<1> QED BY <1>1, <1>2, <1>3, <1>4, <1>5

\* The end of a line comes after those before it.
LEMMA EndsNext ==
  ASSUME NEW s, NEW e \in Nat \ {0}
  PROVE  Ends(s, e) = Ends(s, e - 1) \cup {d \in {e} : IsEnd(s, d)}
<1>1. ASSUME NEW p \in Ends(s, e) PROVE p \in Ends(s, e - 1) \cup {d \in {e} : IsEnd(s, d)}
  <2>1. p \in 1..e /\ IsEnd(s, p)
    BY DEF Ends
  <2>2. CASE p = e
    BY <2>1, <2>2
  <2>3. CASE p # e
    <3>1. p \in 1..e - 1
      BY <2>1, <2>3
    <3> QED BY <2>1, <3>1 DEF Ends
  <2> QED BY <2>2, <2>3
<1>2. ASSUME NEW p \in Ends(s, e - 1) PROVE p \in Ends(s, e)
  BY DEF Ends
<1>3. IsEnd(s, e) => e \in Ends(s, e)
  BY DEF Ends
<1> QED BY <1>1, <1>2, <1>3

-----------------------------------------------------------------------------
(* readStdioLines.                                                         *)

Chars == Symbols \cup {"NL", "null"}

\* What is yielded for the line that ends at e.
FrameOf(s, frame, e) ==
  IF Cardinality(Line(s, e)) > MaxMessage THEN frame = Overlong
  ELSE Spells(frame, Line(s, e), s)

\* What was yielded is what the lines with the ends E call for.
Framed(s, E, out) ==
  Len(out) = Cardinality(E) /\ \A e \in E : FrameOf(s, out[Rank(E, e)], e)

\* One more frame for one more end of a line.
LEMMA FramedMore ==
  ASSUME NEW s, NEW n \in Nat, NEW E \in SUBSET (1..n), NEW e \in Nat, \A p \in E : p < e,
         NEW out \in Seq(Seq(Chars)), NEW frame \in Seq(Chars),
         Framed(s, E, out), FrameOf(s, frame, e)
  PROVE  Framed(s, E \cup {e}, Append(out, frame))
<1>1. Cardinality(E) \in Nat /\ Len(out) = Cardinality(E)
  BY Positions DEF Framed
<1>2. /\ Len(Append(out, frame)) = Len(out) + 1
      /\ \A i \in 1..Len(out) : Append(out, frame)[i] = out[i]
      /\ Append(out, frame)[Len(out) + 1] = frame
  BY AppendProperties
<1>3. /\ Cardinality(E \cup {e}) = Cardinality(E) + 1
      /\ Rank(E \cup {e}, e) = Cardinality(E) + 1
      /\ \A p \in E : Rank(E \cup {e}, p) = Rank(E, p)
  BY RankLast
<1>4. ASSUME NEW p \in E PROVE FrameOf(s, Append(out, frame)[Rank(E \cup {e}, p)], p)
  <2>1. Rank(E, p) \in 1..Len(out)
    BY <1>1, RankType
  <2>2. FrameOf(s, out[Rank(E, p)], p)
    BY DEF Framed
  <2> QED BY <1>2, <1>3, <2>1, <2>2
<1>5. FrameOf(s, Append(out, frame)[Rank(E \cup {e}, e)], e)
  BY <1>1, <1>2, <1>3
<1>6. Len(Append(out, frame)) = Cardinality(E \cup {e})
  BY <1>1, <1>2, <1>3
<1> QED BY <1>4, <1>5, <1>6 DEF Framed

\* The line so far, that goes on at position a: its bytes, or that they were
\* too many, which was said already.
Reading(s, a, text, discarding, out) ==
  /\ discarding = "yes" <=> Cardinality(Line(s, a)) > MaxMessage
  /\ discarding = "no" => Spells(text, Line(s, a), s) /\ Framed(s, Ends(s, a - 1), out)
  /\ discarding = "yes" =>
       \E o \in Seq(Seq(Chars)) : out = Append(o, Overlong) /\ Framed(s, Ends(s, a - 1), o)

\* append takes the bytes up to the next end, or to the end of the chunk.
LEMMA BufferedReads ==
  ASSUME NEW s \in Seq(Symbols), NEW a \in Nat \ {0}, NEW b \in Nat, a <= b, b <= Len(s) + 1,
         \A i \in a..b - 1 : s[i] \notin Terminators,
         NEW r \in Readers, NEW out \in Seq(Seq(Chars)),
         Reading(s, a, r.text, r.discarding, out)
  PROVE  \E text \in Seq(Symbols), discarding \in {"yes", "no"}, more \in Seq(Seq(Chars)) :
           /\ Buffered([r |-> r, out |-> <<>>], SubSeq(s, a, b - 1))
                = [r |-> [r EXCEPT !.text = text, !.discarding = discarding], out |-> more]
           /\ Reading(s, b, text, discarding, out \o more)
<1> DEFINE w == SubSeq(s, a, b - 1)
           now == [r |-> r, out |-> <<>>]
<1>1. /\ Line(s, a) \in SUBSET (1..a - 1) /\ a - 1 \in Nat
      /\ Cardinality(Line(s, a)) \in Nat
      /\ Line(s, b) = Line(s, a) \cup (a..b - 1) /\ Ends(s, b - 1) = Ends(s, a - 1)
  <2> HIDE DEF w, now
  <2>1. Line(s, a) \in SUBSET (1..a - 1) /\ a - 1 \in Nat /\ Cardinality(Line(s, a)) \in Nat
    BY LineInside
  <2>2. Line(s, b) = Line(s, a) \cup (a..b - 1) /\ Ends(s, b - 1) = Ends(s, a - 1)
    BY LineGrows
  <2> QED BY <2>1, <2>2
<1>2. Cardinality(Line(s, b)) = Cardinality(Line(s, a)) + (b - a)
  <2>1. Cardinality(Line(s, a) \cup (a..b - 1)) = Cardinality(Line(s, a)) + (b - a)
    BY <1>1, RankBlock
  <2> QED BY <1>1, <2>1
<1>3. w \in Seq(Symbols) /\ Len(w) = b - a /\ \A p \in a..b - 1 : w[p - a + 1] = s[p]
  <2>1. w \in Seq(Symbols)
    BY Part
  <2>2. Len(w) = b - a
    BY Part
  <2>3. \A p \in a..b - 1 : w[p - a + 1] = s[p]
    BY Part
  <2> QED BY <2>1, <2>2, <2>3
<1>4. r.text \in Seq(Symbols) /\ r.discarding \in {"yes", "no"} /\ MaxMessage \in Nat
  BY FramingAssumption DEF Readers
<1>5. out \o <<>> = out
  BY ConcatEmptySeq
<1> HIDE DEF w
<1>6. CASE r.discarding = "yes"
  <2>1. Buffered(now, w) = [r |-> r, out |-> <<>>]
    BY <1>6 DEF Buffered
  <2>2. r = [r EXCEPT !.text = r.text, !.discarding = r.discarding]
    BY DEF Readers
  <2>3. Reading(s, b, r.text, r.discarding, out \o <<>>)
    BY <1>1, <1>2, <1>4, <1>5, <1>6 DEF Reading
  <2>4. <<>> \in Seq(Seq(Chars))
    BY EmptySeq
  <2> QED BY <1>4, <2>1, <2>2, <2>3, <2>4 DEF w
<1>7. CASE r.discarding = "no"
  <2>1. Spells(r.text, Line(s, a), s) /\ Framed(s, Ends(s, a - 1), out)
        /\ Cardinality(Line(s, a)) <= MaxMessage
    BY <1>1, <1>4, <1>7 DEF Reading
  <2>2. Len(r.text) = Cardinality(Line(s, a))
    BY <2>1 DEF Spells
  <2>3. CASE Len(r.text) + Len(w) > MaxMessage
    <3>1. Buffered(now, w) = [r |-> [r EXCEPT !.text = <<>>, !.discarding = "yes"],
                              out |-> Append(<<>>, Overlong)]
      BY <1>7, <2>3 DEF Buffered
    <3>2. Overlong \in Seq(Chars) /\ Append(<<>>, Overlong) = <<Overlong>>
          /\ <<Overlong>> \in Seq(Seq(Chars)) /\ <<>> \in Seq(Symbols)
      BY DEF Overlong, Chars
    <3>3. out \o <<Overlong>> = Append(out, Overlong)
      BY <3>2, AppendIsConcat
    <3>4. Reading(s, b, <<>>, "yes", out \o <<Overlong>>)
      BY <1>1, <1>2, <1>3, <2>1, <2>2, <2>3, <3>3 DEF Reading
    <3> QED BY <3>1, <3>2, <3>4 DEF w
  <2>4. CASE ~(Len(r.text) + Len(w) > MaxMessage)
    <3>1. Buffered(now, w) = [r |-> [r EXCEPT !.text = r.text \o w], out |-> <<>>]
      BY <1>7, <2>4 DEF Buffered
    <3>2. [r EXCEPT !.text = r.text \o w] = [r EXCEPT !.text = r.text \o w, !.discarding = "no"]
      BY <1>7 DEF Readers
    <3>3. r.text \o w \in Seq(Symbols)
      BY <1>3, <1>4, ConcatProperties
    <3>4. Spells(r.text \o w, Line(s, b), s)
      <4>1. Spells(r.text \o w, Line(s, a) \cup (a..b - 1), s)
        BY <1>1, <1>3, <1>4, <2>1, SpellsMore
      <4> QED BY <1>1, <4>1
    <3>5. Reading(s, b, r.text \o w, "no", out \o <<>>)
      BY <1>1, <1>2, <1>3, <1>4, <1>5, <2>1, <2>2, <2>4, <3>4 DEF Reading
    <3>6. <<>> \in Seq(Seq(Chars))
      BY EmptySeq
    <3> QED BY <3>1, <3>2, <3>3, <3>5, <3>6 DEF w
  <2> QED BY <2>3, <2>4
<1> QED BY <1>4, <1>6, <1>7

\* A CR before position a is one whose LF, if there is one, was skipped or will be.
Between(s, n, a, skipLF) ==
  /\ skipLF = "yes" => a = n + 1 /\ n >= 1 /\ s[n] = "CR"
  /\ a > 1 /\ s[a - 1] = "CR" => skipLF = "yes" \/ (a <= n /\ s[a] # "LF")

StdioAt(s, n, r, out) ==
  /\ r.from \in 1..n + 1 /\ Between(s, n, r.from, r.skipLF)
  /\ Reading(s, r.from, r.text, r.discarding, out)

\* Nothing is known of a line that has not begun.
LEMMA ReadingNone ==
  ASSUME NEW s, NEW a \in Nat \ {0}, Line(s, a) = {}, NEW out, Framed(s, Ends(s, a - 1), out)
  PROVE  Reading(s, a, <<>>, "no", out)
<1>1. Cardinality({}) = 0 /\ MaxMessage \in Nat
  BY FS_EmptySet, FramingAssumption
<1>2. Spells(<<>>, {}, s)
  BY <1>1 DEF Spells
<1> QED BY <1>1, <1>2 DEF Reading

\* A new chunk: of a CRLF in two chunks the LF is skipped.
\* All that came was read, and a chunk more comes.
StdioWaits(s, n, r, out) == StdioAt(s, n, r, out) /\ r.from = n + 1
StdioBegun(s, n, r) ==
  [r EXCEPT !.phase = "working", !.skipLF = "no",
            !.from = IF r.skipLF = "yes" /\ s[n + 1] = "LF" THEN @ + 1 ELSE @]

\* A chunk that starts with the LF of a CRLF starts behind it.
LEMMA StdioChunkAt ==
  ASSUME NEW s \in Seq(Symbols), NEW n \in Nat, NEW to \in n + 1..Len(s),
         NEW r \in Readers, NEW out, StdioWaits(s, n, r, out), NEW c, c = StdioBegun(s, n, r)
  PROVE  c \in Readers /\ c.phase = "working" /\ StdioAt(s, to, c, out)
<1>0. /\ StdioAt(s, n, r, out) /\ r.from = n + 1
      /\ c = [r EXCEPT !.phase = "working", !.skipLF = "no",
                       !.from = IF r.skipLF = "yes" /\ s[n + 1] = "LF" THEN @ + 1 ELSE @]
  BY DEF StdioWaits, StdioBegun
<1>1. Len(s) \in Nat /\ to \in Nat /\ n < to
  BY LenProperties
<1>2. /\ c.phase = "working" /\ c.skipLF = "no" /\ c.text = r.text
      /\ c.discarding = r.discarding
      /\ c.from = IF r.skipLF = "yes" /\ s[n + 1] = "LF" THEN n + 2 ELSE n + 1
  BY <1>0 DEF Readers
<1>3. c \in Readers
  <2> DEFINE f == IF r.skipLF = "yes" /\ s[n + 1] = "LF" THEN r.from + 1 ELSE r.from
  <2>1. c = [r EXCEPT !.phase = "working", !.skipLF = "no", !.from = f]
    BY <1>0, <1>0
  <2>2. f \in Nat \ {0}
    BY <1>0, <1>1
  <2> HIDE DEF f
  <2> QED BY <1>0, <2>1, <2>2 DEF Readers
<1>4. CASE r.skipLF = "yes" /\ s[n + 1] = "LF"
  <2>1. n >= 1 /\ s[n] = "CR" /\ n + 1 \in Nat \ {0} /\ n + 2 \in Nat \ {0}
        /\ (n + 1) - 1 = n /\ (n + 2) - 1 = n + 1
    BY <1>0, <1>4 DEF StdioAt, Between
  <2>2. Line(s, n + 1) = {} /\ Line(s, n + 2) = {}
    <3>1. s[(n + 1) - 1] \in Terminators /\ s[(n + 2) - 1] \in Terminators
      BY <1>0, <1>4, <2>1 DEF Terminators
    <3> QED BY <1>0, <2>1, <3>1, LineStart
  <2>3. Ends(s, n + 1) = Ends(s, n)
    <3>1. ~IsEnd(s, n + 1)
      BY <1>0, <1>4, <2>1 DEF IsEnd
    <3>2. Ends(s, n + 1) = Ends(s, (n + 1) - 1) \cup {d \in {n + 1} : IsEnd(s, d)}
      BY <1>0, <2>1, EndsNext
    <3> QED BY <1>0, <2>1, <3>1, <3>2
  <2>4. Reading(s, n + 1, r.text, r.discarding, out)
    BY <1>0 DEF StdioAt
  <2>5. Reading(s, n + 2, r.text, r.discarding, out)
    BY <1>0, <2>1, <2>2, <2>3, <2>4 DEF Reading
  <2>6. Between(s, to, n + 2, "no")
    BY <1>0, <1>4, <2>1 DEF Between
  <2>7. n + 2 \in 1..to + 1
    BY <1>0, <1>1
  <2> QED BY <1>0, <1>2, <1>3, <1>4, <2>5, <2>6, <2>7 DEF StdioAt
<1>5. CASE ~(r.skipLF = "yes" /\ s[n + 1] = "LF")
  <2>1. Between(s, to, n + 1, "no")
    BY <1>0, <1>1, <1>5 DEF StdioAt, Between
  <2>2. n + 1 \in 1..to + 1
    BY <1>0, <1>1
  <2> QED BY <1>0, <1>2, <1>3, <1>5, <2>1, <2>2 DEF StdioAt
<1> QED BY <1>0, <1>4, <1>5

\* A line is yielded at its end, unless it was already.
LEMMA LineEnds ==
  ASSUME NEW s, NEW e \in Nat \ {0}, IsEnd(s, e), NEW text \in Seq(Chars),
         NEW discarding \in {"yes", "no"}, NEW out \in Seq(Seq(Chars)),
         Reading(s, e, text, discarding, out)
  PROVE  Framed(s, Ends(s, e), IF discarding = "yes" THEN out ELSE Append(out, text))
<1>1. /\ e - 1 \in Nat /\ Ends(s, e - 1) \in SUBSET (1..e - 1)
      /\ Ends(s, e) = Ends(s, e - 1) \cup {e}
  <2>1. e - 1 \in Nat
    OBVIOUS
  <2>2. Ends(s, e) = Ends(s, e - 1) \cup {d \in {e} : IsEnd(s, d)}
    BY EndsNext
  <2> QED BY <2>1, <2>2, EndsInside
<1>2. \A p \in Ends(s, e - 1) : p < e
  BY <1>1
<1>3. ASSUME NEW o \in Seq(Seq(Chars)), NEW frame \in Seq(Chars),
             Framed(s, Ends(s, e - 1), o), FrameOf(s, frame, e)
      PROVE  Framed(s, Ends(s, e), Append(o, frame))
  <2>1. Framed(s, Ends(s, e - 1) \cup {e}, Append(o, frame))
    BY <1>1, <1>2, <1>3, FramedMore
  <2> QED BY <1>1, <2>1
<1>4. CASE discarding = "yes"
  <2>1. PICK o \in Seq(Seq(Chars)) : out = Append(o, Overlong) /\ Framed(s, Ends(s, e - 1), o)
    BY <1>4 DEF Reading
  <2>2. Overlong \in Seq(Chars)
    BY DEF Overlong, Chars
  <2>3. FrameOf(s, Overlong, e)
    BY <1>4 DEF FrameOf, Reading
  <2> QED BY <1>3, <1>4, <2>1, <2>2, <2>3
<1>5. CASE discarding = "no"
  <2>1. FrameOf(s, text, e) /\ Framed(s, Ends(s, e - 1), out)
    BY <1>5 DEF FrameOf, Reading
  <2> QED BY <1>3, <1>5, <2>1
<1> QED BY <1>4, <1>5

\* A CRLF that has come whole is one terminator.
LEMMA AfterEndAt ==
  ASSUME NEW s, NEW n \in Nat, NEW e \in 1..n, s[e] \in Terminators
  PROVE  /\ AfterEnd(s, e, n) \in e + 1..n + 1 /\ AfterEnd(s, e, n) \in Nat \ {0}
         /\ Line(s, AfterEnd(s, e, n)) = {} /\ Ends(s, AfterEnd(s, e, n) - 1) = Ends(s, e)
         /\ Between(s, n, AfterEnd(s, e, n), IF s[e] = "CR" /\ e = n THEN "yes" ELSE "no")
<1>1. CASE s[e] = "CR" /\ e < n /\ s[e + 1] = "LF"
  <2>1. AfterEnd(s, e, n) = e + 2 /\ e + 2 \in Nat \ {0} /\ (e + 2) - 1 = e + 1
        /\ e + 1 \in Nat \ {0} /\ (e + 1) - 1 = e /\ e + 2 \in e + 1..n + 1 /\ e # n /\ e + 1 > 1
    BY <1>1 DEF AfterEnd
  <2>2. Line(s, e + 2) = {}
    <3>1. s[(e + 2) - 1] \in Terminators
      BY <1>1, <2>1 DEF Terminators
    <3> QED BY <2>1, <3>1, LineStart
  <2>3. Ends(s, e + 1) = Ends(s, e)
    <3>1. ~IsEnd(s, e + 1)
      BY <1>1, <2>1 DEF IsEnd
    <3>2. Ends(s, e + 1) = Ends(s, (e + 1) - 1) \cup {d \in {e + 1} : IsEnd(s, d)}
      BY <2>1, EndsNext
    <3> QED BY <2>1, <3>1, <3>2
  <2>4. Between(s, n, e + 2, "no")
    BY <1>1, <2>1 DEF Between
  <2> QED BY <1>1, <2>1, <2>2, <2>3, <2>4
<1>2. CASE ~(s[e] = "CR" /\ e < n /\ s[e + 1] = "LF")
  <2>1. AfterEnd(s, e, n) = e + 1 /\ e + 1 \in Nat \ {0} /\ (e + 1) - 1 = e /\ e + 1 \in e + 1..n + 1
    BY <1>2 DEF AfterEnd
  <2>2. Line(s, e + 1) = {}
    BY <2>1, LineStart
  <2>3. Between(s, n, e + 1, IF s[e] = "CR" /\ e = n THEN "yes" ELSE "no")
    BY <1>2, <2>1 DEF Between
  <2> QED BY <2>1, <2>2, <2>3
<1> QED BY <1>1, <1>2

\* The first terminator from a on ends a line, unless it is the LF of a CRLF.
LEMMA FirstEndAt ==
  ASSUME NEW s, NEW a \in Nat \ {0}, NEW e \in Nat, FirstEnd(s, a, e),
         (a > 1 /\ s[a - 1] = "CR") => s[a] # "LF"
  PROVE  /\ a <= e /\ s[e] \in Terminators /\ \A i \in a..e - 1 : s[i] \notin Terminators
         /\ IsEnd(s, e)
<1>1. a <= e /\ s[e] \in Terminators /\ \A i \in a..e - 1 : s[i] \notin Terminators
  BY DEF FirstEnd
<1>2. CASE e = a
  BY <1>1, <1>2 DEF IsEnd, Terminators
<1>3. CASE e > a
  <2>1. e - 1 \in a..e - 1
    BY <1>3
  <2>2. s[e - 1] \notin Terminators
    BY <1>1, <2>1
  <2> QED BY <1>1, <2>2 DEF IsEnd, Terminators
<1> QED BY <1>1, <1>2, <1>3

\* EndOfLine, field by field.
LEMMA EndOfLineIs ==
  ASSUME NEW p, NEW more
  PROVE  /\ EndOfLine([r |-> p, out |-> more]).r = [p EXCEPT !.text = <<>>, !.discarding = "no"]
         /\ EndOfLine([r |-> p, out |-> more]).out
              = IF p.discarding = "yes" THEN more ELSE Append(more, p.text)
BY DEF EndOfLine

\* The fields of a reader,
LEMMA ReaderFields ==
  ASSUME NEW r \in Readers
  PROVE  /\ r.text \in Seq(Symbols) /\ r.from \in Nat \ {0} /\ r.discarding \in {"yes", "no"}
         /\ r.skipLF \in {"yes", "no"} /\ r.event \in Seq(Seq(Symbols \cup {"NL"}))
         /\ r.phase \in {"waiting", "working", "ended", "failed", "replied"}
BY DEF Readers

\* and those that a step of readStdioLines changes.
LEMMA ReaderWith ==
  ASSUME NEW r \in Readers, NEW phase \in {"waiting", "working", "ended", "failed", "replied"},
         NEW text \in Seq(Symbols), NEW from \in Nat \ {0}, NEW discarding \in {"yes", "no"},
         NEW skipLF \in {"yes", "no"}
  PROVE  /\ [r EXCEPT !.text = text, !.discarding = discarding, !.from = from, !.skipLF = skipLF]
              \in Readers
         /\ [r EXCEPT !.text = text, !.discarding = discarding, !.phase = phase, !.from = from]
              \in Readers
BY DEF Readers

\* Append and concatenation.
LEMMA Together ==
  ASSUME NEW A, NEW s \in Seq(A), NEW t \in Seq(A), NEW x \in A
  PROVE  s \o Append(t, x) = Append(s \o t, x)
<1>1. Append(t, x) = t \o <<x>> /\ s \o t \in Seq(A) /\ <<x>> \in Seq(A)
  BY AppendIsConcat, ConcatProperties
<1>2. Append(s \o t, x) = (s \o t) \o <<x>>
  BY <1>1, AppendIsConcat
<1>3. (s \o t) \o <<x>> = s \o (t \o <<x>>)
  BY <1>1, ConcatAssociative
<1> QED BY <1>1, <1>2, <1>3

\* A round of the loop over a chunk: a line ends in it.
LEMMA StdioLineAt ==
  ASSUME NEW s \in Seq(Symbols), NEW n \in Nat, n <= Len(s), NEW r \in Readers,
         NEW out \in Seq(Seq(Chars)), StdioAt(s, n, r, out),
         NEW e \in r.from..n, FirstEnd(s, r.from, e)
  PROVE  LET x == EndOfLine(Buffered([r |-> r, out |-> <<>>], SubSeq(s, r.from, e - 1)))
             skip == IF s[e] = "CR" /\ e = n THEN "yes" ELSE "no"
             y == [x.r EXCEPT !.from = AfterEnd(s, e, n), !.skipLF = skip]
         IN  /\ y \in Readers /\ x.out \in Seq(Seq(Chars)) /\ y.phase = r.phase
             /\ StdioAt(s, n, y, out \o x.out)
<1> DEFINE f == AfterEnd(s, e, n)
           skip == IF s[e] = "CR" /\ e = n THEN "yes" ELSE "no"
<1>1. PICK a \in Nat \ {0} : a = r.from
  BY ReaderFields
<1>2. /\ Len(s) \in Nat /\ e \in Nat \ {0} /\ e \in 1..n /\ e <= Len(s) + 1 /\ a <= e /\ a <= n
  <2>1. Len(s) \in Nat
    BY LenProperties
  <2> QED BY <1>1, <2>1
<1>3. Reading(s, a, r.text, r.discarding, out) /\ Between(s, n, a, r.skipLF)
  BY <1>1 DEF StdioAt
<1>4. /\ s[e] \in Terminators /\ \A i \in a..e - 1 : s[i] \notin Terminators
      /\ IsEnd(s, e)
  <2>1. (a > 1 /\ s[a - 1] = "CR") => s[a] # "LF"
    BY <1>2, <1>3 DEF Between
  <2>2. FirstEnd(s, a, e)
    BY <1>1
  <2> QED BY <1>2, <2>1, <2>2, FirstEndAt
<1>5. PICK text \in Seq(Symbols), discarding \in {"yes", "no"}, more \in Seq(Seq(Chars)) :
        /\ Buffered([r |-> r, out |-> <<>>], SubSeq(s, a, e - 1))
             = [r |-> [r EXCEPT !.text = text, !.discarding = discarding], out |-> more]
        /\ Reading(s, e, text, discarding, out \o more)
  <2>1. e \in Nat /\ a <= e /\ e <= Len(s) + 1
    BY <1>2
  <2>2. \A i \in a..e - 1 : s[i] \notin Terminators
    BY <1>4
  <2> HIDE DEF f, skip
  <2> QED BY <1>3, <2>1, <2>2, BufferedReads
<1> DEFINE all == IF discarding = "yes" THEN more ELSE Append(more, text)
           q == [r EXCEPT !.text = <<>>, !.discarding = "no", !.from = f, !.skipLF = skip]
           x == EndOfLine(Buffered([r |-> r, out |-> <<>>], SubSeq(s, a, e - 1)))
<1>6. text \in Seq(Chars) /\ out \o more \in Seq(Seq(Chars)) /\ all \in Seq(Seq(Chars))
      /\ out \o all = IF discarding = "yes" THEN out \o more ELSE Append(out \o more, text)
  <2>1. text \in Seq(Chars)
    BY SeqMonotonic DEF Chars
  <2>2. out \o more \in Seq(Seq(Chars))
    BY ConcatProperties
  <2>3. Append(more, text) \in Seq(Seq(Chars))
    BY <2>1, AppendProperties
  <2>4. out \o Append(more, text) = Append(out \o more, text)
    BY <2>1, Together
  <2> QED BY <2>1, <2>2, <2>3, <2>4
<1>7. Framed(s, Ends(s, e), out \o all)
  BY <1>2, <1>4, <1>5, <1>6, LineEnds
<1>8. /\ f \in e + 1..n + 1 /\ f \in Nat \ {0}
      /\ Line(s, f) = {} /\ Ends(s, f - 1) = Ends(s, e)
      /\ Between(s, n, f, skip)
  BY <1>2, <1>4, AfterEndAt
<1>9. [x.r EXCEPT !.from = f, !.skipLF = skip] = q /\ x.out = all
  <2>1. PICK p : p = [r EXCEPT !.text = text, !.discarding = discarding]
    OBVIOUS
  <2>2. x = EndOfLine([r |-> p, out |-> more])
    BY <1>5, <2>1
  <2> HIDE DEF x, f, skip
  <2>3. /\ x.r = [p EXCEPT !.text = <<>>, !.discarding = "no"]
        /\ x.out = IF p.discarding = "yes" THEN more ELSE Append(more, p.text)
    BY <2>2, EndOfLineIs
  <2>4. p.text = text /\ p.discarding = discarding
    BY <2>1 DEF Readers
  <2>5. [x.r EXCEPT !.from = f, !.skipLF = skip] = q
    BY <2>1, <2>3 DEF Readers
  <2> QED BY <2>3, <2>4, <2>5
<1>10. skip \in {"yes", "no"} /\ <<>> \in Seq(Symbols)
  BY EmptySeq
<1>11. f \in 1..n + 1
  BY <1>2, <1>8
<1> HIDE DEF f, skip, all, x
<1>12. Reading(s, f, <<>>, "no", out \o all)
  BY <1>7, <1>8, ReadingNone
<1>13. q \in Readers
  BY <1>8, <1>10, ReaderWith
<1>14. q.phase = r.phase /\ q.text = <<>> /\ q.discarding = "no" /\ q.from = f /\ q.skipLF = skip
  BY DEF Readers
<1> HIDE DEF q
<1>15. StdioAt(s, n, q, out \o all)
  BY <1>8, <1>11, <1>12, <1>14 DEF StdioAt
<1> QED BY <1>1, <1>6, <1>9, <1>13, <1>14, <1>15 DEF f, skip, x

\* The rest of a chunk is the beginning of a line.
LEMMA StdioRestAt ==
  ASSUME NEW s \in Seq(Symbols), NEW n \in Nat, n <= Len(s), NEW r \in Readers,
         NEW out \in Seq(Seq(Chars)), StdioAt(s, n, r, out),
         \A i \in r.from..n : s[i] \notin Terminators
  PROVE  LET x == Buffered([r |-> r, out |-> <<>>], SubSeq(s, r.from, n))
             y == [x.r EXCEPT !.phase = "waiting", !.from = n + 1]
         IN  /\ y \in Readers /\ x.out \in Seq(Seq(Chars)) /\ y.phase = "waiting"
             /\ y.from = n + 1 /\ StdioAt(s, n, y, out \o x.out)
<1>1. PICK a \in Nat \ {0} : a = r.from
  BY ReaderFields
<1>2. PICK b \in Nat \ {0} : b = n + 1
  OBVIOUS
<1>3. /\ a <= b /\ b <= Len(s) + 1 /\ b - 1 = n /\ b \in 1..n + 1
  <2>1. Len(s) \in Nat
    BY LenProperties
  <2>2. a \in 1..n + 1
    BY <1>1 DEF StdioAt
  <2> QED BY <1>1, <1>2, <2>1, <2>2
<1>4. Reading(s, a, r.text, r.discarding, out) /\ Between(s, n, a, r.skipLF)
  BY <1>1 DEF StdioAt
<1>5. \A i \in a..b - 1 : s[i] \notin Terminators
  BY <1>1, <1>3
<1>6. PICK text \in Seq(Symbols), discarding \in {"yes", "no"}, more \in Seq(Seq(Chars)) :
        /\ Buffered([r |-> r, out |-> <<>>], SubSeq(s, a, b - 1))
             = [r |-> [r EXCEPT !.text = text, !.discarding = discarding], out |-> more]
        /\ Reading(s, b, text, discarding, out \o more)
  BY <1>3, <1>4, <1>5, BufferedReads
<1> DEFINE x == Buffered([r |-> r, out |-> <<>>], SubSeq(s, a, n))
           q == [r EXCEPT !.text = text, !.discarding = discarding, !.phase = "waiting",
                          !.from = b]
<1>7. x = [r |-> [r EXCEPT !.text = text, !.discarding = discarding], out |-> more]
  BY <1>3, <1>6
<1>8. Between(s, n, b, r.skipLF)
  BY <1>2, <1>4, <1>5, <1>3 DEF Between, Terminators
<1> HIDE DEF x
<1>9. [x.r EXCEPT !.phase = "waiting", !.from = b] = q /\ x.out = more
  BY <1>7 DEF Readers
<1>10. q \in Readers
  BY ReaderWith, ReaderFields
<1>11. q.phase = "waiting" /\ q.text = text /\ q.discarding = discarding /\ q.from = b
       /\ q.skipLF = r.skipLF
  BY DEF Readers
<1> HIDE DEF q
<1>12. StdioAt(s, n, q, out \o more)
  BY <1>3, <1>6, <1>8, <1>11 DEF StdioAt
<1> QED BY <1>1, <1>2, <1>9, <1>10, <1>11, <1>12 DEF x

\* Between two chunks, and after the last, what was yielded is what the stream says.
LEMMA StdioRecorded ==
  ASSUME NEW s \in Seq(Symbols), NEW n \in Nat, NEW r \in Readers,
         NEW out \in Seq(Seq(Chars)), StdioWaits(s, n, r, out)
  PROVE  /\ Framed(s, Lines(s, n, MaxMessage, FALSE), out)
         /\ LET more == IF r.discarding = "no" /\ r.text # <<>> THEN <<r.text>> ELSE <<>>
            IN  Framed(s, Lines(s, n, MaxMessage, TRUE), out \o more)
<1>1. /\ n + 1 \in Nat \ {0} /\ (n + 1) - 1 = n /\ Ends(s, n) \in SUBSET (1..n)
      /\ Cardinality(Line(s, n + 1)) \in Nat /\ MaxMessage \in Nat
      /\ (Line(s, n + 1) = {} <=> Cardinality(Line(s, n + 1)) = 0)
      /\ r.text \in Seq(Symbols) /\ r.discarding \in {"yes", "no"}
  BY LineInside, EndsInside, FramingAssumption DEF Readers
<1>2. Reading(s, n + 1, r.text, r.discarding, out)
  BY DEF StdioAt, StdioWaits
<1>3. \A p \in Ends(s, n) : p < n + 1
  BY <1>1
<1>4. ASSUME NEW o \in Seq(Seq(Chars)), NEW frame \in Seq(Chars),
             Framed(s, Ends(s, n), o), FrameOf(s, frame, n + 1)
      PROVE  Framed(s, Ends(s, n) \cup {n + 1}, Append(o, frame))
  BY <1>1, <1>3, <1>4, FramedMore
<1>5. out \o <<>> = out
  BY ConcatEmptySeq
<1>6. CASE r.discarding = "yes"
  <2>1. PICK o \in Seq(Seq(Chars)) : out = Append(o, Overlong) /\ Framed(s, Ends(s, n), o)
    BY <1>1, <1>2, <1>6 DEF Reading
  <2>2. Overlong \in Seq(Chars)
    BY DEF Overlong, Chars
  <2>3. Cardinality(Line(s, n + 1)) > MaxMessage
    BY <1>2, <1>6 DEF Reading
  <2>4. FrameOf(s, Overlong, n + 1)
    BY <2>3 DEF FrameOf
  <2>5. \A done \in BOOLEAN : Lines(s, n, MaxMessage, done) = Ends(s, n) \cup {n + 1}
    BY <2>3 DEF Lines
  <2> QED BY <1>4, <1>5, <1>6, <2>1, <2>2, <2>4, <2>5
<1>7. CASE r.discarding = "no"
  <2>1. Spells(r.text, Line(s, n + 1), s) /\ Framed(s, Ends(s, n), out)
        /\ ~(Cardinality(Line(s, n + 1)) > MaxMessage)
    BY <1>1, <1>2, <1>7 DEF Reading
  <2>2. Lines(s, n, MaxMessage, FALSE) = Ends(s, n)
    BY <2>1 DEF Lines
  <2>3. Len(r.text) = Cardinality(Line(s, n + 1))
    BY <2>1 DEF Spells
  <2>4. CASE r.text = <<>>
    <3>1. Line(s, n + 1) = {}
      BY <1>1, <2>3, <2>4
    <3>2. Lines(s, n, MaxMessage, TRUE) = Ends(s, n)
      BY <2>1, <3>1 DEF Lines
    <3> QED BY <1>5, <2>1, <2>2, <2>4, <3>2
  <2>5. CASE r.text # <<>>
    <3>1. Line(s, n + 1) # {}
      BY <1>1, <2>3, <2>5, EmptySeq
    <3>2. Lines(s, n, MaxMessage, TRUE) = Ends(s, n) \cup {n + 1}
      BY <2>1, <3>1 DEF Lines
    <3>3. r.text \in Seq(Chars)
      BY <1>1, SeqMonotonic DEF Chars
    <3>4. FrameOf(s, r.text, n + 1)
      BY <2>1 DEF FrameOf
    <3>5. Append(out, r.text) = out \o <<r.text>>
      BY <3>3, AppendIsConcat
    <3> QED BY <1>4, <1>7, <2>1, <2>2, <2>5, <3>2, <3>3, <3>4, <3>5
  <2> QED BY <2>4, <2>5
<1> QED BY <1>1, <1>6, <1>7

-----------------------------------------------------------------------------
(* readMessages on a stream of events.  The lines read so far have the     *)
(* ends B, the last of them before position c + 1.                         *)

\* The data lines of the event that goes on after the lines B.
Open(s, B) == {d \in B : IsData(s, d) /\ \A b \in B : b > d => Line(s, b) # {}}
Completed(s, B) == {e \in B : Completes(s, e)}

\* The bytes of an event are those of its data lines.
EventIs(s, lines, event) ==
  /\ lines = {} => event = <<>>
  /\ lines # {} => /\ Len(event) = 1 /\ Spells(event[1], Data(s, lines), Joined(s))
                   /\ Cardinality(Data(s, lines)) <= MaxMessage

Emitted(s, E, out) ==
  Len(out) = Cardinality(E) /\ \A e \in E : Spells(out[Rank(E, e)], Payload(s, e), Joined(s))

\* The line that ends at e starts at c + 1, after a terminator.
LineFrom(s, c, e) ==
  /\ c < e /\ e <= Len(s) + 1 /\ (c = 0 \/ s[c] \in Terminators)
  /\ \A i \in c + 1..e - 1 : s[i] \notin Terminators

\* The line from c + 1 to e, its positions and what came before it.
LEMMA LineFromIs ==
  ASSUME NEW s, NEW c \in Nat, NEW e \in Nat, LineFrom(s, c, e)
  PROVE  /\ Line(s, e) = c + 1..e - 1 /\ Cardinality(Line(s, e)) = e - c - 1
         /\ Ends(s, e - 1) = Ends(s, c)
         /\ \A p \in Line(s, e) : Opens(s, p) <=> p = c + 1
         /\ IsData(s, e) <=> (c + 1 < e /\ s[c + 1] = "d")
<1>1. PICK a \in Nat \ {0} : a = c + 1
  OBVIOUS
<1>2. a <= e /\ a - 1 = c /\ \A i \in a..e - 1 : s[i] \notin Terminators
  BY <1>1 DEF LineFrom
<1>3. Line(s, a) = {}
  BY <1>1, <1>2, LineStart DEF LineFrom
<1>4. Line(s, e) = Line(s, a) \cup (a..e - 1) /\ Ends(s, e - 1) = Ends(s, a - 1)
  BY <1>2, LineGrows
<1>5. Cardinality(a..e - 1) = e - a
  BY <1>2, Interval
<1>6. ASSUME NEW p \in a..e - 1 PROVE Opens(s, p) <=> p = a
  <2>1. CASE p = a
    BY <1>1, <1>2, <2>1 DEF Opens, LineFrom
  <2>2. CASE p > a
    <3>1. p - 1 \in a..e - 1 /\ p # 1
      BY <2>2
    <3> QED BY <1>2, <2>2, <3>1 DEF Opens
  <2> QED BY <2>1, <2>2
<1>7. Line(s, e) = a..e - 1
  BY <1>3, <1>4
<1>8. IsData(s, e) <=> (a < e /\ s[a] = "d")
  <2>1. ASSUME IsData(s, e) PROVE a < e /\ s[a] = "d"
    BY <1>6, <1>7, <2>1 DEF IsData
  <2>2. ASSUME a < e, s[a] = "d" PROVE IsData(s, e)
    <3>1. a \in a..e - 1
      BY <2>2
    <3> QED BY <1>6, <1>7, <2>2, <3>1 DEF IsData
  <2> QED BY <2>1, <2>2
<1>9. e - a = e - c - 1
  BY <1>1
<1> QED BY <1>1, <1>2, <1>4, <1>5, <1>6, <1>7, <1>8, <1>9

\* A data line is not empty.
LEMMA DataLine ==
  ASSUME NEW s, NEW c \in Nat, NEW e \in Nat, LineFrom(s, c, e), IsData(s, e)
  PROVE  Line(s, e) = c + 1..e - 1 /\ c + 1 < e
BY LineFromIs

\* Reading the line at e, its event are the data lines before and it, if it has data.
LEMMA EventNext ==
  ASSUME NEW s, NEW c \in Nat, NEW e \in Nat, LineFrom(s, c, e)
  PROVE  Event(s, e) = Open(s, Ends(s, c)) \cup {d \in {e} : IsData(s, d)}
<1>1. Ends(s, e - 1) = Ends(s, c) /\ e \in Nat \ {0} /\ c < e
  BY LineFromIs DEF LineFrom
<1>2. ASSUME NEW d \in Event(s, e), d # e PROVE d \in Open(s, Ends(s, c))
  <2>1. d \in 1..e - 1 /\ IsEnd(s, d) /\ IsData(s, d)
        /\ \A b \in d + 1..e - 1 : IsEnd(s, b) => Line(s, b) # {}
    BY <1>1, <1>2 DEF Event
  <2>2. d \in Ends(s, e - 1)
    BY <2>1 DEF Ends
  <2>3. ASSUME NEW b \in Ends(s, e - 1), b > d PROVE Line(s, b) # {}
    BY <2>1, <2>3 DEF Ends
  <2> QED BY <1>1, <2>1, <2>2, <2>3 DEF Open
<1>3. e \in Event(s, e) <=> IsData(s, e)
  BY <1>1 DEF Event
<1>4. ASSUME NEW d \in Open(s, Ends(s, c)) PROVE d \in Event(s, e)
  <2>1. d \in Ends(s, e - 1) /\ IsData(s, d) /\ \A b \in Ends(s, e - 1) : b > d => Line(s, b) # {}
    BY <1>1, <1>4 DEF Open
  <2>2. d \in 1..e - 1 /\ IsEnd(s, d)
    BY <2>1 DEF Ends
  <2>3. ASSUME NEW b \in d + 1..e - 1, IsEnd(s, b) PROVE Line(s, b) # {}
    <3>1. b \in Ends(s, e - 1) /\ b > d
      BY <2>2, <2>3 DEF Ends
    <3> QED BY <2>1, <3>1
  <2>4. d \in 1..e
    BY <1>1, <2>2
  <2> QED BY <2>1, <2>2, <2>3, <2>4 DEF Event
<1> QED BY <1>2, <1>3, <1>4

\* A blank line ends the event, and any other belongs to it.
LEMMA OpenNext ==
  ASSUME NEW s, NEW c \in Nat, NEW e \in Nat, LineFrom(s, c, e)
  PROVE  Open(s, Ends(s, c) \cup {e}) = IF Line(s, e) = {} THEN {} ELSE Event(s, e)
<1>1. \A b \in Ends(s, c) : b \in Nat /\ b < e
  BY DEF LineFrom, Ends
<1>2. Line(s, e) = {} => ~IsData(s, e)
  BY DEF IsData
<1>3. ASSUME NEW d \in Open(s, Ends(s, c) \cup {e})
      PROVE  Line(s, e) # {} /\ d \in Open(s, Ends(s, c)) \cup {b \in {e} : IsData(s, b)}
  <2>1. /\ d \in Ends(s, c) \cup {e} /\ IsData(s, d)
        /\ \A b \in Ends(s, c) \cup {e} : b > d => Line(s, b) # {}
    BY <1>3 DEF Open
  <2>2. CASE d = e
    BY <1>2, <2>1, <2>2
  <2>3. CASE d # e
    <3>1. d \in Ends(s, c) /\ e > d
      BY <1>1, <2>1, <2>3
    <3> QED BY <2>1, <3>1 DEF Open
  <2> QED BY <2>2, <2>3
<1>4. ASSUME Line(s, e) # {}, NEW d \in Open(s, Ends(s, c)) \cup {b \in {e} : IsData(s, b)}
      PROVE  d \in Open(s, Ends(s, c) \cup {e})
  <2>1. CASE d = e
    <3>1. IsData(s, e) /\ \A b \in Ends(s, c) \cup {e} : ~(b > e)
      BY <1>1, <1>4, <2>1 DEF Open, LineFrom
    <3> QED BY <2>1, <3>1 DEF Open
  <2>2. CASE d # e
    <3>1. d \in Ends(s, c) /\ IsData(s, d) /\ \A b \in Ends(s, c) : b > d => Line(s, b) # {}
      BY <1>4, <2>2 DEF Open
    <3> QED BY <1>4, <3>1 DEF Open
  <2> QED BY <2>1, <2>2
<1> QED BY <1>3, <1>4, EventNext

\* The fields of the lines up to c, and the payload, are before c.
LEMMA DataInside ==
  ASSUME NEW s, NEW n \in Nat, NEW lines \in SUBSET (1..n + 1)
  PROVE  /\ UNION {Line(s, d) : d \in lines} \in SUBSET (1..n)
         /\ Data(s, lines) \in SUBSET (1..n)
<1>1. ASSUME NEW d \in lines, NEW p \in Line(s, d) PROVE p \in 1..n
  BY DEF Line
<1> QED BY <1>1 DEF Data

\* Lines of the first c bytes that are not blank.
FullLines(s, c, lines) == lines \in SUBSET (1..c) /\ \A d \in lines : Line(s, d) # {}

\* The first data line of an event gives what follows its field name.
LEMMA DataFirst ==
  ASSUME NEW s, NEW c \in Nat, NEW e \in Nat, LineFrom(s, c, e), IsData(s, e)
  PROVE  Data(s, {e}) = c + 2..e - 1
<1> DEFINE G == UNION {Line(s, d) : d \in {e}}
<1>1. Line(s, e) = c + 1..e - 1 /\ c + 1 < e
  BY DataLine
<1>2. G = c + 1..e - 1
  BY <1>1
<1>3. Data(s, {e}) = {p \in G : \E q \in G : q < p}
  BY DEF Data
<1> HIDE DEF G
<1>4. ASSUME NEW p \in G, NEW q \in G, q < p PROVE p \in c + 2..e - 1
  BY <1>2, <1>4
<1>5. ASSUME NEW p \in c + 2..e - 1 PROVE p \in G /\ c + 1 \in G /\ c + 1 < p
  BY <1>2
<1> QED BY <1>3, <1>4, <1>5

\* Any other gives all of it, a newline for the field name.
LEMMA DataNext ==
  ASSUME NEW s, NEW c \in Nat, NEW e \in Nat, LineFrom(s, c, e), IsData(s, e),
         NEW lines, FullLines(s, c, lines), lines # {}
  PROVE  Data(s, lines \cup {e}) = Data(s, lines) \cup (c + 1..e - 1)
<1>1. Line(s, e) = c + 1..e - 1 /\ c + 1 < e
  BY DataLine
<1> DEFINE F == UNION {Line(s, d) : d \in lines}
           G == UNION {Line(s, d) : d \in lines \cup {e}}
<1>2. G = F \cup (c + 1..e - 1)
  BY <1>1
<1>3. \A p \in F : p \in 1..c
  <2>1. lines \in SUBSET (1..c + 1)
    BY DEF FullLines
  <2> QED BY <2>1, DataInside
<1>4. Data(s, lines \cup {e}) = {p \in G : \E q \in G : q < p}
      /\ Data(s, lines) = {p \in F : \E q \in F : q < p}
  BY DEF Data
<1>5. PICK o \in F : TRUE
  <2>1. PICK d \in lines : Line(s, d) # {}
    BY DEF FullLines
  <2> QED BY <2>1
<1> HIDE DEF F, G
<1>6. ASSUME NEW p \in G, NEW q \in G, q < p
      PROVE  p \in {i \in F : \E j \in F : j < i} \cup (c + 1..e - 1)
  <2>1. CASE p \in c + 1..e - 1
    BY <2>1
  <2>2. CASE p \notin c + 1..e - 1
    <3>1. p \in F /\ p \in 1..c
      BY <1>2, <1>3, <2>2
    <3>2. q \in F
      BY <1>2, <1>3, <1>6, <3>1
    <3> QED BY <1>6, <3>1, <3>2
  <2> QED BY <2>1, <2>2
<1>7. ASSUME NEW p \in {i \in F : \E j \in F : j < i} \cup (c + 1..e - 1)
      PROVE  p \in G /\ \E q \in G : q < p
  <2>1. CASE p \in c + 1..e - 1
    <3>1. o \in 1..c /\ o < p
      BY <1>3, <1>5, <2>1
    <3> QED BY <1>2, <1>5, <2>1, <3>1
  <2>2. CASE p \notin c + 1..e - 1
    BY <1>2, <1>7, <2>2
  <2> QED BY <2>1, <2>2
<1> QED BY <1>4, <1>6, <1>7

\* The bytes of a payload but for the newlines between its fields.
LEMMA JoinedIs ==
  ASSUME NEW s \in Seq(Symbols), NEW c \in Nat, NEW e \in Nat, LineFrom(s, c, e)
  PROVE  /\ \A p \in c + 2..e - 1 : Joined(s)[p] = s[p]
         /\ c + 1 < e => Joined(s)[c + 1] = "NL"
<1>1. Len(s) \in Nat /\ DOMAIN s = 1..Len(s) /\ c < e /\ e <= Len(s) + 1
  BY LenProperties DEF LineFrom
<1>2. Line(s, e) = c + 1..e - 1 /\ \A p \in Line(s, e) : Opens(s, p) <=> p = c + 1
  BY LineFromIs
<1>3. ASSUME NEW p \in c + 1..e - 1
      PROVE  Joined(s)[p] = IF p = c + 1 THEN "NL" ELSE s[p]
  <2>1. p \in DOMAIN s
    BY <1>1
  <2>2. Opens(s, p) <=> p = c + 1
    BY <1>2
  <2> QED BY <2>1, <2>2 DEF Joined
<1>4. ASSUME NEW p \in c + 2..e - 1 PROVE Joined(s)[p] = s[p]
  <2>1. p \in c + 1..e - 1 /\ p # c + 1
    BY <1>1
  <2> QED BY <1>3, <2>1
<1>5. c + 1 < e => c + 1 \in c + 1..e - 1
  BY <1>1
<1> QED BY <1>3, <1>4, <1>5

\* Another field makes the data of the event what the payload with its line is.
LEMMA FieldSpells ==
  ASSUME NEW s \in Seq(Symbols), NEW c \in Nat, NEW e \in Nat, LineFrom(s, c, e), IsData(s, e),
         NEW lines, FullLines(s, c, lines),
         NEW event \in Seq(Seq(Symbols \cup {"NL"})), EventIs(s, lines, event)
  PROVE  LET data == WithField(event, Tail(SubSeq(s, c + 1, e - 1)))
         IN  /\ data \in Seq(Symbols \cup {"NL"})
             /\ Spells(data, Data(s, lines \cup {e}), Joined(s))
<1> DEFINE A == Symbols \cup {"NL"}
           line == SubSeq(s, c + 1, e - 1)
           tail == Tail(line)
<1>1. /\ c + 1 < e /\ e <= Len(s) + 1 /\ c + 1 \in Nat \ {0} /\ c + 2 \in Nat \ {0} /\ e - 1 \in Nat
      /\ c + 2 <= e /\ Len(s) \in Nat
  <2>1. c + 1 < e
    BY LineFromIs
  <2> QED BY <2>1, LenProperties DEF LineFrom
<1>2. PICK a \in Nat \ {0} : a = c + 1
  OBVIOUS
<1>3. /\ line \in Seq(Symbols) /\ Len(line) = e - a /\ \A p \in a..e - 1 : line[p - a + 1] = s[p]
  <2>1. a <= e /\ line = SubSeq(s, a, e - 1)
    BY <1>1, <1>2
  <2> HIDE DEF line
  <2> QED BY <1>1, <2>1, Part
<1> HIDE DEF line
<1>4. line # <<>>
  BY <1>1, <1>2, <1>3, EmptySeq
<1>5. tail \in Seq(Symbols) /\ Len(tail) = Len(line) - 1 /\ \A i \in 1..Len(tail) : tail[i] = line[i + 1]
  BY <1>3, <1>4, HeadTailProperties
<1> HIDE DEF tail
<1>6. tail \in Seq(A) /\ Len(tail) = e - (a + 1)
  <2>1. tail \in Seq(A)
    BY <1>5, SeqMonotonic
  <2> QED BY <1>1, <1>2, <1>3, <1>5, <2>1
<1>7. ASSUME NEW p \in a + 1..e - 1 PROVE tail[p - (a + 1) + 1] = Joined(s)[p]
  <2>1. /\ p - (a + 1) + 1 \in 1..Len(tail) /\ (p - (a + 1) + 1) + 1 = p - a + 1 /\ p \in a..e - 1
        /\ p \in c + 2..e - 1
    BY <1>1, <1>2, <1>6
  <2>2. Joined(s)[p] = s[p]
    BY <2>1, JoinedIs
  <2> QED BY <1>3, <1>5, <2>1, <2>2
<1>8. Data(s, {e}) = c + 2..e - 1
  BY DataFirst
<1>9. CASE lines = {}
  <2>1. WithField(event, tail) = tail
    BY <1>9 DEF WithField, EventIs
  <2>2. Data(s, lines \cup {e}) = (a + 1)..(e - 1)
    <3>1. lines \cup {e} = {e}
      BY <1>9
    <3>2. a + 1 = c + 2
      BY <1>2
    <3> QED BY <1>8, <3>1, <3>2
  <2>3. Spells(tail, (a + 1)..(e - 1), Joined(s))
    <3>1. a + 1 \in Nat \ {0} /\ a + 1 <= e
      BY <1>1, <1>2
    <3> QED BY <1>6, <1>7, <3>1, SpellsPart
  <2> QED BY <1>6, <2>1, <2>2, <2>3 DEF tail, line
<1>10. CASE lines # {}
  <2>1. Len(event) = 1 /\ Spells(event[1], Data(s, lines), Joined(s)) /\ event # <<>>
    BY <1>10, EmptySeq DEF EventIs
  <2>2. event[1] \in Seq(A)
    BY <2>1, ElementOfSeq
  <2>3. PICK u \in Seq(A) : u = <<"NL">> \o tail
    <3>1. <<"NL">> \in Seq(A)
      OBVIOUS
    <3> QED BY <1>6, <3>1, ConcatProperties
  <2>4. WithField(event, tail) = event[1] \o u
    <3>1. PICK v \in Seq(A) : v = <<"NL">>
      <4>1. <<"NL">> \in Seq(A)
        OBVIOUS
      <4> QED BY <4>1
    <3>2. PICK w \in Seq(A) : w = event[1]
      BY <2>2
    <3>3. WithField(event, tail) = (w \o v) \o tail
      BY <2>1, <3>1, <3>2 DEF WithField
    <3>4. (w \o v) \o tail = w \o (v \o tail)
      BY <1>6, ConcatAssociative
    <3> QED BY <2>3, <3>1, <3>2, <3>3, <3>4
  <2>5. Len(u) = e - a /\ \A i \in 1..e - a : u[i] = IF i = 1 THEN "NL" ELSE tail[i - 1]
    <3>1. <<"NL">> \in Seq(A) /\ Len(<<"NL">>) = 1 /\ <<"NL">>[1] = "NL"
      OBVIOUS
    <3>2. Len(u) = 1 + Len(tail) /\ \A i \in 1..1 + Len(tail) :
            u[i] = IF i <= 1 THEN <<"NL">>[i] ELSE tail[i - 1]
      BY <1>6, <2>3, <3>1, ConcatProperties
    <3>3. 1 + Len(tail) = e - a
      BY <1>1, <1>2, <1>6
    <3> QED BY <3>1, <3>2, <3>3
  <2>6. ASSUME NEW p \in a..e - 1 PROVE u[p - a + 1] = Joined(s)[p]
    <3>1. p - a + 1 \in 1..e - a
      BY <1>1, <1>2
    <3>2. CASE p = a
      BY <1>1, <1>2, <2>5, <3>1, <3>2, JoinedIs
    <3>3. CASE p # a
      <4>1. p \in a + 1..e - 1 /\ p - a + 1 # 1 /\ (p - a + 1) - 1 = p - (a + 1) + 1
        BY <3>3
      <4> QED BY <1>7, <2>5, <3>1, <4>1
    <3> QED BY <3>2, <3>3
  <2>7. Data(s, lines \cup {e}) = Data(s, lines) \cup (a..e - 1)
    <3>1. Data(s, lines \cup {e}) = Data(s, lines) \cup ((c + 1)..(e - 1))
      BY <1>10, DataNext
    <3> QED BY <1>2, <3>1
  <2>8. Data(s, lines) \in SUBSET (1..a - 1)
    <3>1. lines \in SUBSET (1..c + 1) /\ a - 1 = c
      BY <1>2 DEF FullLines
    <3> QED BY <3>1, DataInside
  <2>9. Spells(event[1] \o u, Data(s, lines) \cup (a..e - 1), Joined(s))
    <3>1. a <= e
      BY <1>1, <1>2
    <3> QED BY <2>1, <2>2, <2>5, <2>6, <2>8, <3>1, SpellsMore
  <2>10. event[1] \o u \in Seq(A)
    BY <2>2, ConcatProperties
  <2> QED BY <2>4, <2>7, <2>9, <2>10 DEF tail, line
<1> QED BY <1>9, <1>10

\* What comes of the line at e: whether it is the last, what is emitted for it,
\* and the event it leaves.
Outcome(s, e, phase, event, more) ==
  /\ phase = IF Faulty(s, e) THEN "failed" ELSE IF Replies(s, e) THEN "replied" ELSE "working"
  /\ Faulty(s, e) \/ ~Completes(s, e) => more = <<>>
  /\ ~Faulty(s, e) /\ Completes(s, e) =>
       Len(more) = 1 /\ Spells(more[1], Payload(s, e), Joined(s))
  /\ ~Final(s, e) => EventIs(s, IF Line(s, e) = {} THEN {} ELSE Event(s, e), event)

\* What the data of an event is known to be.
LEMMA OpenIs ==
  ASSUME NEW s, NEW c \in Nat, NEW event, EventIs(s, Open(s, Ends(s, c)), event)
  PROVE  /\ FullLines(s, c, Open(s, Ends(s, c))) /\ Cardinality(Data(s, Open(s, Ends(s, c)))) \in Nat
         /\ Cardinality(Data(s, Open(s, Ends(s, c)))) <= MaxMessage
         /\ event = <<>> <=> Open(s, Ends(s, c)) = {}
<1> DEFINE lines == Open(s, Ends(s, c))
<1>1. FullLines(s, c, lines)
  BY DEF FullLines, Open, Ends, IsData
<1> HIDE DEF lines
<1>2. Data(s, lines) \in SUBSET (1..c)
  <2>1. lines \in SUBSET (1..c + 1)
    BY <1>1 DEF FullLines
  <2> QED BY <2>1, DataInside
<1>3. Cardinality(Data(s, lines)) \in Nat /\ (Data(s, lines) = {} => Cardinality(Data(s, lines)) = 0)
  BY <1>2, Positions
<1>4. lines = {} => Data(s, lines) = {}
  BY DEF Data
<1>5. MaxMessage \in Nat
  BY FramingAssumption
<1>6. Cardinality(Data(s, lines)) <= MaxMessage
  BY <1>3, <1>4, <1>5 DEF EventIs, lines
<1>7. event = <<>> <=> lines = {}
  BY EmptySeq DEF EventIs, lines
<1> QED BY <1>1, <1>3, <1>6, <1>7 DEF lines

\* Text with the bytes of a payload is JSON, or the reply, when the payload is.
LEMMA SpellsJson ==
  ASSUME NEW s, NEW n \in Nat, NEW S \in SUBSET (1..n), NEW A, NEW text \in Seq(A),
         Spells(text, S, Joined(s))
  PROVE  /\ IsJson(text) <=> \E p \in S : Joined(s)[p] \in {"r", "x", "d"}
         /\ IsReply(text) <=> \E p \in S : Joined(s)[p] = "r"
<1>1. \A C : (\E i \in DOMAIN text : text[i] \in C) <=> (\E p \in S : Joined(s)[p] \in C)
  BY SpellsAll
<1>2. (\E i \in DOMAIN text : text[i] \in {"r"}) <=> (\E p \in S : Joined(s)[p] \in {"r"})
  BY <1>1
<1>3. (\E i \in DOMAIN text : text[i] \in {"r", "x", "d"})
        <=> (\E p \in S : Joined(s)[p] \in {"r", "x", "d"})
  BY <1>1
<1> QED BY <1>2, <1>3 DEF IsJson, IsReply

\* Parsed, case by case,
LEMMA ParsedText ==
  ASSUME NEW p, NEW text
  PROVE  LET x == Parsed([r |-> p, out |-> <<>>], text)
         IN  /\ ~IsJson(text) => x = [r |-> [p EXCEPT !.phase = "failed"], out |-> <<>>]
             /\ IsJson(text) =>
                  x = [r |-> [p EXCEPT !.phase = IF IsReply(text) THEN "replied" ELSE p.phase],
                       out |-> <<text>>]
<1>1. Append(<<>>, text) = <<text>>
  OBVIOUS
<1>2. ~IsJson(text) =>
        Parsed([r |-> p, out |-> <<>>], text) = [r |-> [p EXCEPT !.phase = "failed"], out |-> <<>>]
  BY DEF Parsed
<1>3. IsJson(text) =>
        Parsed([r |-> p, out |-> <<>>], text)
          = [r |-> [p EXCEPT !.phase = IF IsReply(text) THEN "replied" ELSE p.phase], out |-> <<text>>]
  BY <1>1 DEF Parsed
<1> QED BY <1>2, <1>3

\* also when the event ends before it.
LEMMA ParsedIs ==
  ASSUME NEW r \in Readers, NEW text
  PROVE  LET x == Parsed([[r |-> r, out |-> <<>>] EXCEPT !.r.event = <<>>], text)
         IN  /\ ~IsJson(text) => x = [r |-> [r EXCEPT !.phase = "failed", !.event = <<>>], out |-> <<>>]
             /\ IsJson(text) => x = [r |-> [r EXCEPT !.phase = IF IsReply(text) THEN "replied" ELSE r.phase,
                                                     !.event = <<>>], out |-> <<text>>]
<1> DEFINE p == [r EXCEPT !.event = <<>>]
           y == [[r |-> r, out |-> <<>>] EXCEPT !.r.event = <<>>]
<1>1. y = [r |-> p, out |-> <<>>]
  OBVIOUS
<1>2. p.phase = r.phase
  BY DEF Readers
<1>3. [p EXCEPT !.phase = "failed"] = [r EXCEPT !.phase = "failed", !.event = <<>>]
  BY DEF Readers
<1>4. \A v : [p EXCEPT !.phase = v] = [r EXCEPT !.phase = v, !.event = <<>>]
  BY DEF Readers
<1> HIDE DEF p, y
<1>6. ~IsJson(text) => Parsed(y, text) = [r |-> [p EXCEPT !.phase = "failed"], out |-> <<>>]
  BY <1>1, ParsedText
<1>7. IsJson(text) => Parsed(y, text) = [r |-> [p EXCEPT !.phase = IF IsReply(text) THEN "replied" ELSE p.phase],
                                         out |-> <<text>>]
  BY <1>1, ParsedText
<1> QED BY <1>2, <1>3, <1>4, <1>6, <1>7 DEF y

\* A reader with one field changed.
LEMMA ReaderSame ==
  ASSUME NEW r \in Readers
  PROVE  /\ r = [r EXCEPT !.phase = r.phase, !.event = r.event]
         /\ \A v : [[r |-> r, out |-> <<>>] EXCEPT !.r.phase = v]
                     = [r |-> [r EXCEPT !.phase = v, !.event = r.event], out |-> <<>>]
         /\ \A v : [[r |-> r, out |-> <<>>] EXCEPT !.r.event = v]
                     = [r |-> [r EXCEPT !.phase = r.phase, !.event = v], out |-> <<>>]
<1>1. r = [r EXCEPT !.phase = r.phase, !.event = r.event]
  BY DEF Readers
<1>2. \A v : [r EXCEPT !.phase = v] = [r EXCEPT !.phase = v, !.event = r.event]
  BY DEF Readers
<1>3. \A v : [[r |-> r, out |-> <<>>] EXCEPT !.r.phase = v]
               = [r |-> [r EXCEPT !.phase = v], out |-> <<>>]
  OBVIOUS
<1>4. \A v : [r EXCEPT !.event = v] = [r EXCEPT !.phase = r.phase, !.event = v]
  BY DEF Readers
<1>5. \A v : [[r |-> r, out |-> <<>>] EXCEPT !.r.event = v]
               = [r |-> [r EXCEPT !.event = v], out |-> <<>>]
  OBVIOUS
<1>6. ASSUME NEW v
      PROVE  [[r |-> r, out |-> <<>>] EXCEPT !.r.phase = v]
               = [r |-> [r EXCEPT !.phase = v, !.event = r.event], out |-> <<>>]
  BY <1>2, <1>3
<1>7. ASSUME NEW v
      PROVE  [[r |-> r, out |-> <<>>] EXCEPT !.r.event = v]
               = [r |-> [r EXCEPT !.phase = r.phase, !.event = v], out |-> <<>>]
  BY <1>4, <1>5
<1> QED BY <1>1, <1>6, <1>7

\* The five ways of a line: too long, blank and nothing to end, the end of an
\* event, data, and any other field.
LEMMA LineReadIs ==
  ASSUME NEW r \in Readers, NEW line
  PROVE  LET x == LineRead([r |-> r, out |-> <<>>], line)
             data == WithField(r.event, Tail(line))
         IN  /\ Len(line) > MaxSseLine =>
                  x = [r |-> [r EXCEPT !.phase = "failed", !.event = r.event], out |-> <<>>]
             /\ ~(Len(line) > MaxSseLine) /\ line = <<>> /\ r.event = <<>> =>
                  x = [r |-> [r EXCEPT !.phase = r.phase, !.event = r.event], out |-> <<>>]
             /\ ~(Len(line) > MaxSseLine) /\ line = <<>> /\ r.event # <<>> =>
                  x = Parsed([[r |-> r, out |-> <<>>] EXCEPT !.r.event = <<>>], r.event[1])
             /\ ~(Len(line) > MaxSseLine) /\ line # <<>> /\ line[1] = "d" /\ Len(data) > MaxMessage =>
                  x = [r |-> [r EXCEPT !.phase = "failed", !.event = r.event], out |-> <<>>]
             /\ ~(Len(line) > MaxSseLine) /\ line # <<>> /\ line[1] = "d" /\ ~(Len(data) > MaxMessage) =>
                  x = [r |-> [r EXCEPT !.phase = r.phase, !.event = <<data>>], out |-> <<>>]
             /\ ~(Len(line) > MaxSseLine) /\ line # <<>> /\ line[1] # "d" =>
                  x = [r |-> [r EXCEPT !.phase = r.phase, !.event = r.event], out |-> <<>>]
<1> DEFINE s == [r |-> r, out |-> <<>>]
           data == WithField(r.event, Tail(line))
<1>1. s.r.event = r.event /\ s = [r |-> [r EXCEPT !.phase = r.phase, !.event = r.event], out |-> <<>>]
  BY ReaderSame
<1>2. \A v : [s EXCEPT !.r.phase = v] = [r |-> [r EXCEPT !.phase = v, !.event = r.event], out |-> <<>>]
  BY ReaderSame
<1>3. \A v : [s EXCEPT !.r.event = v] = [r |-> [r EXCEPT !.phase = r.phase, !.event = v], out |-> <<>>]
  BY ReaderSame
<1> HIDE DEF s
<1>4. CASE Len(line) > MaxSseLine
  <2>1. LineRead(s, line) = [s EXCEPT !.r.phase = "failed"]
    BY <1>4 DEF LineRead
  <2> QED BY <1>2, <1>4, <2>1 DEF s
<1>5. CASE ~(Len(line) > MaxSseLine) /\ line = <<>>
  <2>1. LineRead(s, line) = IF r.event = <<>> THEN s
                            ELSE Parsed([s EXCEPT !.r.event = <<>>], r.event[1])
    BY <1>1, <1>5 DEF LineRead
  <2> QED BY <1>1, <1>5, <2>1 DEF s
<1>6. CASE ~(Len(line) > MaxSseLine) /\ line # <<>>
  <2>1. LineRead(s, line) = IF line[1] = "d"
                            THEN IF Len(data) > MaxMessage THEN [s EXCEPT !.r.phase = "failed"]
                                 ELSE [s EXCEPT !.r.event = <<data>>]
                            ELSE s
    BY <1>1, <1>6 DEF LineRead
  <2> QED BY <1>1, <1>2, <1>3, <1>6, <2>1 DEF s
<1> QED BY <1>4, <1>5, <1>6

\* The effect of reading the line at e.
LEMMA LineReadAt ==
  ASSUME NEW s \in Seq(Symbols), NEW c \in Nat, NEW e \in Nat, LineFrom(s, c, e),
         NEW r \in Readers, r.phase = "working", EventIs(s, Open(s, Ends(s, c)), r.event)
  PROVE  \E phase \in {"working", "failed", "replied"},
            event \in Seq(Seq(Symbols \cup {"NL"})), more \in Seq(Seq(Chars)) :
           /\ LineRead([r |-> r, out |-> <<>>], SubSeq(s, c + 1, e - 1))
                = [r |-> [r EXCEPT !.phase = phase, !.event = event], out |-> more]
           /\ Outcome(s, e, phase, event, more)
<1> DEFINE line == SubSeq(s, c + 1, e - 1)
           O == Open(s, Ends(s, c))
           A == Symbols \cup {"NL"}
           data == WithField(r.event, Tail(line))
           x == LineRead([r |-> r, out |-> <<>>], line)
<1>1. /\ line \in Seq(Symbols) /\ Len(line) = e - c - 1 /\ c + 1 <= e
      /\ c + 1 < e => line[1] = s[c + 1]
  <2>1. PICK a \in Nat \ {0} : a = c + 1
    OBVIOUS
  <2>2. a <= e /\ e <= Len(s) + 1
    BY <2>1 DEF LineFrom
  <2>3. /\ SubSeq(s, a, e - 1) \in Seq(Symbols) /\ Len(SubSeq(s, a, e - 1)) = e - a
        /\ \A i \in 1..e - a : SubSeq(s, a, e - 1)[i] = s[a + i - 1]
    BY <2>2, Part
  <2>4. c + 1 < e => 1 \in 1..e - a /\ a + 1 - 1 = a
    BY <2>1
  <2>5. line = SubSeq(s, a, e - 1) /\ e - a = e - c - 1
    BY <2>1
  <2> HIDE DEF line
  <2> QED BY <2>1, <2>2, <2>3, <2>4, <2>5
<1>2. r.event \in Seq(Seq(A))
  BY ReaderFields
<1>3. /\ FullLines(s, c, O) /\ Cardinality(Data(s, O)) \in Nat /\ Cardinality(Data(s, O)) <= MaxMessage
      /\ r.event = <<>> <=> O = {}
  BY OpenIs
<1>4. Event(s, e) = O \cup {d \in {e} : IsData(s, d)}
  BY EventNext
<1>5. /\ Cardinality(Line(s, e)) = Len(line)
      /\ (Line(s, e) = {} <=> line = <<>>)
      /\ IsData(s, e) <=> (line # <<>> /\ line[1] = "d")
  <2>1. /\ Cardinality(Line(s, e)) = e - c - 1
        /\ IsData(s, e) <=> (c + 1 < e /\ s[c + 1] = "d")
    BY LineFromIs
  <2>2. Line(s, e) = {} <=> Cardinality(Line(s, e)) = 0
    <3>1. e \in Nat \ {0}
      BY <1>1
    <3> QED BY <3>1, LineInside
  <2>3. line = <<>> <=> Len(line) = 0
    BY <1>1, EmptySeq
  <2> HIDE DEF line
  <2> QED BY <1>1, <2>1, <2>2, <2>3
<1>6. MaxMessage \in Nat /\ MaxSseLine \in Nat
  BY FramingAssumption DEF MaxSseLine
<1>7. \A u \in Seq(A) : u \in Seq(Chars)
  BY SeqMonotonic DEF Chars
<1>8. <<>> \in Seq(Seq(Chars)) /\ <<>> \in Seq(Seq(A))
  BY EmptySeq
<1>9. /\ Len(line) > MaxSseLine =>
           x = [r |-> [r EXCEPT !.phase = "failed", !.event = r.event], out |-> <<>>]
      /\ ~(Len(line) > MaxSseLine) /\ line = <<>> /\ r.event = <<>> =>
           x = [r |-> [r EXCEPT !.phase = r.phase, !.event = r.event], out |-> <<>>]
      /\ ~(Len(line) > MaxSseLine) /\ line = <<>> /\ r.event # <<>> =>
           x = Parsed([[r |-> r, out |-> <<>>] EXCEPT !.r.event = <<>>], r.event[1])
      /\ ~(Len(line) > MaxSseLine) /\ line # <<>> /\ line[1] = "d" /\ Len(data) > MaxMessage =>
           x = [r |-> [r EXCEPT !.phase = "failed", !.event = r.event], out |-> <<>>]
      /\ ~(Len(line) > MaxSseLine) /\ line # <<>> /\ line[1] = "d" /\ ~(Len(data) > MaxMessage) =>
           x = [r |-> [r EXCEPT !.phase = r.phase, !.event = <<data>>], out |-> <<>>]
      /\ ~(Len(line) > MaxSseLine) /\ line # <<>> /\ line[1] # "d" =>
           x = [r |-> [r EXCEPT !.phase = r.phase, !.event = r.event], out |-> <<>>]
  BY LineReadIs
<1>10. IsData(s, e) => data \in Seq(A) /\ Spells(data, Data(s, O \cup {e}), Joined(s))
  BY <1>2, <1>3, FieldSpells
<1> HIDE DEF line, O, x, data, A
<1>11. CASE Len(line) > MaxSseLine
  <2>1. Faulty(s, e)
    BY <1>5, <1>11 DEF Faulty
  <2>2. Outcome(s, e, "failed", r.event, <<>>)
    BY <2>1 DEF Outcome, Final
  <2> QED BY <1>2, <1>8, <1>9, <1>11, <2>2 DEF x, line, A
<1>12. CASE ~(Len(line) > MaxSseLine) /\ line = <<>>
  <2>1. Event(s, e) = O /\ Payload(s, e) = Data(s, O) /\ Line(s, e) = {}
    BY <1>4, <1>5, <1>12 DEF Payload
  <2>2. ~(Cardinality(Line(s, e)) > MaxSseLine) /\ ~(Cardinality(Payload(s, e)) > MaxMessage)
    BY <1>3, <1>5, <1>6, <1>12, <2>1
  <2>3. CASE r.event = <<>>
    <3>1. ~Completes(s, e)
      BY <1>3, <2>1, <2>3 DEF Completes
    <3>2. ~Faulty(s, e) /\ ~Replies(s, e)
      BY <2>2, <3>1 DEF Faulty, Replies
    <3>3. EventIs(s, {}, <<>>)
      BY DEF EventIs
    <3>4. Outcome(s, e, "working", r.event, <<>>)
      BY <2>1, <2>3, <3>1, <3>2, <3>3 DEF Outcome
    <3>5. x = [r |-> [r EXCEPT !.phase = "working", !.event = r.event], out |-> <<>>]
      BY <1>9, <1>12, <2>3
    <3> QED BY <1>2, <1>8, <3>4, <3>5 DEF x, line, A
  <2>4. CASE r.event # <<>>
    <3>1. Completes(s, e)
      BY <1>3, <2>1, <2>4 DEF Completes
    <3>2. Len(r.event) = 1 /\ Spells(r.event[1], Data(s, O), Joined(s))
      BY <1>3, <2>4 DEF EventIs, O
    <3>3. PICK text \in Seq(A) : text = r.event[1]
      <4>1. 1 \in 1..Len(r.event)
        BY <3>2
      <4> QED BY <1>2, <4>1, ElementOfSeq
    <3>4. /\ IsJson(text) <=> \E p \in Payload(s, e) : Joined(s)[p] \in {"r", "x", "d"}
          /\ IsReply(text) <=> \E p \in Payload(s, e) : Joined(s)[p] = "r"
      <4> DEFINE D == Data(s, O)
      <4>1. D \in SUBSET (1..c)
        <5>1. O \in SUBSET (1..c + 1)
          BY <1>3 DEF FullLines
        <5> QED BY <5>1, DataInside
      <4>2. Spells(text, D, Joined(s))
        BY <3>2, <3>3
      <4>3. D = Payload(s, e)
        BY <2>1
      <4>4. c \in Nat
        OBVIOUS
      <4> HIDE DEF D
      <4>5. /\ IsJson(text) <=> \E p \in D : Joined(s)[p] \in {"r", "x", "d"}
            /\ IsReply(text) <=> \E p \in D : Joined(s)[p] = "r"
        BY <4>1, <4>2, <4>4, SpellsJson
      <4> QED BY <4>3, <4>5
    <3>5. Faulty(s, e) <=> ~IsJson(text)
      BY <2>2, <3>1, <3>4 DEF Faulty
    <3>6. Replies(s, e) <=> IsReply(text)
      BY <3>1, <3>4 DEF Replies
    <3>7. x = Parsed([[r |-> r, out |-> <<>>] EXCEPT !.r.event = <<>>], text)
      BY <1>9, <1>12, <2>4, <3>3
    <3>8. /\ ~IsJson(text) => x = [r |-> [r EXCEPT !.phase = "failed", !.event = <<>>], out |-> <<>>]
          /\ IsJson(text) => x = [r |-> [r EXCEPT !.phase = IF IsReply(text) THEN "replied" ELSE r.phase,
                                                  !.event = <<>>], out |-> <<text>>]
      BY <3>7, ParsedIs
    <3>9. EventIs(s, {}, <<>>)
      BY DEF EventIs
    <3>10. CASE ~IsJson(text)
      <4>1. Outcome(s, e, "failed", <<>>, <<>>)
        BY <3>5, <3>10 DEF Outcome, Final
      <4> QED BY <1>8, <3>8, <3>10, <4>1 DEF x, line, A
    <3>11. CASE IsJson(text)
      <4>1. Spells(text, Payload(s, e), Joined(s))
        BY <2>1, <3>2, <3>3
      <4>2. Len(<<text>>) = 1 /\ <<text>>[1] = text
        OBVIOUS
      <4>3. \A phase : phase = (IF IsReply(text) THEN "replied" ELSE "working")
              => Outcome(s, e, phase, <<>>, <<text>>)
        BY <2>1, <3>1, <3>5, <3>6, <3>9, <3>11, <4>1, <4>2 DEF Outcome
      <4>4. <<text>> \in Seq(Seq(Chars))
        <5>1. text \in Seq(Chars)
          BY <1>7
        <5> QED BY <5>1
      <4>5. CASE IsReply(text)
        <5>1. x = [r |-> [r EXCEPT !.phase = "replied", !.event = <<>>], out |-> <<text>>]
          BY <3>8, <3>11, <4>5
        <5>2. Outcome(s, e, "replied", <<>>, <<text>>)
          BY <4>3, <4>5
        <5> QED BY <1>8, <4>4, <5>1, <5>2 DEF x, line, A
      <4>6. CASE ~IsReply(text)
        <5>1. x = [r |-> [r EXCEPT !.phase = "working", !.event = <<>>], out |-> <<text>>]
          BY <3>8, <3>11, <4>6
        <5>2. Outcome(s, e, "working", <<>>, <<text>>)
          BY <4>3, <4>6
        <5> QED BY <1>8, <4>4, <5>1, <5>2 DEF x, line, A
      <4> QED BY <4>5, <4>6
    <3> QED BY <3>10, <3>11
  <2> QED BY <2>3, <2>4
<1>13. CASE ~(Len(line) > MaxSseLine) /\ line # <<>> /\ line[1] = "d"
  <2>1. IsData(s, e) /\ Event(s, e) = O \cup {e} /\ Payload(s, e) = Data(s, O \cup {e}) /\ Line(s, e) # {}
    BY <1>4, <1>5, <1>13 DEF Payload
  <2>2. ~(Cardinality(Line(s, e)) > MaxSseLine) /\ ~Completes(s, e) /\ ~Replies(s, e)
    BY <1>5, <1>13, <2>1 DEF Completes, Replies
  <2>3. data \in Seq(A) /\ Spells(data, Payload(s, e), Joined(s))
    BY <1>10, <2>1
  <2>4. Len(data) = Cardinality(Payload(s, e))
    BY <2>3 DEF Spells
  <2>5. CASE Len(data) > MaxMessage
    <3>1. Faulty(s, e)
      BY <2>4, <2>5 DEF Faulty
    <3>2. Outcome(s, e, "failed", r.event, <<>>)
      BY <3>1 DEF Outcome, Final
    <3>3. x = [r |-> [r EXCEPT !.phase = "failed", !.event = r.event], out |-> <<>>]
      BY <1>9, <1>13, <2>5
    <3> QED BY <1>2, <1>8, <3>2, <3>3 DEF x, line, A
  <2>6. CASE ~(Len(data) > MaxMessage)
    <3>1. ~Faulty(s, e)
      BY <2>2, <2>4, <2>6 DEF Faulty
    <3>2. Len(data) \in Nat /\ Len(data) <= MaxMessage
      BY <1>6, <2>3, <2>6, LenProperties
    <3>3. EventIs(s, Event(s, e), <<data>>)
      <4>1. Len(<<data>>) = 1 /\ <<data>>[1] = data
        OBVIOUS
      <4>2. Event(s, e) # {}
        BY <2>1
      <4>3. Spells(data, Data(s, Event(s, e)), Joined(s)) /\ Cardinality(Data(s, Event(s, e))) <= MaxMessage
        BY <2>3, <2>4, <3>2 DEF Payload
      <4> QED BY <4>1, <4>2, <4>3 DEF EventIs
    <3>4. Outcome(s, e, "working", <<data>>, <<>>)
      BY <2>1, <2>2, <3>1, <3>3 DEF Outcome
    <3>5. x = [r |-> [r EXCEPT !.phase = "working", !.event = <<data>>], out |-> <<>>]
      BY <1>9, <1>13, <2>6
    <3>6. <<data>> \in Seq(Seq(A))
      BY <2>3
    <3> QED BY <1>8, <3>4, <3>5, <3>6 DEF x, line, A
  <2> QED BY <2>5, <2>6
<1>14. CASE ~(Len(line) > MaxSseLine) /\ line # <<>> /\ line[1] # "d"
  <2>1. Event(s, e) = O /\ Payload(s, e) = Data(s, O) /\ Line(s, e) # {}
    BY <1>4, <1>5, <1>14 DEF Payload
  <2>2. ~Completes(s, e) /\ ~Replies(s, e) /\ ~Faulty(s, e)
    BY <1>3, <1>5, <1>6, <1>14, <2>1 DEF Completes, Replies, Faulty
  <2>3. Outcome(s, e, "working", r.event, <<>>)
    BY <2>1, <2>2 DEF Outcome, O
  <2>4. x = [r |-> [r EXCEPT !.phase = "working", !.event = r.event], out |-> <<>>]
    BY <1>9, <1>14
  <2> QED BY <1>2, <1>8, <2>3, <2>4 DEF x, line, A
<1> QED BY <1>11, <1>12, <1>13, <1>14

\* One more message for one more event.
LEMMA EmittedMore ==
  ASSUME NEW s, NEW n \in Nat, NEW E \in SUBSET (1..n), NEW e \in Nat, \A p \in E : p < e,
         NEW out \in Seq(Seq(Chars)), NEW more \in Seq(Seq(Chars)), Emitted(s, E, out),
         Len(more) = 1, Spells(more[1], Payload(s, e), Joined(s))
  PROVE  Emitted(s, E \cup {e}, out \o more)
<1>1. Cardinality(E) \in Nat /\ Len(out) = Cardinality(E)
  BY Positions DEF Emitted
<1>2. /\ Len(out \o more) = Len(out) + 1
      /\ \A i \in 1..Len(out) + 1 : (out \o more)[i] = IF i <= Len(out) THEN out[i] ELSE more[i - Len(out)]
  <2>1. /\ Len(out \o more) = Len(out) + Len(more)
        /\ \A i \in 1..Len(out) + Len(more) :
             (out \o more)[i] = IF i <= Len(out) THEN out[i] ELSE more[i - Len(out)]
    BY ConcatProperties
  <2> QED BY <2>1
<1>3. /\ Cardinality(E \cup {e}) = Cardinality(E) + 1
      /\ Rank(E \cup {e}, e) = Cardinality(E) + 1
      /\ \A p \in E : Rank(E \cup {e}, p) = Rank(E, p)
  BY RankLast
<1>4. ASSUME NEW p \in E
      PROVE  Spells((out \o more)[Rank(E \cup {e}, p)], Payload(s, p), Joined(s))
  <2>1. Rank(E, p) \in 1..Len(out)
    BY <1>1, RankType
  <2>2. Spells(out[Rank(E, p)], Payload(s, p), Joined(s))
    BY DEF Emitted
  <2>3. (out \o more)[Rank(E \cup {e}, p)] = out[Rank(E, p)]
    <3>1. PICK k \in 1..Len(out) : k = Rank(E, p)
      BY <2>1
    <3>2. Len(out) \in Nat
      BY <1>1
    <3>3. k \in 1..Len(out) + 1 /\ k <= Len(out)
      BY <3>2
    <3>4. (out \o more)[k] = out[k]
      BY <1>2, <3>3
    <3> QED BY <1>3, <3>1, <3>4
  <2> QED BY <2>2, <2>3
<1>5. Spells((out \o more)[Rank(E \cup {e}, e)], Payload(s, e), Joined(s))
  <2>1. (out \o more)[Rank(E \cup {e}, e)] = more[1]
    BY <1>1, <1>2, <1>3
  <2> QED BY <2>1
<1>6. Len(out \o more) = Cardinality(E \cup {e})
  BY <1>1, <1>2, <1>3
<1> QED BY <1>4, <1>5, <1>6 DEF Emitted

\* Nothing read is a fault or the reply, and all that is complete was emitted.
SseAt(s, c, event, out) ==
  /\ c = 0 \/ s[c] \in Terminators
  /\ \A e \in Ends(s, c) : ~Final(s, e)
  /\ EventIs(s, Open(s, Ends(s, c)), event)
  /\ Emitted(s, Completed(s, Ends(s, c)), out)

\* With the line at e what is emitted is what the lines up to it call for.
LEMMA EmittedNext ==
  ASSUME NEW s, NEW c \in Nat, NEW e \in Nat, c < e, NEW phase, NEW event,
         NEW out \in Seq(Seq(Chars)), NEW more \in Seq(Seq(Chars)),
         Emitted(s, Completed(s, Ends(s, c)), out), Outcome(s, e, phase, event, more)
  PROVE  Emitted(s, Completed(s, Ends(s, c)) \cup {d \in {e} : Completes(s, d) /\ ~Faulty(s, d)},
                 out \o more)
<1> DEFINE E == Completed(s, Ends(s, c))
<1>1. E \in SUBSET (1..c) /\ \A p \in E : p < e
  BY DEF Completed, Ends
<1> HIDE DEF E
<1>2. CASE Completes(s, e) /\ ~Faulty(s, e)
  <2>1. Len(more) = 1 /\ Spells(more[1], Payload(s, e), Joined(s))
    BY <1>2 DEF Outcome
  <2>2. Emitted(s, E \cup {e}, out \o more)
    BY <1>1, <2>1, EmittedMore DEF E
  <2>3. {d \in {e} : Completes(s, d) /\ ~Faulty(s, d)} = {e}
    BY <1>2
  <2> QED BY <2>2, <2>3 DEF E
<1>3. CASE ~(Completes(s, e) /\ ~Faulty(s, e))
  <2>1. more = <<>> /\ out \o <<>> = out
    BY <1>3, ConcatEmptySeq DEF Outcome
  <2>2. E \cup {d \in {e} : Completes(s, d) /\ ~Faulty(s, d)} = E
    BY <1>3
  <2> QED BY <2>1, <2>2 DEF E
<1> QED BY <1>2, <1>3

\* After a line that is not the last there is the next one to read.
LEMMA SseGoesOn ==
  ASSUME NEW s, NEW c \in Nat, NEW e \in Nat, LineFrom(s, c, e), IsEnd(s, e),
         NEW r, NEW event, NEW out \in Seq(Seq(Chars)), NEW more \in Seq(Seq(Chars)),
         SseAt(s, c, r, out), Outcome(s, e, "working", event, more),
         NEW d \in Nat, Ends(s, d) = Ends(s, e), s[d] \in Terminators
  PROVE  SseAt(s, d, event, out \o more)
<1>1. ~Faulty(s, e) /\ ~Replies(s, e) /\ ~Final(s, e)
  BY DEF Outcome, Final
<1>2. Ends(s, e) = Ends(s, c) \cup {e} /\ c < e
  <2>1. Ends(s, e - 1) = Ends(s, c)
    BY LineFromIs
  <2>2. c < e /\ e \in Nat \ {0}
    BY DEF LineFrom
  <2>3. Ends(s, e) = Ends(s, e - 1) \cup {i \in {e} : IsEnd(s, i)}
    BY <2>2, EndsNext
  <2> QED BY <2>1, <2>2, <2>3
<1>3. \A i \in Ends(s, d) : ~Final(s, i)
  BY <1>1, <1>2 DEF SseAt
<1>4. EventIs(s, Open(s, Ends(s, d)), event)
  <2>1. EventIs(s, IF Line(s, e) = {} THEN {} ELSE Event(s, e), event)
    BY <1>1 DEF Outcome
  <2>2. Open(s, Ends(s, c) \cup {e}) = IF Line(s, e) = {} THEN {} ELSE Event(s, e)
    BY OpenNext
  <2>3. Ends(s, d) = Ends(s, c) \cup {e}
    BY <1>2
  <2> QED BY <2>1, <2>2, <2>3
<1>5. Emitted(s, Completed(s, Ends(s, d)), out \o more)
  <2>1. Completed(s, Ends(s, d))
          = Completed(s, Ends(s, c)) \cup {i \in {e} : Completes(s, i) /\ ~Faulty(s, i)}
    BY <1>1, <1>2 DEF Completed
  <2>2. Emitted(s, Completed(s, Ends(s, c)), out)
    BY DEF SseAt
  <2>3. Emitted(s, Completed(s, Ends(s, c)) \cup {i \in {e} : Completes(s, i) /\ ~Faulty(s, i)},
                out \o more)
    BY <1>2, <2>2, EmittedNext
  <2> QED BY <2>1, <2>3
<1> QED BY <1>3, <1>4, <1>5 DEF SseAt

\* What was emitted, and whether reading goes on, are what the lines say.
EventsAt(s, lines, phase, ended, out) ==
  /\ Emitted(s, Messages(s, lines), out)
  /\ \/ /\ \A e \in lines : ~Final(s, e)
        /\ phase = IF ended THEN "ended" ELSE "waiting"
     \/ \E e \in lines :
          /\ Final(s, e) /\ \A d \in lines : d < e => ~Final(s, d)
          /\ phase = IF Faulty(s, e) THEN "failed" ELSE "replied"

\* A line that is a fault or ends the reply is the last.
LEMMA SseStops ==
  ASSUME NEW s, NEW c \in Nat, NEW e \in Nat, c < e, NEW r, NEW phase, NEW event,
         NEW out \in Seq(Seq(Chars)), NEW more \in Seq(Seq(Chars)),
         SseAt(s, c, r, out), Outcome(s, e, phase, event, more), Final(s, e),
         NEW lines \in SUBSET Nat, e \in lines, {d \in lines : d < e} = Ends(s, c), NEW ended
  PROVE  EventsAt(s, lines, phase, ended, out \o more)
<1>1. \A d \in lines : d < e => d \in Ends(s, c) /\ ~Final(s, d) /\ ~Faulty(s, d)
  BY DEF SseAt, Final
<1>2. ASSUME NEW d \in Messages(s, lines)
      PROVE  d \in Completed(s, Ends(s, c)) \cup {i \in {e} : Completes(s, i) /\ ~Faulty(s, i)}
  <2>1. d \in lines /\ Completes(s, d) /\ ~Faulty(s, d) /\ ~(e < d) /\ d \in Nat
    BY <1>2 DEF Messages
  <2>2. CASE d = e
    BY <2>1, <2>2
  <2>3. CASE d # e
    <3>1. d < e
      BY <2>1, <2>3
    <3> QED BY <1>1, <2>1, <3>1 DEF Completed
  <2> QED BY <2>2, <2>3
<1>3. ASSUME NEW d \in Completed(s, Ends(s, c)) PROVE d \in Messages(s, lines)
  <2>1. d \in Ends(s, c) /\ Completes(s, d) /\ d \in lines /\ d < e
    BY <1>3 DEF Completed
  <2>2. ASSUME NEW i \in lines, i < d PROVE ~Final(s, i)
    <3>1. i < e /\ i \in lines
      BY <2>1, <2>2
    <3> QED BY <1>1, <3>1
  <2> QED BY <1>1, <2>1, <2>2 DEF Messages
<1>4. ASSUME Completes(s, e), ~Faulty(s, e) PROVE e \in Messages(s, lines)
  BY <1>1, <1>4 DEF Messages
<1>5. Messages(s, lines) = Completed(s, Ends(s, c)) \cup {i \in {e} : Completes(s, i) /\ ~Faulty(s, i)}
  BY <1>2, <1>3, <1>4
<1>6. Emitted(s, Messages(s, lines), out \o more)
  <2>1. Emitted(s, Completed(s, Ends(s, c)), out)
    BY DEF SseAt
  <2>2. Emitted(s, Completed(s, Ends(s, c)) \cup {i \in {e} : Completes(s, i) /\ ~Faulty(s, i)},
                out \o more)
    BY <2>1, EmittedNext
  <2> QED BY <1>5, <2>2
<1>7. phase = IF Faulty(s, e) THEN "failed" ELSE "replied"
  BY DEF Outcome, Final
<1> QED BY <1>1, <1>6, <1>7 DEF EventsAt

\* Nothing of what has come is a fault or ends the reply, an unfinished line neither.
LEMMA SseLasts ==
  ASSUME NEW s, NEW c \in Nat, NEW r, NEW out, SseAt(s, c, r, out),
         NEW lines \in SUBSET Nat, Ends(s, c) \in SUBSET lines,
         \A e \in lines : e \notin Ends(s, c) => ~Final(s, e) /\ ~Completes(s, e), NEW ended
  PROVE  EventsAt(s, lines, IF ended THEN "ended" ELSE "waiting", ended, out)
<1>1. \A e \in lines : ~Final(s, e) /\ ~Faulty(s, e)
  BY DEF SseAt, Final
<1>2. Messages(s, lines) = Completed(s, Ends(s, c))
  BY <1>1 DEF Messages, Completed
<1> QED BY <1>1, <1>2 DEF EventsAt, SseAt

-----------------------------------------------------------------------------
(* Reading a stream of events.                                             *)

KnownAt(s, n, ended) == IF ~ended /\ n > 0 /\ s[n] = "CR" THEN n - 1 ELSE n

\* What has come behind c is in the buffer, and c is not half of a CRLF.
Behind(s, n, ended, c) ==
  /\ c <= n /\ (c = 0 \/ s[c] \in Terminators)
  /\ c > 0 /\ s[c] = "CR" => (c = n /\ ended) \/ (c < n /\ s[c + 1] # "LF")

SseReads(s, n, ended, c, r, out) ==
  Behind(s, n, ended, c) /\ r.text = SubSeq(s, c + 1, n) /\ SseAt(s, c, r.event, out)

\* No line is left but for one that waits for an LF.
NoLineLeft(s, n, ended, c) ==
  \A i \in c + 1..n : s[i] \in Terminators => ~ended /\ i = n /\ s[n] = "CR"

SseWaits(s, n, ended, c) ==
  NoLineLeft(s, n, ended, c) /\ ~(Cardinality(Line(s, KnownAt(s, n, ended) + 1)) > MaxSseLine)

\* The bytes from c + 1 to n.
LEMMA TextIs ==
  ASSUME NEW s \in Seq(Symbols), NEW c \in Nat, NEW n \in Nat, c <= n, n <= Len(s)
  PROVE  /\ SubSeq(s, c + 1, n) \in Seq(Symbols) /\ Len(SubSeq(s, c + 1, n)) = n - c
         /\ \A i \in 1..n - c : SubSeq(s, c + 1, n)[i] = s[c + i]
         /\ DOMAIN SubSeq(s, c + 1, n) = 1..n - c
<1>1. PICK a \in Nat \ {0}, b \in Nat : a = c + 1 /\ b = n + 1
  OBVIOUS
<1>2. a <= b /\ b <= Len(s) + 1 /\ b - 1 = n /\ b - a = n - c
  BY <1>1, LenProperties
<1>3. /\ SubSeq(s, a, b - 1) \in Seq(Symbols) /\ Len(SubSeq(s, a, b - 1)) = b - a
      /\ \A i \in 1..b - a : SubSeq(s, a, b - 1)[i] = s[a + i - 1]
  BY <1>2, Part
<1>4. SubSeq(s, c + 1, n) \in Seq(Symbols) /\ Len(SubSeq(s, c + 1, n)) = n - c
  BY <1>1, <1>2, <1>3
<1>5. ASSUME NEW i \in 1..n - c PROVE SubSeq(s, c + 1, n)[i] = s[c + i]
  <2>1. SubSeq(s, a, b - 1)[i] = s[a + i - 1] /\ a + i - 1 = c + i
    BY <1>1, <1>2, <1>3
  <2> QED BY <1>1, <1>2, <2>1
<1>6. DOMAIN SubSeq(s, c + 1, n) = 1..n - c
  BY <1>4, LenProperties
<1> QED BY <1>4, <1>5, <1>6

\* The end of a part of what has come.
LEMMA TextEnd ==
  ASSUME NEW s \in Seq(Symbols), NEW c \in Nat, NEW n \in Nat, c <= n, n <= Len(s),
         NEW a \in 1..n - c + 1
  PROVE  SubSeq(SubSeq(s, c + 1, n), a, n - c) = SubSeq(s, c + a, n)
<1>1. CASE a = n - c + 1
  <2>1. SubSeq(SubSeq(s, c + 1, n), a, n - c) = <<>>
    <3>1. n - c \in Int /\ a \in Int /\ n - c < a
      BY <1>1
    <3> QED BY <3>1, SubSeqEmpty
  <2>2. SubSeq(s, c + a, n) = <<>>
    <3>1. c + a \in Int /\ n \in Int /\ n < c + a
      BY <1>1
    <3> QED BY <3>1, SubSeqEmpty
  <2> QED BY <2>1, <2>2
<1>2. CASE a # n - c + 1
  <2>1. /\ c + 1 \in 1..Len(s) /\ n \in 1..Len(s) /\ a \in 1..n - (c + 1) + 1
        /\ n - c \in 1..n - (c + 1) + 1 /\ (c + 1) + a - 1 = c + a /\ (c + 1) + (n - c) - 1 = n
    BY <1>2, LenProperties
  <2>2. SubSeq(SubSeq(s, c + 1, n), a, n - c) = SubSeq(s, (c + 1) + a - 1, (c + 1) + (n - c) - 1)
    BY <2>1, SubSeqOfSubSeq
  <2> QED BY <2>1, <2>2
<1> QED BY <1>1, <1>2

\* The start of a part of what has come.
LEMMA TextStart ==
  ASSUME NEW s \in Seq(Symbols), NEW c \in Nat, NEW n \in Nat, c <= n, n <= Len(s),
         NEW e \in 1..n - c
  PROVE  SubSeq(SubSeq(s, c + 1, n), 1, e - 1) = SubSeq(s, c + 1, c + e - 1)
<1>1. CASE e = 1
  <2>1. SubSeq(SubSeq(s, c + 1, n), 1, e - 1) = <<>>
    <3>1. 1 \in Int /\ e - 1 \in Int /\ e - 1 < 1
      BY <1>1
    <3> QED BY <3>1, SubSeqEmpty
  <2>2. SubSeq(s, c + 1, c + e - 1) = <<>>
    <3>1. c + 1 \in Int /\ c + e - 1 \in Int /\ c + e - 1 < c + 1
      BY <1>1
    <3> QED BY <3>1, SubSeqEmpty
  <2> QED BY <2>1, <2>2
<1>2. CASE e # 1
  <2>1. /\ c + 1 \in 1..Len(s) /\ n \in 1..Len(s) /\ 1 \in 1..n - (c + 1) + 1
        /\ e - 1 \in 1..n - (c + 1) + 1 /\ (c + 1) + 1 - 1 = c + 1 /\ (c + 1) + (e - 1) - 1 = c + e - 1
    BY <1>2, LenProperties
  <2>2. SubSeq(SubSeq(s, c + 1, n), 1, e - 1) = SubSeq(s, (c + 1) + 1 - 1, (c + 1) + (e - 1) - 1)
    BY <2>1, SubSeqOfSubSeq
  <2> QED BY <2>1, <2>2
<1> QED BY <1>1, <1>2

\* What is known and in no finished line is one line from c + 1.
LEMMA KnownFrom ==
  ASSUME NEW s \in Seq(Symbols), NEW n \in Nat, n <= Len(s), NEW ended \in BOOLEAN,
         NEW c \in Nat, Behind(s, n, ended, c), NoLineLeft(s, n, ended, c)
  PROVE  /\ KnownAt(s, n, ended) \in c..n /\ KnownAt(s, n, ended) \in Nat
         /\ LineFrom(s, c, KnownAt(s, n, ended) + 1)
         /\ ended => KnownAt(s, n, ended) = n
         /\ ~ended /\ n > c => KnownAt(s, n, ended) = IF s[n] = "CR" THEN n - 1 ELSE n
         /\ n = c => KnownAt(s, n, ended) = n
<1> DEFINE K == KnownAt(s, n, ended)
<1>1. Len(s) \in Nat /\ c <= n /\ (c = 0 \/ s[c] \in Terminators)
  BY LenProperties DEF Behind
<1>2. CASE ~ended /\ n > 0 /\ s[n] = "CR"
  <2>1. K = n - 1
    BY <1>2 DEF KnownAt
  <2>2. c # n
    BY <1>2 DEF Behind
  <2>3. \A i \in c + 1..n - 1 : s[i] \notin Terminators
    BY <1>1 DEF NoLineLeft
  <2>4. LineFrom(s, c, (n - 1) + 1)
    BY <1>1, <2>2, <2>3 DEF LineFrom
  <2> QED BY <1>1, <1>2, <2>1, <2>2, <2>4
<1>3. CASE ~(~ended /\ n > 0 /\ s[n] = "CR")
  <2>1. K = n
    BY <1>3 DEF KnownAt
  <2>2. \A i \in c + 1..n : s[i] \notin Terminators
    BY <1>1, <1>3 DEF NoLineLeft
  <2>3. LineFrom(s, c, n + 1)
    BY <1>1, <2>2 DEF LineFrom
  <2> QED BY <1>1, <1>3, <2>1, <2>3
<1> QED BY <1>2, <1>3

\* Then the lines are those read and, if it counts, that one.
LEMMA KnownLines ==
  ASSUME NEW s \in Seq(Symbols), NEW n \in Nat, n <= Len(s), NEW ended \in BOOLEAN,
         NEW c \in Nat, Behind(s, n, ended, c), NoLineLeft(s, n, ended, c), NEW K, K = KnownAt(s, n, ended)
  PROVE  /\ K - c > MaxSseLine => Lines(s, K, MaxSseLine, ended) = Ends(s, c) \cup {K + 1}
         /\ ~ended /\ ~(K - c > MaxSseLine) => Lines(s, K, MaxSseLine, ended) = Ends(s, c)
         /\ Ends(s, c) \in SUBSET (1..c) /\ Line(s, K + 1) = c + 1..K
         /\ Cardinality(Line(s, K + 1)) = K - c
<1>1. K \in c..n /\ K \in Nat /\ LineFrom(s, c, K + 1)
  BY KnownFrom
<1>2. /\ Line(s, K + 1) = c + 1..(K + 1) - 1 /\ Cardinality(Line(s, K + 1)) = (K + 1) - c - 1
      /\ Ends(s, (K + 1) - 1) = Ends(s, c)
  <2>1. K + 1 \in Nat
    BY <1>1
  <2> QED BY <1>1, <2>1, LineFromIs
<1>3. (K + 1) - 1 = K /\ (K + 1) - c - 1 = K - c
  BY <1>1
<1>4. Line(s, K + 1) = c + 1..K /\ Cardinality(Line(s, K + 1)) = K - c /\ Ends(s, K) = Ends(s, c)
  BY <1>2, <1>3
<1>5. K - c > MaxSseLine => Lines(s, K, MaxSseLine, ended) = Ends(s, c) \cup {K + 1}
  BY <1>4 DEF Lines
<1>6. ~ended /\ ~(K - c > MaxSseLine) => Lines(s, K, MaxSseLine, ended) = Ends(s, c)
  BY <1>4 DEF Lines
<1> QED BY <1>4, <1>5, <1>6, EndsInside

\* The first end of a line in the buffer is one of the stream.
LEMMA BufferEnd ==
  ASSUME NEW s \in Seq(Symbols), NEW n \in Nat, n <= Len(s), NEW ended \in BOOLEAN,
         NEW c \in Nat, Behind(s, n, ended, c), NEW e \in 1..n - c,
         FirstEnd(SubSeq(s, c + 1, n), 1, e)
  PROVE  /\ s[c + e] \in Terminators /\ IsEnd(s, c + e) /\ LineFrom(s, c, c + e)
         /\ s[c + e] = SubSeq(s, c + 1, n)[e]
<1> DEFINE text == SubSeq(s, c + 1, n)
<1>1. /\ Len(s) \in Nat /\ c <= n /\ (c = 0 \/ s[c] \in Terminators)
      /\ c + e \in Nat /\ c + e <= n /\ c + 1 \in Nat \ {0}
  BY LenProperties DEF Behind
<1>2. FirstEnd(text, 1, e) /\ \A i \in 1..n - c : text[i] = s[c + i]
  BY <1>1, TextIs
<1> HIDE DEF text
<1>3. s[c + e] \in Terminators /\ s[c + e] = text[e]
  BY <1>2 DEF FirstEnd
<1>4. ASSUME NEW i \in c + 1..(c + e) - 1 PROVE s[i] \notin Terminators
  <2>1. i - c \in 1..e - 1 /\ i - c \in 1..n - c /\ c + (i - c) = i
    BY <1>1
  <2> QED BY <1>2, <2>1 DEF FirstEnd
<1>5. LineFrom(s, c, c + e)
  BY <1>1, <1>3, <1>4 DEF LineFrom, Behind
<1>6. FirstEnd(s, c + 1, c + e)
  BY <1>1, <1>3, <1>4 DEF FirstEnd
<1>7. c + 1 > 1 /\ s[(c + 1) - 1] = "CR" => s[c + 1] # "LF"
  <2>1. (c + 1) - 1 = c /\ c < n
    BY <1>1
  <2> QED BY <2>1 DEF Behind
<1>8. IsEnd(s, c + e)
  BY <1>1, <1>6, <1>7, FirstEndAt
<1> QED BY <1>3, <1>5, <1>8 DEF text

\* The end of a CRLF in the buffer is that of the one in the stream.
LEMMA BufferAfter ==
  ASSUME NEW s \in Seq(Symbols), NEW n \in Nat, n <= Len(s), NEW ended \in BOOLEAN,
         NEW c \in Nat, c <= n, NEW e \in 1..n - c, s[c + e] \in Terminators,
         ~(~ended /\ s[c + e] = "CR" /\ e = n - c)
  PROVE  \E d \in c + 1..n :
           /\ AfterEnd(SubSeq(s, c + 1, n), e, n - c) = (d - c) + 1
           /\ d = AfterEnd(s, c + e, n) - 1 /\ Behind(s, n, ended, d)
<1> DEFINE text == SubSeq(s, c + 1, n)
<1>1. \A i \in 1..n - c : text[i] = s[c + i]
  BY TextIs
<1> HIDE DEF text
<1>2. c + e \in Nat /\ c + e <= n /\ s[c + e] = text[e] /\ c + e # 0
  BY <1>1
<1>3. CASE s[c + e] = "CR" /\ e < n - c /\ s[c + e + 1] = "LF"
  <2>1. text[e + 1] = s[c + (e + 1)]
    BY <1>1, <1>3
  <2>2. c + (e + 1) = c + e + 1 /\ c + e < n
    BY <1>3
  <2>3. AfterEnd(text, e, n - c) = e + 2 /\ AfterEnd(s, c + e, n) = c + e + 2
    BY <1>2, <1>3, <2>1, <2>2 DEF AfterEnd
  <2>4. Behind(s, n, ended, c + e + 1)
    BY <1>2, <1>3, <2>2 DEF Behind, Terminators
  <2>5. PICK d \in c + 1..n : d = c + e + 1
    BY <2>2
  <2>6. AfterEnd(text, e, n - c) = (d - c) + 1 /\ d = AfterEnd(s, c + e, n) - 1
    BY <2>3, <2>5
  <2> QED BY <2>4, <2>5, <2>6 DEF text
<1>4. CASE ~(s[c + e] = "CR" /\ e < n - c /\ s[c + e + 1] = "LF")
  <2>1. ~(s[c + e] = "CR" /\ c + e < n /\ s[c + e + 1] = "LF")
    BY <1>2, <1>4
  <2>2. ~(text[e] = "CR" /\ e < n - c /\ text[e + 1] = "LF")
    <3>1. e < n - c => text[e + 1] = s[c + (e + 1)] /\ c + (e + 1) = c + e + 1
      BY <1>1
    <3> QED BY <1>2, <1>4, <3>1
  <2>3. AfterEnd(text, e, n - c) = e + 1 /\ AfterEnd(s, c + e, n) = c + e + 1
    BY <2>1, <2>2 DEF AfterEnd
  <2>4. s[c + e] = "CR" => (c + e = n /\ ended) \/ (c + e < n /\ s[c + e + 1] # "LF")
    BY <1>2, <2>1
  <2>5. Behind(s, n, ended, c + e)
    BY <1>2, <2>4 DEF Behind
  <2>6. PICK d \in c + 1..n : d = c + e
    BY <1>2
  <2>7. AfterEnd(text, e, n - c) = (d - c) + 1 /\ d = AfterEnd(s, c + e, n) - 1
    BY <2>3, <2>6
  <2> QED BY <2>5, <2>6, <2>7 DEF text
<1> QED BY <1>3, <1>4

\* A line that ends the reading is the first that is final.
LEMMA StopsAt ==
  ASSUME NEW s \in Seq(Symbols), NEW n \in Nat, n <= Len(s), NEW ended \in BOOLEAN,
         NEW c \in Nat, NEW E \in Nat, LineFrom(s, c, E), IsEnd(s, E), E <= KnownAt(s, n, ended),
         NEW r, NEW phase, NEW event, NEW out \in Seq(Seq(Chars)), NEW more \in Seq(Seq(Chars)),
         SseAt(s, c, r, out), Outcome(s, E, phase, event, more), Final(s, E)
  PROVE  EventsAt(s, Lines(s, KnownAt(s, n, ended), MaxSseLine, ended), phase, ended, out \o more)
<1> DEFINE K == KnownAt(s, n, ended)
           lines == Lines(s, K, MaxSseLine, ended)
<1>1. K \in Nat
  BY DEF KnownAt
<1>2. c < E /\ E # 0
  BY DEF LineFrom
<1>3. Ends(s, E - 1) = Ends(s, c)
  BY LineFromIs
<1>4. lines \in SUBSET Nat /\ E \in lines
  BY <1>1, <1>2 DEF Lines, Ends
<1>5. \A d \in lines : d \in Ends(s, K) \/ d = K + 1
  BY DEF Lines
<1>6. Ends(s, K) \in SUBSET lines
  BY DEF Lines
<1> HIDE DEF lines, K
<1>7. ASSUME NEW d \in lines, d < E PROVE d \in Ends(s, E - 1)
  <2>1. d \in Ends(s, K)
    BY <1>1, <1>5, <1>7 DEF K
  <2> QED BY <1>7, <2>1 DEF Ends
<1>8. ASSUME NEW d \in Ends(s, E - 1) PROVE d \in lines /\ d < E
  <2>1. d \in 1..K /\ d < E
    BY <1>1 DEF Ends, K
  <2> QED BY <1>6, <2>1 DEF Ends
<1>9. {d \in lines : d < E} = Ends(s, c)
  BY <1>3, <1>7, <1>8
<1>10. EventsAt(s, lines, phase, ended, out \o more)
  BY <1>2, <1>4, <1>9, SseStops
<1> QED BY <1>10 DEF lines, K

\* A round of the loop over complete lines: there is the next, or it was the last.
LEMMA SseLineAt ==
  ASSUME NEW s \in Seq(Symbols), NEW n \in Nat, n <= Len(s), NEW ended \in BOOLEAN,
         NEW r \in Readers, r.phase = "working", NEW out \in Seq(Seq(Chars)),
         NEW c \in Nat, SseReads(s, n, ended, c, r, out),
         NEW e \in DOMAIN r.text, FirstEnd(r.text, 1, e),
         ~(~ended /\ r.text[e] = "CR" /\ e = Len(r.text))
  PROVE  LET x == LineRead([r |-> r, out |-> <<>>], SubSeq(r.text, 1, e - 1))
             next == AfterEnd(r.text, e, Len(r.text))
             y == [x.r EXCEPT !.text = SubSeq(r.text, next, Len(r.text))]
         IN  /\ x = [r |-> x.r, out |-> x.out]
             /\ y \in Readers /\ x.out \in Seq(Seq(Chars)) /\ y.phase \in {"working", "failed", "replied"}
             /\ y.phase = "working" => \E d \in Nat : SseReads(s, n, ended, d, y, out \o x.out)
             /\ y.phase # "working" =>
                  EventsAt(s, Lines(s, KnownAt(s, n, ended), MaxSseLine, ended), y.phase, ended,
                           out \o x.out)
<1> DEFINE x == LineRead([r |-> r, out |-> <<>>], SubSeq(r.text, 1, e - 1))
           next == AfterEnd(r.text, e, Len(r.text))
           y == [x.r EXCEPT !.text = SubSeq(r.text, next, Len(r.text))]
<1>1. /\ Behind(s, n, ended, c) /\ r.text = SubSeq(s, c + 1, n) /\ SseAt(s, c, r.event, out)
      /\ c <= n /\ Len(s) \in Nat /\ n - c \in Nat
  BY LenProperties DEF SseReads, Behind
<1>2. DOMAIN r.text = 1..n - c /\ Len(r.text) = n - c
  BY <1>1, TextIs
<1>3. e \in 1..n - c
  BY <1>2
<1>4. /\ s[c + e] \in Terminators /\ IsEnd(s, c + e) /\ LineFrom(s, c, c + e)
      /\ s[c + e] = r.text[e]
  <2>1. FirstEnd(SubSeq(s, c + 1, n), 1, e)
    BY <1>1
  <2>2. Behind(s, n, ended, c)
    BY <1>1
  <2>3. /\ s[c + e] \in Terminators /\ IsEnd(s, c + e) /\ LineFrom(s, c, c + e)
        /\ s[c + e] = SubSeq(s, c + 1, n)[e]
    BY <1>3, <2>1, <2>2, BufferEnd
  <2> QED BY <1>1, <2>3
<1>5. PICK E \in 1..n : E = c + e
  BY <1>1, <1>3
<1>6. /\ s[E] \in Terminators /\ IsEnd(s, E) /\ LineFrom(s, c, E) /\ s[E] = r.text[e]
  BY <1>4, <1>5
<1>7. SubSeq(r.text, 1, e - 1) = SubSeq(s, c + 1, E - 1)
  <2>1. SubSeq(SubSeq(s, c + 1, n), 1, e - 1) = SubSeq(s, c + 1, c + e - 1)
    BY <1>1, <1>3, TextStart
  <2>2. SubSeq(r.text, 1, e - 1) = SubSeq(SubSeq(s, c + 1, n), 1, e - 1)
    BY <1>1
  <2>3. c + e - 1 = E - 1
    BY <1>3, <1>5
  <2> QED BY <2>1, <2>2, <2>3
<1>8. PICK phase \in {"working", "failed", "replied"},
           event \in Seq(Seq(Symbols \cup {"NL"})), more \in Seq(Seq(Chars)) :
        /\ LineRead([r |-> r, out |-> <<>>], SubSeq(s, c + 1, E - 1))
             = [r |-> [r EXCEPT !.phase = phase, !.event = event], out |-> more]
        /\ Outcome(s, E, phase, event, more)
  <2>1. EventIs(s, Open(s, Ends(s, c)), r.event)
    BY <1>1 DEF SseAt
  <2>2. E \in Nat
    OBVIOUS
  <2> QED BY <1>6, <2>1, <2>2, LineReadAt
<1>9. x = [r |-> [r EXCEPT !.phase = phase, !.event = event], out |-> more]
  BY <1>7, <1>8
<1>10. PICK d \in c + 1..n :
         /\ AfterEnd(r.text, e, n - c) = (d - c) + 1 /\ d = AfterEnd(s, c + e, n) - 1
         /\ Behind(s, n, ended, d)
  <2>1. ~(~ended /\ s[c + e] = "CR" /\ e = n - c)
    BY <1>2, <1>4
  <2>2. c <= n /\ s[c + e] \in Terminators
    BY <1>1, <1>4
  <2>3. \E d \in c + 1..n :
           /\ AfterEnd(SubSeq(s, c + 1, n), e, n - c) = (d - c) + 1
           /\ d = AfterEnd(s, c + e, n) - 1 /\ Behind(s, n, ended, d)
    BY <1>3, <2>1, <2>2, BufferAfter
  <2> QED BY <1>1, <2>3
<1>11. SubSeq(r.text, next, Len(r.text)) = SubSeq(s, d + 1, n)
  <2>1. PICK a \in 1..n - c + 1 : a = (d - c) + 1
    BY <1>1, <1>10
  <2>2. SubSeq(SubSeq(s, c + 1, n), a, n - c) = SubSeq(s, c + a, n)
    BY <1>1, TextEnd
  <2>3. c + a = d + 1 /\ next = a
    BY <1>2, <1>10, <2>1
  <2>4. SubSeq(r.text, next, Len(r.text)) = SubSeq(SubSeq(s, c + 1, n), a, n - c)
    BY <1>1, <1>2, <2>3
  <2> QED BY <2>2, <2>3, <2>4
<1>12. d \in Nat /\ d <= n /\ d > 0
  BY <1>1, <1>10
<1>13. PICK text \in Seq(Symbols) : text = SubSeq(s, d + 1, n)
  BY <1>12, TextIs
<1>14. y = [[r EXCEPT !.phase = phase, !.event = event] EXCEPT !.text = text] /\ x.out = more
  <2>1. x.r = [r EXCEPT !.phase = phase, !.event = event] /\ x.out = more
    BY <1>9
  <2>2. SubSeq(r.text, next, Len(r.text)) = text
    BY <1>11, <1>13
  <2> HIDE DEF x, next
  <2> QED BY <2>1, <2>2
<1>15. y \in Readers /\ y.phase = phase /\ y.event = event /\ y.text = SubSeq(s, d + 1, n)
  <2> DEFINE v == [r EXCEPT !.phase = phase, !.event = event]
             w == [v EXCEPT !.text = text]
  <2>1. w \in Readers /\ w.phase = phase /\ w.event = event /\ w.text = text
    <3>1. phase \in {"waiting", "working", "ended", "failed", "replied"}
      OBVIOUS
    <3> QED BY <3>1 DEF Readers
  <2>2. y = w
    BY <1>14
  <2> HIDE DEF y, w
  <2> QED BY <1>13, <2>1, <2>2
<1>16. x = [r |-> x.r, out |-> x.out] /\ x.out = more
  BY <1>9
<1> HIDE DEF x, y, next
<1>17. ASSUME phase = "working"
       PROVE  SseReads(s, n, ended, d, y, out \o more)
  <2>1. Ends(s, d) = Ends(s, E)
    <3>1. Ends(s, AfterEnd(s, E, n) - 1) = Ends(s, E)
      BY <1>6, AfterEndAt
    <3>2. d = AfterEnd(s, E, n) - 1
      BY <1>5, <1>10
    <3> QED BY <3>1, <3>2
  <2>2. s[d] \in Terminators
    BY <1>10, <1>12 DEF Behind
  <2>3. Outcome(s, E, "working", event, more)
    BY <1>8, <1>17
  <2>4. E \in Nat
    OBVIOUS
  <2>5. SseAt(s, d, event, out \o more)
    BY <1>1, <1>6, <1>12, <2>1, <2>2, <2>3, <2>4, SseGoesOn
  <2> QED BY <1>10, <1>15, <2>5 DEF SseReads
<1>18. ASSUME phase # "working"
       PROVE  EventsAt(s, Lines(s, KnownAt(s, n, ended), MaxSseLine, ended), phase, ended, out \o more)
  <2>1. Final(s, E)
    BY <1>8, <1>18 DEF Outcome, Final
  <2>2. E <= KnownAt(s, n, ended)
    BY <1>2, <1>5, <1>6 DEF KnownAt
  <2>3. E \in Nat
    OBVIOUS
  <2> QED BY <1>1, <1>6, <1>8, <2>1, <2>2, <2>3, StopsAt
<1>19. y.phase \in {"working", "failed", "replied"} /\ x.out \in Seq(Seq(Chars))
  BY <1>8, <1>15, <1>16
<1>20. y.phase = "working" => \E i \in Nat : SseReads(s, n, ended, i, y, out \o x.out)
  BY <1>12, <1>15, <1>16, <1>17
<1>21. y.phase # "working" =>
         EventsAt(s, Lines(s, KnownAt(s, n, ended), MaxSseLine, ended), y.phase, ended, out \o x.out)
  BY <1>15, <1>16, <1>18
<1> QED BY <1>15, <1>16, <1>19, <1>20, <1>21 DEF x, y, next

SseBegun(s, n, to, r) == [r EXCEPT !.phase = "working", !.text = @ \o SubSeq(s, n + 1, to)]

\* A chunk goes behind what is in the buffer.
LEMMA SseChunkAt ==
  ASSUME NEW s \in Seq(Symbols), NEW n \in Nat, NEW to \in n + 1..Len(s),
         NEW r \in Readers, NEW out, NEW c \in Nat, NEW ended \in BOOLEAN, ~ended,
         SseReads(s, n, ended, c, r, out)
  PROVE  /\ SseBegun(s, n, to, r) \in Readers /\ SseBegun(s, n, to, r).phase = "working"
         /\ SseReads(s, to, ended, c, SseBegun(s, n, to, r), out)
<1>1. /\ Behind(s, n, ended, c) /\ r.text = SubSeq(s, c + 1, n) /\ SseAt(s, c, r.event, out)
      /\ Len(s) \in Nat /\ to \in Nat /\ c <= n
  BY LenProperties DEF SseReads, Behind
<1>2. SubSeq(s, c + 1, n) \o SubSeq(s, n + 1, to) = SubSeq(s, c + 1, to)
  <2>1. c + 1 \in 1..Len(s) + 1 /\ n \in (c + 1) - 1..Len(s) /\ to \in n..Len(s)
    BY <1>1
  <2> QED BY <2>1, ConcatAdjacentSubSeq
<1>3. PICK text \in Seq(Symbols) : text = SubSeq(s, c + 1, to)
  <2>1. c <= to /\ to <= Len(s)
    BY <1>1
  <2> QED BY <1>1, <2>1, TextIs
<1>4. r.text \o SubSeq(s, n + 1, to) = text
  <2>1. r.text \o SubSeq(s, n + 1, to) = SubSeq(s, c + 1, n) \o SubSeq(s, n + 1, to)
    BY <1>1
  <2> QED BY <1>2, <1>3, <2>1
<1>5. Behind(s, to, ended, c)
  BY <1>1 DEF Behind
<1> DEFINE x == [r EXCEPT !.phase = "working", !.text = r.text \o SubSeq(s, n + 1, to)]
<1>6. x = [r EXCEPT !.phase = "working", !.text = text]
  BY <1>4
<1>7. LET y == [r EXCEPT !.phase = "working", !.text = text]
      IN  y \in Readers /\ y.phase = "working" /\ y.text = text /\ y.event = r.event
  BY DEF Readers
<1> HIDE DEF x
<1>8. x \in Readers /\ x.phase = "working" /\ x.text = text /\ x.event = r.event
  BY <1>6, <1>7
<1>9. SseReads(s, to, ended, c, x, out)
  BY <1>1, <1>3, <1>5, <1>8 DEF SseReads
<1>10. x = SseBegun(s, n, to, r)
  BY DEF x, SseBegun
<1> QED BY <1>8, <1>9, <1>10

\* What is in the buffer, of which nothing is to read yet.
Buffer(s, c, n, text) == Len(text) = n - c /\ \A i \in 1..n - c : text[i] = s[c + i]
AllWait(text, ended) ==
  \A e \in DOMAIN text : FirstEnd(text, 1, e) => ~ended /\ text[e] = "CR" /\ e = Len(text)

\* When the loop over lines stops, none is left but one that may be half of a CRLF.
LEMMA RestIs ==
  ASSUME NEW s \in Seq(Symbols), NEW n \in Nat, n <= Len(s), NEW ended \in BOOLEAN,
         NEW c \in Nat, Behind(s, n, ended, c), NEW text \in Seq(Symbols),
         Buffer(s, c, n, text), AllWait(text, ended)
  PROVE  /\ NoLineLeft(s, n, ended, c)
         /\ Len(text) - (IF text # <<>> /\ text[Len(text)] = "CR" THEN 1 ELSE 0)
              = KnownAt(s, n, ended) - c
         /\ text = <<>> <=> n = c
<1>1. /\ c <= n /\ n - c \in Nat /\ DOMAIN text = 1..n - c /\ Len(text) = n - c
      /\ \A i \in 1..n - c : text[i] = s[c + i]
  BY LenProperties DEF Behind, Buffer
<1>2. text = <<>> <=> n = c
  BY <1>1, EmptySeq
<1>3. ASSUME NEW i \in c + 1..n, s[i] \in Terminators
      PROVE  ~ended /\ i = n /\ s[n] = "CR"
  <2> DEFINE S == {d \in 1..n - c : text[d] \in Terminators}
  <2>1. i - c \in 1..n - c /\ c + (i - c) = i
    BY <1>1
  <2>2. i - c \in S
    BY <1>1, <1>3, <2>1
  <2>3. S \in SUBSET Nat /\ S # {}
    <3>1. \A d \in S : d \in Nat
      OBVIOUS
    <3> QED BY <2>2, <3>1
  <2>4. PICK e \in S : \A d \in S : e <= d
    <3> HIDE DEF S
    <3> QED BY <2>3, FirstPosition
  <2>5. e \in 1..n - c /\ text[e] \in Terminators
    BY <2>4
  <2>6. \A d \in 1..e - 1 : text[d] \notin Terminators
    BY <2>4, <2>5, <1>1
  <2>7. FirstEnd(text, 1, e)
    BY <2>5, <2>6 DEF FirstEnd
  <2>8. ~ended /\ text[e] = "CR" /\ e = n - c
    BY <1>1, <2>5, <2>7 DEF AllWait
  <2>9. e <= i - c
    BY <2>2, <2>4
  <2>10. i = n
    BY <1>1, <2>8, <2>9
  <2>11. s[n] = text[e]
    BY <1>1, <2>5, <2>8
  <2> QED BY <2>8, <2>10, <2>11
<1>4. NoLineLeft(s, n, ended, c)
  BY <1>3 DEF NoLineLeft
<1>5. n # c => text[Len(text)] = s[n]
  BY <1>1
<1>6. ended /\ n # c => s[n] # "CR"
  BY <1>1, <1>4 DEF NoLineLeft, Terminators
<1>7. /\ ended => KnownAt(s, n, ended) = n
      /\ ~ended /\ n > c => KnownAt(s, n, ended) = IF s[n] = "CR" THEN n - 1 ELSE n
      /\ n = c => KnownAt(s, n, ended) = n
  BY <1>4, KnownFrom
<1>8. Len(text) - (IF text # <<>> /\ text[Len(text)] = "CR" THEN 1 ELSE 0) = KnownAt(s, n, ended) - c
  <2>1. CASE n = c
    <3>1. text = <<>> /\ Len(text) = 0 /\ KnownAt(s, n, ended) = c
      BY <1>1, <1>2, <1>7, <2>1
    <3>2. (IF text # <<>> /\ text[Len(text)] = "CR" THEN 1 ELSE 0) = 0
      BY <3>1
    <3> QED BY <3>1, <3>2
  <2>2. CASE n # c /\ s[n] = "CR"
    BY <1>1, <1>2, <1>5, <1>6, <1>7, <2>2
  <2>3. CASE n # c /\ s[n] # "CR"
    BY <1>1, <1>2, <1>5, <1>7, <2>3
  <2> QED BY <2>1, <2>2, <2>3
<1> QED BY <1>2, <1>4, <1>8

\* A line past the limit fails the request.
LEMMA RestOverlong ==
  ASSUME NEW s \in Seq(Symbols), NEW n \in Nat, n <= Len(s), NEW ended \in BOOLEAN,
         NEW c \in Nat, Behind(s, n, ended, c), NoLineLeft(s, n, ended, c),
         NEW r, NEW out \in Seq(Seq(Chars)), SseAt(s, c, r, out),
         KnownAt(s, n, ended) - c > MaxSseLine
  PROVE  EventsAt(s, Lines(s, KnownAt(s, n, ended), MaxSseLine, ended), "failed", ended, out \o <<>>)
<1> DEFINE K == KnownAt(s, n, ended)
           lines == Lines(s, K, MaxSseLine, ended)
<1>1. K \in c..n /\ K \in Nat
  BY KnownFrom
<1>2. /\ K - c > MaxSseLine => lines = Ends(s, c) \cup {K + 1}
      /\ ~ended /\ ~(K - c > MaxSseLine) => lines = Ends(s, c)
      /\ Ends(s, c) \in SUBSET (1..c) /\ Cardinality(Line(s, K + 1)) = K - c
  BY KnownLines
<1>3. lines = Ends(s, c) \cup {K + 1}
  BY <1>2
<1> HIDE DEF lines
<1>4. Faulty(s, K + 1) /\ Final(s, K + 1)
  BY <1>2 DEF Faulty, Final
<1>5. Outcome(s, K + 1, "failed", <<>>, <<>>)
  BY <1>4 DEF Outcome
<1> HIDE DEF K
<1>6. K + 1 \in Nat /\ c < K + 1 /\ lines \in SUBSET Nat /\ K + 1 \in lines
  BY <1>1, <1>2, <1>3
<1>7. {d \in lines : d < K + 1} = Ends(s, c)
  BY <1>1, <1>2, <1>3
<1>8. <<>> \in Seq(Seq(Chars))
  OBVIOUS
<1>9. EventsAt(s, lines, "failed", ended, out \o <<>>)
  BY <1>4, <1>5, <1>6, <1>7, <1>8, SseStops
<1> QED BY <1>9 DEF lines, K

\* A stream that may go on has said what its finished lines say.
LEMMA WaitsAt ==
  ASSUME NEW s \in Seq(Symbols), NEW n \in Nat, n <= Len(s), NEW c \in Nat,
         NEW ended \in BOOLEAN, ~ended, Behind(s, n, ended, c), SseWaits(s, n, ended, c), NEW r, NEW out, SseAt(s, c, r, out)
  PROVE  EventsAt(s, Lines(s, KnownAt(s, n, ended), MaxSseLine, ended), "waiting", ended, out)
<1> DEFINE K == KnownAt(s, n, ended)
           lines == Lines(s, K, MaxSseLine, ended)
<1>1. NoLineLeft(s, n, ended, c) /\ ~(Cardinality(Line(s, K + 1)) > MaxSseLine)
  BY DEF SseWaits
<1>2. /\ K - c > MaxSseLine => lines = Ends(s, c) \cup {K + 1}
      /\ ~ended /\ ~(K - c > MaxSseLine) => lines = Ends(s, c)
      /\ Ends(s, c) \in SUBSET (1..c) /\ Cardinality(Line(s, K + 1)) = K - c
  BY <1>1, KnownLines
<1>3. lines = Ends(s, c)
  <2>1. ~(K - c > MaxSseLine)
    BY <1>1, <1>2
  <2> HIDE DEF lines, K
  <2> QED BY <1>2, <2>1
<1>4. Ends(s, c) \in SUBSET Nat
  BY <1>2
<1> HIDE DEF lines, K
<1>5. EventsAt(s, Ends(s, c), IF ended THEN "ended" ELSE "waiting", ended, out)
  BY <1>4, SseLasts
<1> QED BY <1>3, <1>5 DEF lines, K

\* A stream that ends behind a line says what its lines say,
LEMMA RestEmpty ==
  ASSUME NEW s \in Seq(Symbols), NEW n \in Nat, n <= Len(s), NEW ended \in BOOLEAN, ended,
         Behind(s, n, ended, n),
         NEW r, NEW out, SseAt(s, n, r, out)
  PROVE  EventsAt(s, Lines(s, KnownAt(s, n, ended), MaxSseLine, ended), "ended", ended, out)
<1>1. KnownAt(s, n, ended) = n
  BY DEF KnownAt
<1>2. s[n] \in Terminators \/ n = 0
  BY DEF Behind
<1>3. Line(s, n + 1) = {}
  BY <1>2, LineStart
<1>4. Cardinality(Line(s, n + 1)) = 0
  <2>1. n + 1 \in Nat \ {0}
    OBVIOUS
  <2> QED BY <1>3, <2>1, LineInside
<1>5. ~(Cardinality(Line(s, n + 1)) > MaxSseLine)
  BY <1>4, FramingAssumption DEF MaxSseLine
<1>6. Lines(s, n, MaxSseLine, ended) = Ends(s, n)
  BY <1>3, <1>5 DEF Lines
<1>7. Ends(s, n) \in SUBSET Nat
  BY DEF Ends
<1>8. EventsAt(s, Ends(s, n), IF ended THEN "ended" ELSE "waiting", ended, out)
  BY <1>7, SseLasts
<1> QED BY <1>1, <1>6, <1>8

\* and one that ends within a line what they and this one say.
LEMMA RestLast ==
  ASSUME NEW s \in Seq(Symbols), NEW n \in Nat, n <= Len(s), NEW c \in Nat, c # n,
         NEW ended \in BOOLEAN, ended, LineFrom(s, c, n + 1),
         NEW r \in Readers, r.phase = "working", NEW out \in Seq(Seq(Chars)), SseAt(s, c, r.event, out)
  PROVE  LET x == LineRead([r |-> r, out |-> <<>>], SubSeq(s, c + 1, n))
             y == [x.r EXCEPT !.phase = IF @ = "working" THEN "ended" ELSE @]
         IN  /\ x = [r |-> x.r, out |-> x.out] /\ x.out \in Seq(Seq(Chars))
             /\ y \in Readers /\ y.phase \in {"ended", "failed", "replied"}
             /\ EventsAt(s, Lines(s, KnownAt(s, n, ended), MaxSseLine, ended), y.phase, ended, out \o x.out)
<1>1. KnownAt(s, n, ended) = n /\ c < n /\ n + 1 \in Nat
  BY DEF KnownAt, LineFrom
<1>2. PICK lines : lines = Lines(s, n, MaxSseLine, ended)
  OBVIOUS
<1>3. Line(s, n + 1) = c + 1..n /\ Ends(s, n) = Ends(s, c)
  <2>1. Line(s, n + 1) = c + 1..(n + 1) - 1 /\ Ends(s, (n + 1) - 1) = Ends(s, c)
    BY <1>1, LineFromIs
  <2>2. (n + 1) - 1 = n
    OBVIOUS
  <2> QED BY <2>1, <2>2
<1>4. Line(s, n + 1) # {} /\ Ends(s, c) \in SUBSET (1..c)
  <2>1. n \in c + 1..n
    BY <1>1
  <2> QED BY <1>3, <2>1, EndsInside
<1>5. lines = Ends(s, c) \cup {n + 1}
  BY <1>2, <1>3, <1>4 DEF Lines
<1>6. PICK E \in Nat : E = n + 1
  OBVIOUS
<1>7. /\ LineFrom(s, c, E) /\ Line(s, E) # {} /\ c < E /\ E - 1 = n
      /\ lines = Ends(s, c) \cup {E} /\ lines \in SUBSET Nat /\ E \in lines
      /\ {d \in lines : d < E} = Ends(s, c) /\ Ends(s, c) \in SUBSET lines
  BY <1>1, <1>4, <1>5, <1>6
<1>8. PICK phase \in {"working", "failed", "replied"},
           event \in Seq(Seq(Symbols \cup {"NL"})), more \in Seq(Seq(Chars)) :
        /\ LineRead([r |-> r, out |-> <<>>], SubSeq(s, c + 1, E - 1))
             = [r |-> [r EXCEPT !.phase = phase, !.event = event], out |-> more]
        /\ Outcome(s, E, phase, event, more)
  <2>1. EventIs(s, Open(s, Ends(s, c)), r.event)
    BY DEF SseAt
  <2> QED BY <1>7, <2>1, LineReadAt
<1> DEFINE x == LineRead([r |-> r, out |-> <<>>], SubSeq(s, c + 1, n))
           y == [x.r EXCEPT !.phase = IF @ = "working" THEN "ended" ELSE @]
<1>9. x = [r |-> [r EXCEPT !.phase = phase, !.event = event], out |-> more]
  BY <1>7, <1>8
<1>10. PICK last \in {"ended", "failed", "replied"} : last = IF phase = "working" THEN "ended" ELSE phase
  OBVIOUS
<1>11. y = [[r EXCEPT !.phase = phase, !.event = event] EXCEPT !.phase = last]
  <2>1. x.r = [r EXCEPT !.phase = phase, !.event = event]
    BY <1>9
  <2>2. [r EXCEPT !.phase = phase, !.event = event].phase = phase
    BY DEF Readers
  <2> HIDE DEF x
  <2>3. x.r.phase = phase
    BY <2>1, <2>2
  <2> QED BY <1>10, <2>1, <2>3
<1>12. y \in Readers /\ y.phase = last
  <2> DEFINE z == [[r EXCEPT !.phase = phase, !.event = event] EXCEPT !.phase = last]
  <2>1. z \in Readers /\ z.phase = last
    BY DEF Readers
  <2>2. y = z
    BY <1>11
  <2> HIDE DEF y, z
  <2> QED BY <2>1, <2>2
<1>13. x = [r |-> x.r, out |-> x.out] /\ x.out = more
  BY <1>9
<1> HIDE DEF x, y
<1>14. EventsAt(s, lines, last, ended, out \o more)
  <2>1. ASSUME phase = "working"
        PROVE  EventsAt(s, lines, "ended", ended, out \o more)
    <3>1. ~Final(s, E) /\ ~Completes(s, E) /\ more = <<>>
      BY <1>7, <1>8, <2>1 DEF Outcome, Final, Completes
    <3>2. out \o <<>> = out
      BY ConcatEmptySeq
    <3>3. \A e \in lines : e \notin Ends(s, c) => ~Final(s, e) /\ ~Completes(s, e)
      BY <1>7, <3>1
    <3>4. EventsAt(s, lines, IF ended THEN "ended" ELSE "waiting", ended, out)
      BY <1>7, <3>3, SseLasts
    <3> QED BY <3>1, <3>2, <3>4
  <2>2. ASSUME phase # "working"
        PROVE  EventsAt(s, lines, phase, ended, out \o more)
    <3>1. Final(s, E)
      BY <1>8, <2>2 DEF Outcome, Final
    <3> QED BY <1>7, <1>8, <3>1, SseStops
  <2> QED BY <1>10, <2>1, <2>2
<1>15. EventsAt(s, Lines(s, KnownAt(s, n, ended), MaxSseLine, ended), y.phase, ended, out \o x.out)
  BY <1>1, <1>2, <1>12, <1>13, <1>14
<1>16. x.out \in Seq(Seq(Chars)) /\ y.phase \in {"ended", "failed", "replied"}
  BY <1>12, <1>13
<1> QED BY <1>12, <1>13, <1>15, <1>16 DEF x, y

-----------------------------------------------------------------------------
(* The invariant: what was emitted, and what the reader keeps, are what    *)
(* the part of the stream that has come says.                              *)

StdioInv(s, n, ended, r, out) ==
  IF r.phase \in {"waiting", "working"}
  THEN ~ended /\ StdioAt(s, n, r, out) /\ (r.phase = "waiting" => r.from = n + 1)
  ELSE r.phase = "ended" /\ ended /\ Framed(s, Lines(s, n, MaxMessage, ended), out)

SseInv(s, n, ended, r, out) ==
  IF r.phase \in {"waiting", "working"}
  THEN \E c \in Nat : /\ SseReads(s, n, ended, c, r, out)
                      /\ r.phase = "waiting" => ~ended /\ SseWaits(s, n, ended, c)
  ELSE EventsAt(s, Lines(s, KnownAt(s, n, ended), MaxSseLine, ended), r.phase, ended, out)

BodyAt(body, ended, phase, out) ==
  /\ out = IF ended /\ IsJson(body) THEN <<body>> ELSE <<>>
  /\ phase = "failed" <=> Len(body) > MaxMessage \/ (ended /\ ~IsJson(body) /\ ~IsBlank(body))

JsonInv(s, n, ended, r, out) ==
  /\ r.phase # "working"
  /\ r.phase = "waiting" => ~ended /\ r.text = SubSeq(s, 1, n) /\ ~(Len(r.text) > MaxMessage) /\ out = <<>>
  /\ r.phase # "waiting" => BodyAt(SubSeq(s, 1, n), ended, r.phase, out)

FramingInv ==
  /\ feed \in {"none", "stdio", "sse", "json"} /\ input \in Seq(Symbols) /\ at \in 0..Len(input)
  /\ closed \in BOOLEAN /\ reader \in Readers /\ frames \in Seq(Seq(Chars))
  /\ feed = "none" => FramingInit
  /\ feed = "stdio" => StdioInv(input, at, closed, reader, frames)
  /\ feed = "sse" => SseInv(input, at, closed, reader, frames)
  /\ feed = "json" => JsonInv(input, at, closed, reader, frames)

LEMMA FramingInitially == FramingInit => FramingInv
<1> SUFFICES ASSUME FramingInit PROVE FramingInv
  OBVIOUS
<1>1. feed = "none" /\ at = 0 /\ closed = FALSE
  BY DEF FramingInit
<1>2. input = <<>> /\ input \in Seq(Symbols) /\ Len(input) = 0
  BY DEF FramingInit
<1>3. frames \in Seq(Seq(Chars))
  BY DEF FramingInit
<1>4. reader \in Readers
  BY DEF FramingInit, Readers
<1>5. at \in 0..Len(input) /\ closed \in BOOLEAN
  <2>1. closed \in BOOLEAN
    BY <1>1
  <2>2. at \in 0..0 /\ 0..Len(input) = 0..0
    BY <1>1, <1>2
  <2> QED BY <2>1, <2>2
<1>6. input \in Seq(Symbols)
  BY <1>2
<1>7. feed \in {"none", "stdio", "sse", "json"} /\ feed \notin {"stdio", "sse", "json"}
  BY <1>1
<1> QED BY <1>3, <1>4, <1>5, <1>6, <1>7 DEF FramingInv

LEMMA FramingConnect == FramingInv /\ Connect => FramingInv'
<1> SUFFICES ASSUME FramingInv, Connect PROVE FramingInv'
  OBVIOUS
<1>1. PICK f \in {"stdio", "sse", "json"} : feed' = f /\ input' \in [1..MaxInput -> Bytes(f)]
  BY DEF Connect
<1>2. /\ FramingInit /\ UNCHANGED <<at, closed, reader, frames>>
      /\ reader \in Readers /\ frames \in Seq(Seq(Chars)) /\ closed \in BOOLEAN
  BY DEF Connect, FramingInv
<1>3. /\ at' = 0 /\ closed' = FALSE /\ frames' = <<>> /\ reader' = reader
      /\ reader.phase = "waiting" /\ reader.text = <<>> /\ reader.from = 1
      /\ reader.discarding = "no" /\ reader.skipLF = "no" /\ reader.event = <<>>
  BY <1>2 DEF FramingInit
<1>4. input' \in Seq(Symbols) /\ Len(input') \in Nat
  <2>1. Bytes(f) \in SUBSET Symbols
    BY DEF Bytes, Symbols
  <2>2. input' \in [1..MaxInput -> Symbols]
    BY <1>1, <2>1
  <2>3. MaxInput \in Nat
    BY FramingAssumption
  <2> QED BY <2>2, <2>3, IsASeq, LenProperties
<1> DEFINE s == input'
<1> HIDE DEF s
<1>5. Ends(s, 0) = {} /\ Line(s, 1) = {} /\ Cardinality({}) = 0
  BY FS_EmptySet DEF Ends, Line
<1>6. StdioInv(s, 0, FALSE, reader, <<>>)
  <2>1. Framed(s, Ends(s, 1 - 1), <<>>)
    <3>1. 1 - 1 = 0
      OBVIOUS
    <3> QED BY <1>5, <3>1 DEF Framed
  <2>2. Reading(s, 1, <<>>, "no", <<>>)
    BY <1>5, <2>1, ReadingNone
  <2>3. Between(s, 0, 1, "no")
    BY DEF Between
  <2> QED BY <1>3, <2>2, <2>3 DEF StdioInv, StdioAt
<1>7. SseInv(s, 0, FALSE, reader, <<>>)
  <2>1. Open(s, Ends(s, 0)) = {} /\ Completed(s, Ends(s, 0)) = {}
    BY <1>5 DEF Open, Completed
  <2>2. SseAt(s, 0, <<>>, <<>>)
    BY <1>5, <2>1 DEF SseAt, EventIs, Emitted
  <2>3. Behind(s, 0, FALSE, 0) /\ NoLineLeft(s, 0, FALSE, 0)
    BY DEF Behind, NoLineLeft
  <2>4. SubSeq(s, 0 + 1, 0) = <<>>
    BY SubSeqEmpty
  <2>5. SseReads(s, 0, FALSE, 0, reader, <<>>)
    BY <1>3, <2>2, <2>3, <2>4 DEF SseReads
  <2>6. KnownAt(s, 0, FALSE) + 1 = 1
    BY DEF KnownAt
  <2>7. ~(0 > MaxSseLine)
    BY FramingAssumption DEF MaxSseLine
  <2>8. SseWaits(s, 0, FALSE, 0)
    BY <1>5, <2>3, <2>6, <2>7 DEF SseWaits
  <2> QED BY <1>3, <2>5, <2>8 DEF SseInv
<1>8. JsonInv(s, 0, FALSE, reader, <<>>)
  <2>1. SubSeq(s, 1, 0) = <<>>
    BY SubSeqEmpty
  <2>2. ~(Len(<<>>) > MaxMessage)
    BY FramingAssumption
  <2> QED BY <1>3, <2>1, <2>2 DEF JsonInv
<1>9. /\ feed' \in {"none", "stdio", "sse", "json"} /\ feed' # "none" /\ at' \in 0..Len(input')
      /\ closed' \in BOOLEAN /\ reader' \in Readers /\ frames' \in Seq(Seq(Chars))
  BY <1>1, <1>2, <1>3, <1>4
<1>10. /\ StdioInv(input', at', closed', reader', frames')
       /\ SseInv(input', at', closed', reader', frames')
       /\ JsonInv(input', at', closed', reader', frames')
  BY <1>3, <1>6, <1>7, <1>8 DEF s
<1> QED BY <1>4, <1>9, <1>10 DEF FramingInv

\* A step of the reader on what has come.
LEMMA FramingStep ==
  ASSUME FramingInv, feed' = feed, feed # "none", input' = input,
         at' \in 0..Len(input), closed' \in BOOLEAN, reader' \in Readers,
         NEW out \in Seq(Seq(Chars)), frames' = frames \o out,
         feed = "stdio" => StdioInv(input, at', closed', reader', frames \o out),
         feed = "sse" => SseInv(input, at', closed', reader', frames \o out),
         feed = "json" => JsonInv(input, at', closed', reader', frames \o out)
  PROVE  FramingInv'
<1>1. frames \in Seq(Seq(Chars)) /\ frames \o out \in Seq(Seq(Chars))
  BY ConcatProperties DEF FramingInv
<1>2. /\ frames' \in Seq(Seq(Chars)) /\ input' \in Seq(Symbols) /\ at' \in 0..Len(input')
      /\ feed' \in {"none", "stdio", "sse", "json"} /\ feed' # "none"
  BY <1>1 DEF FramingInv
<1>3. feed' = "stdio" => StdioInv(input', at', closed', reader', frames')
  OBVIOUS
<1>4. feed' = "sse" => SseInv(input', at', closed', reader', frames')
  OBVIOUS
<1>5. feed' = "json" => JsonInv(input', at', closed', reader', frames')
  OBVIOUS
<1> QED BY <1>2, <1>3, <1>4, <1>5 DEF FramingInv

LEMMA FramingStdioLine == FramingInv /\ StdioLine => FramingInv'
<1> SUFFICES ASSUME FramingInv, StdioLine PROVE FramingInv'
  OBVIOUS
<1>1. /\ feed = "stdio" /\ reader.phase = "working"
      /\ feed' = feed /\ input' = input /\ at' = at /\ closed' = closed
  BY DEF StdioLine
<1>2. PICK e \in reader.from..at :
        /\ FirstEnd(input, reader.from, e)
        /\ LET s == EndOfLine(Buffered(Now, SubSeq(input, reader.from, e - 1)))
               skip == IF input[e] = "CR" /\ e = at THEN "yes" ELSE "no"
           IN  Taken([r |-> [s.r EXCEPT !.from = AfterEnd(input, e, at), !.skipLF = skip],
                      out |-> s.out])
  BY DEF StdioLine
<1>3. /\ input \in Seq(Symbols) /\ at \in Nat /\ at <= Len(input) /\ reader \in Readers
      /\ frames \in Seq(Seq(Chars)) /\ closed \in BOOLEAN /\ at \in 0..Len(input)
      /\ StdioInv(input, at, closed, reader, frames)
  BY <1>1, LenProperties DEF FramingInv
<1>4. ~closed /\ StdioAt(input, at, reader, frames)
  BY <1>1, <1>3 DEF StdioInv
<1> DEFINE x == EndOfLine(Buffered([r |-> reader, out |-> <<>>], SubSeq(input, reader.from, e - 1)))
           skip == IF input[e] = "CR" /\ e = at THEN "yes" ELSE "no"
           y == [x.r EXCEPT !.from = AfterEnd(input, e, at), !.skipLF = skip]
<1>5. /\ y \in Readers /\ x.out \in Seq(Seq(Chars)) /\ y.phase = reader.phase
      /\ StdioAt(input, at, y, frames \o x.out)
  BY <1>2, <1>3, <1>4, StdioLineAt
<1>6. reader' = y /\ frames' = frames \o x.out
  BY <1>2 DEF Taken, Now
<1> HIDE DEF x, y, skip
<1>7. StdioInv(input, at, closed, y, frames \o x.out)
  BY <1>1, <1>4, <1>5 DEF StdioInv
<1>8. StdioInv(input, at', closed', reader', frames \o x.out)
  BY <1>1, <1>6, <1>7
<1>9. feed # "none" /\ feed # "sse" /\ feed # "json"
  BY <1>1
<1>10. at' \in 0..Len(input) /\ closed' \in BOOLEAN /\ reader' \in Readers
  BY <1>1, <1>3, <1>5, <1>6
<1>11. feed' = feed /\ input' = input /\ frames' = frames \o x.out
  BY <1>1, <1>6
<1> QED BY <1>5, <1>8, <1>9, <1>10, <1>11, FramingStep

LEMMA FramingStdioRest == FramingInv /\ StdioRest => FramingInv'
<1> SUFFICES ASSUME FramingInv, StdioRest PROVE FramingInv'
  OBVIOUS
<1>1. /\ feed = "stdio" /\ reader.phase = "working"
      /\ feed' = feed /\ input' = input /\ at' = at /\ closed' = closed
      /\ \A i \in reader.from..at : input[i] \notin Terminators
  BY DEF StdioRest
<1>2. /\ input \in Seq(Symbols) /\ at \in Nat /\ at <= Len(input) /\ reader \in Readers
      /\ frames \in Seq(Seq(Chars)) /\ closed \in BOOLEAN /\ at \in 0..Len(input)
      /\ StdioInv(input, at, closed, reader, frames)
  BY <1>1, LenProperties DEF FramingInv
<1>3. ~closed /\ StdioAt(input, at, reader, frames)
  BY <1>1, <1>2 DEF StdioInv
<1> DEFINE x == Buffered([r |-> reader, out |-> <<>>], SubSeq(input, reader.from, at))
           y == [x.r EXCEPT !.phase = "waiting", !.from = at + 1]
<1>4. /\ y \in Readers /\ x.out \in Seq(Seq(Chars)) /\ y.phase = "waiting"
      /\ y.from = at + 1 /\ StdioAt(input, at, y, frames \o x.out)
  BY <1>1, <1>2, <1>3, StdioRestAt
<1>5. reader' = y /\ frames' = frames \o x.out
  BY DEF StdioRest, Taken, Now
<1> HIDE DEF x, y
<1>6. StdioInv(input, at, closed, y, frames \o x.out)
  BY <1>1, <1>3, <1>4 DEF StdioInv
<1>7. StdioInv(input, at', closed', reader', frames \o x.out)
  BY <1>1, <1>5, <1>6
<1>8. feed # "none" /\ feed # "sse" /\ feed # "json"
  BY <1>1
<1>9. at' \in 0..Len(input) /\ closed' \in BOOLEAN /\ reader' \in Readers
  BY <1>1, <1>2, <1>4, <1>5
<1>10. feed' = feed /\ input' = input /\ frames' = frames \o x.out
  BY <1>1, <1>5
<1> QED BY <1>4, <1>7, <1>8, <1>9, <1>10, FramingStep

\* A step that leaves another text.
LEMMA TextOf ==
  ASSUME NEW p, NEW o, NEW v
  PROVE  [[r |-> p, out |-> o] EXCEPT !.r.text = v] = [r |-> [p EXCEPT !.text = v], out |-> o]
OBVIOUS

LEMMA FramingSseLine == FramingInv /\ SseLine => FramingInv'
<1> SUFFICES ASSUME FramingInv, SseLine PROVE FramingInv'
  OBVIOUS
<1>1. /\ feed = "sse" /\ reader.phase = "working"
      /\ feed' = feed /\ input' = input /\ at' = at /\ closed' = closed
  BY DEF SseLine
<1>2. PICK e \in DOMAIN reader.text :
        /\ FirstEnd(reader.text, 1, e) /\ ~MustWait(reader.text, e)
        /\ LET s == LineRead(Now, SubSeq(reader.text, 1, e - 1))
               next == AfterEnd(reader.text, e, Len(reader.text))
           IN  Taken([s EXCEPT !.r.text = SubSeq(reader.text, next, Len(reader.text))])
  BY DEF SseLine
<1>3. /\ input \in Seq(Symbols) /\ at \in Nat /\ at <= Len(input) /\ reader \in Readers
      /\ frames \in Seq(Seq(Chars)) /\ closed \in BOOLEAN /\ at \in 0..Len(input)
      /\ SseInv(input, at, closed, reader, frames)
  BY <1>1, LenProperties DEF FramingInv
<1>4. PICK c \in Nat : SseReads(input, at, closed, c, reader, frames)
  BY <1>1, <1>3 DEF SseInv
<1>5. ~(~closed /\ reader.text[e] = "CR" /\ e = Len(reader.text))
  BY <1>2 DEF MustWait
<1> DEFINE x == LineRead([r |-> reader, out |-> <<>>], SubSeq(reader.text, 1, e - 1))
           next == AfterEnd(reader.text, e, Len(reader.text))
           y == [x.r EXCEPT !.text = SubSeq(reader.text, next, Len(reader.text))]
<1>6. /\ x = [r |-> x.r, out |-> x.out]
      /\ y \in Readers /\ x.out \in Seq(Seq(Chars)) /\ y.phase \in {"working", "failed", "replied"}
      /\ y.phase = "working" => \E d \in Nat : SseReads(input, at, closed, d, y, frames \o x.out)
      /\ y.phase # "working" =>
           EventsAt(input, Lines(input, KnownAt(input, at, closed), MaxSseLine, closed), y.phase,
                    closed, frames \o x.out)
  BY <1>1, <1>2, <1>3, <1>4, <1>5, SseLineAt
<1>7. reader' = y /\ frames' = frames \o x.out
  <2>1. LET s == x
        IN  Taken([s EXCEPT !.r.text = SubSeq(reader.text, next, Len(reader.text))])
    BY <1>2 DEF Now
  <2> HIDE DEF next
  <2>2. [x EXCEPT !.r.text = SubSeq(reader.text, next, Len(reader.text))] = [r |-> y, out |-> x.out]
    <3>1. PICK p, o : x = [r |-> p, out |-> o]
      BY <1>6
    <3>2. x.r = p /\ x.out = o
      BY <3>1
    <3>3. PICK v : v = SubSeq(reader.text, next, Len(reader.text))
      OBVIOUS
    <3>4. [[r |-> p, out |-> o] EXCEPT !.r.text = v] = [r |-> [p EXCEPT !.text = v], out |-> o]
      BY TextOf
    <3> HIDE DEF x
    <3> QED BY <3>1, <3>2, <3>3, <3>4
  <2> HIDE DEF x, y
  <2> QED BY <2>1, <2>2 DEF Taken
<1> HIDE DEF x, y, next
<1>8. SseInv(input, at, closed, y, frames \o x.out)
  BY <1>6 DEF SseInv
<1>9. SseInv(input, at', closed', reader', frames \o x.out)
  BY <1>1, <1>7, <1>8
<1>10. feed # "none" /\ feed # "stdio" /\ feed # "json"
  BY <1>1
<1>11. at' \in 0..Len(input) /\ closed' \in BOOLEAN /\ reader' \in Readers
  BY <1>1, <1>3, <1>6, <1>7
<1>12. feed' = feed /\ input' = input /\ frames' = frames \o x.out
  BY <1>1, <1>7
<1> QED BY <1>6, <1>9, <1>10, <1>11, <1>12, FramingStep

LEMMA FramingSseRest == FramingInv /\ SseRest => FramingInv'
<1> SUFFICES ASSUME FramingInv, SseRest PROVE FramingInv'
  OBVIOUS
<1>1. /\ feed = "sse" /\ reader.phase = "working"
      /\ feed' = feed /\ input' = input /\ at' = at /\ closed' = closed
  BY DEF SseRest
<1>2. /\ input \in Seq(Symbols) /\ at \in Nat /\ at <= Len(input) /\ reader \in Readers
      /\ frames \in Seq(Seq(Chars)) /\ closed \in BOOLEAN /\ at \in 0..Len(input)
      /\ SseInv(input, at, closed, reader, frames)
  BY <1>1, LenProperties DEF FramingInv
<1>3. PICK c \in Nat : SseReads(input, at, closed, c, reader, frames)
  BY <1>1, <1>2 DEF SseInv
<1>4. Behind(input, at, closed, c) /\ SseAt(input, c, reader.event, frames) /\ c <= at
  BY <1>3 DEF SseReads, Behind
<1>5. reader.text = SubSeq(input, c + 1, at)
  BY <1>3 DEF SseReads
<1>6. PICK text \in Seq(Symbols) :
        /\ text = reader.text /\ Len(text) = at - c
        /\ \A i \in 1..at - c : text[i] = input[c + i]
  <2>1. /\ SubSeq(input, c + 1, at) \in Seq(Symbols) /\ Len(SubSeq(input, c + 1, at)) = at - c
        /\ \A i \in 1..at - c : SubSeq(input, c + 1, at)[i] = input[c + i]
    BY <1>2, <1>4, TextIs
  <2> QED BY <1>5, <2>1
<1>7. AllWait(text, closed)
  BY <1>6 DEF SseRest, MustWait, AllWait
<1>8. /\ NoLineLeft(input, at, closed, c)
      /\ Len(text) - (IF text # <<>> /\ text[Len(text)] = "CR" THEN 1 ELSE 0)
           = KnownAt(input, at, closed) - c
      /\ text = <<>> <=> at = c
  <2>1. Buffer(input, c, at, text)
    BY <1>6 DEF Buffer
  <2> QED BY <1>2, <1>4, <1>7, <2>1, RestIs
<1> DEFINE over == KnownAt(input, at, closed) - c > MaxSseLine
           last == LineRead([r |-> reader, out |-> <<>>], text)
<1>9. \/ over /\ Taken([[r |-> reader, out |-> <<>>] EXCEPT !.r.phase = "failed"])
      \/ ~over /\ ~closed /\ Taken([[r |-> reader, out |-> <<>>] EXCEPT !.r.phase = "waiting"])
      \/ closed /\ text = <<>> /\ Taken([[r |-> reader, out |-> <<>>] EXCEPT !.r.phase = "ended"])
      \/ /\ closed /\ text # <<>>
         /\ Taken([last EXCEPT !.r.phase = IF @ = "working" THEN "ended" ELSE @])
  <2>1. LET t == reader.text
            pending == IF t # <<>> /\ t[Len(t)] = "CR" THEN 1 ELSE 0
            overlong == Len(t) - pending > MaxSseLine
            final == LineRead(Now, t)
        IN  \/ overlong /\ Taken([Now EXCEPT !.r.phase = "failed"])
            \/ ~overlong /\ ~closed /\ Taken([Now EXCEPT !.r.phase = "waiting"])
            \/ /\ ~overlong /\ closed
               /\ \/ t = <<>> /\ Taken([Now EXCEPT !.r.phase = "ended"])
                  \/ /\ t # <<>>
                     /\ Taken([final EXCEPT !.r.phase = IF @ = "working" THEN "ended" ELSE @])
    BY DEF SseRest
  <2> QED BY <1>6, <1>8, <2>1 DEF Now
<1>10. frames \o <<>> = frames
  BY <1>2, ConcatEmptySeq
<1>11. feed # "none" /\ feed # "stdio" /\ feed # "json"
  BY <1>1
<1>12. <<>> \in Seq(Seq(Chars))
  OBVIOUS
<1> HIDE DEF over, last
<1>13. ASSUME NEW phase \in {"failed", "waiting", "ended"},
              Taken([[r |-> reader, out |-> <<>>] EXCEPT !.r.phase = phase]),
              SseInv(input, at, closed, [reader EXCEPT !.phase = phase], frames)
       PROVE  FramingInv'
  <2>1. [[r |-> reader, out |-> <<>>] EXCEPT !.r.phase = phase]
          = [r |-> [reader EXCEPT !.phase = phase], out |-> <<>>]
    OBVIOUS
  <2> DEFINE y == [reader EXCEPT !.phase = phase]
  <2>2. y \in Readers
    BY <1>2 DEF Readers
  <2>3. reader' = y /\ frames' = frames \o <<>>
    BY <1>13, <2>1 DEF Taken
  <2>4. SseInv(input, at, closed, y, frames)
    BY <1>13
  <2> HIDE DEF y
  <2>5. SseInv(input, at', closed', reader', frames \o <<>>)
    BY <1>1, <1>10, <2>3, <2>4
  <2>6. at' \in 0..Len(input) /\ closed' \in BOOLEAN /\ reader' \in Readers
    BY <1>1, <1>2, <2>2, <2>3
  <2>7. feed' = feed /\ input' = input /\ frames' = frames \o <<>>
    BY <1>1, <2>3
  <2> QED BY <1>11, <1>12, <2>5, <2>6, <2>7, FramingStep
<1>14. \A phase \in {"failed", "waiting", "ended"} :
         LET y == [reader EXCEPT !.phase = phase]
         IN  y.phase = phase /\ y.text = reader.text /\ y.event = reader.event
  BY <1>2 DEF Readers
<1>15. CASE over /\ Taken([[r |-> reader, out |-> <<>>] EXCEPT !.r.phase = "failed"])
  <2>1. KnownAt(input, at, closed) - c > MaxSseLine
    BY <1>15 DEF over
  <2>2. EventsAt(input, Lines(input, KnownAt(input, at, closed), MaxSseLine, closed), "failed",
                 closed, frames \o <<>>)
    BY <1>2, <1>4, <1>8, <2>1, RestOverlong
  <2>3. SseInv(input, at, closed, [reader EXCEPT !.phase = "failed"], frames)
    BY <1>10, <1>14, <2>2 DEF SseInv
  <2> QED BY <1>13, <1>15, <2>3
<1>16. CASE ~over /\ ~closed /\ Taken([[r |-> reader, out |-> <<>>] EXCEPT !.r.phase = "waiting"])
  <2>1. PICK K : K = KnownAt(input, at, closed)
    OBVIOUS
  <2>2. Cardinality(Line(input, K + 1)) = K - c
    BY <1>2, <1>4, <1>8, <2>1, KnownLines
  <2>3. SseWaits(input, at, closed, c)
    BY <1>8, <1>16, <2>1, <2>2 DEF SseWaits, over
  <2>4. SseReads(input, at, closed, c, [reader EXCEPT !.phase = "waiting"], frames)
    BY <1>3, <1>14 DEF SseReads
  <2>5. SseInv(input, at, closed, [reader EXCEPT !.phase = "waiting"], frames)
    BY <1>14, <1>16, <2>3, <2>4 DEF SseInv
  <2> QED BY <1>13, <1>16, <2>5
<1>17. CASE closed /\ text = <<>> /\ Taken([[r |-> reader, out |-> <<>>] EXCEPT !.r.phase = "ended"])
  <2>1. at = c
    BY <1>8, <1>17
  <2>2. Behind(input, at, closed, at) /\ SseAt(input, at, reader.event, frames)
    BY <1>4, <2>1
  <2>3. EventsAt(input, Lines(input, KnownAt(input, at, closed), MaxSseLine, closed), "ended",
                 closed, frames)
    BY <1>2, <1>17, <2>2, RestEmpty
  <2>4. SseInv(input, at, closed, [reader EXCEPT !.phase = "ended"], frames)
    BY <1>14, <2>3 DEF SseInv
  <2> QED BY <1>13, <1>17, <2>4
<1>18. CASE /\ closed /\ text # <<>>
            /\ Taken([last EXCEPT !.r.phase = IF @ = "working" THEN "ended" ELSE @])
  <2> DEFINE y == [last.r EXCEPT !.phase = IF @ = "working" THEN "ended" ELSE @]
  <2>1. c # at /\ LineFrom(input, c, at + 1)
    <3>1. LineFrom(input, c, KnownAt(input, at, closed) + 1) /\ (closed => KnownAt(input, at, closed) = at)
      BY <1>2, <1>4, <1>8, KnownFrom
    <3> QED BY <1>8, <1>18, <3>1
  <2>2. last = LineRead([r |-> reader, out |-> <<>>], SubSeq(input, c + 1, at))
    BY <1>5, <1>6 DEF last
  <2>3. /\ last = [r |-> last.r, out |-> last.out] /\ last.out \in Seq(Seq(Chars))
        /\ y \in Readers /\ y.phase \in {"ended", "failed", "replied"}
        /\ EventsAt(input, Lines(input, KnownAt(input, at, closed), MaxSseLine, closed), y.phase,
                    closed, frames \o last.out)
    <3> DEFINE z == LineRead([r |-> reader, out |-> <<>>], SubSeq(input, c + 1, at))
               v == [z.r EXCEPT !.phase = IF @ = "working" THEN "ended" ELSE @]
    <3>1. /\ z = [r |-> z.r, out |-> z.out] /\ z.out \in Seq(Seq(Chars))
          /\ v \in Readers /\ v.phase \in {"ended", "failed", "replied"}
          /\ EventsAt(input, Lines(input, KnownAt(input, at, closed), MaxSseLine, closed), v.phase,
                      closed, frames \o z.out)
      BY <1>1, <1>2, <1>4, <1>18, <2>1, RestLast
    <3>2. last = z
      BY <2>2
    <3> HIDE DEF z
    <3> QED BY <3>1, <3>2
  <2>4. [last EXCEPT !.r.phase = IF @ = "working" THEN "ended" ELSE @] = [r |-> y, out |-> last.out]
    <3>1. PICK p, o : last = [r |-> p, out |-> o]
      BY <2>3
    <3>2. last.r = p /\ last.out = o
      BY <3>1
    <3>3. [[r |-> p, out |-> o] EXCEPT !.r.phase = IF @ = "working" THEN "ended" ELSE @]
            = [r |-> [p EXCEPT !.phase = IF @ = "working" THEN "ended" ELSE @], out |-> o]
      OBVIOUS
    <3> QED BY <3>1, <3>2, <3>3
  <2> HIDE DEF y
  <2>5. reader' = y /\ frames' = frames \o last.out
    BY <1>18, <2>4 DEF Taken
  <2>6. SseInv(input, at, closed, y, frames \o last.out)
    BY <2>3 DEF SseInv
  <2>7. SseInv(input, at', closed', reader', frames \o last.out)
    BY <1>1, <2>5, <2>6
  <2>8. at' \in 0..Len(input) /\ closed' \in BOOLEAN /\ reader' \in Readers
    BY <1>1, <1>2, <2>3, <2>5
  <2>9. feed' = feed /\ input' = input
    BY <1>1
  <2> QED BY <1>11, <2>3, <2>5, <2>7, <2>8, <2>9, FramingStep
<1> QED BY <1>9, <1>15, <1>16, <1>17, <1>18

LEMMA FramingReceive == FramingInv /\ Receive => FramingInv'
<1> SUFFICES ASSUME FramingInv, Receive PROVE FramingInv'
  OBVIOUS
<1>1. PICK to \in at + 1..Len(input) :
        /\ at' = to
        /\ \/ feed = "stdio" /\ StdioChunk(to)
           \/ feed = "sse" /\ SseChunk(to)
           \/ feed = "json" /\ JsonChunk(to)
  BY DEF Receive
<1>2. reader.phase = "waiting" /\ UNCHANGED <<feed, input, closed, frames>>
  BY DEF Receive
<1>3. /\ input \in Seq(Symbols) /\ at \in Nat /\ reader \in Readers /\ Len(input) \in Nat
      /\ frames \in Seq(Seq(Chars)) /\ closed \in BOOLEAN /\ to \in 0..Len(input)
  BY LenProperties DEF FramingInv
<1>4. frames \o <<>> = frames /\ <<>> \in Seq(Seq(Chars))
  BY <1>3, ConcatEmptySeq
<1>5. /\ feed' = feed /\ input' = input /\ at' \in 0..Len(input) /\ closed' \in BOOLEAN
      /\ frames' = frames \o <<>>
  BY <1>1, <1>2, <1>3, <1>4
<1>6. CASE feed = "stdio" /\ StdioChunk(to)
  <2>1. ~closed /\ StdioWaits(input, at, reader, frames)
    BY <1>2, <1>6 DEF FramingInv, StdioInv, StdioWaits
  <2>2. PICK c : c = StdioBegun(input, at, reader)
    OBVIOUS
  <2>3. c \in Readers /\ c.phase = "working" /\ StdioAt(input, to, c, frames)
    BY <1>3, <2>1, <2>2, StdioChunkAt
  <2>4. reader' = c
    BY <1>6, <2>2 DEF StdioChunk, StdioBegun
  <2>5. StdioInv(input, to, closed, c, frames)
    BY <2>1, <2>3 DEF StdioInv
  <2>6. reader' \in Readers /\ StdioInv(input, at', closed', reader', frames \o <<>>)
    BY <1>1, <1>2, <1>4, <2>3, <2>4, <2>5
  <2>7. feed # "none" /\ feed # "sse" /\ feed # "json"
    BY <1>6
  <2> QED BY <1>4, <1>5, <2>6, <2>7, FramingStep
<1>7. CASE feed = "sse" /\ SseChunk(to)
  <2>1. SseInv(input, at, closed, reader, frames)
    BY <1>7 DEF FramingInv
  <2>2. PICK c \in Nat : SseReads(input, at, closed, c, reader, frames) /\ ~closed
    BY <1>2, <2>1 DEF SseInv
  <2> DEFINE x == SseBegun(input, at, to, reader)
  <2>3. x \in Readers /\ x.phase = "working" /\ SseReads(input, to, closed, c, x, frames)
    BY <1>3, <2>2, SseChunkAt
  <2>4. reader' = x
    BY <1>7 DEF SseChunk, SseBegun
  <2> HIDE DEF x
  <2>5. SseInv(input, to, closed, x, frames)
    BY <2>3 DEF SseInv
  <2>6. reader' \in Readers /\ SseInv(input, at', closed', reader', frames \o <<>>)
    BY <1>1, <1>2, <1>4, <2>3, <2>4, <2>5
  <2>7. feed # "none" /\ feed # "stdio" /\ feed # "json"
    BY <1>7
  <2> QED BY <1>4, <1>5, <2>6, <2>7, FramingStep
<1>8. CASE feed = "json" /\ JsonChunk(to)
  <2>1. /\ ~closed /\ reader.text = SubSeq(input, 1, at) /\ frames = <<>>
    BY <1>2, <1>8 DEF FramingInv, JsonInv
  <2>2. SubSeq(input, 1, at) \o SubSeq(input, at + 1, to) = SubSeq(input, 1, to)
    <3>1. 1 \in 1..Len(input) + 1 /\ at \in 1 - 1..Len(input) /\ to \in at..Len(input)
      BY <1>3
    <3> QED BY <1>3, <3>1, ConcatAdjacentSubSeq
  <2>3. PICK body \in Seq(Symbols) : body = SubSeq(input, 1, to)
    <3>1. SubSeq(input, 0 + 1, to) \in Seq(Symbols)
      BY <1>3, TextIs
    <3>2. 0 + 1 = 1
      OBVIOUS
    <3> QED BY <3>1, <3>2
  <2>4. reader.text \o SubSeq(input, at + 1, to) = body
    BY <2>1, <2>2, <2>3
  <2>5. PICK phase \in {"failed", "waiting"} : phase = IF Len(body) > MaxMessage THEN "failed" ELSE "waiting"
    OBVIOUS
  <2>6. reader' = [reader EXCEPT !.text = body, !.phase = phase]
    BY <1>2, <1>8, <2>4, <2>5 DEF JsonChunk
  <2>7. LET y == [reader EXCEPT !.text = body, !.phase = phase]
        IN  y \in Readers /\ y.phase = phase /\ y.text = body
    BY <1>3 DEF Readers
  <2>8. reader' \in Readers /\ reader'.phase = phase /\ reader'.text = body
    BY <2>6, <2>7
  <2>9. BodyAt(body, closed, phase, frames) \/ phase = "waiting"
    BY <2>1, <2>5 DEF BodyAt
  <2>10. phase = "waiting" => ~(Len(body) > MaxMessage)
    BY <2>5
  <2>11. JsonInv(input, to, closed, reader', frames)
    BY <2>1, <2>3, <2>8, <2>9, <2>10 DEF JsonInv
  <2>12. JsonInv(input, at', closed', reader', frames \o <<>>)
    BY <1>1, <1>2, <1>4, <2>11
  <2>13. feed # "none" /\ feed # "stdio" /\ feed # "sse"
    BY <1>8
  <2> QED BY <1>4, <1>5, <2>8, <2>12, <2>13, FramingStep
<1> QED BY <1>1, <1>6, <1>7, <1>8

LEMMA FramingEndOfStream == FramingInv /\ EndOfStream => FramingInv'
<1> SUFFICES ASSUME FramingInv, EndOfStream PROVE FramingInv'
  OBVIOUS
<1>1. /\ reader.phase = "waiting" /\ closed' = TRUE
      /\ \/ feed = "stdio" /\ StdioEnd
         \/ feed = "sse" /\ Taken([Now EXCEPT !.r.phase = "working"])
         \/ feed = "json" /\ JsonEnd
      /\ feed' = feed /\ input' = input /\ at' = at
  BY DEF EndOfStream
<1>2. /\ input \in Seq(Symbols) /\ at \in Nat /\ at <= Len(input) /\ reader \in Readers
      /\ frames \in Seq(Seq(Chars)) /\ closed \in BOOLEAN /\ at \in 0..Len(input)
  BY LenProperties DEF FramingInv
<1>3. frames \o <<>> = frames /\ <<>> \in Seq(Seq(Chars))
  BY <1>2, ConcatEmptySeq
<1>4. /\ feed' = feed /\ input' = input /\ at' \in 0..Len(input) /\ closed' \in BOOLEAN
  BY <1>1, <1>2
<1>5. \A phase \in {"working", "ended", "failed", "replied"} :
         LET y == [reader EXCEPT !.phase = phase]
         IN  /\ y \in Readers /\ y.phase = phase /\ y.text = reader.text /\ y.event = reader.event
  BY <1>2 DEF Readers
<1>6. CASE feed = "stdio" /\ StdioEnd
  <2>1. StdioWaits(input, at, reader, frames)
    BY <1>1, <1>6 DEF FramingInv, StdioInv, StdioWaits
  <2> DEFINE more == IF reader.discarding = "no" /\ reader.text # <<>> THEN <<reader.text>> ELSE <<>>
             y == [reader EXCEPT !.phase = "ended"]
  <2>2. Framed(input, Lines(input, at, MaxMessage, TRUE), frames \o more)
    BY <1>2, <2>1, StdioRecorded
  <2>3. reader' = y /\ frames' = frames \o more
    BY <1>6 DEF StdioEnd, Taken
  <2>4. more \in Seq(Seq(Chars))
    <3>1. reader.text \in Seq(Symbols)
      BY <1>2, ReaderFields
    <3>2. reader.text \in Seq(Chars)
      BY <3>1 DEF Chars
    <3> QED BY <1>3, <3>2
  <2>5. y \in Readers /\ y.phase = "ended"
    BY <1>5
  <2> HIDE DEF more, y
  <2>6. StdioInv(input, at, TRUE, y, frames \o more)
    BY <2>2, <2>5 DEF StdioInv
  <2>7. reader' \in Readers /\ StdioInv(input, at', closed', reader', frames \o more)
    BY <1>1, <2>3, <2>5, <2>6
  <2>8. feed # "none" /\ feed # "sse" /\ feed # "json"
    BY <1>6
  <2> QED BY <1>4, <2>3, <2>4, <2>7, <2>8, FramingStep
<1>7. CASE feed = "sse" /\ Taken([Now EXCEPT !.r.phase = "working"])
  <2>1. SseInv(input, at, closed, reader, frames)
    BY <1>7 DEF FramingInv
  <2>2. PICK c \in Nat : SseReads(input, at, closed, c, reader, frames) /\ ~closed
    BY <1>1, <2>1 DEF SseInv
  <2> DEFINE y == [reader EXCEPT !.phase = "working"]
  <2>3. y \in Readers /\ y.phase = "working" /\ y.text = reader.text /\ y.event = reader.event
    BY <1>5
  <2>4. reader' = y /\ frames' = frames \o <<>>
    BY <1>7 DEF Taken, Now
  <2> HIDE DEF y
  <2>5. Behind(input, at, TRUE, c)
    BY <2>2 DEF SseReads, Behind
  <2>6. SseReads(input, at, TRUE, c, y, frames)
    BY <2>2, <2>3, <2>5 DEF SseReads
  <2>7. SseInv(input, at, TRUE, y, frames)
    BY <2>3, <2>6 DEF SseInv
  <2>8. reader' \in Readers /\ SseInv(input, at', closed', reader', frames \o <<>>)
    BY <1>1, <1>3, <2>3, <2>4, <2>7
  <2>9. feed # "none" /\ feed # "stdio" /\ feed # "json"
    BY <1>7
  <2> QED BY <1>3, <1>4, <2>4, <2>8, <2>9, FramingStep
<1>8. CASE feed = "json" /\ JsonEnd
  <2>1. JsonInv(input, at, closed, reader, frames)
    BY <1>8 DEF FramingInv
  <2>2. PICK body \in Seq(Symbols) : body = SubSeq(input, 1, at)
    <3>1. SubSeq(input, 0 + 1, at) \in Seq(Symbols)
      BY <1>2, TextIs
    <3>2. 0 + 1 = 1
      OBVIOUS
    <3> QED BY <3>1, <3>2
  <2>3. reader.text = body /\ ~(Len(body) > MaxMessage) /\ frames = <<>>
    BY <1>1, <2>1, <2>2 DEF JsonInv
  <2>4. IsBlank(body) => ~IsJson(body)
    BY DEF IsBlank, IsJson, Terminators
  <2> DEFINE phase == IF ~IsBlank(body) /\ ~IsJson(body) THEN "failed"
                      ELSE IF IsJson(body) /\ IsReply(body) THEN "replied" ELSE "ended"
             more == IF IsJson(body) THEN <<body>> ELSE <<>>
             y == [reader EXCEPT !.phase = phase]
  <2>5. reader' = y /\ frames' = frames \o more
    <3>1. Taken(IF IsBlank(body) THEN [[r |-> reader, out |-> <<>>] EXCEPT !.r.phase = "ended"]
                ELSE Parsed([[r |-> reader, out |-> <<>>] EXCEPT !.r.phase = "ended"], body))
      BY <1>8, <2>3 DEF JsonEnd, Now
    <3>2. PICK p : p = [reader EXCEPT !.phase = "ended"]
      OBVIOUS
    <3>3. [[r |-> reader, out |-> <<>>] EXCEPT !.r.phase = "ended"] = [r |-> p, out |-> <<>>]
      BY <3>2
    <3>4. \A v : [p EXCEPT !.phase = v] = [reader EXCEPT !.phase = v]
      BY <1>2, <3>2 DEF Readers
    <3>5. p.phase = "ended" /\ p = [reader EXCEPT !.phase = "ended"]
      BY <1>2, <3>2 DEF Readers
    <3>6. CASE IsBlank(body)
      <4>1. phase = "ended" /\ more = <<>>
        BY <2>4, <3>6
      <4>2. Taken([r |-> p, out |-> <<>>])
        BY <3>1, <3>3, <3>6
      <4> QED BY <3>5, <4>1, <4>2 DEF Taken
    <3>7. CASE ~IsBlank(body) /\ ~IsJson(body)
      <4>1. phase = "failed" /\ more = <<>>
        BY <3>7
      <4>2. Taken(Parsed([r |-> p, out |-> <<>>], body))
        BY <3>1, <3>3, <3>7
      <4>3. Parsed([r |-> p, out |-> <<>>], body) = [r |-> [p EXCEPT !.phase = "failed"], out |-> <<>>]
        BY <3>7, ParsedText
      <4>4. Taken([r |-> [p EXCEPT !.phase = "failed"], out |-> <<>>])
        BY <4>2, <4>3
      <4>5. reader' = [p EXCEPT !.phase = "failed"] /\ frames' = frames \o <<>>
        BY <4>4 DEF Taken
      <4> QED BY <3>4, <4>1, <4>5
    <3>8. CASE ~IsBlank(body) /\ IsJson(body)
      <4>1. PICK v : v = IF IsReply(body) THEN "replied" ELSE p.phase
        OBVIOUS
      <4>2. phase = v /\ more = <<body>>
        BY <3>5, <3>8, <4>1
      <4>3. Taken(Parsed([r |-> p, out |-> <<>>], body))
        BY <3>1, <3>3, <3>8
      <4>4. Parsed([r |-> p, out |-> <<>>], body) = [r |-> [p EXCEPT !.phase = v], out |-> <<body>>]
        BY <3>8, <4>1, ParsedText
      <4>5. Taken([r |-> [p EXCEPT !.phase = v], out |-> <<body>>])
        BY <4>3, <4>4
      <4>6. reader' = [p EXCEPT !.phase = v] /\ frames' = frames \o <<body>>
        BY <4>5 DEF Taken
      <4> QED BY <3>4, <4>2, <4>6
    <3> QED BY <3>6, <3>7, <3>8
  <2>6. phase \in {"ended", "failed", "replied"} /\ (phase = "failed" <=> ~IsJson(body) /\ ~IsBlank(body))
    BY <2>4
  <2>7. y \in Readers /\ y.phase = phase
    BY <1>5, <2>6
  <2>8. frames \o more = IF TRUE /\ IsJson(body) THEN <<body>> ELSE <<>>
    BY <1>3, <2>3
  <2>9. more \in Seq(Seq(Chars))
    <3>1. body \in Seq(Chars)
      BY DEF Chars
    <3> QED BY <1>3, <3>1
  <2> HIDE DEF phase, more, y
  <2>10. BodyAt(body, TRUE, phase, frames \o more)
    BY <2>3, <2>6, <2>8 DEF BodyAt
  <2>11. JsonInv(input, at, TRUE, y, frames \o more)
    BY <2>2, <2>6, <2>7, <2>10 DEF JsonInv
  <2>12. reader' \in Readers /\ JsonInv(input, at', closed', reader', frames \o more)
    BY <1>1, <2>5, <2>7, <2>11
  <2>13. feed # "none" /\ feed # "stdio" /\ feed # "sse"
    BY <1>8
  <2> QED BY <1>4, <2>5, <2>9, <2>12, <2>13, FramingStep
<1> QED BY <1>1, <1>6, <1>7, <1>8

LEMMA FramingNextInv == FramingInv /\ [FramingNext]_framingVars => FramingInv'
<1> SUFFICES ASSUME FramingInv, [FramingNext]_framingVars PROVE FramingInv'
  OBVIOUS
<1>1. CASE UNCHANGED framingVars
  BY <1>1 DEF FramingInv, framingVars, FramingInit
<1> QED
  BY <1>1, FramingConnect, FramingReceive, FramingStdioLine, FramingStdioRest, FramingSseLine,
     FramingSseRest, FramingEndOfStream DEF FramingNext

\* The invariant gives the meaning of the stream whenever nothing is being read.
LEMMA FramingRecorded == FramingInv => FramesAsSent
<1> SUFFICES ASSUME FramingInv, reader.phase # "working" PROVE FramesAsSent
  BY DEF FramesAsSent
<1>1. /\ input \in Seq(Symbols) /\ at \in Nat /\ at <= Len(input) /\ reader \in Readers
      /\ frames \in Seq(Seq(Chars)) /\ closed \in BOOLEAN
  BY LenProperties DEF FramingInv
<1>2. ASSUME feed = "stdio" PROVE LinesAsSent
  <2>1. StdioInv(input, at, closed, reader, frames)
    BY <1>2 DEF FramingInv
  <2>2. Framed(input, Lines(input, at, MaxMessage, closed), frames)
    <3>1. CASE reader.phase = "waiting"
      <4>1. ~closed /\ StdioWaits(input, at, reader, frames)
        BY <2>1, <3>1 DEF StdioInv, StdioWaits
      <4>2. Framed(input, Lines(input, at, MaxMessage, FALSE), frames)
        BY <1>1, <4>1, StdioRecorded
      <4>3. closed = FALSE
        BY <1>1, <4>1
      <4> QED BY <4>2, <4>3
    <3>2. CASE reader.phase # "waiting"
      BY <2>1, <3>2 DEF StdioInv
    <3> QED BY <3>1, <3>2
  <2> QED BY <2>2 DEF LinesAsSent, Framed, FrameOf
<1>3. ASSUME feed = "sse" PROVE EventsAsSent
  <2>1. SseInv(input, at, closed, reader, frames)
    BY <1>3 DEF FramingInv
  <2>2. Known = KnownAt(input, at, closed)
    BY DEF Known, KnownAt
  <2>3. EventsAt(input, Lines(input, KnownAt(input, at, closed), MaxSseLine, closed), reader.phase,
                 closed, frames)
    <3>1. CASE reader.phase = "waiting"
      <4>1. PICK c \in Nat : /\ SseReads(input, at, closed, c, reader, frames)
                             /\ ~closed /\ SseWaits(input, at, closed, c)
        BY <2>1, <3>1 DEF SseInv
      <4>2. Behind(input, at, closed, c) /\ SseAt(input, c, reader.event, frames)
        BY <4>1 DEF SseReads
      <4>3. EventsAt(input, Lines(input, KnownAt(input, at, closed), MaxSseLine, closed), "waiting",
                     closed, frames)
        BY <1>1, <4>1, <4>2, WaitsAt
      <4> QED BY <3>1, <4>3
    <3>2. CASE reader.phase # "waiting"
      BY <2>1, <3>2 DEF SseInv
    <3> QED BY <3>1, <3>2
  <2> QED BY <2>2, <2>3 DEF EventsAsSent, EventsAt, Emitted
<1>4. ASSUME feed = "json" PROVE BodyAsSent
  <2>1. JsonInv(input, at, closed, reader, frames)
    BY <1>4 DEF FramingInv
  <2>2. BodyAt(SubSeq(input, 1, at), closed, reader.phase, frames)
    <3>1. CASE reader.phase = "waiting"
      BY <2>1, <3>1 DEF JsonInv, BodyAt
    <3>2. CASE reader.phase # "waiting"
      BY <2>1, <3>2 DEF JsonInv
    <3> QED BY <3>1, <3>2
  <2> QED BY <2>2 DEF BodyAsSent, BodyAt
<1> QED BY <1>2, <1>3, <1>4 DEF FramesAsSent

\* Whatever the chunks in which a stream comes, and for any limit, readStdioLines
\* (lines.ts) yields the lines of the host's input, and readMessages
\* (transport.ts) the messages of an SSE stream or a JSON body: those of the
\* whole, in its order, each as soon as its end has come, up to the reply or the
\* first that is too long or no JSON.
THEOREM FramesAreAsSent == FramingSpec => []FramesAsSent
<1>1. FramingInit => FramingInv
  BY FramingInitially
<1>2. FramingInv /\ [FramingNext]_framingVars => FramingInv'
  BY FramingNextInv
<1>3. FramingInv => FramesAsSent
  BY FramingRecorded
<1> QED BY <1>1, <1>2, <1>3, PTL DEF FramingSpec
=============================================================================
