----------------------------- MODULE FileLock -----------------------------
(***************************************************************************)
(* The lock-v1 protocol of src/src/auth/filelock.ts: each client creates   *)
(* `<target>.lock-v1` with O_EXCL, writes its owner record into it, and    *)
(* unlinks it only while it still holds that record.  One action per       *)
(* system call, since the clients are separate processes.                  *)
(*                                                                         *)
(* A client here is one acquireFileLock call at a time of one process; its *)
(* owner record (a random UUID) is the client itself.  The 90 s deadline   *)
(* is a flag that the clock may raise at any moment of the wait.           *)
(***************************************************************************)
EXTENDS Naturals

CONSTANTS
    Clients,
    Absent,     \* no lock file
    Free, Abandoned,   \* the other two values of the abstract lock
    StopFirst,  \* the operator stops every client before removing a lock
    MaxCrashes, MaxRetirements, MaxMarkers   \* bounds on the environment

ASSUME FileLockNames ==
    /\ Free # Abandoned
    /\ {Absent, Free, Abandoned} \cap Clients = {}
    /\ StopFirst \in BOOLEAN
    /\ MaxCrashes \in Nat /\ MaxRetirements \in Nat /\ MaxMarkers \in Nat

VARIABLES
    lockFile,   \* Absent, or the client that created the file there now
    written,    \* the owner record is in the file
    legacy,     \* the `.lock` marker of an older client exists
    pc,         \* where each client is in acquireFileLock / release
    late,       \* the clients whose deadline has passed
    crashes, retirements, markers

vars == <<lockFile, written, legacy, pc, late, crashes, retirements, markers>>
environment == <<crashes, retirements, markers>>

(* "check" and "open" are the two calls of one turn of the acquire loop;   *)
(* "created" to "unlink" own the lock file.                                *)
Owning == {"created", "recheck", "held", "release", "refused", "unlink"}
Waiting == {"check", "open"}
PC == {"idle", "crashed"} \cup Waiting \cup Owning

Owns(c) == pc[c] \in Owning

Goto(c, l) == pc' = [pc EXCEPT ![c] = l]

Init ==
    /\ lockFile = Absent /\ written = FALSE
    /\ legacy \in BOOLEAN
    /\ pc = [c \in Clients |-> "idle"]
    /\ late = {}
    /\ crashes = 0 /\ retirements = 0 /\ markers = 0

(* acquireFileLock is called: its deadline is set. *)
Begin(c) ==
    /\ pc[c] = "idle"
    /\ Goto(c, "check")
    /\ late' = late \ {c}
    /\ UNCHANGED <<lockFile, written, legacy, environment>>

DeadlinePasses(c) ==
    /\ pc[c] \in Waiting /\ c \notin late
    /\ late' = late \cup {c}
    /\ UNCHANGED <<lockFile, written, legacy, pc, environment>>

(* refuseLegacy, at the top of each turn of the loop. *)
CheckLegacy(c) ==
    /\ pc[c] = "check"
    /\ Goto(c, IF legacy THEN "idle" ELSE "open")
    /\ UNCHANGED <<lockFile, written, legacy, late, environment>>

OpenAlways(c) ==
    /\ pc[c] = "open"
    /\ lockFile' = c /\ written' = FALSE
    /\ Goto(c, "created")
    /\ UNCHANGED <<legacy, late, environment>>

(* openSync(lockFile, "wx"): fails with EEXIST whatever the file's age. *)
OpenExclusive(c) ==
    /\ pc[c] = "open"
    /\ lockFile = Absent
    /\ lockFile' = c /\ written' = FALSE
    /\ Goto(c, "created")
    /\ UNCHANGED <<legacy, late, environment>>

RetryForever(c) ==
    /\ pc[c] = "open"
    /\ lockFile # Absent
    /\ Goto(c, "check")
    /\ UNCHANGED <<lockFile, written, legacy, late, environment>>

StealWhenLate(c) ==
    /\ pc[c] = "open"
    /\ lockFile # Absent
    /\ IF c \in late THEN lockFile' = c /\ written' = FALSE /\ Goto(c, "created")
                  ELSE UNCHANGED <<lockFile, written>> /\ Goto(c, "check")
    /\ UNCHANGED <<legacy, late, environment>>

(* EEXIST: time out past the deadline, else sleep and take another turn. *)
OpenExists(c) ==
    /\ pc[c] = "open"
    /\ lockFile # Absent
    /\ Goto(c, IF c \in late THEN "idle" ELSE "check")
    /\ UNCHANGED <<lockFile, written, legacy, late, environment>>

(* The owner record is written through the descriptor, whatever is at the *)
(* path by now; or it cannot be, and the path is unlinked without a look.  *)
WriteOwner(c) ==
    /\ pc[c] = "created"
    /\ \/ /\ written' = (written \/ lockFile = c)
          /\ Goto(c, "recheck")
          /\ UNCHANGED lockFile
       \/ /\ lockFile' \in {Absent, lockFile}
          /\ Goto(c, "idle")
          /\ UNCHANGED written
    /\ UNCHANGED <<legacy, late, environment>>

NoRecheck(c) ==
    /\ pc[c] = "recheck"
    /\ Goto(c, "held")
    /\ UNCHANGED <<lockFile, written, legacy, late, environment>>

(* refuseLegacy once more now that the lock is held. *)
RecheckLegacy(c) ==
    /\ pc[c] = "recheck"
    /\ Goto(c, IF legacy THEN "refused" ELSE "held")
    /\ UNCHANGED <<lockFile, written, legacy, late, environment>>

(* withFileLock's body has returned or thrown: the finally clause. *)
Leave(c) ==
    /\ pc[c] = "held"
    /\ Goto(c, "release")
    /\ UNCHANGED <<lockFile, written, legacy, late, environment>>

(* release(), first call: read the lock file.  Another owner's record, or  *)
(* no file, ends it; a read that fails is thrown and the file stays.       *)
ReleaseRead(c) ==
    /\ pc[c] \in {"release", "refused"}
    /\ \/ Goto(c, IF lockFile = c /\ written THEN "unlink" ELSE "idle")
       \/ lockFile # Absent /\ Goto(c, "idle")
    /\ UNCHANGED <<lockFile, written, legacy, late, environment>>

(* release(), second call: unlink whatever is there now (ENOENT is         *)
(* ignored); an unlink that fails is thrown and the file stays.            *)
ReleaseUnlink(c) ==
    /\ pc[c] = "unlink"
    /\ lockFile' \in {Absent, lockFile}
    /\ Goto(c, "idle")
    /\ UNCHANGED <<written, legacy, late, environment>>

(* A client dies: its lock file, if it made one, stays behind. *)
Crash(c) ==
    /\ pc[c] \notin {"idle", "crashed"}
    /\ crashes < MaxCrashes
    /\ crashes' = crashes + 1
    /\ Goto(c, "crashed")
    /\ UNCHANGED <<lockFile, written, legacy, late, retirements, markers>>

Restart(c) ==
    /\ pc[c] = "crashed"
    /\ Goto(c, "idle")
    /\ UNCHANGED <<lockFile, written, legacy, late, environment>>

(* The operator removes the lock file.  docs/compatibility.md asks to stop *)
(* every client first; with StopFirst = FALSE the operator does not.       *)
Retire ==
    /\ lockFile # Absent
    /\ StopFirst => \A c \in Clients : pc[c] \in {"idle", "crashed"}
    /\ retirements < MaxRetirements
    /\ retirements' = retirements + 1
    /\ lockFile' = Absent
    /\ UNCHANGED <<written, legacy, pc, late, crashes, markers>>

(* An older client leaves its `.lock` marker, or the operator retires it. *)
ToggleMarker ==
    /\ markers < MaxMarkers
    /\ markers' = markers + 1
    /\ legacy' = ~legacy
    /\ UNCHANGED <<lockFile, written, pc, late, crashes, retirements>>

ClientStep(c) ==
    \/ CheckLegacy(c) \/ OpenExclusive(c) \/ OpenExists(c)
    \/ WriteOwner(c) \/ RecheckLegacy(c) \/ Leave(c)
    \/ ReleaseRead(c) \/ ReleaseUnlink(c)

Next ==
    \/ \E c \in Clients : ClientStep(c) \/ Begin(c) \/ DeadlinePasses(c)
                          \/ Crash(c) \/ Restart(c)
    \/ Retire \/ ToggleMarker

Spec == Init /\ [][Next]_vars

(* The event loop runs a client whose turn has come, and the clock moves.  *)
FairSpec == Spec /\ \A c \in Clients : /\ WF_vars(ClientStep(c))
                                       /\ WF_vars(DeadlinePasses(c))

-----------------------------------------------------------------------------
TypeOK ==
    /\ lockFile \in {Absent} \cup Clients /\ written \in BOOLEAN
    /\ legacy \in BOOLEAN
    /\ pc \in [Clients -> PC]
    /\ late \subseteq Clients
    /\ crashes \in Nat /\ retirements \in Nat /\ markers \in Nat

(* No two clients are between the creation of the lock file and its        *)
(* release: the read-modify-writes of credentials.json never overlap       *)
(* (filelock.ts:4-6), crashes, failed unlinks and recoveries included.     *)
MutualExclusion ==
    \A c, d \in Clients : Owns(c) /\ Owns(d) => c = d

(* While a client owns the lock the file there is its own, and carries its *)
(* record once written: a waiter sees EEXIST and release() knows the file. *)
OwnFileInPlace ==
    \A c \in Clients :
        Owns(c) => lockFile = c /\ written = (pc[c] # "created")

(* A client enters its critical section only while no `.lock` marker of an *)
(* older client exists, even one made after the first look for it          *)
(* (filelock.ts:60 and 93).                                                *)
LegacyRefused ==
    [][\A c \in Clients :
          pc[c] # "held" /\ pc'[c] = "held" => ~legacy]_vars

(* release() removes the lock file only while it holds its own record      *)
(* (filelock.ts:87-88: "Never delete a replacement").                      *)
NeverDeletesReplacement ==
    [][\A c \in Clients :
          pc[c] = "unlink" /\ lockFile' = Absent => lockFile \in {c, Absent}]_vars

(* The file protocol keeps its word to everybody else: an older client's   *)
(* marker is respected and nobody else's lock file deleted.                *)
OthersRespected == LegacyRefused /\ NeverDeletesReplacement

(* A caller of acquireFileLock is answered: it gets the lock or an error,  *)
(* even when the holder is dead (filelock.ts:65-70).                       *)
WaiterAnswered ==
    \A c \in Clients : (pc[c] \in Waiting) ~> (pc[c] \notin Waiting)

(* The lock service seen in a state of the protocol. *)
Holder == IF lockFile = Absent THEN Free
          ELSE IF \E c \in Clients : Owns(c)
               THEN CHOOSE c \in Clients : Owns(c)
               ELSE Abandoned

Service == INSTANCE LockService WITH holder <- Holder

(* Every behaviour of the protocol is one of the abstract lock. *)
ImplementsService == Service!Spec
=============================================================================
