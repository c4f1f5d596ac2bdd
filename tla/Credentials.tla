---------------------------- MODULE Credentials ----------------------------
(***************************************************************************)
(* Several processes share one credentials.json: src/src/auth/             *)
(* credentials.ts, refresh.ts and login.ts, and the logout of cli/run.ts.  *)
(*                                                                         *)
(* A task is one call of the library in flight: getAuthHeader,             *)
(* forceRefresh, refreshProfile, login, setDefaultProfile, deleteProfile   *)
(* or deleteCredentialsFile.  The tasks of a process share its state cache *)
(* and its AsyncMutex; the tasks of all processes share the file, the      *)
(* revocation record, the lock and the server.  A step ends where the code *)
(* awaits, or where another process can look at the disk between two       *)
(* system calls.                                                           *)
(***************************************************************************)
EXTENDS TokenServer, Sequences

CONSTANTS
    Tasks, Processes, ProcessOf, Profiles,
    DefaultName,        \* "default", of emptyCredentialsFile
    Seed,               \* the grant each profile is stored with at the start
    Free, Abandoned,
    Workloads,          \* bound: how many calls each task makes, and which
    Faults, MaxFaults   \* which faults happen, and a bound on their number

AllOps == {"auth", "force", "refresh", "token", "widen", "login", "use",
           "logout", "delete", "deleteAll", "consent"}
Work == [calls : Nat, ops : SUBSET AllOps]
AllFaults == {"save", "lost", "crash", "damage", "aside"}

ASSUME CredentialsAssumption ==
    /\ ProcessOf \in [Tasks -> Processes]
    /\ DefaultName \in Profiles
    /\ Seed \in [Profiles -> 0..FirstGrants]
    /\ \A m, n \in Profiles : Seed[m] = Seed[n] /\ Seed[m] # 0 => m = n
    /\ Free # Abandoned /\ {Free, Abandoned} \cap Tasks = {}
    /\ Workloads \subseteq [Tasks -> Work]
    /\ Faults \subseteq AllFaults /\ MaxFaults \in Nat

VARIABLES
    holder,     \* of the lock on the file (LockService)
    file,       \* credentials.json; no file is one without profiles
    damaged,    \* "yes" while the file cannot be read or parsed
    revoked,    \* the revocation record; every profile when its `all` is set
    removed,    \* history: the profiles that a logout took out of the file
    mem,        \* stateCache: per process and profile, SharedCredentialsState
    mutex,      \* per process: the chain of AsyncMutex, its head running
    pc, job,    \* per task: where it is, and its local variables
    opsLeft,    \* per task: the calls it has yet to make
    faults,
    (* history *)
    excused,    \* per dead refresh token: who cannot know that it is dead
    answer,     \* per rejected access token: the grant its refresh brought
    undisturbed \* consenting tasks whose profile on file has not changed

fileVars == <<file, damaged, revoked, removed>>
procVars == <<mem, mutex>>
history == <<excused, answer, undisturbed>>
vars == <<holder, fileVars, procVars, pc, job, opsLeft, faults, history, serverVars>>

Lock == INSTANCE LockService WITH Clients <- Tasks

File == [profiles : [Profiles -> Creds], default : Profiles]
EmptyFile == [profiles |-> [n \in Profiles |-> NoCreds], default |-> DefaultName]

(* credentials, and the pair on file that this process used up and could   *)
(* not replace (usedRefreshToken, usedAccessToken).                        *)
Cached == [creds : Creds, used : Creds]
NotCached == [creds |-> NoCreds, used |-> NoCreds]

Job == [op : AllOps \cup {"none"}, prof : Profiles,
        stale : Token,    \* expectedStaleToken; 0 is null
        base : Creds,     \* the fallback, then the profile being refreshed
        used : Creds,     \* usedRefreshToken and usedAccessToken
        prev : Creds,     \* the profile on file under the lock
        got : Creds,      \* the server's answer
        snap : File,      \* the file as loaded for the save
        doomed : SUBSET Token,   \* refresh tokens logout revokes
        setDefault : {"yes", "no"}]
NoJob == [op |-> "none", prof |-> DefaultName, stale |-> 0, base |-> NoCreds,
          used |-> NoCreds, prev |-> NoCreds, got |-> NoCreds,
          snap |-> EmptyFile, doomed |-> {}, setDefault |-> "no"]

Refreshing == {"auth", "force", "refresh", "token", "widen"}
Locked == {"sending", "answered", "loaded", "marked"}
PC == {"idle", "queued", "lock", "consent", "authorizing", "revoking"} \cup Locked

P(t) == ProcessOf[t]
HasProfile(f, n) == f.profiles[n] # NoCreds
Stored(f) == {n \in Profiles : HasProfile(f, n)}
Cache(t) == mem[P(t)][job[t].prof]

-----------------------------------------------------------------------------
(* Operators on one file or one profile.                                   *)

SetProfile(f, n, creds) ==
    [profiles |-> [f.profiles EXCEPT ![n] = creds],
     default |-> IF f.default = n \/ HasProfile(f, f.default) THEN f.default ELSE n]

RemoveKeepingDefault(f, n) == {[f EXCEPT !.profiles[n] = NoCreds]}

(* The files removeProfile may leave: a default that is removed moves to   *)
(* the first key left, in an order the model does not keep.                *)
RemoveProfile(f, n) ==
    LET rest == Stored(f) \ {n}
    IN  {[profiles |-> [f.profiles EXCEPT ![n] = NoCreds], default |-> d] :
            d \in IF f.default = n /\ rest # {} THEN rest ELSE {f.default}}

(* isBehind: both tokens of a used-up pair are still on file. *)
IsBehind(onFile, used) == used.ref # 0 /\ onFile = used

AdoptAnyFresh(disk, stale) == ~Skewed(disk.acc)

AlreadyRotated(disk, stale) ==
    IF stale = 0 THEN ~Skewed(disk.acc) ELSE disk.acc # stale /\ ~Expired(disk.acc)

(* sharedStateFrom, for a profile that is on file. *)
SharedState(cached, onFile) ==
    IF IsBehind(onFile, cached.used) THEN cached
    ELSE [creds |-> onFile, used |-> NoCreds]

KeepsOldRefresh(base, sent) == [sent EXCEPT !.ref = base.ref]

(* withRefreshed, and the consent's and login's own copies of its rule: an *)
(* answer without a refresh token keeps the one the profile had.           *)
WithRefreshed(base, sent) ==
    IF sent.ref = 0 THEN [sent EXCEPT !.ref = base.ref] ELSE sent

NeverRevoked(n, onFile) == FALSE

LoggedOut(n, onFile) == onFile = NoCreds /\ n \in revoked

MatchesAccess(current, prev) == current # NoCreds /\ current.ref = prev.ref

(* saveConsentProfile's comparison with the profile the consent began from. *)
StillCurrent(current, prev) == current # NoCreds /\ current = prev

-----------------------------------------------------------------------------
(* Steps shared by the calls.                                              *)

Begin(t, fields) ==
    /\ pc[t] = "idle"
    /\ opsLeft[t].calls > 0 /\ fields.op \in opsLeft[t].ops
    /\ opsLeft' = [opsLeft EXCEPT ![t].calls = @ - 1]
    /\ job' = [job EXCEPT ![t] = fields]

Goto(t, l) == pc' = [pc EXCEPT ![t] = l]

Finish(t) == Goto(t, "idle") /\ job' = [job EXCEPT ![t] = NoJob]

(* state.mutex: the next task in the chain may run. *)
LeaveMutex(t) == mutex' = [mutex EXCEPT ![P(t)] = Tail(@)]

SetCache(t, cached) == mem' = [mem EXCEPT ![P(t)][job[t].prof] = cached]

Fault(f) == /\ f \in Faults /\ faults < MaxFaults
            /\ faults' = faults + 1

(* These processes cannot know that the token is dead. *)
Excuse(refs, who) ==
    excused' = [r \in Token |-> IF r \in refs \ {0} THEN excused[r] \cup who ELSE excused[r]]

Disturb(newFile) ==
    undisturbed' = {t \in undisturbed :
                      newFile.profiles[job[t].prof] = file.profiles[job[t].prof]}

WriteFile(newFile) == file' = newFile /\ Disturb(newFile)

-----------------------------------------------------------------------------
(* The state cache, and the calls that refresh.                            *)

(* getSharedState: a client of process p is constructed, in a model that   *)
(* makes calls on one.                                                     *)
GetSharedState(p, n) ==
    /\ \E t \in Tasks : P(t) = p /\ opsLeft[t].ops \cap {"auth", "force"} # {}
    /\ damaged = "no" /\ HasProfile(file, n)
    /\ mem' = [mem EXCEPT ![p][n] = SharedState(@, file.profiles[n])]
    /\ UNCHANGED <<holder, fileVars, mutex, pc, job, opsLeft, faults, history, serverVars>>

Enqueue(t) == mutex' = [mutex EXCEPT ![P(t)] = Append(@, t)] /\ Goto(t, "queued")

(* getAuthHeader, and forceRefresh after a 401: the rejected token is      *)
(* captured before the mutex.                                              *)
GetAuthHeader(t, n) ==
    /\ mem[P(t)][n].creds # NoCreds
    /\ Begin(t, [NoJob EXCEPT !.op = "auth", !.prof = n])
    /\ Enqueue(t)
    /\ UNCHANGED <<holder, fileVars, mem, faults, history, serverVars>>

ForceRefresh(t, n) ==
    /\ mem[P(t)][n].creds # NoCreds
    /\ Begin(t, [NoJob EXCEPT !.op = "force", !.prof = n, !.stale = mem[P(t)][n].creds.acc])
    /\ Enqueue(t)
    /\ UNCHANGED <<holder, fileVars, mem, faults, history, serverVars>>

(* refreshProfile: `auth refresh`, `auth token` (onlyIfExpiring) and a     *)
(* refresh that asks for a wider scope.                                    *)
RefreshProfile(t, n, op) ==
    /\ damaged = "no" /\ HasProfile(file, n)
    /\ LET state == SharedState(mem[P(t)][n], file.profiles[n])
       IN  /\ Begin(t, [NoJob EXCEPT !.op = op, !.prof = n,
                            !.stale = IF op = "token" THEN 0 ELSE state.creds.acc])
           /\ mem' = [mem EXCEPT ![P(t)][n] = state]
    /\ Enqueue(t)
    /\ UNCHANGED <<holder, fileVars, faults, history, serverVars>>

(* The mutex is ours: maybeRefresh looks at the expiry again, every other  *)
(* call goes on to the lock with the copy of the profile cached now.       *)
EnterMutex(t) ==
    /\ pc[t] = "queued" /\ mutex[P(t)] # <<>> /\ Head(mutex[P(t)]) = t
    /\ IF job[t].op = "auth" /\ ~Skewed(Cache(t).creds.acc)
       THEN LeaveMutex(t) /\ Finish(t)
       ELSE /\ job' = [job EXCEPT ![t].base = Cache(t).creds, ![t].used = Cache(t).used]
            /\ Goto(t, "lock")
            /\ UNCHANGED mutex
    /\ UNCHANGED <<holder, fileVars, mem, opsLeft, faults, history, serverVars>>

-----------------------------------------------------------------------------
(* refreshProfileLocked.                                                   *)

OnFile(t) == file.profiles[job[t].prof]

Disk(t) == IF OnFile(t) # NoCreds /\ ~IsBehind(OnFile(t), job[t].used) THEN OnFile(t)
           ELSE NoCreds

BaseOfCaller(t) == job[t].base

Base(t) == IF Disk(t) # NoCreds THEN Disk(t) ELSE job[t].base

Adopts(t) == /\ Disk(t) # NoCreds /\ job[t].op # "widen"
             /\ AlreadyRotated(Disk(t), job[t].stale)

Refused(t) == \/ damaged = "yes"
              \/ LoggedOut(job[t].prof, OnFile(t))
              \/ ~Adopts(t) /\ Base(t).ref = 0

AtLock(t, ops) == pc[t] = "lock" /\ job[t].op \in ops

PoisonChain(t) ==
    /\ AtLock(t, Refreshing) /\ holder = Free /\ Refused(t)
    /\ Finish(t)
    /\ UNCHANGED <<holder, fileVars, procVars, opsLeft, faults, history, serverVars>>

(* An unreadable file, a logged-out profile, or no refresh token. *)
RefuseRefresh(t) ==
    /\ AtLock(t, Refreshing) /\ holder = Free /\ Refused(t)
    /\ LeaveMutex(t) /\ Finish(t)
    /\ UNCHANGED <<holder, fileVars, mem, opsLeft, faults, history, serverVars>>

(* Another process has rotated the token: nothing is sent. *)
AdoptRotated(t) ==
    /\ AtLock(t, Refreshing) /\ holder = Free /\ ~Refused(t) /\ Adopts(t)
    /\ SetCache(t, [creds |-> Disk(t), used |-> NoCreds])
    /\ LeaveMutex(t) /\ Finish(t)
    /\ UNCHANGED <<holder, fileVars, opsLeft, faults, history, serverVars>>

SendRefresh(t) ==
    /\ AtLock(t, Refreshing) /\ ~Refused(t) /\ ~Adopts(t)
    /\ Lock!Acquire(t)
    /\ job' = [job EXCEPT ![t].base = Base(t), ![t].prev = OnFile(t)]
    /\ Goto(t, "sending")
    /\ UNCHANGED <<fileVars, procVars, opsLeft, faults, history, serverVars>>

(* The server exchanges the refresh token. *)
ServerRotates(t) ==
    /\ pc[t] = "sending"
    /\ \E creds \in RefreshAnswers :
          /\ Rotate(job[t].base.ref, creds)
          /\ job' = [job EXCEPT ![t].got = WithRefreshed(job[t].base, creds)]
          /\ answer' = IF job[t].op \in {"force", "refresh"}
                       THEN [answer EXCEPT ![job[t].stale] = creds.acc] ELSE answer
    /\ Goto(t, "answered")
    /\ UNCHANGED <<holder, fileVars, procVars, opsLeft, faults, excused, undisturbed>>

(* It does, but the answer misses the 30 s deadline. *)
AnswerLost(t) ==
    /\ pc[t] = "sending"
    /\ Fault("lost")
    /\ \E creds \in RefreshAnswers : Rotate(job[t].base.ref, creds)
    /\ Excuse({job[t].base.ref} \ live', Processes)
    /\ Lock!Release(t) /\ LeaveMutex(t) /\ Finish(t)
    /\ UNCHANGED <<fileVars, mem, opsLeft, answer, undisturbed>>

(* invalid_grant, any other refusal, or no connection. *)
RefreshFails(t) ==
    /\ pc[t] = "sending"
    /\ Lock!Release(t) /\ LeaveMutex(t) /\ Finish(t)
    /\ UNCHANGED <<fileVars, mem, opsLeft, faults, history, serverVars>>

(* The wider scope is refused: consent is asked for outside lock and mutex. *)
ScopeRefused(t) ==
    /\ pc[t] = "sending" /\ job[t].op = "widen" /\ job[t].base.ref \in live
    /\ Lock!Release(t) /\ LeaveMutex(t)
    /\ Goto(t, "consent")
    /\ job' = [job EXCEPT ![t].op = "consent"]
    /\ undisturbed' = undisturbed \cup {t}
    /\ UNCHANGED <<fileVars, mem, opsLeft, faults, excused, answer, serverVars>>

(* The file is read again before it is written. *)
Reload(t) ==
    /\ pc[t] = "answered" /\ damaged = "no"
    /\ job' = [job EXCEPT ![t].snap = file]
    /\ Goto(t, "loaded")
    /\ UNCHANGED <<holder, fileVars, procVars, opsLeft, faults, history, serverVars>>

SaveRefresh(t) ==
    /\ pc[t] = "loaded" /\ job[t].op \in Refreshing
    /\ WriteFile(SetProfile(job[t].snap, job[t].prof, job[t].got))
    /\ SetCache(t, [creds |-> job[t].got, used |-> NoCreds])
    /\ Lock!Release(t) /\ LeaveMutex(t) /\ Finish(t)
    /\ UNCHANGED <<damaged, revoked, removed, opsLeft, faults, excused, answer, serverVars>>

(* keepUnsaved: this process goes on with the only working copy. *)
KeepUnsaved(t) == SetCache(t, [creds |-> job[t].got, used |-> job[t].prev])

RefreshNotSaved(t) ==
    /\ \/ pc[t] = "answered" /\ damaged = "yes" /\ UNCHANGED faults
       \/ pc[t] = "loaded" /\ job[t].op \in Refreshing /\ Fault("save")
    /\ KeepUnsaved(t)
    /\ Excuse({job[t].base.ref} \ live, Processes \ {P(t)})
    /\ Lock!Release(t) /\ LeaveMutex(t) /\ Finish(t)
    /\ UNCHANGED <<fileVars, opsLeft, answer, undisturbed, serverVars>>

-----------------------------------------------------------------------------
(* login and the consent of a wider scope: the device flow, without locks. *)

Login(t, n, setDefault) ==
    /\ damaged = "no"
    /\ Begin(t, [NoJob EXCEPT !.op = "login", !.prof = n, !.setDefault = setDefault])
    /\ Goto(t, "authorizing")
    /\ UNCHANGED <<holder, fileVars, procVars, faults, history, serverVars>>

Authorized(t) ==
    /\ pc[t] \in {"authorizing", "consent"}
    /\ \E creds \in LoginAnswers :
          /\ Grant(creds)
          /\ job' = [job EXCEPT ![t].got = WithRefreshed(job[t].base, creds)]
    /\ Goto(t, "lock")
    /\ UNCHANGED <<holder, fileVars, procVars, opsLeft, faults, history>>

AuthorizationFails(t) ==
    /\ pc[t] \in {"authorizing", "consent"}
    /\ Finish(t)
    /\ undisturbed' = undisturbed \ {t}
    /\ UNCHANGED <<holder, fileVars, procVars, opsLeft, faults, excused, answer, serverVars>>

-----------------------------------------------------------------------------
(* The other calls that write the file, each a load and a save under the   *)
(* lock: updateProfile, setDefaultProfile, deleteProfile,                  *)
(* deleteCredentialsFile and saveConsentProfile.                           *)

UseProfile(t, n) ==
    /\ Begin(t, [NoJob EXCEPT !.op = "use", !.prof = n])
    /\ Goto(t, "lock")
    /\ UNCHANGED <<holder, fileVars, procVars, faults, history, serverVars>>

DeleteProfile(t, n) ==
    /\ Begin(t, [NoJob EXCEPT !.op = "delete", !.prof = n])
    /\ Goto(t, "lock")
    /\ UNCHANGED <<holder, fileVars, procVars, faults, history, serverVars>>

(* `auth logout` of one profile, or of all: the tokens to revoke are those *)
(* on file now.                                                            *)
Logout(t, n) ==
    /\ damaged = "no" /\ HasProfile(file, n)
    /\ Begin(t, [NoJob EXCEPT !.op = "logout", !.prof = n, !.doomed = {file.profiles[n].ref}])
    /\ Goto(t, "revoking")
    /\ UNCHANGED <<holder, fileVars, procVars, faults, history, serverVars>>

LogoutAll(t) ==
    /\ Begin(t, [NoJob EXCEPT !.op = "deleteAll", !.doomed =
            IF damaged = "yes" THEN {} ELSE {file.profiles[n].ref : n \in Stored(file)}])
    /\ Goto(t, "revoking")
    /\ UNCHANGED <<holder, fileVars, procVars, faults, history, serverVars>>

(* Best effort: any of the revocations may fail. *)
RevokeTokens(t) ==
    /\ pc[t] = "revoking"
    /\ \E refs \in SUBSET job[t].doomed :
          /\ Revoke(refs)
          /\ Excuse(refs, Processes)
          /\ job' = [job EXCEPT ![t].doomed = refs]
    /\ Goto(t, "lock")
    /\ UNCHANGED <<holder, fileVars, procVars, opsLeft, faults, answer, undisturbed>>

Writing == {"login", "use", "logout", "delete", "deleteAll", "consent"}

Contents == IF damaged = "yes" THEN EmptyFile ELSE file

AcceptsDamaged(t) ==
    /\ job[t].op = "use" => HasProfile(Contents, job[t].prof)
    /\ job[t].op = "consent" => StillCurrent(Contents.profiles[job[t].prof], job[t].prev)

(* What each call checks of the file it loads: loadForUpdate refuses a     *)
(* damaged one rather than take it for an empty one.                       *)
Accepts(t) ==
    /\ damaged = "yes" => job[t].op = "deleteAll"
    /\ job[t].op = "use" => HasProfile(file, job[t].prof)
    /\ job[t].op = "consent" => StillCurrent(OnFile(t), job[t].prev)

Load(t) ==
    /\ AtLock(t, Writing) /\ Accepts(t)
    /\ Lock!Acquire(t)
    /\ job' = [job EXCEPT ![t].snap = Contents]
    /\ Goto(t, "loaded")
    /\ UNCHANGED <<fileVars, procVars, opsLeft, faults, history, serverVars>>

(* The unsaved grant of a consent is kept like an unsaved refresh, beside  *)
(* the pair already marked as used up, or the one the consent began from.  *)
KeepConsent(t) ==
    SetCache(t, [creds |-> job[t].got,
                 used |-> IF Cache(t).used.ref # 0 THEN Cache(t).used ELSE job[t].base])

(* A consent whose profile has changed is dropped; one whose file cannot   *)
(* be read is kept in memory.                                              *)
LoadRefused(t) ==
    /\ AtLock(t, Writing) /\ holder = Free /\ ~Accepts(t)
    /\ IF job[t].op = "consent" /\ damaged = "yes" THEN KeepConsent(t) ELSE UNCHANGED mem
    /\ Finish(t)
    /\ undisturbed' = undisturbed \ {t}
    /\ UNCHANGED <<holder, fileVars, mutex, opsLeft, faults, excused, answer, serverVars>>

(* FileLockTimeoutError: the lock was taken for the whole 90 s. *)
LockTimesOut(t) ==
    /\ pc[t] = "lock" /\ holder # Free
    /\ IF job[t].op \in Refreshing THEN LeaveMutex(t) ELSE UNCHANGED mutex
    /\ IF job[t].op = "consent" THEN KeepConsent(t) ELSE UNCHANGED mem
    /\ Finish(t)
    /\ undisturbed' = undisturbed \ {t}
    /\ UNCHANGED <<holder, fileVars, opsLeft, faults, excused, answer, serverVars>>

AtSave(t, ops) == pc[t] = "loaded" /\ job[t].op \in ops

(* updateProfile; login then selects the default in a second locked step. *)
SaveLogin(t) ==
    /\ AtSave(t, {"login"})
    /\ WriteFile(SetProfile(job[t].snap, job[t].prof, job[t].got))
    /\ Lock!Release(t)
    /\ IF job[t].setDefault = "yes"
       THEN /\ Goto(t, "lock")
            /\ job' = [job EXCEPT ![t] = [NoJob EXCEPT !.op = "use", !.prof = job[t].prof]]
       ELSE Finish(t)
    /\ UNCHANGED <<damaged, revoked, removed, procVars, opsLeft, faults, excused, answer, serverVars>>

SaveDefault(t) ==
    /\ AtSave(t, {"use"})
    /\ WriteFile([job[t].snap EXCEPT !.default = job[t].prof])
    /\ Lock!Release(t) /\ Finish(t)
    /\ UNCHANGED <<damaged, revoked, removed, procVars, opsLeft, faults, excused, answer, serverVars>>

SaveConsent(t) ==
    /\ AtSave(t, {"consent"})
    /\ file' = SetProfile(job[t].snap, job[t].prof, job[t].got)
    /\ undisturbed' = {d \in undisturbed \ {t} : job[d].prof # job[t].prof}
    /\ SetCache(t, [creds |-> job[t].got, used |-> NoCreds])
    /\ Lock!Release(t) /\ Finish(t)
    /\ UNCHANGED <<damaged, revoked, removed, mutex, opsLeft, faults, excused, answer, serverVars>>

(* recordRevocation, before anything is removed. *)
RecordRevocation(t) ==
    /\ AtSave(t, {"logout", "delete", "deleteAll"})
    /\ revoked' = IF job[t].op = "deleteAll" THEN Profiles ELSE revoked \cup {job[t].prof}
    /\ IF job[t].op # "deleteAll" /\ ~HasProfile(job[t].snap, job[t].prof)
       THEN Lock!Release(t) /\ Finish(t)
       ELSE Goto(t, "marked") /\ UNCHANGED <<holder, job>>
    /\ UNCHANGED <<file, damaged, removed, procVars, opsLeft, faults, history, serverVars>>

SaveRemoval(t) ==
    /\ pc[t] = "marked"
    /\ removed' = removed \cup (IF job[t].op = "deleteAll" THEN Stored(file) ELSE {job[t].prof})
    /\ IF job[t].op = "deleteAll"
       THEN WriteFile(EmptyFile) /\ damaged' = "no"
       ELSE /\ \E f \in RemoveProfile(job[t].snap, job[t].prof) : WriteFile(f)
            /\ UNCHANGED damaged
    /\ Lock!Release(t) /\ Finish(t)
    /\ UNCHANGED <<revoked, procVars, opsLeft, faults, excused, answer, serverVars>>

(* A write fails: the file and the record stay as they are. *)
SaveFails(t) ==
    /\ AtSave(t, Writing) \/ pc[t] = "marked"
    /\ Fault("save")
    /\ IF job[t].op = "consent" THEN KeepConsent(t) ELSE UNCHANGED mem
    /\ undisturbed' = undisturbed \ {t}
    /\ Lock!Release(t) /\ Finish(t)
    /\ UNCHANGED <<fileVars, mutex, opsLeft, excused, answer, serverVars>>

-----------------------------------------------------------------------------
(* The environment.                                                        *)

(* What dies with the memory of these processes: the replacements of the   *)
(* tokens they had used up and not saved.                                  *)
Orphaned(ps) ==
    {mem[p][n].used.ref : p \in ps, n \in Profiles}
    \cup {job[t].base.ref : t \in {d \in Tasks : P(d) \in ps /\ pc[d] \in {"answered", "loaded"}}}

(* A process dies; a lock it holds stays. *)
Crash(p) ==
    LET dead == {t \in Tasks : P(t) = p}
    IN  /\ Fault("crash")
        /\ IF holder \in dead THEN Lock!Abandon(holder) ELSE UNCHANGED holder
        /\ pc' = [t \in Tasks |-> IF t \in dead THEN "idle" ELSE pc[t]]
        /\ job' = [t \in Tasks |-> IF t \in dead THEN NoJob ELSE job[t]]
        /\ mem' = [mem EXCEPT ![p] = [n \in Profiles |-> NotCached]]
        /\ mutex' = [mutex EXCEPT ![p] = <<>>]
        /\ Excuse(Orphaned({p}) \ live, Processes)
        /\ undisturbed' = undisturbed \ dead
        /\ UNCHANGED <<fileVars, opsLeft, answer, serverVars>>

(* The operator stops every client, then removes the abandoned lock. *)
Retire ==
    /\ \A t \in Tasks : pc[t] = "idle"
    /\ Lock!Retire
    /\ mem' = [p \in Processes |-> [n \in Profiles |-> NotCached]]
    /\ Excuse(Orphaned(Processes) \ live, Processes)
    /\ UNCHANGED <<fileVars, mutex, pc, job, opsLeft, faults, answer, undisturbed, serverVars>>

NotWriting == \A t \in Tasks : pc[t] \notin {"loaded", "marked"}

(* The user spoils the file, mends it, or moves it aside. *)
Damage ==
    /\ damaged = "no" /\ NotWriting
    /\ Fault("damage")
    /\ damaged' = "yes"
    /\ UNCHANGED <<holder, file, revoked, removed, procVars, pc, job, opsLeft, history, serverVars>>

Repair ==
    /\ damaged = "yes" /\ NotWriting
    /\ damaged' = "no"
    /\ UNCHANGED <<holder, file, revoked, removed, procVars, pc, job, opsLeft, faults, history, serverVars>>

MoveAside ==
    /\ file # EmptyFile /\ NotWriting
    /\ Fault("aside")
    /\ WriteFile(EmptyFile) /\ damaged' = "no"
    /\ Excuse(Token \ live, Processes)
    /\ UNCHANGED <<holder, revoked, removed, procVars, pc, job, opsLeft, answer, serverVars>>

ClockTicks ==
    /\ \E acc \in Token : Age(acc)
    /\ UNCHANGED <<holder, fileVars, procVars, pc, job, opsLeft, faults, history>>

(* Every call has been answered. *)
Rest == (\A t \in Tasks : pc[t] = "idle") /\ UNCHANGED vars

-----------------------------------------------------------------------------
Init ==
    /\ holder = Free
    /\ file = [profiles |-> [n \in Profiles |-> [acc |-> Seed[n], ref |-> Seed[n]]],
               default |-> IF \E n \in Profiles : Seed[n] # 0
                           THEN CHOOSE n \in Profiles : Seed[n] # 0 ELSE DefaultName]
    /\ damaged = "no" /\ revoked = {} /\ removed = {}
    /\ mem = [p \in Processes |-> [n \in Profiles |-> NotCached]]
    /\ mutex = [p \in Processes |-> <<>>]
    /\ pc = [t \in Tasks |-> "idle"] /\ job = [t \in Tasks |-> NoJob]
    /\ opsLeft \in Workloads /\ faults = 0
    /\ excused = [r \in Token |-> {}] /\ answer = [a \in Token |-> 0]
    /\ undisturbed = {}
    /\ ServerInit

(* What a call does once it has been made. *)
TaskStep(t) ==
    \/ EnterMutex(t) \/ RefuseRefresh(t) \/ AdoptRotated(t) \/ SendRefresh(t)
    \/ ServerRotates(t) \/ AnswerLost(t) \/ RefreshFails(t) \/ ScopeRefused(t)
    \/ Reload(t) \/ SaveRefresh(t) \/ RefreshNotSaved(t)
    \/ Authorized(t) \/ AuthorizationFails(t) \/ RevokeTokens(t)
    \/ Load(t) \/ LoadRefused(t) \/ LockTimesOut(t)
    \/ SaveLogin(t) \/ SaveDefault(t) \/ SaveConsent(t)
    \/ RecordRevocation(t) \/ SaveRemoval(t) \/ SaveFails(t)

Call(t) ==
    \/ \E n \in Profiles :
          \/ GetAuthHeader(t, n) \/ ForceRefresh(t, n)
          \/ \E op \in {"refresh", "token", "widen"} : RefreshProfile(t, n, op)
          \/ \E d \in {"yes", "no"} : Login(t, n, d)
          \/ UseProfile(t, n) \/ DeleteProfile(t, n) \/ Logout(t, n)
    \/ LogoutAll(t)

Environment ==
    \/ \E p \in Processes : Crash(p) \/ \E n \in Profiles : GetSharedState(p, n)
    \/ Retire \/ Damage \/ Repair \/ MoveAside \/ ClockTicks \/ Rest

Next == (\E t \in Tasks : TaskStep(t) \/ Call(t)) \/ Environment

Spec == Init /\ [][Next]_vars

(* Event loops run, the server answers or the 30 s deadline does, a device *)
(* code expires, and a lock is obtained or its 90 s pass.                  *)
FairSpec == Spec /\ \A t \in Tasks : WF_vars(TaskStep(t))

-----------------------------------------------------------------------------
TypeOK ==
    /\ holder \in Tasks \cup {Free, Abandoned}
    /\ file \in File /\ damaged \in {"yes", "no"} /\ revoked \subseteq Profiles
    /\ removed \subseteq Profiles
    /\ mem \in [Processes -> [Profiles -> Cached]]
    /\ mutex \in [Processes -> Seq(Tasks)]
    /\ pc \in [Tasks -> PC] /\ job \in [Tasks -> Job]
    /\ opsLeft \in [Tasks -> Work] /\ faults \in Nat
    /\ excused \in [Token -> SUBSET Processes] /\ answer \in [Token -> Token]
    /\ undisturbed \subseteq Tasks
    /\ ServerTypeOK

(* A refresh never sends a refresh token that was used up or revoked, save *)
(* one whose end this process could not learn of: a dead process, a lost   *)
(* answer or a file put aside took its replacement, or logout revoked it   *)
(* (credentials.ts:1072, "A refresh token works once").                    *)
NoReplay ==
    \A t \in Tasks :
        pc[t] = "sending" /\ job[t].base.ref \notin live
            => P(t) \in excused[job[t].base.ref]

(* Whenever the lock is free, no process takes a used-up refresh token on  *)
(* file for a good one: it is honoured, or the process has marked it as    *)
(* used up and goes on with the copy it could not save, or a fault or a    *)
(* logout ended it behind its back (credentials.ts:1070-1073, 994-998).    *)
FileStaysRefreshable ==
    holder = Free =>
        \A n \in Profiles, p \in Processes :
            LET onFile == file.profiles[n]
            IN  \/ onFile.ref \in live \cup {0}
                \/ p \in excused[onFile.ref]
                \/ IsBehind(onFile, mem[p][n].used)

(* `auth use`, login and logout leave a default that names a stored        *)
(* profile, whatever order they come in (credentials.ts:263-272).          *)
DefaultExists == Stored(file) # {} => HasProfile(file, file.default)

(* A logged-out profile comes back only through an explicit login, or from *)
(* a refresh that found it on file under the lock (and the user has put    *)
(* the file aside since): never from a consent that was under way, or from *)
(* what a process still has in memory (credentials.ts:669, 1101-1110).     *)
NoResurrection ==
    [][\A n \in Profiles :
          n \in removed \cup revoked /\ ~HasProfile(file, n) /\ HasProfile(file', n) =>
              \E t \in Tasks : /\ job[t].prof = n
                               /\ \/ AtSave(t, {"login"})
                                  \/ AtSave(t, Refreshing) /\ job[t].prev # NoCreds]_vars

(* Of the other profiles a save leaves every one as the file holds it now: *)
(* no concurrent login, refresh or logout is undone, and a file that       *)
(* cannot be read is not taken for an empty one (credentials.ts:518-520).  *)
NoLostUpdate ==
    [][\A t \in Tasks :
          AtSave(t, Refreshing \cup {"login", "use", "consent"}) /\ pc'[t] # "loaded" =>
              \A n \in Profiles \ {job[t].prof} : file'.profiles[n] = file.profiles[n]]_vars

(* A consent given in the browser is saved only if nobody has touched its  *)
(* profile since the wider scope was refused (credentials.ts:571-574).     *)
ConsentNeverOverwrites ==
    [][\A t \in Tasks :
          AtSave(t, {"consent"}) /\ pc'[t] # "loaded" /\ file' # file
              => t \in undisturbed]_vars

(* A rejected access token brings one refresh, from whichever process and  *)
(* however many requests it was rejected for, unless the token on file has *)
(* expired meanwhile (credentials.ts:16-19, 922-925, 1194-1200).  A fault  *)
(* may cost a second one, and so may a process that goes on with a grant   *)
(* it could not save: that one does not ask whether the rejected token has *)
(* been rotated (1112-1119).                                               *)
OneRotationPerRejection ==
    [][\A t \in Tasks :
          pc[t] = "sending" /\ granted' # granted /\ pc'[t] = "answered"
          /\ job[t].op \in {"force", "refresh"} /\ answer[job[t].stale] # 0 =>
              \/ faults > 0
              \/ IsBehind(OnFile(t), job[t].used)
              \/ Expired(OnFile(t).acc)]_vars

(* The refresh token a logout removes from the file is no longer honoured, *)
(* if the server took the revocations it was sent (README.md:1040-1042).   *)
LogoutRevokes ==
    [][\A t \in Tasks :
          pc[t] = "marked" /\ pc'[t] = "idle" /\ job[t].op = "logout"
          /\ job[t].doomed # {} /\ ~HasProfile(file', job[t].prof) =>
              file.profiles[job[t].prof].ref \notin live]_vars

(* Every call ends: no refusal, timeout or failed save leaves the chain of *)
(* the mutex waiting (credentials.ts:700-714), and no call waits for a     *)
(* lock that nobody will release.                                          *)
EveryCallEnds == \A t \in Tasks : pc[t] # "idle" ~> pc[t] = "idle"
=============================================================================
