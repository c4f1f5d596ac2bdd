------------------------- MODULE CredentialsProofs -------------------------
(***************************************************************************)
(* What holds of Credentials for any processes, tasks, profiles, calls and *)
(* faults.                                                                 *)
(***************************************************************************)
EXTENDS Credentials, SequenceTheorems, TLAPS

(* The calls that are in each phase. *)
OpsAt ==
    \A t \in Tasks :
        /\ pc[t] \in {"queued", "sending", "answered"} => job[t].op \in Refreshing
        /\ pc[t] \in {"authorizing", "consent"} => job[t].op \in {"login", "consent"}
        /\ pc[t] = "revoking" => job[t].op \in {"logout", "deleteAll"}
        /\ pc[t] = "marked" => job[t].op \in {"logout", "delete", "deleteAll"}

(* A refresh past its turn is the head of its process's mutex. *)
HeadRuns ==
    \A t \in Tasks :
        pc[t] \in {"lock", "sending", "answered", "loaded"} /\ job[t].op \in Refreshing
            => mutex[P(t)] # <<>> /\ Head(mutex[P(t)]) = t

(* The file is read and written by the holder of the lock. *)
LockedWork == \A t \in Tasks : pc[t] \in Locked => holder = t

TypeInv == TypeOK /\ OpsAt /\ HeadRuns

-----------------------------------------------------------------------------
(* Types of the constants and of what the operators return. *)

LEMMA ConstantTypes ==
    /\ NoCreds \in Creds /\ NotCached \in Cached
    /\ EmptyFile \in File /\ NoJob \in Job
<1> USE CredentialsAssumption, TokenServerAssumption
<1>1. NoCreds \in Creds /\ NotCached \in Cached
  BY DEF NoCreds, Creds, Token, NotCached, Cached
<1>2. EmptyFile \in File
  BY <1>1 DEF EmptyFile, File
<1>3. NoJob \in Job
  BY <1>1, <1>2 DEF NoJob, Job, Token
<1> QED
  BY <1>1, <1>2, <1>3

LEMMA SetProfileType ==
  ASSUME NEW f \in File, NEW n \in Profiles, NEW c \in Creds
  PROVE  SetProfile(f, n, c) \in File
BY DEF SetProfile, File

LEMMA RemoveProfileType ==
  ASSUME NEW f \in File, NEW n \in Profiles, NEW g \in RemoveProfile(f, n)
  PROVE  g \in File
BY ConstantTypes DEF RemoveProfile, File, Stored

LEMMA NewType ==
  ASSUME ServerTypeOK, CanGrant
  PROVE  New \in Creds /\ [New EXCEPT !.ref = 0] \in Creds
BY TokenServerAssumption DEF ServerTypeOK, CanGrant, New, Creds, Token

LEMMA Bounds == MaxGrants \in Nat /\ FirstGrants \in 0..MaxGrants
BY TokenServerAssumption, Zenon

LEMMA RotateType ==
  ASSUME ServerTypeOK, NEW ref \in Token, NEW creds \in Creds, Rotate(ref, creds)
  PROVE  ServerTypeOK'
<1>1. granted' = granted + 1 /\ granted' \in Token
  BY Bounds DEF Rotate, CanGrant, ServerTypeOK, Token
<1>2. creds.ref \in Token
  BY DEF Creds
<1>3. live' \subseteq Token \ {0}
  BY <1>2 DEF Rotate, ServerTypeOK
<1> QED
  BY <1>1, <1>3 DEF Rotate, ServerTypeOK

LEMMA GrantType ==
  ASSUME ServerTypeOK, NEW creds \in Creds, Grant(creds)
  PROVE  ServerTypeOK'
<1>1. granted' = granted + 1 /\ granted' \in Token
  BY Bounds DEF Grant, CanGrant, ServerTypeOK, Token
<1>2. creds.ref \in Token
  BY DEF Creds
<1>3. live' \subseteq Token \ {0}
  BY <1>2 DEF Grant, ServerTypeOK
<1> QED
  BY <1>1, <1>3 DEF Grant, ServerTypeOK

LEMMA WithRefreshedType ==
  ASSUME NEW b \in Creds, NEW c \in Creds
  PROVE  WithRefreshed(b, c) \in Creds
BY DEF WithRefreshed, Creds

LEMMA SharedStateType ==
  ASSUME NEW c \in Cached, NEW f \in Creds
  PROVE  SharedState(c, f) \in Cached
BY ConstantTypes DEF SharedState, NotCached, Cached

-----------------------------------------------------------------------------
(* The mutex: leaving it takes away its head, joining it keeps the head. *)
LEMMA MutexTail ==
  ASSUME TypeOK, NEW t \in Tasks, mutex[P(t)] # <<>>, LeaveMutex(t)
  PROVE  /\ mutex' \in [Processes -> Seq(Tasks)]
         /\ \A p \in Processes \ {P(t)} : mutex'[p] = mutex[p]
BY CredentialsAssumption, HeadTailProperties DEF TypeOK, LeaveMutex, P

LEMMA MutexAppend ==
  ASSUME TypeOK, NEW t \in Tasks, Enqueue(t)
  PROVE  /\ mutex' \in [Processes -> Seq(Tasks)]
         /\ \A p \in Processes : mutex[p] # <<>> =>
               mutex'[p] # <<>> /\ Head(mutex'[p]) = Head(mutex[p])
<1>1. P(t) \in Processes
  BY CredentialsAssumption DEF P
<1>2. mutex' = [mutex EXCEPT ![P(t)] = Append(@, t)]
  BY DEF Enqueue
<1>3. mutex[P(t)] \in Seq(Tasks)
  BY <1>1 DEF TypeOK
<1>4. Append(mutex[P(t)], t) \in Seq(Tasks)
  BY <1>3, AppendProperties
<1>5. mutex[P(t)] # <<>> =>
        /\ Append(mutex[P(t)], t) # <<>>
        /\ Head(Append(mutex[P(t)], t)) = Head(mutex[P(t)])
  BY <1>3, AppendProperties, EmptySeq
<1> QED
  BY <1>1, <1>2, <1>4, <1>5 DEF TypeOK

-----------------------------------------------------------------------------
(* Every step keeps the types. *)

(* The jobs a call starts with. *)
LEMMA FreshJobs ==
  ASSUME NEW o \in AllOps
  PROVE  /\ \A n \in Profiles :
               LET j == [NoJob EXCEPT !.op = o, !.prof = n] IN j \in Job /\ j.op = o
         /\ \A n \in Profiles, s \in Token :
               LET j == [NoJob EXCEPT !.op = o, !.prof = n, !.stale = s] IN j \in Job /\ j.op = o
         /\ \A n \in Profiles, r \in SUBSET Token :
               LET j == [NoJob EXCEPT !.op = o, !.prof = n, !.doomed = r] IN j \in Job /\ j.op = o
         /\ \A r \in SUBSET Token :
               LET j == [NoJob EXCEPT !.op = o, !.doomed = r] IN j \in Job /\ j.op = o
<1>1. NoJob \in Job
  BY ConstantTypes
<1>2. o \in AllOps \cup {"none"}
  OBVIOUS
<1> QED
  BY <1>1, <1>2 DEF Job

(* The task that makes a call, and the tasks that do not. *)
LEMMA Begins ==
  ASSUME TypeOK, NEW t \in Tasks, NEW fields \in Job, NEW l \in PC,
         Begin(t, fields), Goto(t, l)
  PROVE  /\ job' \in [Tasks -> Job] /\ pc' \in [Tasks -> PC] /\ opsLeft' \in [Tasks -> Work]
         /\ job'[t] = fields /\ pc'[t] = l
         /\ \A u \in Tasks \ {t} : pc'[u] = pc[u] /\ job'[u] = job[u]
<1>1. opsLeft \in [Tasks -> Work] /\ opsLeft[t] \in Work /\ opsLeft[t].calls > 0
  BY DEF TypeOK, Begin
<1>2. opsLeft' \in [Tasks -> Work]
  <2> DEFINE left == [opsLeft[t] EXCEPT !.calls = opsLeft[t].calls - 1]
  <2>1. left \in Work
    BY <1>1 DEF Work
  <2>2. opsLeft' = [opsLeft EXCEPT ![t] = left]
    BY <1>1 DEF Begin
  <2> HIDE DEF left
  <2> QED
    BY <1>1, <2>1, <2>2
<1>3. job' \in [Tasks -> Job] /\ job'[t] = fields /\ \A u \in Tasks \ {t} : job'[u] = job[u]
  BY DEF TypeOK, Begin
<1>4. pc' \in [Tasks -> PC] /\ pc'[t] = l /\ \A u \in Tasks \ {t} : pc'[u] = pc[u]
  BY DEF TypeOK, Goto
<1> QED
  BY <1>2, <1>3, <1>4

(* How a call starts. *)
LEMMA CallStarts ==
  ASSUME TypeInv, NEW t \in Tasks, Call(t)
  PROVE  /\ \A u \in Tasks \ {t} : pc'[u] = pc[u] /\ job'[u] = job[u]
         /\ \/ Enqueue(t) /\ pc'[t] = "queued" /\ job'[t].op \in Refreshing
            \/ UNCHANGED mutex /\ pc'[t] = "authorizing" /\ job'[t].op = "login"
            \/ UNCHANGED mutex /\ pc'[t] = "lock" /\ job'[t].op \in {"use", "delete"}
            \/ UNCHANGED mutex /\ pc'[t] = "revoking" /\ job'[t].op \in {"logout", "deleteAll"}
         /\ UNCHANGED <<holder, fileVars, faults, excused, answer, undisturbed, serverVars>>
         /\ job' \in [Tasks -> Job] /\ pc' \in [Tasks -> PC] /\ opsLeft' \in [Tasks -> Work]
         /\ mem' \in [Processes -> [Profiles -> Cached]]
<1> DEFINE Started(l, ops) ==
             /\ \A u \in Tasks \ {t} : pc'[u] = pc[u] /\ job'[u] = job[u]
             /\ pc'[t] = l /\ job'[t].op \in ops
             /\ job' \in [Tasks -> Job] /\ pc' \in [Tasks -> PC] /\ opsLeft' \in [Tasks -> Work]
           Untouched ==
             UNCHANGED <<holder, fileVars, faults, excused, answer, undisturbed, serverVars>>
<1>0. TypeOK
  BY DEF TypeInv
<1>1. ASSUME NEW fields \in Job, NEW l \in {"queued", "authorizing", "lock", "revoking"},
             NEW ops, fields.op \in ops, Begin(t, fields), Goto(t, l)
      PROVE  Started(l, ops)
  BY <1>0, <1>1, Begins DEF PC
<1>2. P(t) \in Processes /\ 0 \in Token
  BY CredentialsAssumption, Bounds DEF P, Token
<1>3. \A n \in Profiles : mem[P(t)][n] \in Cached /\ file.profiles[n] \in Creds
  BY <1>0, <1>2 DEF TypeOK, File
<1>4. \A n \in Profiles : mem[P(t)][n].creds.acc \in Token /\ file.profiles[n].ref \in Token
  BY <1>3 DEF Cached, Creds
<1>5. mem \in [Processes -> [Profiles -> Cached]]
  BY <1>0 DEF TypeOK
<1>14. {"auth", "force", "refresh", "token", "widen", "login", "use", "logout", "delete",
        "deleteAll"} \subseteq AllOps
  BY DEF AllOps
<1> USE DEF history, procVars
<1>6. ASSUME NEW n \in Profiles, GetAuthHeader(t, n)
      PROVE  Enqueue(t) /\ Started("queued", Refreshing) /\ Untouched /\ UNCHANGED mem
  <2>1. /\ Begin(t, [NoJob EXCEPT !.op = "auth", !.prof = n]) /\ Goto(t, "queued")
        /\ Enqueue(t) /\ Untouched /\ UNCHANGED mem
    BY <1>6 DEF GetAuthHeader, Enqueue
  <2>2. /\ [NoJob EXCEPT !.op = "auth", !.prof = n] \in Job
        /\ [NoJob EXCEPT !.op = "auth", !.prof = n].op = "auth"
    BY <1>14, FreshJobs, Zenon
  <2> HIDE DEF Started
  <2> QED
    BY <1>1, <2>1, <2>2 DEF Refreshing
<1>7. ASSUME NEW n \in Profiles, ForceRefresh(t, n)
      PROVE  Enqueue(t) /\ Started("queued", Refreshing) /\ Untouched /\ UNCHANGED mem
  <2> DEFINE stale == mem[P(t)][n].creds.acc
  <2>1. /\ Begin(t, [NoJob EXCEPT !.op = "force", !.prof = n, !.stale = stale])
        /\ Goto(t, "queued") /\ Enqueue(t) /\ Untouched /\ UNCHANGED mem
    BY <1>7 DEF ForceRefresh, Enqueue
  <2>2. stale \in Token
    BY <1>4
  <2> HIDE DEF stale, Started
  <2>3. /\ [NoJob EXCEPT !.op = "force", !.prof = n, !.stale = stale] \in Job
        /\ [NoJob EXCEPT !.op = "force", !.prof = n, !.stale = stale].op = "force"
    BY <2>2, <1>14, FreshJobs, Zenon
  <2> QED
    BY <1>1, <2>1, <2>3 DEF Refreshing
<1>8. ASSUME NEW n \in Profiles, NEW op \in {"refresh", "token", "widen"},
             RefreshProfile(t, n, op)
      PROVE  /\ Enqueue(t) /\ Started("queued", Refreshing) /\ Untouched
             /\ mem' \in [Processes -> [Profiles -> Cached]]
  <2> DEFINE state == SharedState(mem[P(t)][n], file.profiles[n])
             stale == IF op = "token" THEN 0 ELSE state.creds.acc
  <2>1. /\ Begin(t, [NoJob EXCEPT !.op = op, !.prof = n, !.stale = stale])
        /\ Goto(t, "queued") /\ Enqueue(t) /\ Untouched
        /\ mem' = [mem EXCEPT ![P(t)][n] = state]
    BY <1>8 DEF RefreshProfile, Enqueue
  <2>2. state \in Cached
    BY <1>3, SharedStateType
  <2>3. state.creds.acc \in Token
    BY <2>2 DEF Cached, Creds
  <2>4. stale \in Token
    BY <1>2, <2>3
  <2> HIDE DEF state, stale, Started
  <2>5. mem' \in [Processes -> [Profiles -> Cached]]
    BY <1>2, <1>5, <2>1, <2>2
  <2>6. /\ [NoJob EXCEPT !.op = op, !.prof = n, !.stale = stale] \in Job
        /\ [NoJob EXCEPT !.op = op, !.prof = n, !.stale = stale].op = op
    <3>1. op \in AllOps
      BY <1>14
    <3> QED
      BY <2>4, <3>1, ConstantTypes DEF Job
  <2>7. op \in Refreshing
    BY DEF Refreshing
  <2>8. Started("queued", Refreshing)
    BY <1>1, <2>1, <2>6, <2>7
  <2> QED
    BY <2>1, <2>5, <2>8
<1>9. ASSUME NEW n \in Profiles, NEW d \in {"yes", "no"}, Login(t, n, d)
      PROVE  UNCHANGED <<mutex, mem>> /\ Started("authorizing", {"login"}) /\ Untouched
  <2>1. /\ Begin(t, [NoJob EXCEPT !.op = "login", !.prof = n, !.setDefault = d])
        /\ Goto(t, "authorizing") /\ Untouched /\ UNCHANGED <<mutex, mem>>
    BY <1>9 DEF Login
  <2>2. /\ [NoJob EXCEPT !.op = "login", !.prof = n, !.setDefault = d] \in Job
        /\ [NoJob EXCEPT !.op = "login", !.prof = n, !.setDefault = d].op = "login"
    <3>1. NoJob \in Job /\ "login" \in AllOps \cup {"none"}
      BY <1>14, ConstantTypes
    <3> QED
      BY <3>1 DEF Job
  <2> HIDE DEF Started
  <2> QED
    BY <1>1, <2>1, <2>2
<1>10. ASSUME NEW n \in Profiles, NEW op \in {"use", "delete"},
              Begin(t, [NoJob EXCEPT !.op = op, !.prof = n]), Goto(t, "lock")
       PROVE  Started("lock", {"use", "delete"})
  <2>1. /\ [NoJob EXCEPT !.op = op, !.prof = n] \in Job
        /\ [NoJob EXCEPT !.op = op, !.prof = n].op = op
    <3>1. op \in AllOps
      BY <1>14
    <3> QED
      BY <3>1, FreshJobs, Zenon
  <2> HIDE DEF Started
  <2> QED
    BY <1>1, <1>10, <2>1
<1>11. ASSUME NEW n \in Profiles, UseProfile(t, n) \/ DeleteProfile(t, n)
       PROVE  UNCHANGED <<mutex, mem>> /\ Started("lock", {"use", "delete"}) /\ Untouched
  <2> HIDE DEF Started
  <2>1. CASE UseProfile(t, n)
    BY <1>10, <2>1 DEF UseProfile
  <2>2. CASE DeleteProfile(t, n)
    BY <1>10, <2>2 DEF DeleteProfile
  <2> QED
    BY <1>11, <2>1, <2>2
<1>12. ASSUME NEW n \in Profiles, Logout(t, n)
       PROVE  UNCHANGED <<mutex, mem>> /\ Started("revoking", {"logout", "deleteAll"}) /\ Untouched
  <2> DEFINE refs == {file.profiles[n].ref}
  <2>1. /\ Begin(t, [NoJob EXCEPT !.op = "logout", !.prof = n, !.doomed = refs])
        /\ Goto(t, "revoking") /\ Untouched /\ UNCHANGED <<mutex, mem>>
    BY <1>12 DEF Logout
  <2>2. refs \in SUBSET Token
    BY <1>4
  <2> HIDE DEF refs, Started
  <2>3. /\ [NoJob EXCEPT !.op = "logout", !.prof = n, !.doomed = refs] \in Job
        /\ [NoJob EXCEPT !.op = "logout", !.prof = n, !.doomed = refs].op = "logout"
    BY <1>2, <2>2, <1>14, FreshJobs, Zenon
  <2> QED
    BY <1>1, <2>1, <2>3
<1>13. ASSUME LogoutAll(t)
       PROVE  UNCHANGED <<mutex, mem>> /\ Started("revoking", {"logout", "deleteAll"}) /\ Untouched
  <2> DEFINE refs == IF damaged = "yes" THEN {}
                     ELSE {file.profiles[n].ref : n \in Stored(file)}
  <2>1. /\ Begin(t, [NoJob EXCEPT !.op = "deleteAll", !.doomed = refs])
        /\ Goto(t, "revoking") /\ Untouched /\ UNCHANGED <<mutex, mem>>
    BY <1>13 DEF LogoutAll
  <2>2. refs \in SUBSET Token
    BY <1>4 DEF Stored
  <2> HIDE DEF refs, Started
  <2>3. /\ [NoJob EXCEPT !.op = "deleteAll", !.doomed = refs] \in Job
        /\ [NoJob EXCEPT !.op = "deleteAll", !.doomed = refs].op = "deleteAll"
    BY <1>2, <2>2, <1>14, FreshJobs, Zenon
  <2> QED
    BY <1>1, <2>1, <2>3
<1> QED
  BY <1>5, <1>6, <1>7, <1>8, <1>9, <1>11, <1>12, <1>13 DEF Call

LEMMA CallTypes ==
  ASSUME TypeInv, NEW t \in Tasks, Call(t)
  PROVE  TypeOK'
<1>1. mutex' \in [Processes -> Seq(Tasks)]
  <2>1. CASE Enqueue(t)
    BY <2>1, MutexAppend DEF TypeInv
  <2>2. CASE UNCHANGED mutex
    BY <2>2 DEF TypeInv, TypeOK
  <2> QED
    BY <2>1, <2>2, CallStarts
<1>2. UNCHANGED <<holder, file, damaged, revoked, removed, faults, excused, answer, undisturbed,
                  granted, live, age, ageings>>
  BY CallStarts DEF fileVars, serverVars
<1>3. ServerTypeOK'
  BY <1>2 DEF TypeInv, TypeOK, ServerTypeOK
<1>4. /\ job' \in [Tasks -> Job] /\ pc' \in [Tasks -> PC] /\ opsLeft' \in [Tasks -> Work]
      /\ mem' \in [Processes -> [Profiles -> Cached]]
  BY CallStarts
<1> QED
  BY <1>1, <1>2, <1>3, <1>4 DEF TypeInv, TypeOK

LEMMA EnvironmentTypes ==
  ASSUME TypeInv, Environment
  PROVE  TypeOK'
<1> USE ConstantTypes, CredentialsAssumption, TokenServerAssumption
    DEF TypeInv, TypeOK, PC, Locked, Fault, Excuse, fileVars, procVars, history, serverVars
<1>1. ASSUME NEW p \in Processes, Crash(p) PROVE TypeOK'
  <2>1. holder' \in Tasks \cup {Free, Abandoned}
    BY <1>1 DEF Crash, Lock!Abandon
  <2>2. mutex' \in [Processes -> Seq(Tasks)]
    BY <1>1 DEF Crash
  <2>3. excused' \in [Token -> SUBSET Processes]
    BY <1>1 DEF Crash
  <2>4. UNCHANGED <<granted, live, age, ageings, file, damaged, revoked, removed, opsLeft, answer>>
        /\ faults' \in Nat
    BY <1>1 DEF Crash
  <2>5. pc' \in [Tasks -> PC] /\ job' \in [Tasks -> Job]
    BY <1>1 DEF Crash
  <2>6. mem' \in [Processes -> [Profiles -> Cached]]
    BY <1>1 DEF Crash
  <2>7. undisturbed' \subseteq Tasks
    BY <1>1 DEF Crash
  <2> QED
    BY <2>1, <2>2, <2>3, <2>4, <2>5, <2>6, <2>7 DEF ServerTypeOK
<1>2. ASSUME NEW p \in Processes, NEW n \in Profiles, GetSharedState(p, n)
      PROVE TypeOK'
  <2>1. SharedState(mem[p][n], file.profiles[n]) \in Cached
    <3>1. mem[p][n] \in Cached /\ file.profiles[n] \in Creds
      BY DEF File
    <3> QED
      BY <3>1, SharedStateType
  <2>2. mem' \in [Processes -> [Profiles -> Cached]]
    BY <1>2, <2>1 DEF GetSharedState
  <2> QED
    BY <1>2, <2>2 DEF GetSharedState, ServerTypeOK
<1>3. CASE Retire
  <2>1. excused' \in [Token -> SUBSET Processes]
    BY <1>3 DEF Retire
  <2> QED
    BY <1>3, <2>1 DEF Retire, Lock!Retire, ServerTypeOK
<1>4. CASE Damage \/ Repair
  BY <1>4 DEF Damage, Repair, ServerTypeOK
<1>5. CASE MoveAside
  BY <1>5 DEF MoveAside, WriteFile, Disturb, ServerTypeOK
<1>6. CASE ClockTicks
  <2>1. PICK acc \in Token : Age(acc)
    BY <1>6 DEF ClockTicks
  <2>2. age' \in [Token -> Ages] /\ ageings' \in Nat /\ UNCHANGED <<granted, live>>
    BY <2>1 DEF Age, Ages, ServerTypeOK
  <2> QED
    BY <1>6, <2>2 DEF ClockTicks, ServerTypeOK
<1>7. CASE Rest
  BY <1>7 DEF Rest, vars, ServerTypeOK
<1> QED
  BY <1>1, <1>2, <1>3, <1>4, <1>5, <1>6, <1>7 DEF Environment

(* The steps of a call that refreshes. *)
LEMMA RefreshTypes ==
  ASSUME TypeInv, NEW t \in Tasks,
         \/ EnterMutex(t) \/ RefuseRefresh(t) \/ AdoptRotated(t) \/ SendRefresh(t)
         \/ ServerRotates(t) \/ AnswerLost(t) \/ RefreshFails(t) \/ ScopeRefused(t)
         \/ Reload(t) \/ SaveRefresh(t) \/ RefreshNotSaved(t)
  PROVE  TypeOK'
<1> USE ConstantTypes, CredentialsAssumption
    DEF TypeInv, TypeOK, Goto, Finish, PC, Locked, fileVars, procVars, history, serverVars
<1>1. /\ P(t) \in Processes /\ job[t] \in Job /\ job[t].prof \in Profiles
      /\ mem[P(t)][job[t].prof] \in Cached /\ file.profiles[job[t].prof] \in Creds
      /\ mutex[P(t)] \in Seq(Tasks)
  BY DEF P, Job, File
<1>2. job[t].base \in Creds /\ job[t].got \in Creds /\ job[t].prev \in Creds
      /\ job[t].stale \in Token /\ job[t].snap \in File
  BY <1>1 DEF Job
<1>3. Disk(t) \in Creds /\ Base(t) \in Creds /\ OnFile(t) \in Creds
  BY <1>1, <1>2 DEF Disk, Base, OnFile
<1>4. Base(t).ref \in Token /\ job[t].base.ref \in Token /\ 0 \in Token
  <2>1. 0 \in Token
    BY Bounds DEF Token
  <2> QED
    BY <1>2, <1>3, <2>1 DEF Creds
<1>5. ASSUME LeaveMutex(t), mutex[P(t)] # <<>>
      PROVE mutex' \in [Processes -> Seq(Tasks)]
  BY <1>5, MutexTail
<1>6. ASSUME NEW c \in Cached, SetCache(t, c)
      PROVE mem' \in [Processes -> [Profiles -> Cached]]
  BY <1>1, <1>6 DEF SetCache
<1>7. ASSUME NEW rs, NEW ps \in SUBSET Processes, Excuse(rs, ps)
      PROVE excused' \in [Token -> SUBSET Processes]
  BY <1>7 DEF Excuse
<1>8. CASE EnterMutex(t)
  <2>1. mutex' \in [Processes -> Seq(Tasks)]
    BY <1>5, <1>8 DEF EnterMutex
  <2>2. Cache(t) \in Cached
    BY <1>1 DEF Cache
  <2>3. job' \in [Tasks -> Job]
    <3>1. Cache(t).creds \in Creds /\ Cache(t).used \in Creds
      BY <2>2 DEF Cached
    <3>2. [job[t] EXCEPT !.base = Cache(t).creds, !.used = Cache(t).used] \in Job
      BY <1>1, <3>1 DEF Job
    <3>3. \/ job' = [job EXCEPT ![t] = NoJob]
          \/ job' = [job EXCEPT ![t] = [job[t] EXCEPT !.base = Cache(t).creds,
                                                     !.used = Cache(t).used]]
      BY <1>8 DEF EnterMutex
    <3> QED
      BY <3>2, <3>3
  <2> QED
    BY <1>8, <2>1, <2>3 DEF EnterMutex, ServerTypeOK
<1>9. CASE RefuseRefresh(t)
  <2>1. mutex' \in [Processes -> Seq(Tasks)]
    BY <1>5, <1>9 DEF RefuseRefresh, AtLock, HeadRuns
  <2> QED
    BY <1>9, <2>1 DEF RefuseRefresh, ServerTypeOK
<1>10. CASE AdoptRotated(t)
  <2>1. mutex' \in [Processes -> Seq(Tasks)]
    BY <1>5, <1>10 DEF AdoptRotated, AtLock, HeadRuns
  <2>2. mem' \in [Processes -> [Profiles -> Cached]]
    BY <1>3, <1>6, <1>10 DEF AdoptRotated, Cached
  <2> QED
    BY <1>10, <2>1, <2>2 DEF AdoptRotated, ServerTypeOK
<1>11. CASE SendRefresh(t)
  <2>1. job' \in [Tasks -> Job]
    BY <1>1, <1>3, <1>11 DEF SendRefresh, Job
  <2> QED
    BY <1>11, <2>1 DEF SendRefresh, Lock!Acquire, ServerTypeOK
<1>12. CASE ServerRotates(t)
  <2>1. PICK creds \in RefreshAnswers :
           /\ Rotate(job[t].base.ref, creds)
           /\ job' = [job EXCEPT ![t].got = WithRefreshed(job[t].base, creds)]
           /\ answer' = IF job[t].op \in {"force", "refresh"}
                        THEN [answer EXCEPT ![job[t].stale] = creds.acc] ELSE answer
    BY <1>12 DEF ServerRotates
  <2>2. CanGrant
    BY <2>1 DEF Rotate
  <2>3. creds \in Creds
    BY <2>2, NewType DEF RefreshAnswers
  <2>4. job' \in [Tasks -> Job]
    <3>1. WithRefreshed(job[t].base, creds) \in Creds
      BY <1>2, <2>3, WithRefreshedType
    <3> QED
      BY <1>1, <2>1, <3>1 DEF Job
  <2>5. answer' \in [Token -> Token]
    BY <1>2, <2>1, <2>3 DEF Creds
  <2>6. ServerTypeOK'
    BY <1>4, <2>1, <2>3, RotateType
  <2> QED
    BY <1>12, <2>4, <2>5, <2>6 DEF ServerRotates
<1>13. CASE AnswerLost(t)
  <2>1. PICK creds \in RefreshAnswers : Rotate(job[t].base.ref, creds)
    BY <1>13 DEF AnswerLost
  <2>2. creds \in Creds
    BY <2>1, NewType DEF RefreshAnswers, Rotate
  <2>3. ServerTypeOK'
    BY <1>4, <2>1, <2>2, RotateType
  <2>4. mutex' \in [Processes -> Seq(Tasks)]
    BY <1>5, <1>13 DEF AnswerLost, OpsAt, HeadRuns
  <2>5. excused' \in [Token -> SUBSET Processes]
    BY <1>7, <1>13 DEF AnswerLost
  <2> QED
    BY <1>13, <2>3, <2>4, <2>5 DEF AnswerLost, Fault, Lock!Release
<1>14. CASE RefreshFails(t)
  <2>1. mutex' \in [Processes -> Seq(Tasks)]
    BY <1>5, <1>14 DEF RefreshFails, OpsAt, HeadRuns
  <2> QED
    BY <1>14, <2>1 DEF RefreshFails, Lock!Release, ServerTypeOK
<1>15. CASE ScopeRefused(t)
  <2>1. mutex' \in [Processes -> Seq(Tasks)]
    BY <1>5, <1>15 DEF ScopeRefused, OpsAt, HeadRuns
  <2>2. job' \in [Tasks -> Job]
    BY <1>1, <1>15 DEF ScopeRefused, Job, AllOps
  <2> QED
    BY <1>15, <2>1, <2>2 DEF ScopeRefused, Lock!Release, ServerTypeOK
<1>16. CASE Reload(t)
  <2>1. job' \in [Tasks -> Job]
    BY <1>1, <1>16 DEF Reload, Job
  <2> QED
    BY <1>16, <2>1 DEF Reload, ServerTypeOK
<1>17. CASE SaveRefresh(t)
  <2>1. mutex' \in [Processes -> Seq(Tasks)]
    BY <1>5, <1>17 DEF SaveRefresh, OpsAt, HeadRuns
  <2>2. mem' \in [Processes -> [Profiles -> Cached]]
    BY <1>2, <1>6, <1>17 DEF SaveRefresh, Cached
  <2>3. file' \in File /\ undisturbed' \subseteq Tasks
    BY <1>1, <1>2, <1>17, SetProfileType DEF SaveRefresh, WriteFile, Disturb
  <2> QED
    BY <1>17, <2>1, <2>2, <2>3 DEF SaveRefresh, Lock!Release, ServerTypeOK
<1>18. CASE RefreshNotSaved(t)
  <2>1. mutex' \in [Processes -> Seq(Tasks)]
    BY <1>5, <1>18 DEF RefreshNotSaved, OpsAt, HeadRuns
  <2>2. mem' \in [Processes -> [Profiles -> Cached]]
    BY <1>2, <1>6, <1>18 DEF RefreshNotSaved, KeepUnsaved, Cached
  <2>3. excused' \in [Token -> SUBSET Processes] /\ faults' \in Nat
    BY <1>7, <1>18 DEF RefreshNotSaved, Fault
  <2> QED
    BY <1>18, <2>1, <2>2, <2>3 DEF RefreshNotSaved, Lock!Release, ServerTypeOK
<1> QED
  BY <1>8, <1>9, <1>10, <1>11, <1>12, <1>13, <1>14, <1>15, <1>16, <1>17, <1>18

(* The steps of login, consent, logout and the calls that edit the file. *)
LEMMA WriteTypes ==
  ASSUME TypeInv, NEW t \in Tasks,
         \/ Authorized(t) \/ AuthorizationFails(t) \/ RevokeTokens(t)
         \/ Load(t) \/ LoadRefused(t) \/ LockTimesOut(t)
         \/ SaveLogin(t) \/ SaveDefault(t) \/ SaveConsent(t)
         \/ RecordRevocation(t) \/ SaveRemoval(t) \/ SaveFails(t)
  PROVE  TypeOK'
<1> USE ConstantTypes, CredentialsAssumption
    DEF TypeInv, TypeOK, Goto, Finish, PC, Locked, fileVars, procVars, history, serverVars
<1>1. /\ P(t) \in Processes /\ job[t] \in Job /\ job[t].prof \in Profiles
      /\ mem[P(t)][job[t].prof] \in Cached /\ mutex[P(t)] \in Seq(Tasks)
  BY DEF P, Job
<1>2. job[t].base \in Creds /\ job[t].got \in Creds /\ job[t].snap \in File
      /\ job[t].doomed \subseteq Token
  BY <1>1 DEF Job
<1>3. ASSUME KeepConsent(t)
      PROVE mem' \in [Processes -> [Profiles -> Cached]]
  <2>1. Cache(t).used \in Creds
    BY <1>1 DEF Cache, Cached
  <2>2. [creds |-> job[t].got,
         used |-> IF Cache(t).used.ref # 0 THEN Cache(t).used ELSE job[t].base] \in Cached
    BY <1>2, <2>1 DEF Cached
  <2> QED
    BY <1>1, <1>3, <2>2 DEF KeepConsent, SetCache
<1>4. SetProfile(job[t].snap, job[t].prof, job[t].got) \in File
  BY <1>1, <1>2, SetProfileType
<1>5. ASSUME NEW f \in File, WriteFile(f)
      PROVE file' \in File /\ undisturbed' \subseteq Tasks
  BY <1>5 DEF WriteFile, Disturb
<1>6. CASE Authorized(t)
  <2>1. PICK creds \in LoginAnswers :
           /\ Grant(creds)
           /\ job' = [job EXCEPT ![t].got = WithRefreshed(job[t].base, creds)]
    BY <1>6 DEF Authorized
  <2>2. creds \in Creds
    BY <2>1, NewType DEF LoginAnswers, Grant
  <2>3. job' \in [Tasks -> Job]
    <3>1. WithRefreshed(job[t].base, creds) \in Creds
      BY <1>2, <2>2, WithRefreshedType
    <3> QED
      BY <1>1, <2>1, <3>1 DEF Job
  <2>4. ServerTypeOK'
    BY <2>1, <2>2, GrantType
  <2> QED
    BY <1>6, <2>3, <2>4 DEF Authorized
<1>7. CASE AuthorizationFails(t)
  BY <1>7 DEF AuthorizationFails, ServerTypeOK
<1>8. CASE RevokeTokens(t)
  <2>1. PICK refs \in SUBSET job[t].doomed :
           Revoke(refs) /\ Excuse(refs, Processes)
           /\ job' = [job EXCEPT ![t].doomed = refs]
    BY <1>8 DEF RevokeTokens
  <2>2. job' \in [Tasks -> Job]
    BY <1>1, <1>2, <2>1 DEF Job
  <2>3. ServerTypeOK' /\ excused' \in [Token -> SUBSET Processes]
    BY <2>1 DEF Revoke, Excuse, ServerTypeOK
  <2> QED
    BY <1>8, <2>2, <2>3 DEF RevokeTokens
<1>9. CASE Load(t)
  <2>1. job' \in [Tasks -> Job]
    BY <1>1, <1>9 DEF Load, Contents, Job
  <2> QED
    BY <1>9, <2>1 DEF Load, Lock!Acquire, ServerTypeOK
<1>10. CASE LoadRefused(t)
  <2>1. mem' \in [Processes -> [Profiles -> Cached]]
    BY <1>3, <1>10 DEF LoadRefused
  <2> QED
    BY <1>10, <2>1 DEF LoadRefused, ServerTypeOK
<1>11. CASE LockTimesOut(t)
  <2>1. mem' \in [Processes -> [Profiles -> Cached]]
    BY <1>3, <1>11 DEF LockTimesOut
  <2>2. mutex' \in [Processes -> Seq(Tasks)]
    BY <1>11, MutexTail DEF LockTimesOut, HeadRuns
  <2> QED
    BY <1>11, <2>1, <2>2 DEF LockTimesOut, ServerTypeOK
<1>12. CASE SaveLogin(t)
  <2>1. file' \in File /\ undisturbed' \subseteq Tasks
    BY <1>4, <1>5, <1>12 DEF SaveLogin
  <2>2. [NoJob EXCEPT !.op = "use", !.prof = job[t].prof] \in Job
    BY <1>1 DEF Job, NoJob, AllOps
  <2>3. job' \in [Tasks -> Job] /\ pc' \in [Tasks -> PC]
    BY <1>12, <2>2 DEF SaveLogin
  <2> QED
    BY <1>12, <2>1, <2>3 DEF SaveLogin, Lock!Release, ServerTypeOK
<1>13. CASE SaveDefault(t)
  <2>1. [job[t].snap EXCEPT !.default = job[t].prof] \in File
    BY <1>1, <1>2 DEF File
  <2>2. file' \in File /\ undisturbed' \subseteq Tasks
    BY <1>5, <1>13, <2>1 DEF SaveDefault
  <2> QED
    BY <1>13, <2>2 DEF SaveDefault, Lock!Release, ServerTypeOK
<1>14. CASE SaveConsent(t)
  <2>1. file' \in File
    BY <1>4, <1>14 DEF SaveConsent
  <2>2. mem' \in [Processes -> [Profiles -> Cached]]
    BY <1>1, <1>2, <1>14 DEF SaveConsent, SetCache, Cached
  <2> QED
    BY <1>14, <2>1, <2>2 DEF SaveConsent, Lock!Release, ServerTypeOK
<1>15. CASE RecordRevocation(t)
  <2>1. revoked' \subseteq Profiles
    BY <1>1, <1>15 DEF RecordRevocation
  <2>2. holder' \in Tasks \cup {Free, Abandoned}
    BY <1>15 DEF RecordRevocation, Lock!Release
  <2>3. job' \in [Tasks -> Job] /\ pc' \in [Tasks -> PC]
    BY <1>15 DEF RecordRevocation
  <2> QED
    BY <1>15, <2>1, <2>2, <2>3 DEF RecordRevocation, ServerTypeOK
<1>16. CASE SaveRemoval(t)
  <2>0. removed' \subseteq Profiles
    BY <1>1, <1>16 DEF SaveRemoval, Stored
  <2>1. file' \in File /\ undisturbed' \subseteq Tasks /\ damaged' \in {"yes", "no"}
    <3>1. CASE job[t].op = "deleteAll"
      BY <1>5, <1>16, <3>1 DEF SaveRemoval
    <3>2. CASE job[t].op # "deleteAll"
      <4>1. PICK f \in RemoveProfile(job[t].snap, job[t].prof) : WriteFile(f)
        BY <1>16, <3>2 DEF SaveRemoval
      <4>2. f \in File
        BY <1>1, <1>2, <4>1, RemoveProfileType
      <4> QED
        BY <1>5, <1>16, <3>2, <4>1, <4>2 DEF SaveRemoval
    <3> QED
      BY <3>1, <3>2
  <2> QED
    BY <1>16, <2>0, <2>1 DEF SaveRemoval, Lock!Release, ServerTypeOK
<1>17. CASE SaveFails(t)
  <2>1. mem' \in [Processes -> [Profiles -> Cached]] /\ faults' \in Nat
    BY <1>3, <1>17 DEF SaveFails, Fault
  <2> QED
    BY <1>17, <2>1 DEF SaveFails, Lock!Release, ServerTypeOK
<1> QED
  BY <1>6, <1>7, <1>8, <1>9, <1>10, <1>11, <1>12, <1>13, <1>14, <1>15, <1>16, <1>17

-----------------------------------------------------------------------------
(* Which call is in which phase, and who is the head of a mutex. *)

Marking == {"logout", "delete", "deleteAll"}

(* How the steps that go one of two ways end. *)
LEMMA Branches ==
  ASSUME TypeInv, NEW t \in Tasks
  PROVE  /\ EnterMutex(t) =>
               /\ \/ pc'[t] = "idle" /\ LeaveMutex(t)
                  \/ pc'[t] = "lock" /\ job'[t].op = job[t].op /\ UNCHANGED mutex
               /\ job[t].op \in Refreshing /\ mutex[P(t)] # <<>> /\ Head(mutex[P(t)]) = t
         /\ SaveLogin(t) =>
               /\ \/ pc'[t] = "idle"
                  \/ pc'[t] = "lock" /\ job'[t].op = "use"
               /\ UNCHANGED mutex
         /\ RecordRevocation(t) =>
               /\ \/ pc'[t] = "idle"
                  \/ pc'[t] = "marked" /\ job' = job
               /\ file' = file /\ job[t].op \in Marking
               /\ revoked' = IF job[t].op = "deleteAll" THEN Profiles
                             ELSE revoked \cup {job[t].prof}
         /\ EnterMutex(t) \/ SaveLogin(t) \/ RecordRevocation(t) =>
               \A u \in Tasks \ {t} : pc'[u] = pc[u] /\ job'[u] = job[u]
<1>1. /\ pc \in [Tasks -> PC] /\ job \in [Tasks -> Job] /\ job[t] \in Job
      /\ pc[t] = "queued" => job[t].op \in Refreshing
  BY DEF TypeInv, TypeOK, OpsAt
<1> USE DEF Goto, Finish
<1>2. EnterMutex(t) =>
        /\ \/ pc'[t] = "idle" /\ LeaveMutex(t)
           \/ pc'[t] = "lock" /\ job'[t].op = job[t].op /\ UNCHANGED mutex
        /\ job[t].op \in Refreshing /\ mutex[P(t)] # <<>> /\ Head(mutex[P(t)]) = t
  <2> SUFFICES ASSUME EnterMutex(t)
               PROVE  \/ pc'[t] = "idle" /\ LeaveMutex(t)
                      \/ pc'[t] = "lock" /\ job'[t].op = job[t].op /\ UNCHANGED mutex
    BY <1>1 DEF EnterMutex
  <2>1. CASE pc' = [pc EXCEPT ![t] = "idle"] /\ LeaveMutex(t)
    BY <1>1, <2>1
  <2>2. CASE /\ job' = [job EXCEPT ![t].base = Cache(t).creds, ![t].used = Cache(t).used]
             /\ pc' = [pc EXCEPT ![t] = "lock"] /\ UNCHANGED mutex
    <3>1. job'[t] = [job[t] EXCEPT !.base = Cache(t).creds, !.used = Cache(t).used]
      BY <1>1, <2>2
    <3>2. job'[t].op = job[t].op
      BY <1>1, <3>1 DEF Job
    <3> QED
      BY <1>1, <2>2, <3>2
  <2> QED
    BY <2>1, <2>2 DEF EnterMutex
<1>3. SaveLogin(t) =>
        /\ \/ pc'[t] = "idle"
           \/ pc'[t] = "lock" /\ job'[t].op = "use"
        /\ UNCHANGED mutex
  <2> SUFFICES ASSUME SaveLogin(t)
               PROVE  \/ pc'[t] = "idle"
                      \/ pc'[t] = "lock" /\ job'[t].op = "use"
    BY DEF SaveLogin, procVars
  <2>1. CASE pc' = [pc EXCEPT ![t] = "idle"]
    BY <1>1, <2>1
  <2>2. CASE /\ pc' = [pc EXCEPT ![t] = "lock"]
             /\ job' = [job EXCEPT ![t] = [NoJob EXCEPT !.op = "use", !.prof = job[t].prof]]
    <3>1. job[t].prof \in Profiles
      BY <1>1 DEF Job
    <3>2. [NoJob EXCEPT !.op = "use", !.prof = job[t].prof].op = "use"
      BY DEF NoJob
    <3> QED
      BY <1>1, <2>2, <3>2
  <2> QED
    BY <2>1, <2>2 DEF SaveLogin
<1>4. RecordRevocation(t) =>
        /\ \/ pc'[t] = "idle"
           \/ pc'[t] = "marked" /\ job' = job
        /\ file' = file /\ job[t].op \in Marking
        /\ revoked' = IF job[t].op = "deleteAll" THEN Profiles ELSE revoked \cup {job[t].prof}
  BY <1>1 DEF RecordRevocation, AtSave, Marking
<1>5. EnterMutex(t) => \A u \in Tasks \ {t} : pc'[u] = pc[u] /\ job'[u] = job[u]
  <2> HIDE DEF Goto, Finish
  <2>1. EnterMutex(t) => (\E l \in PC : Goto(t, l)) /\ (\E j : job' = [job EXCEPT ![t] = j])
    BY DEF EnterMutex, Finish, Goto, PC
  <2> QED
    BY <1>1, <2>1 DEF Goto
<1>6. SaveLogin(t) => \A u \in Tasks \ {t} : pc'[u] = pc[u] /\ job'[u] = job[u]
  <2> HIDE DEF Goto, Finish
  <2>1. SaveLogin(t) => (\E l \in PC : Goto(t, l)) /\ (\E j : job' = [job EXCEPT ![t] = j])
    BY DEF SaveLogin, Finish, Goto, PC
  <2> QED
    BY <1>1, <2>1 DEF Goto
<1>7. RecordRevocation(t) => \A u \in Tasks \ {t} : pc'[u] = pc[u] /\ job'[u] = job[u]
  BY <1>1 DEF RecordRevocation
<1> QED
  BY <1>2, <1>3, <1>4, <1>5, <1>6, <1>7

LEMMA OpsAtStep ==
  ASSUME TypeInv, [Next]_vars
  PROVE  OpsAt'
<1> USE DEF OpsAt, Refreshing
<1>1. OpsAt /\ pc \in [Tasks -> PC] /\ job \in [Tasks -> Job]
  BY DEF TypeInv, TypeOK
<1>2. ASSUME NEW t \in Tasks, Call(t) PROVE OpsAt'
  BY <1>1, <1>2, CallStarts
<1>3. ASSUME NEW t \in Tasks, TaskStep(t) PROVE OpsAt'
  <2>1. CASE EnterMutex(t)
    <3>1. /\ pc'[t] \in {"idle", "lock"}
          /\ \A u \in Tasks \ {t} : pc'[u] = pc[u] /\ job'[u] = job[u]
      BY <2>1, Branches, Zenon
    <3> QED
      BY <1>1, <3>1
  <2>2. CASE SaveLogin(t)
    <3>1. /\ pc'[t] \in {"idle", "lock"}
          /\ \A u \in Tasks \ {t} : pc'[u] = pc[u] /\ job'[u] = job[u]
      BY <2>2, Branches, Zenon
    <3> QED
      BY <1>1, <3>1
  <2>3. CASE RecordRevocation(t)
    <3>1. /\ pc'[t] = "idle" \/ (pc'[t] = "marked" /\ job'[t].op \in Marking)
          /\ \A u \in Tasks \ {t} : pc'[u] = pc[u] /\ job'[u] = job[u]
      BY <2>3, Branches, Zenon
    <3> QED
      BY <1>1, <3>1 DEF Marking
  <2> USE DEF Goto, Finish, Job
  <2>4. CASE SendRefresh(t)
    BY <1>1, <2>4 DEF SendRefresh, AtLock
  <2>5. CASE ServerRotates(t)
    BY <1>1, <2>5 DEF ServerRotates
  <2>6. CASE ScopeRefused(t)
    BY <1>1, <2>6 DEF ScopeRefused
  <2>7. CASE Reload(t)
    BY <1>1, <2>7 DEF Reload
  <2>8. CASE Authorized(t) \/ RevokeTokens(t) \/ Load(t)
    BY <1>1, <2>8 DEF Authorized, RevokeTokens, Load, AtLock
  <2>9. CASE Finish(t)
    BY <1>1, <2>9 DEF NoJob
  <2> QED
    BY <1>3, <2>1, <2>2, <2>3, <2>4, <2>5, <2>6, <2>7, <2>8, <2>9 DEF TaskStep,
       RefuseRefresh, AdoptRotated, AnswerLost, RefreshFails, SaveRefresh, RefreshNotSaved,
       AuthorizationFails, LoadRefused, LockTimesOut, SaveDefault, SaveConsent, SaveRemoval,
       SaveFails
<1>4. CASE Environment \/ UNCHANGED vars
  <2>1. ASSUME NEW p \in Processes, Crash(p) PROVE OpsAt'
    BY <1>1, <2>1 DEF Crash, NoJob
  <2>2. CASE UNCHANGED <<pc, job>>
    BY <1>1, <2>2
  <2> QED
    BY <1>4, <2>1, <2>2 DEF Environment, GetSharedState, Retire, Damage, Repair,
       MoveAside, ClockTicks, Rest, vars
<1> QED
  BY <1>2, <1>3, <1>4 DEF Next

(* Only the head of a mutex leaves it, so that the heads of the others, and *)
(* of the tasks of other processes, stay.                                   *)
LEMMA HeadRunsStep ==
  ASSUME TypeInv, [Next]_vars
  PROVE  HeadRuns'
<1> USE DEF HeadRuns, Refreshing
<1>1. /\ OpsAt /\ HeadRuns /\ pc \in [Tasks -> PC] /\ job \in [Tasks -> Job]
      /\ \A u \in Tasks : P(u) \in Processes
  BY CredentialsAssumption DEF TypeInv, TypeOK, P
<1>2. ASSUME NEW t \in Tasks, Call(t) PROVE HeadRuns'
  <2>1. \A u \in Tasks \ {t} : pc'[u] = pc[u] /\ job'[u] = job[u]
    BY <1>2, CallStarts, Zenon
  <2>2. CASE Enqueue(t) /\ pc'[t] = "queued"
    <3>1. \A p \in Processes : mutex[p] # <<>> =>
             mutex'[p] # <<>> /\ Head(mutex'[p]) = Head(mutex[p])
      BY <2>2, MutexAppend DEF TypeInv
    <3> QED
      BY <1>1, <2>1, <2>2, <3>1
  <2>3. CASE /\ UNCHANGED mutex
             /\ \/ pc'[t] \in {"authorizing", "revoking"}
                \/ pc'[t] = "lock" /\ job'[t].op \in {"use", "delete"}
    BY <1>1, <2>1, <2>3
  <2> QED
    BY <1>2, <2>2, <2>3, CallStarts
<1>3. ASSUME NEW t \in Tasks, TaskStep(t) PROVE HeadRuns'
  <2>1. ASSUME LeaveMutex(t), mutex[P(t)] # <<>>, Head(mutex[P(t)]) = t,
               pc'[t] \in {"idle", "consent"},
               \A u \in Tasks \ {t} : pc'[u] = pc[u] /\ job'[u] = job[u]
        PROVE HeadRuns'
    <3>1. \A p \in Processes \ {P(t)} : mutex'[p] = mutex[p]
      BY <2>1, MutexTail DEF TypeInv
    <3> QED
      BY <1>1, <2>1, <3>1
  <2>2. CASE EnterMutex(t)
    <3>1. \A u \in Tasks \ {t} : pc'[u] = pc[u] /\ job'[u] = job[u]
      BY <2>2, Branches, Zenon
    <3>2. mutex[P(t)] # <<>> /\ Head(mutex[P(t)]) = t
      BY <2>2, Branches, Zenon
    <3>3. CASE UNCHANGED mutex
      BY <1>1, <3>1, <3>2, <3>3
    <3>4. CASE pc'[t] = "idle" /\ LeaveMutex(t)
      BY <2>1, <3>1, <3>2, <3>4
    <3> QED
      BY <2>2, <3>3, <3>4, Branches, Zenon
  <2>3. CASE SaveLogin(t)
    <3>1. /\ \A u \in Tasks \ {t} : pc'[u] = pc[u] /\ job'[u] = job[u]
          /\ UNCHANGED mutex
          /\ pc'[t] = "idle" \/ (pc'[t] = "lock" /\ job'[t].op = "use")
      BY <2>3, Branches, Zenon
    <3> QED
      BY <1>1, <3>1
  <2>4. CASE RecordRevocation(t)
    <3>1. /\ \A u \in Tasks \ {t} : pc'[u] = pc[u] /\ job'[u] = job[u]
          /\ UNCHANGED mutex /\ pc'[t] \in {"idle", "marked"}
      BY <2>4, Branches, Zenon DEF RecordRevocation, procVars
    <3> QED
      BY <1>1, <3>1
  <2> USE DEF OpsAt, Goto, Finish, Job
  <2>5. CASE RefuseRefresh(t) \/ AdoptRotated(t)
    BY <1>1, <2>1, <2>5 DEF RefuseRefresh, AdoptRotated, AtLock
  <2>6. CASE SendRefresh(t) \/ ServerRotates(t) \/ Reload(t)
    BY <1>1, <2>6 DEF SendRefresh, ServerRotates, Reload, AtLock, procVars
  <2>7. CASE AnswerLost(t) \/ RefreshFails(t) \/ ScopeRefused(t)
    BY <1>1, <2>1, <2>7 DEF AnswerLost, RefreshFails, ScopeRefused
  <2>8. CASE SaveRefresh(t) \/ RefreshNotSaved(t)
    BY <1>1, <2>1, <2>8 DEF SaveRefresh, RefreshNotSaved
  <2>9. CASE Authorized(t)
    <3>1. PICK c \in Creds : job' = [job EXCEPT ![t].got = c]
      <4>1. PICK creds \in LoginAnswers :
               job' = [job EXCEPT ![t].got = WithRefreshed(job[t].base, creds)]
        BY <2>9 DEF Authorized
      <4>2. CanGrant
        BY <2>9 DEF Authorized, Grant
      <4>3. creds \in Creds /\ job[t].base \in Creds
        BY <1>1, <4>2, NewType DEF LoginAnswers, TypeInv, TypeOK
      <4> QED
        BY <4>1, <4>3, WithRefreshedType
    <3> QED
      BY <1>1, <2>9, <3>1 DEF Authorized, procVars
  <2>10. CASE AuthorizationFails(t) \/ RevokeTokens(t)
    BY <1>1, <2>10 DEF AuthorizationFails, RevokeTokens, procVars
  <2>11. CASE Load(t)
    BY <1>1, <2>11 DEF Load, AtLock, Writing, procVars
  <2>12. CASE LockTimesOut(t)
    <3>1. CASE job[t].op \in Refreshing
      BY <1>1, <2>1, <2>12, <3>1 DEF LockTimesOut
    <3>2. CASE job[t].op \notin Refreshing
      BY <1>1, <2>12, <3>2 DEF LockTimesOut
    <3> QED
      BY <3>1, <3>2
  <2>13. CASE LoadRefused(t) \/ SaveDefault(t) \/ SaveConsent(t) \/ SaveRemoval(t) \/ SaveFails(t)
    BY <1>1, <2>13 DEF LoadRefused, SaveDefault, SaveConsent, SaveRemoval, SaveFails, procVars
  <2> QED
    BY <1>3, <2>2, <2>3, <2>4, <2>5, <2>6, <2>7, <2>8, <2>9, <2>10, <2>11, <2>12, <2>13
    DEF TaskStep
<1>4. CASE Environment \/ UNCHANGED vars
  <2>1. ASSUME NEW p \in Processes, Crash(p) PROVE HeadRuns'
    <3>1. mutex' = [mutex EXCEPT ![p] = <<>>]
      BY <2>1 DEF Crash
    <3>2. \A u \in Tasks : pc'[u] = (IF P(u) = p THEN "idle" ELSE pc[u])
      BY <2>1 DEF Crash
    <3>3. \A u \in Tasks : P(u) # p => job'[u] = job[u]
      BY <2>1 DEF Crash
    <3>4. mutex \in [Processes -> Seq(Tasks)]
      BY DEF TypeInv, TypeOK
    <3> QED
      BY <1>1, <3>1, <3>2, <3>3, <3>4
  <2>2. CASE UNCHANGED <<mutex, pc, job>>
    BY <1>1, <2>2
  <2> QED
    BY <1>4, <2>1, <2>2 DEF Environment, GetSharedState, Retire, Damage, Repair,
       MoveAside, ClockTicks, Rest, vars, procVars
<1> QED
  BY <1>2, <1>3, <1>4 DEF Next

LEMMA TypeStep == TypeInv /\ [Next]_vars => TypeInv'
<1> SUFFICES ASSUME TypeInv, [Next]_vars PROVE TypeInv'
  OBVIOUS
<1>1. ASSUME NEW t \in Tasks, TaskStep(t) PROVE TypeOK'
  BY <1>1, RefreshTypes, WriteTypes DEF TaskStep
<1>2. ASSUME NEW t \in Tasks, Call(t) PROVE TypeOK'
  BY <1>2, CallTypes
<1>3. ASSUME Environment PROVE TypeOK'
  BY <1>3, EnvironmentTypes
<1>4. ASSUME UNCHANGED vars PROVE TypeOK'
  <2>1. /\ UNCHANGED <<holder, file, damaged, revoked, removed, mem, mutex, pc, job, opsLeft>>
        /\ UNCHANGED <<faults, excused, answer, undisturbed, granted, live, age, ageings>>
    BY <1>4 DEF vars, fileVars, procVars, history, serverVars
  <2>2. ServerTypeOK'
    BY <2>1 DEF TypeInv, TypeOK, ServerTypeOK
  <2> QED
    BY <2>1, <2>2 DEF TypeInv, TypeOK
<1>5. TypeOK'
  BY <1>1, <1>2, <1>3, <1>4 DEF Next
<1> QED
  BY <1>5, OpsAtStep, HeadRunsStep DEF TypeInv

LEMMA TypeInit == Init => TypeInv
<1> SUFFICES ASSUME Init PROVE TypeInv
  OBVIOUS
<1> USE CredentialsAssumption, ConstantTypes, Bounds
<1>1. \A n \in Profiles : [acc |-> Seed[n], ref |-> Seed[n]] \in Creds
  BY DEF Creds, Token
<1>2. file \in File
  BY <1>1 DEF Init, File
<1>3. ServerTypeOK
  <2>1. FirstGrants \in Token /\ live \subseteq Token \ {0}
    BY DEF Init, ServerInit, Token
  <2> QED
    BY <2>1 DEF Init, ServerInit, ServerTypeOK, Ages
<1>4. pc \in [Tasks -> PC] /\ mutex \in [Processes -> Seq(Tasks)]
  <2>1. <<>> \in Seq(Tasks)
    BY EmptySeq
  <2> QED
    BY <2>1 DEF Init, PC
<1>5. answer \in [Token -> Token] /\ excused \in [Token -> SUBSET Processes]
  BY DEF Init, Token
<1>6. TypeOK
  BY <1>2, <1>3, <1>4, <1>5 DEF Init, TypeOK
<1>7. OpsAt /\ HeadRuns
  BY DEF Init, OpsAt, HeadRuns
<1> QED
  BY <1>6, <1>7 DEF TypeInv

(* The types, which need the heads of the mutexes: Tail is taken of none   *)
(* that is empty.                                                          *)
THEOREM TypeCorrect == Spec => []TypeOK
<1>1. TypeInv => TypeOK
  BY DEF TypeInv
<1> QED
  BY <1>1, TypeInit, TypeStep, PTL DEF Spec

-----------------------------------------------------------------------------
(* A step of one task leaves the others where they are. *)
LEMMA OthersStay ==
  ASSUME TypeInv, NEW t \in Tasks, TaskStep(t)
  PROVE  \A u \in Tasks \ {t} : pc'[u] = pc[u] /\ job'[u] = job[u]
<1> USE DEF TypeInv, TypeOK, Goto, Finish
<1>1. CASE EnterMutex(t) \/ RefuseRefresh(t) \/ AdoptRotated(t) \/ SendRefresh(t)
  BY <1>1 DEF EnterMutex, RefuseRefresh, AdoptRotated, SendRefresh
<1>2. CASE ServerRotates(t) \/ AnswerLost(t) \/ RefreshFails(t) \/ ScopeRefused(t)
  BY <1>2 DEF ServerRotates, AnswerLost, RefreshFails, ScopeRefused
<1>3. CASE Reload(t) \/ SaveRefresh(t) \/ RefreshNotSaved(t)
  BY <1>3 DEF Reload, SaveRefresh, RefreshNotSaved
<1>4. CASE Authorized(t) \/ AuthorizationFails(t) \/ RevokeTokens(t)
  BY <1>4 DEF Authorized, AuthorizationFails, RevokeTokens
<1>5. CASE Load(t) \/ LoadRefused(t) \/ LockTimesOut(t)
  BY <1>5 DEF Load, LoadRefused, LockTimesOut
<1>6. CASE SaveLogin(t) \/ SaveDefault(t) \/ SaveConsent(t)
  BY <1>6 DEF SaveLogin, SaveDefault, SaveConsent
<1>7. CASE RecordRevocation(t) \/ SaveRemoval(t) \/ SaveFails(t)
  BY <1>7 DEF RecordRevocation, SaveRemoval, SaveFails
<1> QED
  BY <1>1, <1>2, <1>3, <1>4, <1>5, <1>6, <1>7 DEF TaskStep

(* The lock is taken when it is free, kept by whoever works under it, and  *)
(* given back by a step that leaves that work.                             *)
LEMMA HolderMoves ==
  ASSUME TypeInv, NEW t \in Tasks, TaskStep(t)
  PROVE  \/ holder = Free /\ holder' = t
         \/ holder = t /\ holder' = Free /\ pc'[t] \notin Locked
         \/ holder' = holder /\ (pc'[t] \in Locked => pc[t] \in Locked)
<1> USE DEF TypeInv, TypeOK, Goto, Finish, Locked
<1>1. CASE EnterMutex(t) \/ RefuseRefresh(t) \/ AdoptRotated(t)
  BY <1>1 DEF EnterMutex, RefuseRefresh, AdoptRotated
<1>2. CASE SendRefresh(t) \/ Load(t)
  BY <1>2 DEF SendRefresh, Load, Lock!Acquire
<1>3. CASE ServerRotates(t) \/ Reload(t)
  BY <1>3 DEF ServerRotates, Reload
<1>4. CASE AnswerLost(t) \/ RefreshFails(t) \/ ScopeRefused(t) \/ SaveRefresh(t)
           \/ RefreshNotSaved(t)
  BY <1>4 DEF AnswerLost, RefreshFails, ScopeRefused, SaveRefresh, RefreshNotSaved, Lock!Release
<1>5. CASE Authorized(t) \/ AuthorizationFails(t) \/ RevokeTokens(t)
           \/ LoadRefused(t) \/ LockTimesOut(t)
  BY <1>5 DEF Authorized, AuthorizationFails, RevokeTokens, LoadRefused, LockTimesOut
<1>6. CASE SaveLogin(t) \/ SaveDefault(t) \/ SaveConsent(t) \/ SaveRemoval(t) \/ SaveFails(t)
  BY <1>6 DEF SaveLogin, SaveDefault, SaveConsent, SaveRemoval, SaveFails, Lock!Release
<1>7. CASE RecordRevocation(t)
  BY <1>7 DEF RecordRevocation, AtSave, Lock!Release
<1> QED
  BY <1>1, <1>2, <1>3, <1>4, <1>5, <1>6, <1>7 DEF TaskStep

LEMMA LockedStep ==
  ASSUME TypeInv, LockedWork, [Next]_vars
  PROVE  LockedWork'
<1> USE CredentialsAssumption DEF LockedWork
<1>1. ASSUME NEW t \in Tasks, TaskStep(t) PROVE LockedWork'
  <2>1. \A u \in Tasks \ {t} : pc'[u] = pc[u]
    BY <1>1, OthersStay
  <2> QED
    BY <1>1, <2>1, HolderMoves
<1>2. ASSUME NEW t \in Tasks, Call(t) PROVE LockedWork'
  <2>1. /\ \A u \in Tasks \ {t} : pc'[u] = pc[u]
        /\ pc'[t] \in {"queued", "authorizing", "lock", "revoking"} /\ holder' = holder
    BY <1>2, CallStarts
  <2> QED
    BY <2>1 DEF Locked
<1>3. CASE Environment \/ UNCHANGED vars
  <2>1. ASSUME NEW p \in Processes, Crash(p) PROVE LockedWork'
    BY <2>1 DEF Crash, Lock!Abandon, Locked, TypeInv, TypeOK
  <2>2. CASE Retire
    BY <2>2 DEF Retire, Locked
  <2>3. CASE UNCHANGED <<pc, holder>>
    BY <2>3
  <2> QED
    BY <1>3, <2>1, <2>2, <2>3 DEF Environment, GetSharedState, Damage, Repair,
       MoveAside, ClockTicks, Rest, vars
<1> QED
  BY <1>1, <1>2, <1>3 DEF Next

-----------------------------------------------------------------------------
(* What a task knows while it holds the lock. *)

(* What it has read is still what is on file. *)
SnapIsFile(t) ==
    pc[t] \in {"loaded", "marked"} /\ job[t].op # "deleteAll" => job[t].snap = file

(* The default it is about to select, or the profile it is about to widen, *)
(* is stored.                                                              *)
ProfileRead(t) ==
    pc[t] = "loaded" /\ job[t].op \in {"use", "consent"}
        => HasProfile(job[t].snap, job[t].prof)

(* The grant it is about to save is one. *)
HasGrant(t) ==
    \/ pc[t] \in {"answered", "loaded"} /\ job[t].op \in Refreshing
    \/ pc[t] \in {"lock", "loaded"} /\ job[t].op \in {"login", "consent"}
    => job[t].got # NoCreds

(* A refresh from memory is of a profile nobody has logged out. *)
NotLoggedOut(t) ==
    pc[t] \in {"sending", "answered", "loaded"} /\ job[t].op \in Refreshing
    /\ job[t].prev = NoCreds => job[t].prof \notin revoked

(* The profiles it is about to remove are on record as logged out. *)
Recorded(t) ==
    pc[t] = "marked" =>
        IF job[t].op = "deleteAll" THEN revoked = Profiles ELSE job[t].prof \in revoked

UnderLock(t) ==
    SnapIsFile(t) /\ ProfileRead(t) /\ HasGrant(t) /\ NotLoggedOut(t) /\ Recorded(t)

FileInv == /\ TypeInv /\ LockedWork /\ removed \subseteq revoked
           /\ \A t \in Tasks : UnderLock(t)

(* The file and the record change only in the hands of a task that has     *)
(* loaded the file.                                                        *)
LEMMA FileMoves ==
  ASSUME NEW t \in Tasks, TaskStep(t)
  PROVE  pc[t] \in {"loaded", "marked"} \/ UNCHANGED <<file, revoked>>
<1> USE DEF fileVars
<1>1. CASE EnterMutex(t) \/ RefuseRefresh(t) \/ AdoptRotated(t) \/ SendRefresh(t)
  BY <1>1 DEF EnterMutex, RefuseRefresh, AdoptRotated, SendRefresh
<1>2. CASE ServerRotates(t) \/ AnswerLost(t) \/ RefreshFails(t) \/ ScopeRefused(t)
  BY <1>2 DEF ServerRotates, AnswerLost, RefreshFails, ScopeRefused
<1>3. CASE Reload(t) \/ SaveRefresh(t) \/ RefreshNotSaved(t)
  BY <1>3 DEF Reload, SaveRefresh, RefreshNotSaved
<1>4. CASE Authorized(t) \/ AuthorizationFails(t) \/ RevokeTokens(t)
  BY <1>4 DEF Authorized, AuthorizationFails, RevokeTokens
<1>5. CASE Load(t) \/ LoadRefused(t) \/ LockTimesOut(t)
  BY <1>5 DEF Load, LoadRefused, LockTimesOut
<1>6. CASE SaveLogin(t) \/ SaveDefault(t) \/ SaveConsent(t)
  BY <1>6 DEF SaveLogin, SaveDefault, SaveConsent, AtSave
<1>7. CASE RecordRevocation(t) \/ SaveRemoval(t) \/ SaveFails(t)
  BY <1>7 DEF RecordRevocation, SaveRemoval, SaveFails, AtSave
<1> QED
  BY <1>1, <1>2, <1>3, <1>4, <1>5, <1>6, <1>7 DEF TaskStep

LEMMA NewGrants ==
  ASSUME ServerTypeOK, NEW base \in Creds,
         NEW sent \in {New, [New EXCEPT !.ref = 0]}
  PROVE  WithRefreshed(base, sent) # NoCreds
BY DEF WithRefreshed, New, NoCreds, ServerTypeOK, Token

(* A step of a task keeps what that task knows. *)
LEMMA OwnStep ==
  ASSUME FileInv, NEW t \in Tasks, TaskStep(t)
  PROVE  UnderLock(t)'
<1> USE DEF FileInv, TypeInv, TypeOK, OpsAt, Goto, Finish, UnderLock, SnapIsFile, ProfileRead,
        HasGrant, NotLoggedOut, Recorded, Job
<1>1. CASE pc'[t] \in {"idle", "queued", "consent", "authorizing", "revoking"}
  BY <1>1
<1>2. CASE EnterMutex(t)
  BY <1>2, Branches DEF Refreshing
<1>3. CASE SendRefresh(t)
  <2>1. /\ job' = [job EXCEPT ![t].base = Base(t), ![t].prev = OnFile(t)]
        /\ pc'[t] = "sending" /\ UNCHANGED revoked /\ job[t].op \in Refreshing
        /\ ~LoggedOut(job[t].prof, OnFile(t))
    BY <1>3 DEF SendRefresh, AtLock, Refused, fileVars
  <2>2. job'[t].prof = job[t].prof /\ job'[t].prev = OnFile(t)
    BY <2>1
  <2> QED
    BY <2>1, <2>2 DEF LoggedOut
<1>4. CASE ServerRotates(t)
  <2>1. PICK creds \in RefreshAnswers :
           job' = [job EXCEPT ![t].got = WithRefreshed(job[t].base, creds)]
    BY <1>4 DEF ServerRotates
  <2>2. WithRefreshed(job[t].base, creds) # NoCreds
    BY <2>1, NewGrants DEF RefreshAnswers
  <2>3. pc[t] = "sending" /\ pc'[t] = "answered" /\ UNCHANGED revoked
    BY <1>4 DEF ServerRotates, fileVars
  <2> QED
    BY <2>1, <2>2, <2>3
<1>5. CASE Reload(t)
  <2>1. /\ job' = [job EXCEPT ![t].snap = file]
        /\ pc[t] = "answered" /\ pc'[t] = "loaded" /\ UNCHANGED <<file, revoked>>
    BY <1>5 DEF Reload, fileVars
  <2> QED
    BY <2>1 DEF Refreshing
<1>6. CASE Authorized(t)
  <2>1. PICK creds \in LoginAnswers :
           job' = [job EXCEPT ![t].got = WithRefreshed(job[t].base, creds)]
    BY <1>6 DEF Authorized
  <2>2. WithRefreshed(job[t].base, creds) # NoCreds
    BY <2>1, NewGrants DEF LoginAnswers
  <2>3. pc[t] \in {"authorizing", "consent"} /\ pc'[t] = "lock"
    BY <1>6 DEF Authorized
  <2> QED
    BY <2>1, <2>2, <2>3
<1>7. CASE RevokeTokens(t)
  <2>1. pc[t] = "revoking" /\ pc'[t] = "lock"
    BY <1>7 DEF RevokeTokens
  <2>2. job[t].op \in {"logout", "deleteAll"} /\ job'[t].op = job[t].op
    BY <1>7, <2>1 DEF RevokeTokens
  <2> QED
    BY <2>1, <2>2 DEF Refreshing
<1>8. CASE Load(t)
  <2>1. /\ job' = [job EXCEPT ![t].snap = Contents]
        /\ pc[t] = "lock" /\ pc'[t] = "loaded" /\ UNCHANGED <<file, revoked>>
        /\ job[t].op \in Writing /\ Accepts(t)
    BY <1>8 DEF Load, AtLock, fileVars
  <2>2. job[t].op # "deleteAll" => Contents = file
    BY <2>1 DEF Accepts, Contents
  <2>3. job[t].op \in {"use", "consent"} => HasProfile(file, job[t].prof)
    BY <2>1 DEF Accepts, StillCurrent, OnFile, HasProfile
  <2> QED
    BY <2>1, <2>2, <2>3 DEF Writing, Refreshing
<1>9. CASE SaveLogin(t)
  BY <1>9, Branches DEF Refreshing
<1>10. CASE RecordRevocation(t)
  <2>1. pc[t] = "loaded"
    BY <1>10 DEF RecordRevocation, AtSave
  <2> QED
    BY <1>10, <2>1, Branches DEF Marking
<1> QED
  BY <1>1, <1>2, <1>3, <1>4, <1>5, <1>6, <1>7, <1>8, <1>9, <1>10 DEF TaskStep,
     RefuseRefresh, AdoptRotated, AnswerLost, RefreshFails, ScopeRefused, SaveRefresh,
     RefreshNotSaved, AuthorizationFails, LoadRefused, LockTimesOut, SaveDefault,
     SaveConsent, SaveRemoval, SaveFails

(* What a logout removes has been recorded, and the record only grows. *)
LEMMA RemovalStep ==
  ASSUME FileInv, [Next]_vars
  PROVE  (removed \subseteq revoked)'
<1> USE DEF FileInv, UnderLock, Recorded
<1>1. ASSUME NEW t \in Tasks, RecordRevocation(t)
      PROVE  UNCHANGED removed /\ revoked \subseteq revoked'
  BY <1>1 DEF RecordRevocation, TypeInv, TypeOK
<1>2. ASSUME NEW t \in Tasks, SaveRemoval(t)
      PROVE  (removed \subseteq revoked)'
  <2>1. revoked' = revoked /\ pc[t] = "marked"
    BY <1>2 DEF SaveRemoval
  <2>2. CASE job[t].op = "deleteAll"
    BY <1>2, <2>1, <2>2 DEF SaveRemoval, Stored
  <2>3. CASE job[t].op # "deleteAll"
    BY <1>2, <2>1, <2>3 DEF SaveRemoval
  <2> QED
    BY <2>2, <2>3
<1>3. ASSUME NEW t \in Tasks, TaskStep(t), ~RecordRevocation(t), ~SaveRemoval(t)
      PROVE  UNCHANGED <<removed, revoked>>
  BY <1>3 DEF TaskStep, EnterMutex, RefuseRefresh, AdoptRotated, SendRefresh, ServerRotates,
     AnswerLost, RefreshFails, ScopeRefused, Reload, SaveRefresh, RefreshNotSaved, Authorized,
     AuthorizationFails, RevokeTokens, Load, LoadRefused, LockTimesOut, SaveLogin, SaveDefault,
     SaveConsent, SaveFails, fileVars
<1>4. ASSUME NEW t \in Tasks, Call(t) PROVE UNCHANGED <<removed, revoked>>
  BY <1>4, CallStarts DEF fileVars
<1>5. ASSUME Environment \/ UNCHANGED vars PROVE UNCHANGED <<removed, revoked>>
  BY <1>5 DEF Environment, Crash, GetSharedState, Retire, Damage, Repair, MoveAside,
     ClockTicks, Rest, vars, fileVars
<1> QED
  BY <1>1, <1>2, <1>3, <1>4, <1>5, Zenon DEF Next

LEMMA FileStep == FileInv /\ [Next]_vars => FileInv'
<1> SUFFICES ASSUME FileInv, [Next]_vars PROVE \A t \in Tasks : UnderLock(t)'
  BY TypeStep, LockedStep, RemovalStep DEF FileInv
<1> USE DEF UnderLock, SnapIsFile, ProfileRead, HasGrant, NotLoggedOut, Recorded
<1>1. ASSUME NEW t \in Tasks, TaskStep(t), NEW u \in Tasks PROVE UnderLock(u)'
  <2>1. CASE u = t
    BY <1>1, <2>1, OwnStep
  <2>2. CASE u # t
    <3>1. pc'[u] = pc[u] /\ job'[u] = job[u]
      BY <1>1, <2>2, OthersStay DEF FileInv
    <3>2. pc[u] \in Locked => UNCHANGED <<file, revoked>>
      BY <1>1, <2>2, FileMoves DEF FileInv, LockedWork, Locked
    <3> QED
      BY <3>1, <3>2 DEF FileInv, Locked
  <2> QED
    BY <2>1, <2>2
<1>2. ASSUME NEW t \in Tasks, Call(t), NEW u \in Tasks PROVE UnderLock(u)'
  <2>1. /\ u # t => pc'[u] = pc[u] /\ job'[u] = job[u]
        /\ UNCHANGED <<file, revoked>>
        /\ \/ pc'[t] \in {"queued", "authorizing", "revoking"}
           \/ pc'[t] = "lock" /\ job'[t].op \in {"use", "delete"}
    BY <1>2, CallStarts DEF FileInv, fileVars
  <2> QED
    BY <2>1 DEF FileInv, Refreshing
<1>3. ASSUME Environment \/ UNCHANGED vars, NEW u \in Tasks PROVE UnderLock(u)'
  <2>1. ASSUME NEW p \in Processes, Crash(p) PROVE UnderLock(u)'
    BY <2>1 DEF Crash, FileInv, TypeInv, TypeOK, fileVars
  <2>2. CASE MoveAside
    BY <2>2 DEF MoveAside, NotWriting, FileInv
  <2>3. CASE UNCHANGED <<pc, job, file, revoked>>
    BY <2>3 DEF FileInv
  <2> QED
    BY <1>3, <2>1, <2>2, <2>3 DEF Environment, GetSharedState, Retire, Damage, Repair,
       ClockTicks, Rest, vars, fileVars
<1> QED
  BY <1>1, <1>2, <1>3 DEF Next

LEMMA FileInit == Init => FileInv
<1>1. Init => LockedWork /\ removed \subseteq revoked /\ \A t \in Tasks : UnderLock(t)
  BY DEF Init, LockedWork, Locked, UnderLock, SnapIsFile, ProfileRead, HasGrant,
     NotLoggedOut, Recorded
<1> QED
  BY <1>1, TypeInit DEF FileInv

-----------------------------------------------------------------------------
(* What a step may do to the file, and who does it. *)
LEMMA Saving ==
  ASSUME FileInv, [Next]_vars
  PROVE  \/ file' = file
         \/ file' = EmptyFile /\ NotWriting
         \/ \E t \in Tasks :
               /\ AtSave(t, Refreshing \cup {"login", "consent"}) /\ job[t].got # NoCreds
               /\ file' = SetProfile(file, job[t].prof, job[t].got)
         \/ \E t \in Tasks :
               /\ AtSave(t, {"use"}) /\ HasProfile(file, job[t].prof)
               /\ file' = [file EXCEPT !.default = job[t].prof]
         \/ \E t \in Tasks :
               pc[t] = "marked" /\ file' \in RemoveProfile(file, job[t].prof) \cup {EmptyFile}
<1> USE DEF FileInv, UnderLock, SnapIsFile, ProfileRead, HasGrant
<1>1. ASSUME NEW t \in Tasks, SaveRefresh(t) \/ SaveLogin(t) \/ SaveConsent(t)
      PROVE /\ AtSave(t, Refreshing \cup {"login", "consent"}) /\ job[t].got # NoCreds
            /\ file' = SetProfile(file, job[t].prof, job[t].got)
  <2>1. /\ AtSave(t, Refreshing \cup {"login", "consent"})
        /\ file' = SetProfile(job[t].snap, job[t].prof, job[t].got)
    BY <1>1 DEF SaveRefresh, SaveLogin, SaveConsent, AtSave, WriteFile
  <2> QED
    BY <2>1 DEF AtSave, Refreshing
<1>2. ASSUME NEW t \in Tasks, SaveDefault(t)
      PROVE /\ AtSave(t, {"use"}) /\ HasProfile(file, job[t].prof)
            /\ file' = [file EXCEPT !.default = job[t].prof]
  BY <1>2 DEF SaveDefault, AtSave, WriteFile
<1>3. ASSUME NEW t \in Tasks, SaveRemoval(t)
      PROVE pc[t] = "marked" /\ file' \in RemoveProfile(file, job[t].prof) \cup {EmptyFile}
  BY <1>3 DEF SaveRemoval, WriteFile
<1>4. ASSUME NEW t \in Tasks, TaskStep(t), ~(SaveRefresh(t) \/ SaveLogin(t) \/ SaveConsent(t)),
             ~SaveDefault(t), ~SaveRemoval(t)
      PROVE file' = file
  BY <1>4 DEF TaskStep, EnterMutex, RefuseRefresh, AdoptRotated, SendRefresh, ServerRotates,
     AnswerLost, RefreshFails, ScopeRefused, Reload, RefreshNotSaved, Authorized,
     AuthorizationFails, RevokeTokens, Load, LoadRefused, LockTimesOut, RecordRevocation,
     SaveFails, fileVars
<1>5. ASSUME NEW t \in Tasks, Call(t) PROVE file' = file
  BY <1>5, CallStarts DEF fileVars
<1>6. ASSUME Environment \/ UNCHANGED vars
      PROVE  \/ file' = file
             \/ file' = EmptyFile /\ NotWriting
  BY <1>6 DEF Environment, Crash, GetSharedState, Retire, Damage, Repair, MoveAside, WriteFile,
     ClockTicks, Rest, vars, fileVars
<1> QED
  BY <1>1, <1>2, <1>3, <1>4, <1>5, <1>6, Zenon DEF Next

(* setProfile leaves a default that is stored, and every other profile. *)
LEMMA SetProfileKeeps ==
  ASSUME NEW f \in File, NEW n \in Profiles, NEW creds \in Creds, creds # NoCreds
  PROVE  LET g == SetProfile(f, n, creds)
         IN  /\ HasProfile(g, g.default)
             /\ \A m \in Profiles \ {n} : g.profiles[m] = f.profiles[m]
BY DEF SetProfile, HasProfile, File

(* removeProfile adds none, and leaves a default that is stored. *)
LEMMA RemoveProfileKeeps ==
  ASSUME NEW f \in File, NEW n \in Profiles, NEW g \in RemoveProfile(f, n)
  PROVE  /\ \A m \in Profiles : HasProfile(g, m) => HasProfile(f, m)
         /\ (Stored(f) # {} => HasProfile(f, f.default))
               => (Stored(g) # {} => HasProfile(g, g.default))
BY DEF RemoveProfile, HasProfile, Stored, File

(* Whoever saves is the only one who works under the lock. *)
LEMMA OneSaver ==
  ASSUME FileInv, NEW t \in Tasks, NEW u \in Tasks,
         pc[t] \in {"loaded", "marked"}, pc[u] \in {"loaded", "marked"}
  PROVE  t = u
BY DEF FileInv, LockedWork, Locked

LEMMA FileAlways == Spec => []FileInv
BY FileInit, FileStep, PTL DEF Spec

-----------------------------------------------------------------------------
LEMMA DefaultStep == FileInv /\ DefaultExists /\ [Next]_vars => DefaultExists'
<1> SUFFICES ASSUME FileInv, DefaultExists, [Next]_vars PROVE DefaultExists'
  OBVIOUS
<1> USE DEF DefaultExists
<1>1. /\ file \in File
      /\ \A t \in Tasks : job[t].prof \in Profiles /\ job[t].got \in Creds
  BY DEF FileInv, TypeInv, TypeOK, Job
<1>2. CASE file' = file
  BY <1>2 DEF Stored, HasProfile
<1>3. CASE file' = EmptyFile
  BY <1>3 DEF EmptyFile, Stored, HasProfile
<1>4. ASSUME NEW t \in Tasks, job[t].got # NoCreds,
             file' = SetProfile(file, job[t].prof, job[t].got)
      PROVE  DefaultExists'
  <2>1. HasProfile(file', file'.default)
    BY <1>1, <1>4, SetProfileKeeps
  <2> QED
    BY <2>1 DEF HasProfile
<1>5. ASSUME NEW t \in Tasks, HasProfile(file, job[t].prof),
             file' = [file EXCEPT !.default = job[t].prof]
      PROVE  DefaultExists'
  BY <1>1, <1>5 DEF HasProfile, File
<1>6. ASSUME NEW t \in Tasks, file' \in RemoveProfile(file, job[t].prof)
      PROVE  DefaultExists'
  <2>1. Stored(file') # {} => HasProfile(file', file'.default)
    BY <1>1, <1>6, RemoveProfileKeeps
  <2> QED
    BY <2>1 DEF Stored, HasProfile
<1> QED
  BY <1>2, <1>3, <1>4, <1>5, <1>6, Saving

(* The default names a stored profile whenever one is stored, because each *)
(* writer decides on the default from the file it is about to replace.     *)
THEOREM DefaultAlwaysExists == Spec => []DefaultExists
<1>1. Init => DefaultExists
  <2> SUFFICES ASSUME Init, NEW m \in Profiles, HasProfile(file, m)
               PROVE  HasProfile(file, file.default)
    BY DEF DefaultExists, Stored
  <2>1. \A n \in Profiles : file.profiles[n] = [acc |-> Seed[n], ref |-> Seed[n]]
    BY DEF Init
  <2>2. ASSUME NEW n \in Profiles
        PROVE  HasProfile(file, n) <=> Seed[n] # 0
    <3>0. /\ Seed[n] \in Token
          /\ file.profiles[n] = [acc |-> Seed[n], ref |-> Seed[n]]
      BY <2>1, Bounds, CredentialsAssumption DEF Token
    <3>1. file.profiles[n].acc = Seed[n]
      BY <3>0
    <3>2. CASE Seed[n] = 0
      BY <2>1, <3>2 DEF HasProfile, NoCreds
    <3>3. CASE Seed[n] # 0
      BY <3>1, <3>3 DEF HasProfile, NoCreds
    <3> QED
      BY <3>2, <3>3
  <2>3. \E n \in Profiles : Seed[n] # 0
    BY <2>2
  <2>4. file.default = CHOOSE n \in Profiles : Seed[n] # 0
    BY <2>3 DEF Init
  <2>5. file.default \in Profiles /\ Seed[file.default] # 0
    BY <2>3, <2>4
  <2> QED
    BY <2>2, <2>5
<1> QED
  BY <1>1, FileAlways, DefaultStep, PTL DEF Spec

(* No save undoes another profile's change, because what it was computed   *)
(* from is still the file.                                                 *)
THEOREM NoUpdateIsLost == Spec => NoLostUpdate
<1> DEFINE Saves(t) == AtSave(t, Refreshing \cup {"login", "use", "consent"})
<1>1. ASSUME FileInv, [Next]_vars, NEW t \in Tasks, Saves(t),
             NEW n \in Profiles \ {job[t].prof}
      PROVE  file'.profiles[n] = file.profiles[n]
  <2>1. /\ file \in File
        /\ \A u \in Tasks : job[u].prof \in Profiles /\ job[u].got \in Creds
    BY <1>1 DEF FileInv, TypeInv, TypeOK, Job
  <2>2. pc[t] = "loaded" /\ ~NotWriting
    BY <1>1 DEF AtSave, NotWriting
  <2>3. \A u \in Tasks : pc[u] \in {"loaded", "marked"} => u = t
    BY <1>1, <2>2, OneSaver
  <2>4. ASSUME NEW u \in Tasks, AtSave(u, Refreshing \cup {"login", "consent"}),
               job[u].got # NoCreds, file' = SetProfile(file, job[u].prof, job[u].got)
        PROVE  file'.profiles[n] = file.profiles[n]
    <3>1. u = t
      BY <2>3, <2>4 DEF AtSave
    <3> QED
      BY <1>1, <2>1, <2>4, <3>1, SetProfileKeeps
  <2>5. ASSUME NEW u \in Tasks, file' = [file EXCEPT !.default = job[u].prof]
        PROVE  file'.profiles[n] = file.profiles[n]
    BY <2>1, <2>5 DEF File
  <2>6. ~\E u \in Tasks : pc[u] = "marked"
    BY <2>2, <2>3
  <2> QED
    BY <1>1, <2>2, <2>4, <2>5, <2>6, Saving
<1>2. FileInv /\ [Next]_vars =>
        [\A t \in Tasks :
            Saves(t) /\ pc'[t] # "loaded" =>
              \A n \in Profiles \ {job[t].prof} : file'.profiles[n] = file.profiles[n]]_vars
  BY <1>1
<1> QED
  BY <1>2, FileAlways, PTL DEF Spec, NoLostUpdate

(* A logged-out profile is not brought back from memory: a refresh looks   *)
(* at the record under the lock, and a consent at the profile.             *)
THEOREM NothingResurrects == Spec => NoResurrection
<1> DEFINE Back(n) == n \in removed \cup revoked /\ ~HasProfile(file, n) /\ HasProfile(file', n)
           Allowed(t, n) == /\ job[t].prof = n
                            /\ \/ AtSave(t, {"login"})
                               \/ AtSave(t, Refreshing) /\ job[t].prev # NoCreds
<1>1. ASSUME FileInv, [Next]_vars, NEW n \in Profiles, Back(n)
      PROVE  \E t \in Tasks : Allowed(t, n)
  <2>1. /\ file \in File
        /\ \A u \in Tasks : job[u].prof \in Profiles /\ job[u].got \in Creds
    BY <1>1 DEF FileInv, TypeInv, TypeOK, Job
  <2>2. ASSUME NEW t \in Tasks, AtSave(t, Refreshing \cup {"login", "consent"}),
               job[t].got # NoCreds, file' = SetProfile(file, job[t].prof, job[t].got)
        PROVE  Allowed(t, n)
    <3>1. job[t].prof = n
      BY <1>1, <2>1, <2>2, SetProfileKeeps DEF HasProfile
    <3>2. job[t].op # "consent" /\ (job[t].op \in Refreshing => job[t].prev # NoCreds)
      BY <1>1, <2>2, <3>1 DEF FileInv, UnderLock, SnapIsFile, ProfileRead, NotLoggedOut, AtSave
    <3> QED
      BY <2>2, <3>1, <3>2 DEF AtSave
  <2>3. file' # file /\ file' # EmptyFile
    BY <1>1 DEF HasProfile, EmptyFile
  <2>4. ASSUME NEW t \in Tasks, file' = [file EXCEPT !.default = job[t].prof]
        PROVE  FALSE
    BY <1>1, <2>1, <2>4 DEF HasProfile, File
  <2>5. ASSUME NEW t \in Tasks, file' \in RemoveProfile(file, job[t].prof)
        PROVE  FALSE
    BY <1>1, <2>1, <2>5, RemoveProfileKeeps
  <2> QED
    BY <1>1, <2>2, <2>3, <2>4, <2>5, Saving
<1>2. FileInv /\ [Next]_vars =>
        [\A n \in Profiles : Back(n) => \E t \in Tasks : Allowed(t, n)]_vars
  BY <1>1
<1> QED
  BY <1>2, FileAlways, PTL DEF Spec, NoResurrection

-----------------------------------------------------------------------------
(* What a step does to the jobs, the caches and the profiles.              *)

(* A refresh that has the server's answer, and every call that has one.    *)
Pending(t) == pc[t] \in {"answered", "loaded"} /\ job[t].op \in Refreshing

Holds(t) ==
    \/ Pending(t)
    \/ pc[t] \in {"lock", "loaded"} /\ job[t].op \in {"login", "consent"}

(* What a step does to the job of a task: it starts one, or ends one, which *)
(* leaves no grant behind; it takes pairs from the file and the cache; or   *)
(* it has the server's answer.                                              *)
Starts(t) ==
    /\ job'[t].base = NoCreds /\ job'[t].used = NoCreds
    /\ job'[t].prev = NoCreds /\ job'[t].got = NoCreds
    /\ job'[t].stale \in {0, mem'[P(t)][job'[t].prof].creds.acc}
    /\ ~Holds(t)'

Carries(t) ==
    /\ job'[t].prof = job[t].prof /\ job'[t].stale = job[t].stale
    /\ job'[t].base \in {job[t].base, Cache(t).creds, OnFile(t)}
    /\ job'[t].used \in {job[t].used, Cache(t).used}
    /\ job'[t].prev \in {job[t].prev, OnFile(t)}

Granted(t) ==
    /\ granted' = granted + 1 /\ job'[t].got.acc = granted + 1
    /\ job'[t].got.ref \in {granted + 1, job[t].base.ref}
    /\ ~Holds(t) /\ Holds(t)'
    /\ UNCHANGED <<file, mem>> /\ \A u \in Tasks \ {t} : job'[u] = job[u]

Keeps(t) == job'[t].got = job[t].got /\ (Holds(t)' <=> Holds(t))

JobMoves(t) == Starts(t) \/ (Carries(t) /\ (Keeps(t) \/ Granted(t)))

(* A call that ends leaves no pair and no grant behind.                    *)
LEMMA Ends ==
  ASSUME TypeInv, NEW t \in Tasks, Finish(t)
  PROVE  job'[t] = NoJob /\ pc'[t] = "idle" /\ Starts(t)
<1>1. job'[t] = NoJob /\ pc'[t] = "idle"
  BY DEF Finish, Goto, TypeInv, TypeOK
<1> QED
  BY <1>1 DEF Starts, Holds, Pending, NoJob

(* A step of a task leaves the jobs of the others as they are. *)
LEMMA OthersCarry ==
  ASSUME TypeInv, NEW t \in Tasks, pc'[t] = pc[t], job'[t] = job[t]
  PROVE  Carries(t) /\ Keeps(t)
BY DEF Carries, Keeps, Holds, Pending

(* What a refresh sends was on file or in the copy it began from.          *)
LEMMA BaseIsRead ==
  ASSUME NEW t \in Tasks
  PROVE  Disk(t) \in {OnFile(t), NoCreds} /\ Base(t) \in {job[t].base, OnFile(t)}
BY DEF Disk, Base

(* Every step of a task moves its job one of the ways above.               *)
LEMMA JobsMove ==
  ASSUME FileInv, NEW t \in Tasks, TaskStep(t)
  PROVE  JobMoves(t)
<1>1. CASE Finish(t)
  BY <1>1, Ends DEF FileInv, JobMoves
<1> USE DEF FileInv, TypeInv, TypeOK, OpsAt
<1> USE DEF Goto, Carries, Keeps, Holds, Pending, Job, JobMoves
<1>2. CASE EnterMutex(t) /\ ~Finish(t)
  <2>1. /\ job' = [job EXCEPT ![t].base = Cache(t).creds, ![t].used = Cache(t).used]
        /\ pc' = [pc EXCEPT ![t] = "lock"] /\ pc[t] = "queued"
    BY <1>2 DEF EnterMutex
  <2>2. job[t].op \in Refreshing
    BY <2>1
  <2>3. /\ job'[t].prof = job[t].prof /\ job'[t].stale = job[t].stale /\ job'[t].op = job[t].op
        /\ job'[t].base = Cache(t).creds /\ job'[t].used = Cache(t).used
        /\ job'[t].prev = job[t].prev /\ job'[t].got = job[t].got /\ pc'[t] = "lock"
    BY <2>1
  <2> QED
    BY <2>1, <2>2, <2>3 DEF Refreshing
<1>3. CASE SendRefresh(t)
  <2>1. /\ job' = [job EXCEPT ![t].base = Base(t), ![t].prev = OnFile(t)]
        /\ pc' = [pc EXCEPT ![t] = "sending"] /\ pc[t] = "lock" /\ job[t].op \in Refreshing
    BY <1>3 DEF SendRefresh, AtLock
  <2>3. /\ job'[t].prof = job[t].prof /\ job'[t].stale = job[t].stale /\ job'[t].op = job[t].op
        /\ job'[t].base = Base(t) /\ job'[t].used = job[t].used
        /\ job'[t].prev = OnFile(t) /\ job'[t].got = job[t].got /\ pc'[t] = "sending"
    BY <2>1
  <2> QED
    BY <2>1, <2>3, BaseIsRead DEF Refreshing
<1>4. CASE ServerRotates(t) \/ Authorized(t)
  <2>1. PICK creds \in {New, [New EXCEPT !.ref = 0]} :
           /\ job' = [job EXCEPT ![t].got = WithRefreshed(job[t].base, creds)]
           /\ granted' = granted + 1 /\ UNCHANGED <<file, mem>>
           /\ \/ pc[t] = "sending" /\ pc'[t] = "answered"
              \/ pc[t] \in {"authorizing", "consent"} /\ pc'[t] = "lock"
    <3>1. CASE ServerRotates(t)
      BY <3>1 DEF ServerRotates, RefreshAnswers, Rotate, fileVars, procVars
    <3>2. CASE Authorized(t)
      BY <3>2 DEF Authorized, LoginAnswers, Grant, fileVars, procVars
    <3> QED
      BY <1>4, <3>1, <3>2
  <2>2. LET got == WithRefreshed(job[t].base, creds)
        IN got.acc = granted + 1 /\ got.ref \in {granted + 1, job[t].base.ref}
    BY DEF WithRefreshed, New
  <2>3. /\ job'[t].prof = job[t].prof /\ job'[t].stale = job[t].stale /\ job'[t].op = job[t].op
        /\ job'[t].base = job[t].base /\ job'[t].used = job[t].used
        /\ job'[t].prev = job[t].prev /\ job'[t].got = WithRefreshed(job[t].base, creds)
        /\ \A u \in Tasks \ {t} : job'[u] = job[u]
    BY <2>1
  <2>4. ~Holds(t) /\ Holds(t)'
    BY <2>1, <2>3 DEF Refreshing
  <2> QED
    BY <2>1, <2>2, <2>3, <2>4 DEF Granted
<1>5. CASE ScopeRefused(t)
  <2>1. /\ job' = [job EXCEPT ![t].op = "consent"]
        /\ pc' = [pc EXCEPT ![t] = "consent"] /\ pc[t] = "sending"
    BY <1>5 DEF ScopeRefused
  <2> QED
    BY <2>1 DEF Refreshing
<1>6. CASE Reload(t) \/ Load(t)
  <2>1. PICK f : job' = [job EXCEPT ![t].snap = f]
    BY <1>6 DEF Reload, Load
  <2>2. /\ pc' = [pc EXCEPT ![t] = "loaded"]
        /\ pc[t] = "answered" \/ (pc[t] = "lock" /\ job[t].op \in Writing)
    BY <1>6 DEF Reload, Load, AtLock
  <2>3. job' = [job EXCEPT ![t] = [job[t] EXCEPT !.snap = f]] /\ pc'[t] = "loaded"
    BY <2>1, <2>2
  <2>4. /\ job'[t].prof = job[t].prof /\ job'[t].stale = job[t].stale /\ job'[t].op = job[t].op
        /\ job'[t].base = job[t].base /\ job'[t].used = job[t].used
        /\ job'[t].prev = job[t].prev /\ job'[t].got = job[t].got
    BY <2>3
  <2>5. pc[t] = "answered" => job[t].op \in Refreshing
    OBVIOUS
  <2>6. Holds(t)' <=> Holds(t)
    BY <2>2, <2>3, <2>4, <2>5 DEF Refreshing, Writing
  <2> QED
    BY <2>4, <2>6
<1>7. CASE RevokeTokens(t)
  <2>1. PICK refs : job' = [job EXCEPT ![t].doomed = refs]
    BY <1>7 DEF RevokeTokens
  <2>2. pc' = [pc EXCEPT ![t] = "lock"] /\ pc[t] = "revoking"
    BY <1>7 DEF RevokeTokens
  <2>3. job[t].op \in {"logout", "deleteAll"}
    BY <2>2
  <2> QED
    BY <2>1, <2>2, <2>3 DEF Refreshing
<1>8. CASE SaveLogin(t) /\ ~Finish(t)
  <2>1. /\ pc' = [pc EXCEPT ![t] = "lock"]
        /\ job' = [job EXCEPT ![t] = [NoJob EXCEPT !.op = "use", !.prof = job[t].prof]]
    BY <1>8 DEF SaveLogin
  <2>2. job'[t] = [NoJob EXCEPT !.op = "use", !.prof = job[t].prof] /\ pc'[t] = "lock"
    BY <2>1
  <2>3. /\ job'[t].op = "use" /\ job'[t].stale = 0 /\ job'[t].base = NoCreds
        /\ job'[t].used = NoCreds /\ job'[t].prev = NoCreds /\ job'[t].got = NoCreds
    BY <2>2 DEF NoJob
  <2>4. ~Holds(t)'
    BY <2>2, <2>3 DEF Refreshing
  <2> QED
    BY <2>3, <2>4 DEF Starts
<1>9. CASE RecordRevocation(t) /\ ~Finish(t)
  <2>1. /\ job' = job /\ pc' = [pc EXCEPT ![t] = "marked"] /\ pc[t] = "loaded"
        /\ job[t].op \in {"logout", "delete", "deleteAll"}
    BY <1>9 DEF RecordRevocation, AtSave
  <2> QED
    BY <2>1 DEF Refreshing
<1> QED
  BY <1>1, <1>2, <1>3, <1>4, <1>5, <1>6, <1>7, <1>8, <1>9 DEF TaskStep,
     RefuseRefresh, AdoptRotated, AnswerLost, RefreshFails, SaveRefresh, RefreshNotSaved,
     AuthorizationFails, LoadRefused, LockTimesOut, SaveDefault, SaveConsent, SaveRemoval,
     SaveFails

(* A cache is loaded from the file, unless the file is behind it. *)
Loads(p, n) ==
    /\ damaged = "no" /\ HasProfile(file, n)
    /\ mem' = [mem EXCEPT ![p][n] = SharedState(@, file.profiles[n])]

(* What a load leaves in the cache it is for, and in the others.           *)
LEMMA LoadsCache ==
  ASSUME TypeInv, NEW p \in Processes, NEW n \in Profiles, Loads(p, n)
  PROVE  /\ mem'[p][n] = SharedState(mem[p][n], file.profiles[n])
         /\ \A q \in Processes, m \in Profiles :
               q # p \/ m # n => mem'[q][m] = mem[q][m]
BY DEF Loads, TypeInv, TypeOK

(* What a call leaves in the cache of its profile, and in the others.      *)
LEMMA SetsCache ==
  ASSUME TypeInv, NEW t \in Tasks, NEW c, SetCache(t, c)
  PROVE  \A q \in Processes, m \in Profiles :
            mem'[q][m] = IF q = P(t) /\ m = job[t].prof THEN c ELSE mem[q][m]
<1>1. P(t) \in Processes /\ job[t].prof \in Profiles
  BY CredentialsAssumption DEF TypeInv, TypeOK, Job, P
<1>2. mem \in [Processes -> [Profiles -> Cached]]
  BY DEF TypeInv, TypeOK
<1> QED
  BY <1>1, <1>2 DEF SetCache

(* A call begins with nothing but the token that was rejected. *)
LEMMA CallsStart ==
  ASSUME FileInv, NEW t \in Tasks, Call(t)
  PROVE  /\ Starts(t) /\ (\A u \in Tasks \ {t} : pc'[u] = pc[u] /\ job'[u] = job[u])
         /\ pc'[t] \in {"queued", "authorizing", "lock", "revoking"}
         /\ pc'[t] = "lock" => job'[t].op \in {"use", "delete"}
         /\ UNCHANGED mem \/ \E n \in Profiles : Loads(P(t), n)
<1>0. TypeInv /\ P(t) \in Processes /\ pc \in [Tasks -> PC] /\ job \in [Tasks -> Job]
  BY CredentialsAssumption DEF FileInv, TypeInv, TypeOK, P
<1>1. /\ \A u \in Tasks \ {t} : pc'[u] = pc[u] /\ job'[u] = job[u]
      /\ \/ pc'[t] = "queued" /\ job'[t].op \in Refreshing
         \/ pc'[t] = "authorizing" /\ job'[t].op = "login"
         \/ pc'[t] = "lock" /\ job'[t].op \in {"use", "delete"}
         \/ pc'[t] = "revoking" /\ job'[t].op \in {"logout", "deleteAll"}
  BY <1>0, CallStarts
<1>2. ~Holds(t)'
  BY <1>1 DEF Holds, Pending, Refreshing
<1>3. ASSUME NEW fields, Begin(t, fields) PROVE job'[t] = fields
  BY <1>0, <1>3 DEF Begin
<1> DEFINE Empty == /\ job'[t].base = NoCreds /\ job'[t].used = NoCreds
                    /\ job'[t].prev = NoCreds /\ job'[t].got = NoCreds
           Stale == job'[t].stale \in {0, mem'[P(t)][job'[t].prof].creds.acc}
           Cached2 == UNCHANGED mem \/ \E n \in Profiles : Loads(P(t), n)
<1>4. ASSUME NEW n \in Profiles, GetAuthHeader(t, n) PROVE Empty /\ Stale /\ Cached2
  <2>1. job'[t] = [NoJob EXCEPT !.op = "auth", !.prof = n] /\ UNCHANGED mem
    BY <1>3, <1>4 DEF GetAuthHeader
  <2> QED
    BY <2>1 DEF NoJob
<1>5. ASSUME NEW n \in Profiles, ForceRefresh(t, n) PROVE Empty /\ Stale /\ Cached2
  <2>1. /\ job'[t] = [NoJob EXCEPT !.op = "force", !.prof = n, !.stale = mem[P(t)][n].creds.acc]
        /\ UNCHANGED mem
    BY <1>3, <1>5 DEF ForceRefresh
  <2> QED
    BY <2>1 DEF NoJob
<1>6. ASSUME NEW n \in Profiles, NEW op, RefreshProfile(t, n, op) PROVE Empty /\ Stale /\ Cached2
  <2> DEFINE state == SharedState(mem[P(t)][n], file.profiles[n])
             stale == IF op = "token" THEN 0 ELSE state.creds.acc
  <2>1. /\ job'[t] = [NoJob EXCEPT !.op = op, !.prof = n, !.stale = stale]
        /\ Loads(P(t), n)
    BY <1>3, <1>6 DEF RefreshProfile, Loads
  <2>2. mem'[P(t)][n] = state
    BY <1>0, <2>1, LoadsCache
  <2>3. stale \in {0, mem'[P(t)][n].creds.acc}
    BY <2>2
  <2> HIDE DEF state, stale
  <2>4. Empty /\ job'[t].prof = n /\ job'[t].stale = stale
    BY <2>1 DEF NoJob
  <2> QED
    BY <2>1, <2>3, <2>4
<1>7. ASSUME NEW n \in Profiles, NEW d, Login(t, n, d) PROVE Empty /\ Stale /\ Cached2
  <2>1. /\ job'[t] = [NoJob EXCEPT !.op = "login", !.prof = n, !.setDefault = d]
        /\ UNCHANGED mem
    BY <1>3, <1>7 DEF Login, procVars
  <2> QED
    BY <2>1 DEF NoJob
<1>8. ASSUME NEW n \in Profiles, UseProfile(t, n) \/ DeleteProfile(t, n)
      PROVE  Empty /\ Stale /\ Cached2
  <2>1. PICK op : job'[t] = [NoJob EXCEPT !.op = op, !.prof = n] /\ UNCHANGED mem
    BY <1>3, <1>8 DEF UseProfile, DeleteProfile, procVars
  <2> QED
    BY <2>1 DEF NoJob
<1>9. ASSUME NEW n \in Profiles, Logout(t, n) PROVE Empty /\ Stale /\ Cached2
  <2>1. /\ job'[t] = [NoJob EXCEPT !.op = "logout", !.prof = n, !.doomed = {file.profiles[n].ref}]
        /\ UNCHANGED mem
    BY <1>3, <1>9 DEF Logout, procVars
  <2> QED
    BY <2>1 DEF NoJob
<1>10. ASSUME LogoutAll(t) PROVE Empty /\ Stale /\ Cached2
  <2>1. PICK refs : job'[t] = [NoJob EXCEPT !.op = "deleteAll", !.doomed = refs] /\ UNCHANGED mem
    BY <1>3, <1>10 DEF LogoutAll, procVars
  <2> QED
    BY <2>1 DEF NoJob
<1> HIDE DEF Empty, Stale, Cached2
<1>11. Empty /\ Stale /\ Cached2
  BY <1>4, <1>5, <1>6, <1>7, <1>8, <1>9, <1>10 DEF Call
<1> QED
  BY <1>1, <1>2, <1>11 DEF Starts, Empty, Stale, Cached2

(* A step that ends a call with a grant: the grant is on file, or kept in  *)
(* memory only.                                                            *)
Saves(t) ==
    /\ AtSave(t, Refreshing \cup {"login", "consent"})
    /\ file' = SetProfile(file, job[t].prof, job[t].got)
    /\ Starts(t)
    /\ \/ SetCache(t, [creds |-> job[t].got, used |-> NoCreds])
       \/ job[t].op = "login" /\ UNCHANGED mem

KeepsInMemory(t) ==
    /\ \/ pc[t] \in {"answered", "loaded"} /\ job[t].op \in Refreshing /\ KeepUnsaved(t)
       \/ pc[t] \in {"lock", "loaded"} /\ job[t].op = "consent" /\ KeepConsent(t)
    /\ UNCHANGED file /\ Starts(t)

(* Every save of a grant writes it into the file as it is now.             *)
LEMMA SavesGrant ==
  ASSUME FileInv, NEW t \in Tasks, SaveRefresh(t) \/ SaveLogin(t) \/ SaveConsent(t)
  PROVE  Saves(t)
<1>1. TaskStep(t)
  BY DEF TaskStep
<1>2. AtSave(t, Refreshing \cup {"login", "consent"}) /\ TypeInv
  BY DEF SaveRefresh, SaveLogin, SaveConsent, AtSave, FileInv
<1>3. job[t].snap = file
  BY <1>2 DEF FileInv, UnderLock, SnapIsFile, AtSave, Refreshing
<1>4. file' = SetProfile(file, job[t].prof, job[t].got)
  BY <1>3 DEF SaveRefresh, SaveLogin, SaveConsent, WriteFile
<1>5. Starts(t)
  <2>1. CASE Finish(t)
    BY <1>2, <2>1, Ends
  <2>2. CASE SaveLogin(t) /\ ~Finish(t)
    <3>1. /\ pc' = [pc EXCEPT ![t] = "lock"]
          /\ job' = [job EXCEPT ![t] = [NoJob EXCEPT !.op = "use", !.prof = job[t].prof]]
      BY <2>2 DEF SaveLogin, Goto
    <3>2. job'[t] = [NoJob EXCEPT !.op = "use", !.prof = job[t].prof] /\ pc'[t] = "lock"
      BY <1>2, <3>1 DEF TypeInv, TypeOK
    <3>3. /\ job'[t].op = "use" /\ job'[t].stale = 0 /\ job'[t].base = NoCreds
          /\ job'[t].used = NoCreds /\ job'[t].prev = NoCreds /\ job'[t].got = NoCreds
      BY <3>2 DEF NoJob
    <3>4. ~Holds(t)'
      BY <3>2, <3>3 DEF Holds, Pending, Refreshing
    <3> QED
      BY <3>3, <3>4 DEF Starts
  <2> QED
    BY <2>1, <2>2 DEF SaveRefresh, SaveConsent
<1>6. \/ SetCache(t, [creds |-> job[t].got, used |-> NoCreds])
      \/ job[t].op = "login" /\ UNCHANGED mem
  BY DEF SaveRefresh, SaveLogin, SaveConsent, AtSave, procVars
<1> QED
  BY <1>2, <1>4, <1>5, <1>6 DEF Saves

(* What becomes of the caches and of the profiles in a step of a task. *)
LEMMA MemoryMoves ==
  ASSUME FileInv, NEW t \in Tasks, TaskStep(t)
  PROVE  \/ Saves(t)
         \/ KeepsInMemory(t)
         \/ /\ AdoptRotated(t) \/ UNCHANGED mem
            /\ \A n \in Profiles : file'.profiles[n] \in {file.profiles[n], NoCreds}
<1>1. TypeInv
  BY DEF FileInv
<1>2. CASE SaveRefresh(t) \/ SaveLogin(t) \/ SaveConsent(t)
  BY <1>2, SavesGrant
<1>3. CASE RefreshNotSaved(t)
  <2>1. /\ pc[t] \in {"answered", "loaded"} /\ job[t].op \in Refreshing /\ KeepUnsaved(t)
        /\ UNCHANGED file /\ Finish(t)
    BY <1>1, <1>3 DEF RefreshNotSaved, fileVars, TypeInv, OpsAt
  <2> QED
    BY <1>1, <2>1, Ends DEF KeepsInMemory
<1>4. CASE LoadRefused(t) \/ LockTimesOut(t) \/ SaveFails(t)
  <2>1. UNCHANGED file /\ Finish(t)
    BY <1>4 DEF LoadRefused, LockTimesOut, SaveFails, fileVars
  <2>2. \/ UNCHANGED mem
        \/ pc[t] \in {"lock", "loaded"} /\ job[t].op = "consent" /\ KeepConsent(t)
    BY <1>1, <1>4 DEF LoadRefused, LockTimesOut, SaveFails, AtLock, AtSave, TypeInv, OpsAt
  <2> QED
    BY <1>1, <2>1, <2>2, Ends DEF KeepsInMemory
<1>5. CASE SaveDefault(t)
  <2>1. job[t].snap = file /\ file \in File /\ UNCHANGED mem
    BY <1>5 DEF FileInv, UnderLock, SnapIsFile, SaveDefault, AtSave, procVars, TypeInv, TypeOK
  <2>2. file' = [file EXCEPT !.default = job[t].prof]
    BY <1>5, <2>1 DEF SaveDefault, WriteFile
  <2>3. file'.profiles = file.profiles
    BY <2>1, <2>2 DEF File
  <2> QED
    BY <2>1, <2>3
<1>6. CASE SaveRemoval(t)
  <2>1. UNCHANGED mem /\ file \in File
    BY <1>6 DEF SaveRemoval, procVars, FileInv, TypeInv, TypeOK
  <2>2. CASE job[t].op = "deleteAll"
    BY <1>6, <2>1, <2>2 DEF SaveRemoval, WriteFile, EmptyFile
  <2>3. CASE job[t].op # "deleteAll"
    <3>1. file' \in RemoveProfile(file, job[t].prof)
      BY <1>6, <2>3 DEF SaveRemoval, WriteFile, FileInv, UnderLock, SnapIsFile
    <3>2. file'.profiles = [file.profiles EXCEPT ![job[t].prof] = NoCreds]
      BY <3>1 DEF RemoveProfile
    <3> QED
      BY <2>1, <3>2 DEF File
  <2> QED
    BY <2>2, <2>3
<1>7. CASE AdoptRotated(t)
  BY <1>7 DEF AdoptRotated, fileVars
<1>8. CASE \/ EnterMutex(t) \/ RefuseRefresh(t) \/ SendRefresh(t) \/ ServerRotates(t)
           \/ AnswerLost(t) \/ RefreshFails(t) \/ ScopeRefused(t) \/ Reload(t)
           \/ Authorized(t) \/ AuthorizationFails(t) \/ RevokeTokens(t) \/ Load(t)
           \/ RecordRevocation(t)
  BY <1>8 DEF EnterMutex, RefuseRefresh, SendRefresh, ServerRotates, AnswerLost, RefreshFails,
     ScopeRefused, Reload, Authorized, AuthorizationFails, RevokeTokens, Load, RecordRevocation,
     fileVars, procVars
<1> QED
  BY <1>2, <1>3, <1>4, <1>5, <1>6, <1>7, <1>8 DEF TaskStep

-----------------------------------------------------------------------------
(* Where pairs and grants come from: an access token is issued to one      *)
(* profile, and a call that has an answer and has not stored it is the only *)
(* one to know it.                                                         *)

(* The pairs of a profile that are in use somewhere: on file, in a cache,  *)
(* or read from there by a call under way.                                 *)
Public(n, c) ==
    \/ c = file.profiles[n]
    \/ \E p \in Processes : c \in {mem[p][n].creds, mem[p][n].used}
    \/ \E t \in Tasks : job[t].prof = n /\ c \in {job[t].base, job[t].used, job[t].prev}

(* The grants of a profile. *)
Seen(n, g) ==
    \/ \E c \in Creds : Public(n, c) /\ g \in {c.acc, c.ref}
    \/ \E t \in Tasks : job[t].prof = n /\ g \in {job[t].stale, job[t].got.acc, job[t].got.ref}

Owned == \A m, n \in Profiles, g \in Token : g # 0 /\ Seen(m, g) /\ Seen(n, g) => m = n

Issued == /\ \A n \in Profiles, g \in Token : Seen(n, g) => g <= granted
          /\ \A a \in Token : answer[a] # 0 => a <= granted

(* The grant a call has and has not stored is nowhere else yet. *)
Private(t) ==
    /\ ~Holds(t) => job[t].got = NoCreds
    /\ Holds(t) =>
         LET g == job[t].got.acc
         IN  /\ g # 0 /\ answer[g] = 0
             /\ \A n \in Profiles, c \in Creds : Public(n, c) => c.acc # g /\ c.ref # g
             /\ \A u \in Tasks : job[u].stale # g
             /\ \A u \in Tasks \ {t} : job[u].got.acc # g /\ job[u].got.ref # g

GrantInv == FileInv /\ Owned /\ Issued /\ \A t \in Tasks : Private(t)

(* The types of the pairs of a state.                                      *)
LEMMA PairTypes ==
  ASSUME TypeInv
  PROVE  /\ \A n \in Profiles : file.profiles[n] \in Creds
         /\ \A p \in Processes, n \in Profiles :
               mem[p][n] \in Cached /\ mem[p][n].creds \in Creds /\ mem[p][n].used \in Creds
         /\ \A t \in Tasks :
               /\ job[t].base \in Creds /\ job[t].used \in Creds /\ job[t].prev \in Creds
               /\ job[t].got \in Creds /\ job[t].stale \in Token /\ job[t].prof \in Profiles
               /\ P(t) \in Processes
         /\ \A c \in Creds : c.acc \in Token /\ c.ref \in Token
         /\ granted \in Token /\ Token \subseteq Nat /\ live \subseteq Token
<1>1. \A n \in Profiles : file.profiles[n] \in Creds
  BY DEF TypeInv, TypeOK, File
<1>2. \A p \in Processes, n \in Profiles :
         mem[p][n] \in Cached /\ mem[p][n].creds \in Creds /\ mem[p][n].used \in Creds
  BY DEF TypeInv, TypeOK, Cached
<1>3. \A t \in Tasks :
         /\ job[t].base \in Creds /\ job[t].used \in Creds /\ job[t].prev \in Creds
         /\ job[t].got \in Creds /\ job[t].stale \in Token /\ job[t].prof \in Profiles
  BY DEF TypeInv, TypeOK, Job
<1>4. \A t \in Tasks : P(t) \in Processes
  BY CredentialsAssumption DEF P
<1>5. \A c \in Creds : c.acc \in Token /\ c.ref \in Token
  BY DEF Creds
<1>6. granted \in Token /\ Token \subseteq Nat /\ live \subseteq Token
  BY Bounds DEF TypeInv, TypeOK, ServerTypeOK, Token
<1> QED
  BY <1>1, <1>2, <1>3, <1>4, <1>5, <1>6

(* A grant leaves the call that has it when that call ends. *)
Spends(t) == Holds(t) /\ Starts(t)

(* What the environment does to the file, the caches and the jobs.         *)
LEMMA OtherwiseMoves ==
  ASSUME FileInv, Environment \/ UNCHANGED vars
  PROVE  /\ \/ \E p \in Processes, n \in Profiles : Loads(p, n) /\ UNCHANGED <<file, pc, job>>
            \/ \E p \in Processes : Crash(p)
            \/ Retire
            \/ MoveAside
            \/ UNCHANGED <<file, mem, pc, job>>
         /\ granted' = granted /\ UNCHANGED answer
BY DEF Environment, GetSharedState, Loads, Crash, Retire, Damage, Repair, MoveAside, ClockTicks,
   Age, Rest, vars, fileVars, procVars, history, serverVars

(* Every step moves every job one of the ways above.                       *)
LEMMA AllJobsMove ==
  ASSUME FileInv, [Next]_vars
  PROVE  \A u \in Tasks : JobMoves(u)
<1>1. ASSUME NEW t \in Tasks, TaskStep(t), NEW u \in Tasks PROVE JobMoves(u)
  <2>1. CASE u = t
    BY <1>1, <2>1, JobsMove
  <2>2. CASE u # t
    BY <1>1, <2>2, OthersStay, OthersCarry DEF FileInv, JobMoves
  <2> QED
    BY <2>1, <2>2
<1>2. ASSUME NEW t \in Tasks, Call(t), NEW u \in Tasks PROVE JobMoves(u)
  <2>1. CASE u = t
    BY <1>2, <2>1, CallsStart DEF JobMoves
  <2>2. CASE u # t
    BY <1>2, <2>2, CallsStart, OthersCarry DEF FileInv, JobMoves
  <2> QED
    BY <2>1, <2>2
<1>3. ASSUME Environment \/ UNCHANGED vars, NEW u \in Tasks PROVE JobMoves(u)
  <2>1. ASSUME NEW p \in Processes, Crash(p) PROVE JobMoves(u)
    <3>1. /\ pc'[u] = (IF P(u) = p THEN "idle" ELSE pc[u])
          /\ job'[u] = (IF P(u) = p THEN NoJob ELSE job[u])
      BY <2>1 DEF Crash
    <3>2. CASE P(u) = p
      <4>1. pc'[u] = "idle" /\ job'[u] = NoJob
        BY <3>1, <3>2
      <4>2. Starts(u)
        BY <4>1 DEF Starts, Holds, Pending, NoJob
      <4> QED
        BY <4>2 DEF JobMoves
    <3>3. CASE P(u) # p
      BY <3>1, <3>3, OthersCarry DEF FileInv, JobMoves
    <3> QED
      BY <3>2, <3>3
  <2>2. CASE UNCHANGED <<pc, job>>
    BY <2>2, OthersCarry DEF FileInv, JobMoves
  <2> QED
    BY <1>3, <2>1, <2>2, OtherwiseMoves DEF Retire, MoveAside, procVars
<1> QED
  BY <1>1, <1>2, <1>3 DEF Next

(* A load brings a pair from the file, or none.                            *)
LEMMA LoadedPairs ==
  ASSUME TypeInv, NEW p \in Processes, NEW n \in Profiles, Loads(p, n),
         NEW q \in Processes, NEW m \in Profiles
  PROVE  \/ mem'[q][m] = mem[q][m]
         \/ mem'[q][m].creds = file.profiles[m] /\ mem'[q][m].used = NoCreds
<1>1. CASE q = p /\ m = n
  <2>1. SharedState(mem[p][n], file.profiles[n])
          \in {mem[p][n], [creds |-> file.profiles[n], used |-> NoCreds]}
    BY DEF SharedState
  <2>2. mem'[p][n] = SharedState(mem[p][n], file.profiles[n])
    BY LoadsCache
  <2>3. mem'[q][m] \in {mem[q][m], [creds |-> file.profiles[m], used |-> NoCreds]}
    BY <1>1, <2>1, <2>2
  <2> QED
    BY <2>3
<1>2. CASE q # p \/ m # n
  BY <1>2, LoadsCache
<1> QED
  BY <1>1, <1>2

(* What may be in a cache after a step. *)
LEMMA CachesMove ==
  ASSUME FileInv, [Next]_vars, NEW p \in Processes, NEW n \in Profiles,
         NEW c \in {mem'[p][n].creds, mem'[p][n].used}
  PROVE  \/ c = NoCreds \/ Public(n, c)
         \/ \E t \in Tasks : Spends(t) /\ job[t].prof = n /\ c = job[t].got
<1>0. TypeInv
  BY DEF FileInv
<1>1. ASSUME mem'[p][n] = mem[p][n] PROVE Public(n, c)
  BY <1>1 DEF Public
<1>2. ASSUME NEW q \in Processes, NEW m \in Profiles, Loads(q, m)
      PROVE  c = NoCreds \/ Public(n, c)
  BY <1>0, <1>1, <1>2, LoadedPairs DEF Public
<1>3. ASSUME NEW t \in Tasks, TaskStep(t)
      PROVE  \/ c = NoCreds \/ Public(n, c)
             \/ Spends(t) /\ job[t].prof = n /\ c = job[t].got
  <2>1. ASSUME NEW x, SetCache(t, x)
        PROVE  \/ Public(n, c)
               \/ n = job[t].prof /\ p = P(t) /\ c \in {x.creds, x.used}
    BY <1>0, <1>1, <2>1, SetsCache
  <2>2. CASE Saves(t)
    <3>1. Holds(t) /\ Starts(t)
      BY <2>2 DEF Saves, AtSave, Holds, Pending
    <3>2. CASE SetCache(t, [creds |-> job[t].got, used |-> NoCreds])
      BY <2>1, <3>1, <3>2 DEF Spends
    <3> QED
      BY <1>1, <2>2, <3>2 DEF Saves
  <2>3. CASE KeepsInMemory(t)
    <3>1. Holds(t) /\ Starts(t)
      BY <2>3 DEF KeepsInMemory, Holds, Pending
    <3>2. CASE KeepUnsaved(t)
      BY <2>1, <3>1, <3>2 DEF Spends, KeepUnsaved, Public
    <3>3. CASE KeepConsent(t)
      BY <2>1, <3>1, <3>3 DEF Spends, KeepConsent, Public, Cache
    <3> QED
      BY <2>3, <3>2, <3>3 DEF KeepsInMemory
  <2>4. CASE AdoptRotated(t)
    BY <2>1, <2>4, BaseIsRead DEF AdoptRotated, Public, OnFile
  <2>5. CASE UNCHANGED mem
    BY <1>1, <2>5
  <2> QED
    BY <1>3, <2>2, <2>3, <2>4, <2>5, MemoryMoves
<1>4. ASSUME NEW t \in Tasks, Call(t) PROVE c = NoCreds \/ Public(n, c)
  BY <1>1, <1>2, <1>4, CallsStart, PairTypes, <1>0
<1>5. ASSUME Environment \/ UNCHANGED vars PROVE c = NoCreds \/ Public(n, c)
  <2>1. ASSUME NEW q \in Processes, Crash(q) PROVE c = NoCreds \/ Public(n, c)
    <3>1. mem'[p][n] \in {mem[p][n], NotCached}
      BY <1>0, <2>1 DEF Crash, TypeInv, TypeOK
    <3> QED
      BY <1>1, <3>1 DEF NotCached
  <2>2. CASE Retire
    BY <2>2 DEF Retire, NotCached
  <2>3. CASE UNCHANGED mem
    BY <1>1, <2>3
  <2> QED
    BY <1>2, <1>5, <2>1, <2>2, <2>3, OtherwiseMoves DEF MoveAside, procVars
<1> QED
  BY <1>3, <1>4, <1>5 DEF Next

(* A profile changes when it is removed, or when a grant is saved.         *)
LEMMA ProfilesMove ==
  ASSUME FileInv, [Next]_vars, NEW n \in Profiles
  PROVE  \/ file'.profiles[n] \in {file.profiles[n], NoCreds}
         \/ \E t \in Tasks : /\ Spends(t) /\ AtSave(t, Refreshing \cup {"login", "consent"})
                             /\ job[t].prof = n /\ file'.profiles[n] = job[t].got
<1>1. ASSUME NEW t \in Tasks, TaskStep(t)
      PROVE  \/ file'.profiles[n] \in {file.profiles[n], NoCreds}
             \/ /\ Spends(t) /\ AtSave(t, Refreshing \cup {"login", "consent"})
                /\ job[t].prof = n /\ file'.profiles[n] = job[t].got
  <2>1. CASE Saves(t)
    <3>1. Spends(t) /\ AtSave(t, Refreshing \cup {"login", "consent"})
      BY <2>1 DEF Saves, AtSave, Holds, Pending, Spends
    <3>2. file' = SetProfile(file, job[t].prof, job[t].got) /\ file \in File
      BY <2>1 DEF Saves, FileInv, TypeInv, TypeOK
    <3> QED
      BY <3>1, <3>2 DEF SetProfile, File
  <2>2. CASE KeepsInMemory(t)
    BY <2>2 DEF KeepsInMemory
  <2> QED
    BY <1>1, <2>1, <2>2, MemoryMoves
<1>2. ASSUME NEW t \in Tasks, Call(t) PROVE file' = file
  BY <1>2, CallStarts DEF fileVars, FileInv
<1>3. ASSUME Environment \/ UNCHANGED vars
      PROVE  file'.profiles[n] \in {file.profiles[n], NoCreds}
  <2>1. CASE MoveAside
    BY <2>1 DEF MoveAside, WriteFile, EmptyFile
  <2>2. CASE UNCHANGED file
    BY <2>2
  <2> QED
    BY <1>3, <2>1, <2>2, OtherwiseMoves DEF Crash, Retire, fileVars
<1> QED
  BY <1>1, <1>2, <1>3 DEF Next

(* A pair that is in use after a step was so before it, or is the grant of *)
(* a call that ends with it.                                               *)
LEMMA PairsFlow ==
  ASSUME FileInv, [Next]_vars, NEW n \in Profiles, NEW c, Public(n, c)'
  PROVE  \/ c = NoCreds \/ Public(n, c)
         \/ \E t \in Tasks : Spends(t) /\ job[t].prof = n /\ c = job[t].got
<1>1. CASE c = file'.profiles[n]
  BY <1>1, ProfilesMove DEF Public
<1>2. ASSUME NEW p \in Processes, c \in {mem'[p][n].creds, mem'[p][n].used}
      PROVE  \/ c = NoCreds \/ Public(n, c)
             \/ \E t \in Tasks : Spends(t) /\ job[t].prof = n /\ c = job[t].got
  BY <1>2, CachesMove
<1>3. ASSUME NEW u \in Tasks, job'[u].prof = n,
             c \in {job'[u].base, job'[u].used, job'[u].prev}
      PROVE  c = NoCreds \/ Public(n, c)
  <2>1. JobMoves(u) /\ P(u) \in Processes
    BY AllJobsMove, PairTypes DEF FileInv
  <2>2. CASE Starts(u)
    BY <1>3, <2>2 DEF Starts
  <2>3. CASE Carries(u)
    BY <1>3, <2>1, <2>3 DEF Carries, Public, Cache, OnFile
  <2> QED
    BY <2>1, <2>2, <2>3 DEF JobMoves
<1> QED
  BY <1>1, <1>2, <1>3 DEF Public

(* Grants are numbered one after the other, and the server notes only the  *)
(* rejected tokens of calls under way.                                     *)
LEMMA GrantedGrows ==
  ASSUME FileInv, [Next]_vars
  PROVE  /\ granted' \in {granted, granted + 1}
         /\ \A a \in Token : answer'[a] = answer[a] \/ \E t \in Tasks : job[t].stale = a
<1> USE DEF serverVars, history
<1>1. ASSUME NEW t \in Tasks, ServerRotates(t)
      PROVE  /\ granted' = granted + 1
             /\ \A a \in Token : answer'[a] = answer[a] \/ job[t].stale = a
  <2>1. answer \in [Token -> Token]
    BY DEF FileInv, TypeInv, TypeOK
  <2> QED
    BY <1>1, <2>1 DEF ServerRotates, Rotate
<1>2. ASSUME NEW t \in Tasks, TaskStep(t), ~ServerRotates(t)
      PROVE  granted' \in {granted, granted + 1} /\ UNCHANGED answer
  BY <1>2 DEF TaskStep, EnterMutex, RefuseRefresh, AdoptRotated, SendRefresh, AnswerLost,
     RefreshFails, ScopeRefused, Reload, SaveRefresh, RefreshNotSaved, Authorized,
     AuthorizationFails, RevokeTokens, Load, LoadRefused, LockTimesOut, SaveLogin, SaveDefault,
     SaveConsent, RecordRevocation, SaveRemoval, SaveFails, Rotate, Grant, Revoke
<1>3. ASSUME NEW t \in Tasks, Call(t) PROVE granted' = granted /\ UNCHANGED answer
  BY <1>3, CallStarts DEF FileInv
<1>4. ASSUME Environment \/ UNCHANGED vars PROVE granted' = granted /\ UNCHANGED answer
  BY <1>4, OtherwiseMoves
<1> QED
  BY <1>1, <1>2, <1>3, <1>4 DEF Next

(* The grants of a profile after a step: those before it, and the one the  *)
(* server has just issued to a call on this profile.                       *)
LEMMA GrantsFlow ==
  ASSUME FileInv, [Next]_vars, NEW n \in Profiles, NEW g \in Token, g # 0, Seen(n, g)'
  PROVE  \/ Seen(n, g)
         \/ /\ g = granted + 1 /\ granted' = granted + 1
            /\ \E t \in Tasks : Granted(t) /\ job[t].prof = n
<1>0. TypeInv /\ TypeInv'
  BY TypeStep DEF FileInv
<1>1. ASSUME NEW c \in Creds, Public(n, c)', g \in {c.acc, c.ref} PROVE Seen(n, g)
  <2>1. c # NoCreds
    BY <1>1 DEF NoCreds
  <2> QED
    BY <1>1, <2>1, PairsFlow DEF Seen, Spends
<1>2. ASSUME NEW t \in Tasks, job'[t].prof = n, g = job'[t].stale PROVE Seen(n, g)
  <2>1. JobMoves(t) /\ P(t) \in Processes
    BY <1>0, AllJobsMove, PairTypes
  <2>2. CASE Starts(t)
    <3>1. g = mem'[P(t)][n].creds.acc
      BY <1>2, <2>2 DEF Starts
    <3>2. mem'[P(t)][n].creds \in Creds
      BY <1>0, <2>1 DEF TypeInv, TypeOK, Cached
    <3>3. ASSUME NEW c \in Creds, c = mem'[P(t)][n].creds PROVE Seen(n, g)
      <4>1. Public(n, c)'
        BY <2>1, <3>3 DEF Public
      <4> QED
        BY <1>1, <3>1, <3>3, <4>1
    <3> QED
      BY <3>2, <3>3
  <2>3. CASE Carries(t)
    BY <1>2, <2>3 DEF Carries, Seen
  <2> QED
    BY <2>1, <2>2, <2>3 DEF JobMoves
<1>3. ASSUME NEW t \in Tasks, job'[t].prof = n, g \in {job'[t].got.acc, job'[t].got.ref}
      PROVE  \/ Seen(n, g)
             \/ /\ g = granted + 1 /\ granted' = granted + 1
                /\ Granted(t) /\ job[t].prof = n
  <2>1. JobMoves(t)
    BY AllJobsMove
  <2>2. CASE Starts(t)
    BY <1>3, <2>2 DEF Starts, NoCreds
  <2>3. CASE Carries(t) /\ Keeps(t)
    BY <1>3, <2>3 DEF Carries, Keeps, Seen
  <2>4. CASE Carries(t) /\ Granted(t)
    <3>1. job[t].prof = n /\ granted' = granted + 1
      BY <1>3, <2>4 DEF Carries, Granted
    <3>2. g = granted + 1 \/ g = job[t].base.ref
      BY <1>3, <2>4 DEF Granted
    <3>3. CASE g = job[t].base.ref
      <4>1. job[t].base \in Creds /\ Public(n, job[t].base)
        BY <1>0, <3>1, PairTypes DEF Public
      <4> QED
        BY <3>3, <4>1 DEF Seen
    <3> QED
      BY <2>4, <3>1, <3>2, <3>3
  <2> QED
    BY <2>1, <2>2, <2>3, <2>4 DEF JobMoves
<1> QED
  BY <1>1, <1>2, <1>3 DEF Seen

(* Every token in use has been issued.                                     *)
LEMMA IssuedStep ==
  ASSUME FileInv, Issued, [Next]_vars
  PROVE  Issued'
<1>0. TypeInv /\ TypeInv'
  BY TypeStep DEF FileInv
<1>1. granted \in Nat /\ granted' \in {granted, granted + 1} /\ Token \subseteq Nat
  BY <1>0, PairTypes, GrantedGrows
<1>2. ASSUME NEW n \in Profiles, NEW g \in Token, Seen(n, g)' PROVE g <= granted'
  BY <1>1, <1>2, GrantsFlow DEF Issued
<1>3. ASSUME NEW a \in Token, answer'[a] # 0 PROVE a <= granted'
  <2>1. CASE answer'[a] = answer[a]
    BY <1>1, <1>3, <2>1 DEF Issued
  <2>2. ASSUME NEW t \in Tasks, job[t].stale = a PROVE a <= granted'
    <3>1. Seen(job[t].prof, a) /\ job[t].prof \in Profiles
      BY <1>0, <2>2, PairTypes DEF Seen
    <3> QED
      BY <1>1, <3>1 DEF Issued
  <2> QED
    BY <2>1, <2>2, GrantedGrows
<1> QED
  BY <1>2, <1>3 DEF Issued

(* A grant stays the grant of one profile.                                 *)
LEMMA OwnedStep ==
  ASSUME FileInv, Owned, Issued, [Next]_vars
  PROVE  Owned'
<1> SUFFICES ASSUME NEW m \in Profiles, NEW n \in Profiles, NEW g \in Token, g # 0,
                    Seen(m, g)', Seen(n, g)'
             PROVE  m = n
  BY DEF Owned
<1>1. TypeInv /\ granted \in Nat
  BY PairTypes DEF FileInv
<1>2. ~(granted + 1 <= granted)
  BY <1>1
<1>3. CASE Seen(m, g) \/ Seen(n, g)
  <2>1. g # granted + 1
    BY <1>2, <1>3 DEF Issued
  <2> QED
    BY <1>3, <2>1, GrantsFlow DEF Owned
<1>4. CASE ~Seen(m, g) /\ ~Seen(n, g)
  <2>1. PICK t \in Tasks : Granted(t) /\ job[t].prof = m
    BY <1>4, GrantsFlow
  <2>2. PICK u \in Tasks : Granted(u) /\ job[u].prof = n
    BY <1>4, GrantsFlow
  <2>3. CASE t # u
    <3>1. job[u].got.acc = granted + 1
      BY <2>1, <2>2, <2>3 DEF Granted
    <3>2. Seen(n, job[u].got.acc) /\ job[u].got.acc \in Token
      BY <1>1, <2>2, PairTypes DEF Seen
    <3> QED
      BY <1>2, <3>1, <3>2 DEF Issued
  <2> QED
    BY <2>1, <2>2, <2>3
<1> QED
  BY <1>3, <1>4

(* A grant that nobody has stored stays private until its call ends, and a *)
(* new one is greater than all that there are.                             *)
LEMMA PrivateStep ==
  ASSUME GrantInv, [Next]_vars, NEW t \in Tasks
  PROVE  Private(t)'
<1>0. FileInv /\ TypeInv /\ TypeInv' /\ Issued /\ \A u \in Tasks : Private(u)
  BY TypeStep DEF FileInv, GrantInv
<1>1. granted \in Nat /\ ~(granted + 1 <= granted) /\ Token \subseteq Nat
  BY <1>0, PairTypes
<1>2. JobMoves(t) /\ \A u \in Tasks : JobMoves(u)
  BY <1>0, AllJobsMove
<1>3. ~Holds(t)' => job'[t].got = NoCreds
  BY <1>0, <1>2 DEF JobMoves, Starts, Keeps, Granted, Private
<1>4. ASSUME NEW g \in Token, g = job'[t].got.acc, Holds(t)',
             \A n \in Profiles, c \in Creds : Public(n, c)' => c.acc # g /\ c.ref # g,
             answer'[g] = 0, g # 0,
             \A u \in Tasks : Carries(u) => job[u].stale # g,
             \A u \in Tasks \ {t} : job'[u].got.acc # g /\ job'[u].got.ref # g
      PROVE  Private(t)'
  <2>1. ASSUME NEW u \in Tasks PROVE job'[u].stale # g
    <3>1. P(u) \in Processes
      BY <1>0, PairTypes
    <3>2. CASE Starts(u)
      <4> DEFINE n == job'[u].prof
      <4>1. n \in Profiles
        BY <1>0 DEF TypeInv, TypeOK, Job
      <4>2. mem'[P(u)][n].creds \in Creds
        BY <1>0, <3>1, <4>1 DEF TypeInv, TypeOK, Cached
      <4>3. ASSUME NEW m \in Profiles, NEW c \in Creds, c = mem'[P(u)][m].creds PROVE c.acc # g
        <5>1. Public(m, c)'
          BY <3>1, <4>3 DEF Public
        <5> QED
          BY <1>4, <5>1
      <4> HIDE DEF n
      <4>4. mem'[P(u)][n].creds.acc # g
        BY <4>1, <4>2, <4>3
      <4> QED
        BY <1>4, <3>2, <4>4 DEF Starts, n
    <3>3. CASE Carries(u)
      BY <1>4, <3>3 DEF Carries
    <3> QED
      BY <1>2, <3>2, <3>3 DEF JobMoves
  <2> QED
    BY <1>4, <2>1 DEF Private
<1>5. ASSUME Carries(t), Keeps(t), Holds(t)' PROVE Private(t)'
  <2> DEFINE g == job[t].got.acc
  <2>1. /\ Holds(t) /\ g \in Token /\ job'[t].got.acc = g /\ g <= granted
        /\ job[t].prof \in Profiles
    <3>1. g \in Token /\ job[t].prof \in Profiles
      BY <1>0, PairTypes
    <3>2. Seen(job[t].prof, g)
      BY DEF Seen
    <3> QED
      BY <1>0, <1>5, <3>1, <3>2 DEF Keeps, Issued
  <2>2. /\ g # 0 /\ answer[g] = 0
        /\ \A n \in Profiles, c \in Creds : Public(n, c) => c.acc # g /\ c.ref # g
        /\ \A u \in Tasks : job[u].stale # g
        /\ \A u \in Tasks \ {t} : job[u].got.acc # g /\ job[u].got.ref # g
    BY <1>0, <2>1 DEF Private
  <2> HIDE DEF g
  <2>3. ASSUME NEW n \in Profiles, NEW c \in Creds, Public(n, c)' PROVE c.acc # g /\ c.ref # g
    <3>1. CASE c = NoCreds
      BY <2>2, <3>1 DEF NoCreds
    <3>2. ASSUME NEW u \in Tasks, Spends(u), c = job[u].got PROVE c.acc # g /\ c.ref # g
      BY <1>5, <2>2, <3>2 DEF Spends, Starts
    <3> QED
      BY <1>0, <2>2, <2>3, <3>1, <3>2, PairsFlow
  <2>4. answer'[g] = 0
    BY <1>0, <2>1, <2>2, GrantedGrows
  <2>5. ASSUME NEW u \in Tasks \ {t} PROVE job'[u].got.acc # g /\ job'[u].got.ref # g
    <3>1. CASE Starts(u)
      BY <2>2, <3>1 DEF Starts, NoCreds
    <3>2. CASE Keeps(u)
      BY <2>2, <3>2 DEF Keeps
    <3>3. CASE Granted(u)
      <4>1. g # granted + 1
        BY <1>1, <2>1
      <4>2. job[u].base.ref # g
        BY <1>0, <2>2, PairTypes DEF Public
      <4> QED
        BY <3>3, <4>1, <4>2 DEF Granted
    <3> QED
      BY <1>2, <3>1, <3>2, <3>3 DEF JobMoves
  <2> QED
    BY <1>4, <1>5, <2>1, <2>2, <2>3, <2>4, <2>5
<1>6. ASSUME Carries(t), Granted(t) PROVE Private(t)'
  <2> DEFINE g == granted + 1
  <2>1. /\ Holds(t)' /\ g = job'[t].got.acc /\ g \in Token /\ g # 0
    <3>1. job'[t].got \in Creds
      BY <1>0 DEF TypeInv, TypeOK, Job
    <3> QED
      BY <1>1, <1>6, <3>1 DEF Granted, Creds
  <2>2. \A n \in Profiles, a \in Token : Seen(n, a) => a # g
    BY <1>0, <1>1 DEF Issued
  <2>3. answer[g] = 0 /\ \A u \in Tasks : job[u].stale # g
    <3>1. \A u \in Tasks : Seen(job[u].prof, job[u].stale)
      BY DEF Seen
    <3> QED
      BY <1>0, <1>1, <2>1, <2>2, <3>1, PairTypes DEF Issued
  <2>4. answer'[g] = 0
    BY <1>0, <2>1, <2>3, GrantedGrows
  <2> HIDE DEF g
  <2>5. ASSUME NEW n \in Profiles, NEW c \in Creds, Public(n, c)' PROVE c.acc # g /\ c.ref # g
    <3>0. c.acc \in Token /\ c.ref \in Token
      BY <1>0, PairTypes
    <3>1. CASE c = NoCreds
      BY <2>1, <3>1 DEF NoCreds
    <3>2. CASE Public(n, c)
      BY <2>2, <3>0, <3>2 DEF Seen
    <3>3. ASSUME NEW u \in Tasks, job[u].prof = n, c = job[u].got PROVE c.acc # g /\ c.ref # g
      BY <2>2, <3>0, <3>3 DEF Seen
    <3> QED
      BY <1>0, <2>5, <3>1, <3>2, <3>3, PairsFlow
  <2>6. ASSUME NEW u \in Tasks \ {t} PROVE job'[u].got.acc # g /\ job'[u].got.ref # g
    <3>1. job'[u] = job[u]
      BY <1>6 DEF Granted
    <3>2. job[u].got.acc \in Token /\ job[u].got.ref \in Token /\ job[u].prof \in Profiles
      BY <1>0, PairTypes
    <3> QED
      BY <2>2, <3>1, <3>2 DEF Seen
  <2> QED
    BY <1>4, <2>1, <2>3, <2>4, <2>5, <2>6
<1>7. CASE ~Holds(t)'
  BY <1>3, <1>7 DEF Private
<1>8. CASE Holds(t)'
  BY <1>2, <1>5, <1>6, <1>8 DEF JobMoves, Starts
<1> QED
  BY <1>7, <1>8

(* The invariant on grants is inductive.                                   *)
LEMMA GrantStep == GrantInv /\ [Next]_vars => GrantInv'
<1> SUFFICES ASSUME GrantInv, [Next]_vars PROVE GrantInv'
  OBVIOUS
<1>1. FileInv' /\ Issued' /\ Owned'
  BY FileStep, IssuedStep, OwnedStep DEF GrantInv
<1>2. ASSUME NEW t \in Tasks PROVE Private(t)'
  BY <1>2, PrivateStep
<1> QED
  BY <1>1, <1>2 DEF GrantInv

(* The first grants are those on file.                                     *)
LEMMA GrantInit == Init => GrantInv
<1> SUFFICES ASSUME Init PROVE GrantInv
  OBVIOUS
<1>0. FileInv
  BY FileInit
<1>1. /\ \A n \in Profiles : file.profiles[n] = [acc |-> Seed[n], ref |-> Seed[n]]
      /\ \A p \in Processes, n \in Profiles : mem[p][n] = NotCached
      /\ \A t \in Tasks : job[t] = NoJob /\ pc[t] = "idle"
      /\ \A a \in Token : answer[a] = 0
      /\ granted = FirstGrants
  BY DEF Init, ServerInit
<1>2. ASSUME NEW n \in Profiles, NEW c, Public(n, c)
      PROVE  c = NoCreds \/ c = [acc |-> Seed[n], ref |-> Seed[n]]
  <2>1. /\ NoJob.base = NoCreds /\ NoJob.used = NoCreds /\ NoJob.prev = NoCreds
        /\ NotCached.creds = NoCreds /\ NotCached.used = NoCreds
    BY DEF NoJob, NotCached
  <2> QED
    BY <1>1, <1>2, <2>1 DEF Public
<1>3. ASSUME NEW n \in Profiles, NEW g \in Token, Seen(n, g) PROVE g = 0 \/ g = Seed[n]
  <2>1. ASSUME NEW c, Public(n, c), g \in {c.acc, c.ref} PROVE g = 0 \/ g = Seed[n]
    BY <1>2, <2>1 DEF NoCreds
  <2>2. ASSUME NEW t \in Tasks, g \in {job[t].stale, job[t].got.acc, job[t].got.ref}
        PROVE  g = 0
    BY <1>1, <2>2 DEF NoJob, NoCreds
  <2> QED
    BY <1>3, <2>1, <2>2 DEF Seen
<1>4. \A n \in Profiles : Seed[n] <= FirstGrants /\ 0 <= FirstGrants
  BY CredentialsAssumption, Bounds
<1>5. Issued
  BY <1>1, <1>3, <1>4 DEF Issued
<1>6. Owned
  BY <1>3, CredentialsAssumption DEF Owned
<1>7. \A t \in Tasks : Private(t)
  BY <1>1 DEF Private, Holds, Pending, NoJob
<1> QED
  BY <1>0, <1>5, <1>6, <1>7 DEF GrantInv

(* The invariant on grants holds of every reachable state.                 *)
LEMMA GrantAlways == Spec => []GrantInv
BY GrantInit, GrantStep, PTL DEF Spec

-----------------------------------------------------------------------------
(* A consent that is under way, and the profile it began from.             *)

(* A consent whose profile has been touched does not find the pair it      *)
(* began from on file, and has not loaded the file.                        *)
Waiting(t) ==
    job[t].op = "consent" /\ t \notin undisturbed =>
        pc[t] # "loaded" /\ (job[t].prev # NoCreds => OnFile(t) # job[t].prev)

ConsentInv == GrantInv /\ \A t \in Tasks : Waiting(t)

(* The steps of a consent, up to the one that ends it. *)
LEMMA ConsentSteps ==
  ASSUME FileInv, NEW t \in Tasks, TaskStep(t), job'[t].op = "consent"
  PROVE  \/ t \in undisturbed'
         \/ /\ job[t].op = "consent" /\ UNCHANGED <<file, undisturbed>>
            /\ job'[t].prof = job[t].prof /\ job'[t].prev = job[t].prev
            /\ pc'[t] = "loaded" => StillCurrent(OnFile(t), job[t].prev)
<1>0. TypeInv /\ job \in [Tasks -> Job] /\ pc \in [Tasks -> PC]
  BY DEF FileInv, TypeInv, TypeOK
<1>1. CASE Finish(t)
  BY <1>0, <1>1, Ends DEF NoJob
<1>2. ASSUME NEW x, \/ job' = [job EXCEPT ![t].got = x]
                    \/ job' = [job EXCEPT ![t].snap = x]
                    \/ job' = [job EXCEPT ![t].doomed = x]
      PROVE  /\ job[t].op = "consent"
             /\ job'[t].prof = job[t].prof /\ job'[t].prev = job[t].prev
  BY <1>0, <1>2 DEF Job
<1>3. CASE EnterMutex(t) \/ SendRefresh(t)
  <2>1. CASE EnterMutex(t)
    <3>1. pc'[t] = "idle" \/ (job'[t].op = job[t].op /\ job[t].op \in Refreshing)
      BY <1>0, <2>1, Branches, Zenon
    <3> QED
      BY <1>0, <1>1, <2>1, <3>1 DEF EnterMutex, Goto, Refreshing
  <2>2. CASE SendRefresh(t)
    <3>1. job[t].op \in Refreshing /\ job' = [job EXCEPT ![t].base = Base(t), ![t].prev = OnFile(t)]
      BY <2>2 DEF SendRefresh, AtLock
    <3>2. job'[t].op = job[t].op
      BY <1>0, <3>1 DEF Job
    <3> QED
      BY <3>1, <3>2 DEF Refreshing
  <2> QED
    BY <1>3, <2>1, <2>2
<1>4. CASE ServerRotates(t) \/ Authorized(t)
  <2>1. PICK x : job' = [job EXCEPT ![t].got = x]
    BY <1>4 DEF ServerRotates, Authorized
  <2>2. UNCHANGED <<file, undisturbed>> /\ pc'[t] # "loaded"
    BY <1>0, <1>4 DEF ServerRotates, Authorized, fileVars, history, Goto
  <2> QED
    BY <1>2, <2>1, <2>2
<1>5. CASE ScopeRefused(t)
  BY <1>5 DEF ScopeRefused
<1>6. CASE Reload(t) \/ Load(t)
  <2>1. PICK x : job' = [job EXCEPT ![t].snap = x]
    BY <1>6 DEF Reload, Load
  <2>2. UNCHANGED <<file, undisturbed>>
    BY <1>6 DEF Reload, Load, fileVars, history
  <2>3. Reload(t) => job[t].op # "consent"
    BY <1>0 DEF Reload, TypeInv, OpsAt, Refreshing
  <2>4. Load(t) /\ job[t].op = "consent" => StillCurrent(OnFile(t), job[t].prev)
    BY DEF Load, Accepts
  <2> QED
    BY <1>2, <1>6, <2>1, <2>2, <2>3, <2>4
<1>7. CASE RevokeTokens(t)
  <2>1. PICK x : job' = [job EXCEPT ![t].doomed = x]
    BY <1>7 DEF RevokeTokens
  <2>2. job[t].op # "consent"
    BY <1>0, <1>7 DEF RevokeTokens, TypeInv, OpsAt
  <2> QED
    BY <1>2, <2>1, <2>2
<1>8. CASE SaveLogin(t)
  BY <1>0, <1>1, <1>8, Branches DEF SaveLogin, Goto, NoJob
<1>9. CASE RecordRevocation(t)
  <2>1. pc'[t] = "idle" \/ job' = job
    BY <1>0, <1>9, Branches, Zenon
  <2> QED
    BY <1>0, <1>1, <1>9, <2>1 DEF RecordRevocation, Goto, AtSave
<1> QED
  BY <1>1, <1>3, <1>4, <1>5, <1>6, <1>7, <1>8, <1>9 DEF TaskStep,
     RefuseRefresh, AdoptRotated, AnswerLost, RefreshFails, SaveRefresh, RefreshNotSaved,
     AuthorizationFails, LoadRefused, LockTimesOut, SaveDefault, SaveConsent, SaveRemoval,
     SaveFails

(* A consent under way ceases to be undisturbed when its profile changes.  *)
LEMMA Disturbed ==
  ASSUME FileInv, [Next]_vars, NEW t \in undisturbed, t \notin undisturbed',
         job'[t].op = "consent", t \in Tasks
  PROVE  /\ job'[t] = job[t] /\ pc'[t] = pc[t] /\ ~(pc[t] = "loaded")
         /\ \/ file'.profiles[job[t].prof] # file.profiles[job[t].prof]
            \/ \E u \in Tasks : SaveConsent(u) /\ job[u].prof = job[t].prof
<1>0. TypeInv
  BY DEF FileInv
<1> DEFINE Touched == \/ file'.profiles[job[t].prof] # file.profiles[job[t].prof]
                      \/ \E u \in Tasks : SaveConsent(u) /\ job[u].prof = job[t].prof
<1>1. ASSUME NEW u \in Tasks, TaskStep(u)
      PROVE  /\ job'[t] = job[t] /\ pc'[t] = pc[t] /\ ~(pc[t] = "loaded") /\ Touched
  <2>1. u # t
    BY <1>0, <1>1, ConsentSteps
  <2>2. job'[t] = job[t] /\ pc'[t] = pc[t]
    BY <1>0, <1>1, <2>1, OthersStay
  <2>3. CASE SaveRefresh(u) \/ SaveLogin(u) \/ SaveDefault(u) \/ SaveRemoval(u)
    <3>1. /\ pc[u] \in {"loaded", "marked"}
          /\ file'.profiles[job[t].prof] # file.profiles[job[t].prof]
      BY <2>3 DEF SaveRefresh, SaveLogin, SaveDefault, SaveRemoval, AtSave, WriteFile, Disturb
    <3>2. pc[t] # "loaded"
      BY <2>1, <3>1, OneSaver
    <3> QED
      BY <2>2, <3>1, <3>2
  <2>4. CASE SaveConsent(u)
    <3>1. pc[u] = "loaded" /\ job[u].prof = job[t].prof
      BY <2>1, <2>4 DEF SaveConsent, AtSave
    <3>2. pc[t] # "loaded"
      BY <2>1, <3>1, OneSaver
    <3> QED
      BY <2>2, <2>4, <3>1, <3>2
  <2>5. CASE ~(SaveRefresh(u) \/ SaveLogin(u) \/ SaveDefault(u) \/ SaveRemoval(u) \/ SaveConsent(u))
    <3>1. t \in undisturbed'
      BY <1>1, <2>1, <2>5 DEF TaskStep, EnterMutex, RefuseRefresh, AdoptRotated, SendRefresh,
         ServerRotates, AnswerLost, RefreshFails, ScopeRefused, Reload, RefreshNotSaved,
         Authorized, AuthorizationFails, RevokeTokens, Load, LoadRefused, LockTimesOut,
         RecordRevocation, SaveFails, history
    <3> QED
      BY <3>1
  <2> QED
    BY <2>3, <2>4, <2>5
<1>2. ASSUME NEW u \in Tasks, Call(u) PROVE FALSE
  BY <1>0, <1>2, CallStarts
<1>3. ASSUME Environment \/ UNCHANGED vars
      PROVE  /\ job'[t] = job[t] /\ pc'[t] = pc[t] /\ ~(pc[t] = "loaded") /\ Touched
  <2>1. ASSUME NEW p \in Processes, Crash(p) PROVE FALSE
    <3>1. job'[t].op # "consent" \/ t \in undisturbed'
      BY <2>1 DEF Crash, NoJob
    <3> QED
      BY <3>1
  <2>2. CASE MoveAside
    BY <2>2 DEF MoveAside, NotWriting, WriteFile, Disturb, procVars
  <2>3. CASE UNCHANGED undisturbed
    BY <2>3
  <2> QED
    BY <1>3, <2>1, <2>2, <2>3 DEF Environment, GetSharedState, Retire, Damage, Repair,
       ClockTicks, Rest, vars, history
<1> QED
  BY <1>1, <1>2, <1>3 DEF Next

(* A consent whose profile has been touched is never loaded: the pair it   *)
(* began from is gone from the file for good.                              *)
LEMMA WaitingStep ==
  ASSUME ConsentInv, [Next]_vars, NEW t \in Tasks
  PROVE  Waiting(t)'
<1> SUFFICES ASSUME job'[t].op = "consent", t \notin undisturbed'
             PROVE  /\ pc'[t] # "loaded"
                    /\ job'[t].prev # NoCreds => file'.profiles[job'[t].prof] # job'[t].prev
  BY DEF Waiting, OnFile
<1>0. FileInv /\ TypeInv /\ Waiting(t) /\ \A u \in Tasks : Private(u)
  BY DEF ConsentInv, GrantInv, FileInv
<1>1. ASSUME NEW u \in Tasks, Spends(u), job[u].prof = job[t].prof
      PROVE  job[u].got # job[t].prev
  <2>1. job[t].prev \in Creds /\ job[t].prof \in Profiles /\ Public(job[t].prof, job[t].prev)
    BY <1>0, PairTypes DEF Public
  <2>2. job[t].prev.acc # job[u].got.acc
    BY <1>0, <1>1, <2>1 DEF Private, Spends
  <2> QED
    BY <2>2
(* The profile changes under the consent. *)
<1>2. ASSUME job'[t].prof = job[t].prof, job'[t].prev = job[t].prev,
             file'.profiles[job[t].prof] # file.profiles[job[t].prof]
      PROVE  job'[t].prev # NoCreds => file'.profiles[job'[t].prof] # job'[t].prev
  <2>1. job[t].prof \in Profiles
    BY <1>0, PairTypes
  <2> QED
    BY <1>0, <1>1, <1>2, <2>1, ProfilesMove
<1>3. CASE t \in undisturbed
  <2>1. /\ job'[t] = job[t] /\ pc'[t] = pc[t] /\ pc[t] # "loaded"
        /\ \/ file'.profiles[job[t].prof] # file.profiles[job[t].prof]
           \/ \E u \in Tasks : SaveConsent(u) /\ job[u].prof = job[t].prof
    BY <1>0, <1>3, Disturbed
  <2>2. ASSUME NEW u \in Tasks, SaveConsent(u), job[u].prof = job[t].prof
        PROVE  file'.profiles[job'[t].prof] # job'[t].prev
    <3>1. Saves(u)
      BY <1>0, <2>2, SavesGrant
    <3>2. Spends(u) /\ file' = SetProfile(file, job[u].prof, job[u].got)
      BY <3>1 DEF Saves, Spends, AtSave, Holds, Pending
    <3>3. file'.profiles[job[t].prof] = job[u].got
      BY <1>0, <2>2, <3>2, PairTypes DEF SetProfile, TypeInv, TypeOK, File
    <3> QED
      BY <1>1, <2>1, <2>2, <3>2, <3>3
  <2> QED
    BY <1>2, <2>1, <2>2
<1>4. CASE t \notin undisturbed
  <2>1. ASSUME TaskStep(t)
        PROVE  /\ pc'[t] # "loaded"
               /\ job'[t].prev # NoCreds => file'.profiles[job'[t].prof] # job'[t].prev
    BY <1>0, <1>4, <2>1, ConsentSteps DEF Waiting, StillCurrent, OnFile
  <2>2. ASSUME job'[t] = job[t], pc'[t] = pc[t]
        PROVE  /\ pc'[t] # "loaded"
               /\ job'[t].prev # NoCreds => file'.profiles[job'[t].prof] # job'[t].prev
    BY <1>0, <1>2, <1>4, <2>2 DEF Waiting, OnFile
  <2>3. ASSUME NEW u \in Tasks, TaskStep(u), u # t PROVE job'[t] = job[t] /\ pc'[t] = pc[t]
    BY <1>0, <2>3, OthersStay
  <2>4. ASSUME NEW u \in Tasks, Call(u) PROVE job'[t] = job[t] /\ pc'[t] = pc[t]
    <3>1. u # t
      BY <1>0, <2>4, CallStarts DEF Refreshing
    <3> QED
      BY <1>0, <2>4, <3>1, CallStarts
  <2>5. ASSUME Environment \/ UNCHANGED vars PROVE job'[t] = job[t] /\ pc'[t] = pc[t]
    <3>1. ASSUME NEW p \in Processes, Crash(p) PROVE job'[t] = job[t] /\ pc'[t] = pc[t]
      BY <3>1 DEF Crash, NoJob
    <3>2. CASE UNCHANGED <<pc, job>>
      BY <3>2
    <3> QED
      BY <1>0, <2>5, <3>1, <3>2, OtherwiseMoves DEF Retire, MoveAside, procVars
  <2> QED
    BY <2>1, <2>2, <2>3, <2>4, <2>5 DEF Next
<1> QED
  BY <1>3, <1>4

(* A consent given in the browser is saved only over the profile it began  *)
(* from: a pair that has been replaced on file never comes back, so that   *)
(* the comparison of saveConsentProfile is as good as a version number.    *)
THEOREM ConsentOverwritesNothing == Spec => ConsentNeverOverwrites
<1> DEFINE Overwrites(t) == AtSave(t, {"consent"}) /\ pc'[t] # "loaded" /\ file' # file
<1>1. Init => ConsentInv
  BY GrantInit DEF Init, ConsentInv, Waiting, NoJob
<1>2. ConsentInv /\ [Next]_vars => ConsentInv'
  <2> SUFFICES ASSUME ConsentInv, [Next]_vars PROVE ConsentInv'
    OBVIOUS
  <2>1. ASSUME NEW t \in Tasks PROVE Waiting(t)'
    BY <2>1, WaitingStep
  <2> QED
    BY <2>1, GrantStep DEF ConsentInv
<1>3. ConsentInv /\ [Next]_vars => [\A t \in Tasks : Overwrites(t) => t \in undisturbed]_vars
  BY DEF ConsentInv, Waiting, AtSave
<1> QED
  BY <1>1, <1>2, <1>3, PTL DEF Spec, ConsentNeverOverwrites

-----------------------------------------------------------------------------
(* The grant of the device flow has no refresh token but its own.          *)

(* The server gives a consent a refresh token, or no call asks for one.    *)
Answered == MayOmitRefresh => \A w \in Workloads, t \in Tasks : "widen" \notin w[t].ops

(* A grant from the device flow has no refresh token but its own.          *)
OwnRefresh(t) ==
    /\ job[t].op = "login" => job[t].base = NoCreds
    /\ MayOmitRefresh => job[t].op \notin {"widen", "consent"} /\ "widen" \notin opsLeft[t].ops
    /\ Holds(t) /\ job[t].op \in {"login", "consent"} => job[t].got.ref \in {0, job[t].got.acc}

(* A call is one of those its task may make. *)
LEMMA CallsAllowed ==
  ASSUME TypeInv, NEW t \in Tasks, Call(t)
  PROVE  /\ job'[t].op \in opsLeft[t].ops
         /\ \A u \in Tasks : opsLeft'[u].ops = opsLeft[u].ops
<1>0. /\ job \in [Tasks -> Job] /\ opsLeft \in [Tasks -> Work] /\ P(t) \in Processes
      /\ mem \in [Processes -> [Profiles -> Cached]]
  BY CredentialsAssumption DEF TypeInv, TypeOK, P
<1>1. ASSUME NEW fields, Begin(t, fields)
      PROVE  /\ job'[t].op \in opsLeft[t].ops
             /\ \A u \in Tasks : opsLeft'[u].ops = opsLeft[u].ops
  <2>1. job'[t] = fields /\ fields.op \in opsLeft[t].ops
    BY <1>0, <1>1 DEF Begin
  <2>2. opsLeft' = [opsLeft EXCEPT ![t].calls = @ - 1]
    BY <1>1 DEF Begin
  <2>3. \A u \in Tasks : opsLeft'[u].ops = opsLeft[u].ops
    BY <1>0, <2>2 DEF Work
  <2> QED
    BY <2>1, <2>3
<1>2. \E fields : Begin(t, fields)
  <2>1. CASE LogoutAll(t)
    BY <2>1 DEF LogoutAll
  <2>2. ASSUME NEW n \in Profiles, NEW op \in {"refresh", "token", "widen"},
               RefreshProfile(t, n, op)
        PROVE  \E fields : Begin(t, fields)
    BY <2>2 DEF RefreshProfile
  <2>3. ASSUME NEW n \in Profiles, NEW d \in {"yes", "no"}, Login(t, n, d)
        PROVE  \E fields : Begin(t, fields)
    BY <2>3 DEF Login
  <2>4. ASSUME NEW n \in Profiles,
               \/ GetAuthHeader(t, n) \/ ForceRefresh(t, n) \/ UseProfile(t, n)
               \/ DeleteProfile(t, n) \/ Logout(t, n)
        PROVE  \E fields : Begin(t, fields)
    BY <2>4 DEF GetAuthHeader, ForceRefresh, UseProfile, DeleteProfile, Logout
  <2> QED
    BY <2>1, <2>2, <2>3, <2>4 DEF Call
<1> QED
  BY <1>1, <1>2

(* The calls a task may make are fixed.                                    *)
LEMMA WorkStays ==
  ASSUME FileInv, [Next]_vars, NEW t \in Tasks
  PROVE  opsLeft'[t].ops = opsLeft[t].ops
<1>1. ASSUME NEW u \in Tasks, TaskStep(u) PROVE UNCHANGED opsLeft
  BY <1>1 DEF TaskStep, EnterMutex, RefuseRefresh, AdoptRotated, SendRefresh, ServerRotates,
     AnswerLost, RefreshFails, ScopeRefused, Reload, SaveRefresh, RefreshNotSaved, Authorized,
     AuthorizationFails, RevokeTokens, Load, LoadRefused, LockTimesOut, SaveLogin, SaveDefault,
     SaveConsent, RecordRevocation, SaveRemoval, SaveFails
<1>2. ASSUME NEW u \in Tasks, Call(u) PROVE opsLeft'[t].ops = opsLeft[t].ops
  BY <1>2, CallsAllowed DEF FileInv
<1>3. ASSUME Environment \/ UNCHANGED vars PROVE UNCHANGED opsLeft
  BY <1>3 DEF Environment, Crash, GetSharedState, Retire, Damage, Repair, MoveAside, ClockTicks,
     Rest, vars
<1> QED
  BY <1>1, <1>2, <1>3 DEF Next

(* How a job of the device flow, or one that asks for more scope, got      *)
(* where it is.                                                            *)
FlowSteps(t) ==
    \/ Starts(t) /\ job'[t].op \in opsLeft[t].ops \cap (AllOps \ {"consent"})
    \/ ScopeRefused(t) /\ job'[t].op = "consent" /\ job[t].op = "widen" /\ ~Holds(t)'
    \/ /\ Authorized(t) /\ job'[t].op = job[t].op /\ job'[t].base = job[t].base
       /\ job[t].op \in {"login", "consent"}
    \/ /\ job'[t].op = job[t].op /\ (job[t].op = "login" => job'[t].base = job[t].base)
       /\ job[t].op \in {"login", "consent"} => Keeps(t)

(* Every step of a task that leaves it with such a job is one of these.    *)
LEMMA FlowStepsOf ==
  ASSUME FileInv, NEW t \in Tasks, TaskStep(t), job'[t].op \in {"login", "widen", "consent"}
  PROVE  FlowSteps(t)
<1>0. TypeInv /\ job \in [Tasks -> Job] /\ pc \in [Tasks -> PC] /\ JobMoves(t)
  BY JobsMove DEF FileInv, TypeInv, TypeOK
<1>1. CASE Finish(t)
  BY <1>0, <1>1, Ends DEF NoJob
<1>2. ASSUME NEW x, NEW y,
             \/ job' = [job EXCEPT ![t].got = x]
             \/ job' = [job EXCEPT ![t].snap = x]
             \/ job' = [job EXCEPT ![t].doomed = x]
             \/ job' = [job EXCEPT ![t].base = x, ![t].used = y] /\ job[t].op \in Refreshing
             \/ job' = [job EXCEPT ![t].base = x, ![t].prev = y] /\ job[t].op \in Refreshing
      PROVE  job'[t].op = job[t].op /\ (job[t].op = "login" => job'[t].base = job[t].base)
  BY <1>0, <1>2 DEF Job, Refreshing
<1>3. ASSUME ~Granted(t), job'[t].op = job[t].op,
             job[t].op = "login" => job'[t].base = job[t].base,
             job[t].op \in {"login", "consent"} => ~Starts(t)
      PROVE  FlowSteps(t)
  BY <1>0, <1>3 DEF FlowSteps, JobMoves
<1>4. CASE EnterMutex(t)
  <2>1. pc'[t] = "idle" \/ job[t].op \in Refreshing
    BY <1>0, <1>4, Branches, Zenon
  <2>2. CASE ~Finish(t)
    <3>1. /\ job' = [job EXCEPT ![t].base = Cache(t).creds, ![t].used = Cache(t).used]
          /\ pc'[t] = "lock" /\ UNCHANGED serverVars
      BY <1>0, <1>4, <2>2 DEF EnterMutex, Goto
    <3>2. job'[t].op = job[t].op /\ job[t].op \in Refreshing
      BY <1>2, <2>1, <3>1
    <3> QED
      BY <3>2 DEF FlowSteps, Refreshing
  <2> QED
    BY <1>1, <2>2
<1>5. CASE SendRefresh(t)
  <2>1. /\ job' = [job EXCEPT ![t].base = Base(t), ![t].prev = OnFile(t)]
        /\ job[t].op \in Refreshing
    BY <1>5 DEF SendRefresh, AtLock
  <2> QED
    BY <1>2, <2>1 DEF FlowSteps, Refreshing
<1>6. CASE ServerRotates(t)
  <2>1. PICK x : job' = [job EXCEPT ![t].got = x]
    BY <1>6 DEF ServerRotates
  <2>2. job[t].op \in Refreshing
    BY <1>0, <1>6 DEF ServerRotates, TypeInv, OpsAt
  <2> QED
    BY <1>2, <2>1, <2>2 DEF FlowSteps, Refreshing
<1>7. CASE Authorized(t)
  <2>1. PICK x : job' = [job EXCEPT ![t].got = x]
    BY <1>7 DEF Authorized
  <2>2. job[t].op \in {"login", "consent"} /\ job'[t].base = job[t].base
    BY <1>0, <1>7, <2>1 DEF Authorized, TypeInv, OpsAt, Job
  <2> QED
    BY <1>2, <1>7, <2>1, <2>2 DEF FlowSteps
<1>8. CASE ScopeRefused(t)
  <2>1. job' = [job EXCEPT ![t].op = "consent"] /\ pc'[t] = "consent" /\ job[t].op = "widen"
    BY <1>0, <1>8 DEF ScopeRefused, Goto
  <2>2. job'[t].op = "consent"
    BY <1>0, <2>1 DEF Job
  <2> QED
    BY <1>8, <2>1, <2>2 DEF FlowSteps, Holds, Pending
<1>9. CASE Reload(t) \/ Load(t)
  <2>1. PICK x : job' = [job EXCEPT ![t].snap = x]
    BY <1>9 DEF Reload, Load
  <2>2. /\ pc'[t] = "loaded" /\ job'[t].got = job[t].got
        /\ pc[t] = "answered" \/ (pc[t] = "lock" /\ job[t].op \in Writing)
    BY <1>0, <1>9, <2>1 DEF Reload, Load, AtLock, Goto, Job
  <2>3. job'[t].op = job[t].op /\ (job[t].op = "login" => job'[t].base = job[t].base)
    BY <1>2, <2>1
  <2>4. pc[t] = "answered" => job[t].op \in Refreshing
    BY <1>0 DEF TypeInv, OpsAt
  <2>5. job[t].op \in {"login", "consent"} => Keeps(t)
    BY <2>2, <2>3, <2>4 DEF Keeps, Holds, Pending, Refreshing
  <2> QED
    BY <2>3, <2>5 DEF FlowSteps
<1>10. CASE RevokeTokens(t)
  <2>1. PICK x : job' = [job EXCEPT ![t].doomed = x]
    BY <1>10 DEF RevokeTokens
  <2>2. job[t].op \in {"logout", "deleteAll"}
    BY <1>0, <1>10 DEF RevokeTokens, TypeInv, OpsAt
  <2> QED
    BY <1>2, <2>1, <2>2
<1>11. CASE SaveLogin(t)
  BY <1>0, <1>1, <1>11, Branches DEF SaveLogin, Goto, NoJob
<1>12. CASE RecordRevocation(t)
  <2>1. pc'[t] = "idle" \/ job' = job
    BY <1>0, <1>12, Branches, Zenon
  <2> QED
    BY <1>0, <1>1, <1>12, <2>1 DEF RecordRevocation, Goto, AtSave
<1> QED
  BY <1>1, <1>4, <1>5, <1>6, <1>7, <1>8, <1>9, <1>10, <1>11, <1>12 DEF TaskStep,
     RefuseRefresh, AdoptRotated, AnswerLost, RefreshFails, SaveRefresh, RefreshNotSaved,
     AuthorizationFails, LoadRefused, LockTimesOut, SaveDefault, SaveConsent, SaveRemoval,
     SaveFails

(* So is every step.                                                       *)
LEMMA AllFlowSteps ==
  ASSUME FileInv, [Next]_vars, NEW t \in Tasks, job'[t].op \in {"login", "widen", "consent"}
  PROVE  FlowSteps(t)
<1>0. TypeInv
  BY DEF FileInv
<1>1. ASSUME pc'[t] = pc[t], job'[t] = job[t] PROVE FlowSteps(t)
  BY <1>0, <1>1, OthersCarry DEF FlowSteps
<1>2. ASSUME NEW u \in Tasks, TaskStep(u) PROVE FlowSteps(t)
  BY <1>0, <1>1, <1>2, OthersStay, FlowStepsOf
<1>3. ASSUME NEW u \in Tasks, Call(u) PROVE FlowSteps(t)
  <2>1. CASE u = t
    <3>1. Starts(t) /\ job'[t].op \in opsLeft[t].ops
      BY <1>0, <1>3, <2>1, CallsStart, CallsAllowed
    <3>2. job'[t].op \in AllOps \ {"consent"}
      BY <1>0, <1>3, <2>1, CallStarts DEF AllOps, Refreshing
    <3> QED
      BY <3>1, <3>2 DEF FlowSteps
  <2>2. CASE u # t
    BY <1>0, <1>1, <1>3, <2>2, CallsStart
  <2> QED
    BY <2>1, <2>2
<1>4. ASSUME Environment \/ UNCHANGED vars PROVE FlowSteps(t)
  <2>1. ASSUME NEW p \in Processes, Crash(p) PROVE FlowSteps(t)
    <3>1. pc'[t] = pc[t] /\ job'[t] = job[t]
      BY <2>1 DEF Crash, NoJob
    <3> QED
      BY <1>1, <3>1
  <2>2. CASE UNCHANGED <<pc, job>>
    BY <1>1, <2>2
  <2> QED
    BY <1>4, <2>1, <2>2, OtherwiseMoves DEF Retire, MoveAside, procVars
<1> QED
  BY <1>2, <1>3, <1>4 DEF Next

(* The grant of a device flow keeps its own refresh token.                 *)
LEMMA OwnRefreshStep ==
  ASSUME FileInv, [Next]_vars, NEW t \in Tasks, OwnRefresh(t)
  PROVE  OwnRefresh(t)'
<1>0. TypeInv /\ MayOmitRefresh \in BOOLEAN /\ job[t].base \in Creds
  BY TokenServerAssumption, PairTypes DEF FileInv
<1>1. job'[t].op = "login" => job'[t].base = NoCreds
  BY AllFlowSteps DEF OwnRefresh, FlowSteps, Starts
<1>2. MayOmitRefresh => job'[t].op \notin {"widen", "consent"} /\ "widen" \notin opsLeft'[t].ops
  BY WorkStays, AllFlowSteps DEF OwnRefresh, FlowSteps, Starts
<1>3. ASSUME Holds(t)', job'[t].op \in {"login", "consent"}
      PROVE  job'[t].got.ref \in {0, job'[t].got.acc}
  <2>1. CASE Authorized(t) /\ job[t].op \in {"login", "consent"}
    <3>1. PICK creds \in LoginAnswers :
             job' = [job EXCEPT ![t].got = WithRefreshed(job[t].base, creds)]
      BY <2>1 DEF Authorized
    <3>2. job'[t].got = WithRefreshed(job[t].base, creds)
      BY <1>0, <3>1 DEF TypeInv, TypeOK, Job
    <3>3. CASE creds = New
      <4>1. New.ref # 0 /\ New.ref = New.acc
        BY <1>0, TokenServerAssumption DEF New, TypeInv, TypeOK, ServerTypeOK, Token
      <4> QED
        BY <3>2, <3>3, <4>1 DEF WithRefreshed
    <3>4. CASE creds = [New EXCEPT !.ref = 0] /\ MayOmitRefresh
      <4>1. job[t].base = NoCreds
        BY <2>1, <3>4 DEF OwnRefresh
      <4> QED
        BY <3>2, <3>4, <4>1 DEF WithRefreshed, New, NoCreds
    <3> QED
      BY <3>1, <3>3, <3>4 DEF LoginAnswers
  <2>2. CASE /\ job'[t].op = job[t].op /\ job[t].op \in {"login", "consent"} /\ Keeps(t)
    BY <1>3, <2>2 DEF OwnRefresh, Keeps
  <2> QED
    BY <1>3, <2>1, <2>2, AllFlowSteps DEF FlowSteps, Starts
<1> QED
  BY <1>1, <1>2, <1>3 DEF OwnRefresh

(* No call has a grant at first.                                           *)
LEMMA OwnRefreshInit ==
  ASSUME Answered, Init, NEW t \in Tasks
  PROVE  OwnRefresh(t)
<1>1. job[t] = NoJob /\ pc[t] = "idle" /\ opsLeft \in Workloads
  BY DEF Init
<1> QED
  BY <1>1 DEF Answered, OwnRefresh, NoJob, Holds, Pending

-----------------------------------------------------------------------------
(* The refresh tokens: which end, and who is excused.                      *)

(* What an honoured refresh token may end in, and whom a step excuses.     *)
LEMMA ExcusedGrows ==
  ASSUME TypeInv, [Next]_vars, NEW r \in Token
  PROVE  excused[r] \subseteq excused'[r]
<1>0. excused \in [Token -> SUBSET Processes]
  BY DEF TypeInv, TypeOK
<1>1. ASSUME NEW refs, NEW who, Excuse(refs, who) PROVE excused[r] \subseteq excused'[r]
  BY <1>0, <1>1 DEF Excuse
<1>2. ASSUME NEW t \in Tasks, TaskStep(t)
      PROVE  UNCHANGED excused \/ \E refs, who : Excuse(refs, who)
  BY <1>2 DEF TaskStep, EnterMutex, RefuseRefresh, AdoptRotated, SendRefresh, ServerRotates,
     AnswerLost, RefreshFails, ScopeRefused, Reload, SaveRefresh, RefreshNotSaved, Authorized,
     AuthorizationFails, RevokeTokens, Load, LoadRefused, LockTimesOut, SaveLogin, SaveDefault,
     SaveConsent, RecordRevocation, SaveRemoval, SaveFails, WriteFile, Disturb, history
<1>3. ASSUME NEW t \in Tasks, Call(t) PROVE UNCHANGED excused
  BY <1>3, CallStarts
<1>4. ASSUME Environment \/ UNCHANGED vars
      PROVE  UNCHANGED excused \/ \E refs, who : Excuse(refs, who)
  BY <1>4 DEF Environment, Crash, GetSharedState, Retire, Damage, Repair, MoveAside, ClockTicks,
     Rest, vars, history
<1> QED
  BY <1>1, <1>2, <1>3, <1>4 DEF Next

(* Whom a step excuses everywhere, it excuses for every process.           *)
LEMMA ExcuseAll ==
  ASSUME TypeInv, NEW r \in Token, r # 0, NEW refs, r \in refs, Excuse(refs, Processes)
  PROVE  excused'[r] = Processes
<1>1. excused[r] \in SUBSET Processes
  BY DEF TypeInv, TypeOK
<1>2. excused'[r] = excused[r] \cup Processes
  BY DEF Excuse
<1> QED
  BY <1>1, <1>2

(* A refresh token is honoured until it is exchanged, or every process is  *)
(* excused.                                                                *)
LEMMA LiveEnds ==
  ASSUME TypeInv, [Next]_vars, NEW r \in live, r \notin live'
  PROVE  \/ excused'[r] = Processes
         \/ \E t \in Tasks : ServerRotates(t) /\ job[t].base.ref = r
<1>0. r \in Token /\ r # 0
  BY DEF TypeInv, TypeOK, ServerTypeOK
<1>1. ASSUME NEW t \in Tasks, ServerRotates(t) PROVE job[t].base.ref = r
  BY <1>1 DEF ServerRotates, Rotate
<1>2. ASSUME NEW t \in Tasks, AnswerLost(t) PROVE excused'[r] = Processes
  <2>1. job[t].base.ref = r /\ Excuse({r} \ live', Processes)
    BY <1>2 DEF AnswerLost, Rotate
  <2> QED
    BY <1>0, <2>1, ExcuseAll
<1>3. ASSUME NEW t \in Tasks, RevokeTokens(t) PROVE excused'[r] = Processes
  <2>1. PICK refs \in SUBSET job[t].doomed : Revoke(refs) /\ Excuse(refs, Processes)
    BY <1>3 DEF RevokeTokens
  <2>2. r \in refs
    BY <2>1 DEF Revoke
  <2> QED
    BY <1>0, <2>1, <2>2, ExcuseAll
<1>4. ASSUME NEW t \in Tasks, Authorized(t) PROVE live \subseteq live'
  BY <1>4 DEF Authorized, Grant
<1>5. ASSUME NEW t \in Tasks, TaskStep(t), ~ServerRotates(t), ~AnswerLost(t), ~RevokeTokens(t),
             ~Authorized(t)
      PROVE  live' = live
  BY <1>5 DEF TaskStep, EnterMutex, RefuseRefresh, AdoptRotated, SendRefresh,
     RefreshFails, ScopeRefused, Reload, SaveRefresh, RefreshNotSaved,
     AuthorizationFails, Load, LoadRefused, LockTimesOut, SaveLogin, SaveDefault,
     SaveConsent, RecordRevocation, SaveRemoval, SaveFails, serverVars
<1>6. ASSUME NEW t \in Tasks, Call(t) PROVE live' = live
  BY <1>6, CallStarts DEF serverVars
<1>7. ASSUME Environment \/ UNCHANGED vars PROVE live' = live
  BY <1>7 DEF Environment, Crash, GetSharedState, Retire, Damage, Repair, MoveAside, ClockTicks,
     Age, Rest, vars, serverVars
<1> QED
  BY <1>1, <1>2, <1>3, <1>4, <1>5, <1>6, <1>7 DEF Next

(* How a refresh got where it is. *)
SameCall(t) ==
    job'[t].op = job[t].op /\ job'[t].prof = job[t].prof /\ job'[t].stale = job[t].stale

RefreshMoves(t) ==
    \/ pc'[t] = pc[t] /\ job'[t] = job[t]
    \/ /\ EnterMutex(t) /\ pc'[t] = "lock" /\ SameCall(t)
       /\ job'[t].base = Cache(t).creds /\ job'[t].used = Cache(t).used
    \/ /\ SendRefresh(t) /\ pc'[t] = "sending" /\ SameCall(t)
       /\ job'[t].base = Base(t) /\ job'[t].prev = OnFile(t) /\ job'[t].used = job[t].used
    \/ /\ ServerRotates(t) \/ Reload(t)
       /\ pc'[t] \in {"answered", "loaded"} /\ SameCall(t)
       /\ job'[t].base = job[t].base /\ job'[t].prev = job[t].prev

(* Every step of a task that leaves it with a refresh is one of these.     *)
LEMMA RefreshMovesOf ==
  ASSUME TypeInv, NEW t \in Tasks, TaskStep(t), job'[t].op \in Refreshing
  PROVE  RefreshMoves(t)
<1>0. job \in [Tasks -> Job] /\ pc \in [Tasks -> PC] /\ job[t] \in Job
  BY DEF TypeInv, TypeOK
<1>1. ~Finish(t)
  BY Ends DEF NoJob, Refreshing
<1>2. CASE EnterMutex(t)
  <2>1. /\ job' = [job EXCEPT ![t].base = Cache(t).creds, ![t].used = Cache(t).used]
        /\ Goto(t, "lock")
    BY <1>1, <1>2 DEF EnterMutex
  <2>2. pc'[t] = "lock"
    BY <1>0, <2>1 DEF Goto
  <2>3. job'[t] = [job[t] EXCEPT !.base = Cache(t).creds, !.used = Cache(t).used]
    BY <1>0, <2>1
  <2>4. SameCall(t) /\ job'[t].base = Cache(t).creds /\ job'[t].used = Cache(t).used
    BY <1>0, <2>3 DEF Job, SameCall
  <2> QED
    BY <1>2, <2>2, <2>4 DEF RefreshMoves
<1>3. CASE SendRefresh(t)
  <2>1. pc'[t] = "sending"
    BY <1>0, <1>3 DEF SendRefresh, Goto
  <2>2. job'[t] = [job[t] EXCEPT !.base = Base(t), !.prev = OnFile(t)]
    BY <1>0, <1>3 DEF SendRefresh
  <2>3. /\ SameCall(t) /\ job'[t].base = Base(t) /\ job'[t].prev = OnFile(t)
        /\ job'[t].used = job[t].used
    BY <1>0, <2>2 DEF Job, SameCall
  <2> QED
    BY <1>3, <2>1, <2>3 DEF RefreshMoves
<1>4. CASE ServerRotates(t) \/ Reload(t)
  <2>1. pc'[t] \in {"answered", "loaded"}
    BY <1>0, <1>4 DEF ServerRotates, Reload, Goto
  <2>2. PICK x : job' = [job EXCEPT ![t].got = x] \/ job' = [job EXCEPT ![t].snap = x]
    BY <1>4 DEF ServerRotates, Reload
  <2>3. job'[t] = [job[t] EXCEPT !.got = x] \/ job'[t] = [job[t] EXCEPT !.snap = x]
    BY <1>0, <2>2
  <2>4. SameCall(t) /\ job'[t].base = job[t].base /\ job'[t].prev = job[t].prev
    BY <1>0, <2>3 DEF Job, SameCall
  <2> QED
    BY <1>4, <2>1, <2>4 DEF RefreshMoves
<1>5. CASE ScopeRefused(t) \/ Authorized(t) \/ RevokeTokens(t) \/ Load(t) \/ SaveLogin(t)
           \/ RecordRevocation(t)
  <2>1. CASE ScopeRefused(t)
    <3>1. job' = [job EXCEPT ![t].op = "consent"]
      BY <2>1 DEF ScopeRefused
    <3>2. job'[t].op = "consent"
      BY <1>0, <3>1 DEF Job
    <3> QED
      BY <3>2 DEF Refreshing
  <2>2. CASE Authorized(t) \/ RevokeTokens(t) \/ Load(t)
    <3>1. job[t].op \in Writing
      BY <2>2 DEF TypeInv, OpsAt, Authorized, RevokeTokens, Load, AtLock, Writing
    <3>2. PICK x : \/ job' = [job EXCEPT ![t].got = x] \/ job' = [job EXCEPT ![t].snap = x]
                   \/ job' = [job EXCEPT ![t].doomed = x]
      BY <2>2 DEF Authorized, RevokeTokens, Load
    <3>3. job'[t].op = job[t].op
      BY <1>0, <3>2 DEF Job
    <3> QED
      BY <3>1, <3>3 DEF Writing, Refreshing
  <2>3. CASE SaveLogin(t)
    <3>1. job' = [job EXCEPT ![t] = [NoJob EXCEPT !.op = "use", !.prof = job[t].prof]]
      BY <1>1, <2>3 DEF SaveLogin
    <3>2. job'[t].op = "use"
      BY <1>0, <3>1 DEF NoJob
    <3> QED
      BY <3>2 DEF Refreshing
  <2>4. CASE RecordRevocation(t)
    <3>1. job' = job /\ job[t].op \in {"logout", "delete", "deleteAll"}
      BY <1>1, <2>4 DEF RecordRevocation, AtSave
    <3> QED
      BY <3>1 DEF Refreshing
  <2> QED
    BY <1>5, <2>1, <2>2, <2>3, <2>4
<1> QED
  BY <1>1, <1>2, <1>3, <1>4, <1>5 DEF TaskStep, RefuseRefresh, AdoptRotated, AnswerLost,
     RefreshFails, SaveRefresh, RefreshNotSaved, AuthorizationFails, LoadRefused, LockTimesOut,
     SaveDefault, SaveConsent, SaveRemoval, SaveFails

(* So is every step, for a refresh past the mutex.                         *)
LEMMA AllRefreshMoves ==
  ASSUME TypeInv, [Next]_vars, NEW t \in Tasks, job'[t].op \in Refreshing,
         pc'[t] \in {"lock", "sending", "answered", "loaded"}
  PROVE  RefreshMoves(t)
<1>1. ASSUME NEW u \in Tasks, TaskStep(u) PROVE RefreshMoves(t)
  BY <1>1, OthersStay, RefreshMovesOf DEF RefreshMoves
<1>2. ASSUME NEW u \in Tasks, Call(u) PROVE RefreshMoves(t)
  BY <1>2, CallStarts DEF RefreshMoves, Refreshing
<1>3. ASSUME Environment \/ UNCHANGED vars PROVE RefreshMoves(t)
  <2>1. ASSUME NEW p \in Processes, Crash(p) PROVE RefreshMoves(t)
    BY <2>1 DEF Crash, NoJob, RefreshMoves
  <2>2. CASE UNCHANGED <<pc, job>>
    BY <2>2 DEF RefreshMoves
  <2> QED
    BY <1>3, <2>1, <2>2 DEF Environment, GetSharedState, Retire, Damage, Repair, MoveAside,
       ClockTicks, Rest, vars, procVars
<1> QED
  BY <1>1, <1>2, <1>3 DEF Next

-----------------------------------------------------------------------------
(* Every copy of a pair is sound: a refresh that begins from it sends a    *)
(* token the server honours, or one whose end the process cannot know of.  *)

(* Sending refresh token r of profile n is no mistake of process p: it is  *)
(* honoured, or p could not know of its end, or its replacement is under   *)
(* way to the file and the lock is taken until it is there.                *)
Good(p, n, r) ==
    \/ r \in live \cup {0} \/ p \in excused[r]
    \/ \E u \in Tasks : Pending(u) /\ job[u].prof = n /\ job[u].base.ref = r

(* The token a refresh of n would send that begins from these pairs. *)
WouldSend(n, creds, used) ==
    IF file.profiles[n] # NoCreds /\ ~IsBehind(file.profiles[n], used)
    THEN file.profiles[n].ref ELSE creds.ref

Sound(p, n, creds, used) ==
    LoggedOut(n, file.profiles[n]) \/ Good(p, n, WouldSend(n, creds, used))

GotGood(t) ==
    Holds(t) => job[t].got.ref \in live \cup {0} \/ excused[job[t].got.ref] = Processes

PrevRead(t) ==
    pc[t] \in {"sending", "answered", "loaded"} /\ job[t].op \in Refreshing =>
        OnFile(t) \in {job[t].prev, NoCreds}

SoundToSend(t) == job[t].base.ref # 0 /\ Good(P(t), job[t].prof, job[t].base.ref)

SoundInv ==
    /\ GrantInv
    /\ \A t \in Tasks : OwnRefresh(t) /\ GotGood(t) /\ PrevRead(t)
    /\ \A p \in Processes, n \in Profiles : Sound(p, n, mem[p][n].creds, mem[p][n].used)
    /\ \A t \in Tasks :
          /\ AtLock(t, Refreshing) => Sound(P(t), job[t].prof, job[t].base, job[t].used)
          /\ pc[t] = "sending" => SoundToSend(t)

(* The replacement of r has reached the file, or only process p. *)
Replaces(n, r) ==
    \E u \in Tasks : Saves(u) /\ Pending(u) /\ job[u].prof = n /\ job[u].base.ref = r

KeptBy(p, n, r) ==
    \E u \in Tasks : RefreshNotSaved(u) /\ P(u) = p /\ job[u].prof = n /\ job[u].base.ref = r

(* What becomes of a refresh whose answer has come. *)
LEMMA PendingMoves ==
  ASSUME FileInv, [Next]_vars, NEW u \in Tasks, Pending(u)
  PROVE  \/ Pending(u)' /\ job'[u].prof = job[u].prof /\ job'[u].base = job[u].base
         \/ SaveRefresh(u)
         \/ RefreshNotSaved(u)
         \/ Crash(P(u))
<1>0. TypeInv /\ P(u) \in Processes /\ Pending(u)
  BY CredentialsAssumption DEF FileInv, P
<1>1. ASSUME NEW t \in Tasks, TaskStep(t), t # u PROVE pc'[u] = pc[u] /\ job'[u] = job[u]
  BY <1>0, <1>1, OthersStay
<1>2. ASSUME TaskStep(u) PROVE Reload(u) \/ SaveRefresh(u) \/ RefreshNotSaved(u)
  BY <1>0, <1>2 DEF TaskStep, EnterMutex, RefuseRefresh, AdoptRotated, SendRefresh, ServerRotates,
     AnswerLost, RefreshFails, ScopeRefused, Authorized, AuthorizationFails, RevokeTokens,
     Load, LoadRefused, LockTimesOut, SaveLogin, SaveDefault, SaveConsent, RecordRevocation,
     SaveRemoval, SaveFails, AtLock, AtSave, Pending, Refreshing, Writing
<1>3. ASSUME Reload(u)
      PROVE  Pending(u)' /\ job'[u].prof = job[u].prof /\ job'[u].base = job[u].base
  <2>1. pc'[u] = "loaded" /\ job'[u] = [job[u] EXCEPT !.snap = file] /\ job[u] \in Job
    BY <1>0, <1>3 DEF Reload, Goto, TypeInv, TypeOK
  <2>2. job'[u].op = job[u].op /\ job'[u].prof = job[u].prof /\ job'[u].base = job[u].base
    BY <2>1 DEF Job
  <2> QED
    BY <1>0, <2>1, <2>2 DEF Pending
<1>4. ASSUME NEW t \in Tasks, Call(t) PROVE pc'[u] = pc[u] /\ job'[u] = job[u]
  <2>1. CASE t = u
    BY <1>0, <1>4, <2>1 DEF Call, GetAuthHeader, ForceRefresh, RefreshProfile, Login, UseProfile,
       DeleteProfile, Logout, LogoutAll, Begin, Pending
  <2>2. CASE t # u
    BY <1>0, <1>4, <2>2, CallStarts
  <2> QED
    BY <2>1, <2>2
<1>5. ASSUME NEW p \in Processes, Crash(p), p # P(u) PROVE pc'[u] = pc[u] /\ job'[u] = job[u]
  BY <1>5 DEF Crash
<1>6. ASSUME Environment \/ UNCHANGED vars, \A p \in Processes : ~Crash(p)
      PROVE  pc'[u] = pc[u] /\ job'[u] = job[u]
  BY <1>6 DEF Environment, GetSharedState, Retire, Damage, Repair, MoveAside, ClockTicks,
     Rest, vars, procVars
<1>7. pc'[u] = pc[u] /\ job'[u] = job[u] => Pending(u)'
  BY <1>0 DEF Pending
<1> QED
  BY <1>1, <1>2, <1>3, <1>4, <1>5, <1>6, <1>7 DEF Next

(* A token stays good until its replacement is on file, or kept.           *)
LEMMA GoodFlow ==
  ASSUME GrantInv, [Next]_vars, NEW p \in Processes, NEW n \in Profiles, NEW r \in Token,
         Seen(n, r) \/ r = 0, Good(p, n, r)
  PROVE  Good(p, n, r)' \/ Replaces(n, r) \/ KeptBy(p, n, r)
<1>0. FileInv /\ TypeInv
  BY DEF GrantInv, FileInv
<1>1. excused[r] \subseteq excused'[r]
  BY <1>0, ExcusedGrows
<1>2. r = 0 => Good(p, n, r)'
  BY DEF Good
<1>3. ASSUME r \in live, r # 0 PROVE Good(p, n, r)'
  <2>1. CASE r \in live' \/ excused'[r] = Processes
    BY <2>1 DEF Good
  <2>2. ASSUME NEW t \in Tasks, ServerRotates(t), job[t].base.ref = r PROVE Good(p, n, r)'
    <3>1. /\ job[t] \in Job /\ pc'[t] = "answered" /\ job[t].prof \in Profiles
          /\ job[t].base \in Creds /\ job[t].op \in Refreshing
      BY <1>0, <2>2 DEF ServerRotates, Goto, TypeInv, TypeOK, OpsAt, Job
    <3>2. PICK x : job'[t] = [job[t] EXCEPT !.got = x]
      BY <1>0, <2>2 DEF ServerRotates, TypeInv, TypeOK
    <3>3. /\ job'[t].op = job[t].op /\ job'[t].prof = job[t].prof
          /\ job'[t].base = job[t].base
      BY <3>1, <3>2 DEF Job
    <3>4. Seen(job[t].prof, r)
      BY <2>2, <3>1 DEF Seen, Public
    <3>5. job[t].prof = n
      BY <1>3, <3>1, <3>4 DEF GrantInv, Owned
    <3> QED
      BY <2>2, <3>1, <3>3, <3>5 DEF Good, Pending
  <2> QED
    BY <1>0, <1>3, <2>1, <2>2, LiveEnds
<1>4. CASE p \in excused[r]
  BY <1>1, <1>4 DEF Good
<1>5. ASSUME r \notin live, r # 0, NEW u \in Tasks, Pending(u), job[u].prof = n,
             job[u].base.ref = r
      PROVE  Good(p, n, r)' \/ Replaces(n, r) \/ KeptBy(p, n, r)
  <2>1. CASE Pending(u)' /\ job'[u].prof = job[u].prof /\ job'[u].base = job[u].base
    BY <1>5, <2>1 DEF Good
  <2>2. CASE SaveRefresh(u)
    BY <1>0, <1>5, <2>2, SavesGrant DEF Replaces
  <2>3. CASE RefreshNotSaved(u) /\ P(u) = p
    BY <1>5, <2>3 DEF KeptBy
  <2>4. CASE RefreshNotSaved(u) /\ P(u) # p
    <3>1. Excuse({r} \ live, Processes \ {P(u)})
      BY <1>5, <2>4 DEF RefreshNotSaved
    <3>2. excused'[r] = excused[r] \cup (Processes \ {P(u)})
      BY <1>5, <3>1 DEF Excuse
    <3> QED
      BY <2>4, <3>2 DEF Good
  <2>5. CASE Crash(P(u))
    <3>1. Excuse(Orphaned({P(u)}) \ live, Processes)
      BY <2>5 DEF Crash
    <3>2. r \in Orphaned({P(u)}) \ live
      BY <1>5 DEF Orphaned, Pending
    <3>3. excused'[r] = Processes
      BY <1>0, <1>5, <3>1, <3>2, ExcuseAll
    <3> QED
      BY <3>3 DEF Good
  <2> QED
    BY <1>0, <1>5, <2>1, <2>2, <2>3, <2>4, <2>5, PendingMoves
<1> QED
  BY <1>2, <1>3, <1>4, <1>5 DEF Good

(* A profile leaves the file with its removal on record, or with the whole *)
(* file put aside.                                                         *)
LEMMA RemovalEnds ==
  ASSUME FileInv, [Next]_vars, NEW n \in Profiles,
         file'.profiles[n] = NoCreds, file.profiles[n] # NoCreds
  PROVE  \/ n \in revoked'
         \/ faults' > 0 /\ \A r \in Token : r \in live' \cup {0} \/ excused'[r] = Processes
<1>0. TypeInv /\ file \in File
  BY DEF FileInv, TypeInv, TypeOK
<1>1. ASSUME NEW t \in Tasks, SaveRemoval(t) PROVE n \in revoked'
  <2>1. revoked' = revoked /\ pc[t] = "marked"
    BY <1>1 DEF SaveRemoval
  <2>2. CASE job[t].op = "deleteAll"
    BY <2>1, <2>2 DEF FileInv, UnderLock, Recorded
  <2>3. CASE job[t].op # "deleteAll"
    <3>1. file' \in RemoveProfile(file, job[t].prof)
      BY <1>1, <2>3 DEF SaveRemoval, WriteFile, FileInv, UnderLock, SnapIsFile
    <3>2. file'.profiles = [file.profiles EXCEPT ![job[t].prof] = NoCreds]
      BY <3>1 DEF RemoveProfile
    <3>3. job[t].prof = n
      BY <1>0, <3>2 DEF File
    <3> QED
      BY <2>1, <2>3, <3>3 DEF FileInv, UnderLock, Recorded
  <2> QED
    BY <2>2, <2>3
<1>2. ASSUME MoveAside
      PROVE  faults' > 0 /\ \A r \in Token : r \in live' \cup {0} \/ excused'[r] = Processes
  <2>1. Excuse(Token \ live, Processes) /\ live' = live /\ faults' > 0
    BY <1>0, <1>2 DEF MoveAside, serverVars, Fault, TypeInv, TypeOK
  <2> QED
    BY <1>0, <2>1, ExcuseAll
<1>3. ASSUME NEW t \in Tasks, Saves(t) PROVE file'.profiles[n] \in {file.profiles[n], job[t].got}
  BY <1>0, <1>3 DEF Saves, SetProfile, File
<1>4. ASSUME NEW t \in Tasks, Saves(t) PROVE FALSE
  <2>1. job[t].got # NoCreds
    BY <1>4 DEF Saves, AtSave, FileInv, UnderLock, HasGrant
  <2> QED
    BY <1>3, <1>4, <2>1
<1>5. ASSUME NEW t \in Tasks, TaskStep(t), ~SaveRemoval(t) PROVE FALSE
  <2>1. CASE SaveRefresh(t) \/ SaveLogin(t) \/ SaveConsent(t)
    BY <1>4, <2>1, SavesGrant
  <2>2. CASE SaveDefault(t)
    <3>1. job[t].snap = file
      BY <2>2 DEF FileInv, UnderLock, SnapIsFile, SaveDefault, AtSave
    <3>2. file' = [file EXCEPT !.default = job[t].prof]
      BY <2>2, <3>1 DEF SaveDefault, WriteFile
    <3>3. file'.profiles = file.profiles
      BY <1>0, <3>2 DEF File
    <3> QED
      BY <3>3
  <2>3. CASE UNCHANGED file
    BY <2>3
  <2> QED
    BY <1>5, <2>1, <2>2, <2>3 DEF TaskStep, EnterMutex, RefuseRefresh, AdoptRotated, SendRefresh,
       ServerRotates, AnswerLost, RefreshFails, ScopeRefused, Reload, RefreshNotSaved,
       Authorized, AuthorizationFails, RevokeTokens, Load, LoadRefused, LockTimesOut,
       RecordRevocation, SaveFails, fileVars
<1>6. ASSUME NEW t \in Tasks, Call(t) PROVE FALSE
  BY <1>0, <1>6, CallStarts DEF fileVars
<1>7. ASSUME Environment \/ UNCHANGED vars, ~MoveAside PROVE FALSE
  BY <1>7 DEF Environment, Crash, GetSharedState, Retire, Damage, Repair, ClockTicks, Rest, vars,
     fileVars
<1> QED
  BY <1>1, <1>2, <1>5, <1>6, <1>7 DEF Next

(* The revocation record only grows.                                       *)
LEMMA RevokedGrows ==
  ASSUME TypeInv, [Next]_vars
  PROVE  revoked \subseteq revoked'
<1>1. ASSUME NEW t \in Tasks, RecordRevocation(t) PROVE revoked \subseteq revoked'
  BY <1>1 DEF RecordRevocation, TypeInv, TypeOK
<1>2. ASSUME NEW t \in Tasks, TaskStep(t), ~RecordRevocation(t) PROVE revoked' = revoked
  BY <1>2 DEF TaskStep, EnterMutex, RefuseRefresh, AdoptRotated, SendRefresh, ServerRotates,
     AnswerLost, RefreshFails, ScopeRefused, Reload, SaveRefresh, RefreshNotSaved, Authorized,
     AuthorizationFails, RevokeTokens, Load, LoadRefused, LockTimesOut, SaveLogin, SaveDefault,
     SaveConsent, SaveRemoval, SaveFails, fileVars
<1>3. ASSUME NEW t \in Tasks, Call(t) PROVE revoked' = revoked
  BY <1>3, CallStarts DEF fileVars
<1>4. ASSUME Environment \/ UNCHANGED vars PROVE revoked' = revoked
  BY <1>4 DEF Environment, Crash, GetSharedState, Retire, Damage, Repair, MoveAside, ClockTicks,
     Rest, vars, fileVars
<1> QED
  BY <1>1, <1>2, <1>3, <1>4 DEF Next

(* The grant that is being saved is as good after the step as before it. *)
LEMMA GotStays ==
  ASSUME FileInv, [Next]_vars, NEW t \in Tasks, pc[t] \in {"loaded", "answered"},
         NEW r \in Token, r \in live \cup {0} \/ excused[r] = Processes
  PROVE  r \in live' \cup {0} \/ excused'[r] = Processes
<1>0. TypeInv /\ TypeInv' /\ holder = t /\ pc[t] # "sending"
  BY TypeStep DEF FileInv, LockedWork, Locked
<1>1. excused[r] \subseteq excused'[r] /\ excused'[r] \in SUBSET Processes
  BY <1>0, ExcusedGrows DEF TypeInv, TypeOK
<1>2. ASSUME NEW u \in Tasks, ServerRotates(u) PROVE FALSE
  BY <1>0, <1>2 DEF ServerRotates, FileInv, LockedWork, Locked
<1> QED
  BY <1>0, <1>1, <1>2, LiveEnds

(* A copy that was read from the file or from a cache stays sound, unless  *)
(* its own process keeps a replacement of it: then that process has it in  *)
(* its cache.  The file a step writes is a grant no copy is marked as used *)
(* up for.                                                                 *)
LEMMA KeepSound ==
  ASSUME GrantInv, \A t \in Tasks : GotGood(t), [Next]_vars,
         NEW p \in Processes, NEW n \in Profiles, NEW c \in Creds, NEW u \in Creds,
         c.ref = 0 \/ Seen(n, c.ref), u = NoCreds \/ Public(n, u),
         \A t \in Tasks : RefreshNotSaved(t) /\ P(t) = p => job[t].prof # n,
         Sound(p, n, c, u)
  PROVE  Sound(p, n, c, u)'
<1>0. FileInv /\ TypeInv /\ file.profiles[n] \in Creds /\ revoked \subseteq revoked'
  BY PairTypes, RevokedGrows DEF GrantInv, FileInv
<1> DEFINE r == WouldSend(n, c, u)
<1>1. r \in Token /\ (r = 0 \/ Seen(n, r))
  <2>1. Seen(n, file.profiles[n].ref)
    BY <1>0 DEF Seen, Public
  <2>2. file.profiles[n].ref \in Token /\ c.ref \in Token
    BY <1>0, PairTypes
  <2>3. r \in {file.profiles[n].ref, c.ref}
    BY DEF WouldSend
  <2> QED
    BY <2>1, <2>2, <2>3
<1>2. CASE file'.profiles[n] = file.profiles[n]
  <2>1. CASE LoggedOut(n, file.profiles[n])
    <3>1. file'.profiles[n] = NoCreds /\ n \in revoked'
      BY <1>0, <1>2, <2>1 DEF LoggedOut
    <3> QED
      BY <3>1 DEF Sound, LoggedOut
  <2>2. ASSUME NEW g \in Token, g = r, Good(p, n, g) PROVE Sound(p, n, c, u)'
    <3>1. WouldSend(n, c, u)' = g
      BY <1>2, <2>2 DEF WouldSend
    <3>2. ~Replaces(n, g)
      <4> SUFFICES ASSUME NEW t \in Tasks, Saves(t), Pending(t), job[t].prof = n PROVE FALSE
        BY DEF Replaces
      <4>1. file'.profiles[n] = job[t].got
        BY <1>0 DEF Saves, SetProfile, TypeInv, TypeOK, File
      <4>2. file.profiles[n].acc # job[t].got.acc
        BY <1>0 DEF GrantInv, Private, Holds, Public
      <4> QED
        BY <1>2, <4>1, <4>2
    <3>3. ~KeptBy(p, n, g)
      BY DEF KeptBy
    <3>4. Good(p, n, g)'
      BY <1>1, <2>2, <3>2, <3>3, GoodFlow
    <3> QED
      BY <3>1, <3>4 DEF Sound
  <2> QED
    BY <1>1, <2>1, <2>2 DEF Sound
<1>3. CASE file'.profiles[n] = NoCreds /\ file.profiles[n] # NoCreds
  <2>1. CASE n \in revoked'
    BY <1>3, <2>1 DEF Sound, LoggedOut
  <2>2. CASE \A q \in Token : q \in live' \cup {0} \/ excused'[q] = Processes
    <3>1. WouldSend(n, c, u)' = c.ref
      BY <1>3 DEF WouldSend
    <3>2. c.ref \in Token
      BY DEF Creds
    <3> QED
      BY <2>2, <3>1, <3>2 DEF Sound, Good
  <2> QED
    BY <1>0, <1>3, <2>1, <2>2, RemovalEnds
<1>4. ASSUME NEW t \in Tasks, Spends(t), AtSave(t, Refreshing \cup {"login", "consent"}),
             job[t].prof = n, file'.profiles[n] = job[t].got
      PROVE  Sound(p, n, c, u)'
  <2>1. job[t].got.acc # 0 /\ (u = NoCreds \/ u.acc # job[t].got.acc)
    BY <1>4 DEF GrantInv, Private, Spends
  <2>2. file'.profiles[n] # NoCreds /\ file'.profiles[n] # u
    BY <1>4, <2>1 DEF NoCreds
  <2>3. WouldSend(n, c, u)' = job[t].got.ref
    BY <1>4, <2>2 DEF WouldSend, IsBehind
  <2>4. job[t].got.ref \in Token
    BY <1>0, PairTypes
  <2>5. job[t].got.ref \in live' \cup {0} \/ excused'[job[t].got.ref] = Processes
    BY <1>0, <1>4, <2>4, GotStays DEF GotGood, Spends, AtSave
  <2> QED
    BY <2>3, <2>5 DEF Sound, Good
<1> QED
  BY <1>0, <1>2, <1>3, <1>4, ProfilesMove

(* A grant is good when it is made: a new refresh token is honoured, and   *)
(* one that is kept was honoured when the server answered.  It stays good  *)
(* while a call has it: nobody else can send it.                           *)
LEMMA GotGoodStep ==
  ASSUME SoundInv, [Next]_vars, NEW t \in Tasks
  PROVE  GotGood(t)'
<1>0. /\ FileInv /\ TypeInv /\ TypeInv' /\ OwnRefresh(t) /\ GotGood(t) /\ Private(t)
      /\ MayOmitRefresh \in BOOLEAN
  BY TypeStep, TokenServerAssumption DEF SoundInv, GrantInv, FileInv
<1> SUFFICES ASSUME Holds(t)'
             PROVE  job'[t].got.ref \in live' \cup {0} \/ excused'[job'[t].got.ref] = Processes
  BY DEF GotGood
<1> DEFINE r == job[t].got.ref
<1>1. CASE Keeps(t)
  <2>1. job'[t].got = job[t].got /\ Holds(t) /\ r \in Token
    BY <1>0, <1>1, PairTypes DEF Keeps
  <2>2. excused[r] \subseteq excused'[r] /\ excused'[r] \in SUBSET Processes
    BY <1>0, <2>1, ExcusedGrows DEF TypeInv, TypeOK
  <2>3. ASSUME NEW u \in Tasks, ServerRotates(u), job[u].base.ref = r, r # 0 PROVE FALSE
    <3>1. holder = u /\ pc[u] = "sending"
      BY <1>0, <2>3 DEF ServerRotates, FileInv, LockedWork, Locked
    <3>2. CASE Pending(t)
      BY <1>0, <3>1, <3>2 DEF Pending, FileInv, LockedWork, Locked
    <3>3. CASE ~Pending(t)
      <4>1. r = job[t].got.acc
        BY <1>0, <2>1, <2>3, <3>3 DEF OwnRefresh, Holds
      <4>2. job[u].base \in Creds /\ Public(job[u].prof, job[u].base) /\ job[u].prof \in Profiles
        BY <1>0, PairTypes DEF Public
      <4> QED
        BY <1>0, <2>1, <2>3, <4>1, <4>2 DEF Private
    <3> QED
      BY <3>2, <3>3
  <2>4. r \in live \cup {0} \/ excused[r] = Processes
    BY <1>0, <2>1 DEF GotGood
  <2>5. r \in live /\ r \notin live' => r # 0 /\ excused'[r] = Processes
    BY <1>0, <2>3, LiveEnds DEF TypeInv, TypeOK, ServerTypeOK
  <2> HIDE DEF r
  <2>6. r \in live' \cup {0} \/ excused'[r] = Processes
    BY <2>2, <2>4, <2>5
  <2> QED
    BY <2>1, <2>6 DEF r
<1>2. CASE Granted(t)
  <2>1. \/ ServerRotates(t) \/ Authorized(t)
    <3>1. ASSUME NEW u \in Tasks, TaskStep(u) PROVE ServerRotates(t) \/ Authorized(t)
      <4>1. u = t
        BY <1>0, <1>2, <3>1, OthersStay, OthersCarry DEF Granted, Keeps
      <4>2. granted' # granted
        BY <1>0, <1>2, PairTypes DEF Granted
      <4>3. CASE AnswerLost(u)
        BY <1>0, <1>2, <4>1, <4>3, Ends DEF AnswerLost, Granted, Starts
      <4> QED
        BY <3>1, <4>1, <4>2, <4>3 DEF TaskStep, EnterMutex, RefuseRefresh, AdoptRotated,
           SendRefresh, RefreshFails, ScopeRefused, Reload, SaveRefresh, RefreshNotSaved,
           AuthorizationFails, RevokeTokens, Revoke, Load, LoadRefused, LockTimesOut, SaveLogin,
           SaveDefault, SaveConsent, RecordRevocation, SaveRemoval, SaveFails, serverVars
    <3>2. ASSUME NEW u \in Tasks, Call(u) PROVE FALSE
      <4>1. granted' = granted
        BY <1>0, <3>2, CallStarts DEF serverVars
      <4> QED
        BY <1>0, <1>2, <4>1, PairTypes DEF Granted
    <3>3. ASSUME Environment \/ UNCHANGED vars PROVE FALSE
      BY <1>0, <1>2, <3>3, OtherwiseMoves, PairTypes DEF Granted
    <3> QED
      BY <3>1, <3>2, <3>3 DEF Next
  <2>2. job[t] \in Job /\ job[t].base \in Creds /\ New.ref = granted + 1
    BY <1>0, PairTypes DEF TypeInv, TypeOK, New
  <2>3. CASE ServerRotates(t)
    <3>1. PICK creds \in RefreshAnswers :
             /\ Rotate(job[t].base.ref, creds)
             /\ job' = [job EXCEPT ![t].got = WithRefreshed(job[t].base, creds)]
      BY <2>3 DEF ServerRotates
    <3>2. job'[t].got = WithRefreshed(job[t].base, creds)
      BY <1>0, <3>1 DEF TypeInv, TypeOK, Job
    <3>3. CASE creds.ref # 0
      BY <3>1, <3>2, <3>3 DEF WithRefreshed, Rotate
    <3>4. CASE creds.ref = 0
      <4>1. creds = [New EXCEPT !.ref = 0]  \/ creds = New
        BY <3>1 DEF RefreshAnswers
      <4>2. job'[t].got.ref = job[t].base.ref
        BY <3>2, <3>4, <4>1 DEF WithRefreshed, New
      <4> QED
        BY <3>1, <3>4, <4>2 DEF Rotate
    <3> QED
      BY <3>3, <3>4
  <2>4. CASE Authorized(t)
    <3>1. PICK creds \in LoginAnswers :
             /\ Grant(creds)
             /\ job' = [job EXCEPT ![t].got = WithRefreshed(job[t].base, creds)]
      BY <2>4 DEF Authorized
    <3>2. job'[t].got = WithRefreshed(job[t].base, creds)
      BY <1>0, <3>1 DEF TypeInv, TypeOK, Job
    <3>3. CASE creds.ref # 0
      BY <3>1, <3>2, <3>3 DEF WithRefreshed, Grant
    <3>4. CASE creds.ref = 0
      <4>1. creds = [New EXCEPT !.ref = 0]  /\ MayOmitRefresh
        <5>1. granted \in Nat /\ New.ref # 0
          BY <1>0, <2>2, PairTypes
        <5> QED
          BY <3>1, <3>4, <5>1 DEF LoginAnswers
      <4>2. job[t].op = "login"
        BY <1>0, <2>4, <4>1 DEF Authorized, OwnRefresh, TypeInv, OpsAt
      <4>3. job[t].base = NoCreds
        BY <1>0, <4>2 DEF OwnRefresh
      <4>4. job'[t].got.ref = 0
        BY <3>2, <3>4, <4>1, <4>3 DEF WithRefreshed, New, NoCreds
      <4> QED
        BY <4>4
    <3> QED
      BY <3>3, <3>4
  <2> QED
    BY <2>1, <2>3, <2>4
<1> QED
  BY <1>0, <1>1, <1>2, AllJobsMove DEF JobMoves, Starts

(* Two refreshes of one process are not past its mutex together. *)
LEMMA OneAtATime ==
  ASSUME FileInv, NEW t \in Tasks, NEW u \in Tasks, P(t) = P(u),
         pc[t] \in {"lock", "sending", "answered", "loaded"}, job[t].op \in Refreshing,
         pc[u] \in {"lock", "sending", "answered", "loaded"}, job[u].op \in Refreshing
  PROVE  t = u
BY DEF FileInv, TypeInv, HeadRuns

(* Where a refresh is whose grant is not saved.                            *)
LEMMA NotSavedAt ==
  ASSUME FileInv, NEW t \in Tasks, RefreshNotSaved(t)
  PROVE  /\ pc[t] \in {"answered", "loaded"} /\ job[t].op \in Refreshing /\ holder = t
         /\ KeepUnsaved(t) /\ UNCHANGED file
BY DEF RefreshNotSaved, fileVars, FileInv, TypeInv, OpsAt, LockedWork, Locked

(* What a refresh read under the lock stays on file until it writes, or    *)
(* the profile is removed.                                                 *)
LEMMA PrevReadStep ==
  ASSUME FileInv, [Next]_vars, NEW t \in Tasks, PrevRead(t)
  PROVE  PrevRead(t)'
<1> SUFFICES ASSUME pc'[t] \in {"sending", "answered", "loaded"}, job'[t].op \in Refreshing
             PROVE  file'.profiles[job'[t].prof] \in {job'[t].prev, NoCreds}
  BY DEF PrevRead, OnFile
<1>0. TypeInv /\ job[t].prof \in Profiles
  BY PairTypes DEF FileInv
<1>1. RefreshMoves(t)
  BY <1>0, AllRefreshMoves
<1>2. CASE SendRefresh(t)
  <2>1. pc[t] = "lock" /\ file' = file
    BY <1>2 DEF SendRefresh, AtLock, fileVars
  <2>2. job'[t].prof = job[t].prof /\ job'[t].prev = OnFile(t)
    BY <1>1, <2>1 DEF RefreshMoves, SameCall, EnterMutex, ServerRotates, Reload
  <2> QED
    BY <2>1, <2>2 DEF OnFile
<1>3. CASE /\ pc[t] \in {"sending", "answered", "loaded"} /\ job[t].op \in Refreshing
           /\ job'[t].prof = job[t].prof /\ job'[t].prev = job[t].prev
  <2>1. OnFile(t) \in {job[t].prev, NoCreds} /\ holder = t
    BY <1>3 DEF PrevRead, FileInv, LockedWork, Locked
  <2>2. ASSUME NEW u \in Tasks, Spends(u), AtSave(u, Refreshing \cup {"login", "consent"})
        PROVE  FALSE
    <3>1. u = t /\ pc[t] = "loaded"
      BY <2>1, <2>2 DEF AtSave, FileInv, LockedWork, Locked
    <3> QED
      BY <1>1, <2>2, <3>1 DEF RefreshMoves, SameCall, Spends, Starts, Holds, Pending, EnterMutex,
         SendRefresh, AtLock, ServerRotates, Reload
  <2>3. file'.profiles[job[t].prof] \in {file.profiles[job[t].prof], NoCreds}
    BY <1>0, <2>2, ProfilesMove
  <2> QED
    BY <1>3, <2>1, <2>3 DEF OnFile
<1>4. CASE ServerRotates(t) \/ Reload(t)
  BY <1>0, <1>1, <1>3, <1>4 DEF RefreshMoves, SameCall, ServerRotates, Reload, TypeInv, OpsAt,
     EnterMutex, SendRefresh, AtLock
<1> QED
  BY <1>1, <1>2, <1>3, <1>4 DEF RefreshMoves, SameCall

(* A refresh has been sent that was sound to send. *)
LEMMA SendingStep ==
  ASSUME SoundInv, [Next]_vars, NEW t \in Tasks, pc'[t] = "sending"
  PROVE  SoundToSend(t)'
<1>0. /\ FileInv /\ TypeInv /\ TypeInv' /\ P(t) \in Processes /\ job[t].prof \in Profiles
      /\ GrantInv
  BY PairTypes, TypeStep DEF SoundInv, GrantInv, FileInv
<1>1. RefreshMoves(t) /\ job'[t].op \in Refreshing
  BY <1>0, AllRefreshMoves DEF TypeInv, OpsAt
<1>2. ASSUME NEW r \in Token, r = job'[t].base.ref, NEW n \in Profiles, n = job'[t].prof,
             r # 0, Good(P(t), n, r), Seen(n, r), ~Replaces(n, r), ~KeptBy(P(t), n, r)
      PROVE  SoundToSend(t)'
  <2>1. Good(P(t), n, r)'
    BY <1>0, <1>2, GoodFlow
  <2> QED
    BY <1>2, <2>1 DEF Good, SoundToSend
<1>3. CASE pc[t] = "sending" /\ job'[t] = job[t]
  <2>1. /\ job[t].base \in Creds /\ job[t].base.ref \in Token /\ job[t].base.ref # 0
        /\ Good(P(t), job[t].prof, job[t].base.ref)
    BY <1>0, <1>3, PairTypes DEF SoundInv, SoundToSend
  <2>2. Seen(job[t].prof, job[t].base.ref)
    BY <2>1 DEF Seen, Public
  <2>3. holder = t
    BY <1>0, <1>3 DEF FileInv, LockedWork, Locked
  <2>4. ASSUME NEW u \in Tasks, Pending(u) \/ RefreshNotSaved(u) PROVE FALSE
    BY <1>0, <1>3, <2>3, <2>4, NotSavedAt DEF Pending, FileInv, LockedWork, Locked
  <2> QED
    BY <1>0, <1>2, <1>3, <2>1, <2>2, <2>4 DEF Replaces, KeptBy
<1>4. CASE SendRefresh(t)
  <2>1. /\ job'[t].prof = job[t].prof /\ job'[t].base = Base(t) /\ pc[t] = "lock" /\ holder = Free
        /\ job[t].op \in Refreshing
    BY <1>1, <1>4 DEF RefreshMoves, SameCall, SendRefresh, AtLock, EnterMutex, ServerRotates,
       Reload, Lock!Acquire
  <2>2. Sound(P(t), job[t].prof, job[t].base, job[t].used)
    BY <1>4 DEF SoundInv, SendRefresh
  <2>3. ~LoggedOut(job[t].prof, OnFile(t)) /\ Base(t).ref # 0
    BY <1>4 DEF SendRefresh, Refused
  <2>4. WouldSend(job[t].prof, job[t].base, job[t].used) = Base(t).ref
    BY DEF WouldSend, Base, Disk, OnFile
  <2>5. Good(P(t), job[t].prof, Base(t).ref)
    BY <2>2, <2>3, <2>4 DEF Sound, OnFile
  <2>6. Base(t) \in Creds /\ Base(t).ref \in Token
    BY <1>0, PairTypes, BaseIsRead DEF OnFile
  <2>7. Seen(job[t].prof, Base(t).ref)
    BY <2>6, BaseIsRead DEF Seen, Public, OnFile
  <2>8. ASSUME NEW u \in Tasks, Pending(u) \/ RefreshNotSaved(u) PROVE FALSE
    BY <1>0, <2>1, <2>8, NotSavedAt, CredentialsAssumption DEF Pending, FileInv, LockedWork, Locked
  <2> QED
    BY <1>0, <1>2, <2>1, <2>3, <2>5, <2>6, <2>7, <2>8 DEF Replaces, KeptBy
<1> QED
  BY <1>1, <1>3, <1>4 DEF RefreshMoves, SameCall

(* The refresh token of a pair in use is one in use.                       *)
LEMMA CacheSeen ==
  ASSUME TypeInv, NEW n \in Profiles, NEW c \in Creds, Public(n, c)
  PROVE  c.ref = 0 \/ Seen(n, c.ref)
BY DEF Seen

(* A copy that is read now is as sound as the one it is read from. *)
LEMMA AtLockStep ==
  ASSUME SoundInv, [Next]_vars, NEW t \in Tasks, AtLock(t, Refreshing)'
  PROVE  Sound(P(t), job[t].prof, job[t].base, job[t].used)'
<1>0. /\ FileInv /\ TypeInv /\ TypeInv' /\ P(t) \in Processes /\ job[t].prof \in Profiles
      /\ GrantInv /\ \A u \in Tasks : GotGood(u)
  BY PairTypes, TypeStep DEF SoundInv, GrantInv, FileInv
<1>1. RefreshMoves(t) /\ job'[t].op \in Refreshing /\ pc'[t] = "lock"
  BY <1>0, AllRefreshMoves DEF AtLock
<1>2. ASSUME NEW n \in Profiles, n = job[t].prof, n = job'[t].prof,
             NEW c \in Creds, c = job'[t].base, NEW d \in Creds, d = job'[t].used,
             Public(n, c), Public(n, d), Sound(P(t), n, c, d),
             \A u \in Tasks : RefreshNotSaved(u) => P(u) # P(t)
      PROVE  Sound(P(t), job[t].prof, job[t].base, job[t].used)'
  <2>1. Sound(P(t), n, c, d)'
    BY <1>0, <1>2, CacheSeen, KeepSound
  <2> QED
    BY <1>2, <2>1 DEF Sound, Good, WouldSend
<1>3. CASE pc[t] = "lock" /\ job'[t] = job[t]
  <2>1. \A u \in Tasks : RefreshNotSaved(u) => P(u) # P(t)
    BY <1>0, <1>1, <1>3, NotSavedAt, OneAtATime
  <2>2. Sound(P(t), job[t].prof, job[t].base, job[t].used)
    BY <1>1, <1>3 DEF SoundInv, AtLock
  <2> QED
    BY <1>0, <1>2, <1>3, <2>1, <2>2, PairTypes DEF Public
<1>4. CASE EnterMutex(t)
  <2>1. /\ job'[t].prof = job[t].prof /\ job'[t].base = Cache(t).creds
        /\ job'[t].used = Cache(t).used
    BY <1>0, <1>1, <1>4 DEF RefreshMoves, SameCall, EnterMutex, ServerRotates, Reload,
       SendRefresh, AtLock
  <2>2. \A u \in Tasks : ~RefreshNotSaved(u)
    <3>1. pc[t] = "queued" /\ pc'[t] = "lock"
      BY <1>1, <1>4 DEF EnterMutex
    <3>2. ASSUME NEW u \in Tasks, RefreshNotSaved(u) PROVE FALSE
      BY <1>0, <3>1, <3>2, OthersStay, NotSavedAt, Ends DEF RefreshNotSaved, TaskStep
    <3> QED
      BY <3>2
  <2>3. Sound(P(t), job[t].prof, Cache(t).creds, Cache(t).used)
    BY <1>0 DEF SoundInv, Cache
  <2> QED
    BY <1>0, <1>2, <2>1, <2>2, <2>3, PairTypes DEF Public, Cache
<1> QED
  BY <1>1, <1>3, <1>4 DEF RefreshMoves, SameCall, SendRefresh, ServerRotates, Reload

-----------------------------------------------------------------------------
(* The caches stay sound.                                                  *)

(* A process that keeps an unsaved grant has it in its cache. *)
LEMMA KeptInCache ==
  ASSUME GrantInv, NEW t \in Tasks, RefreshNotSaved(t)
  PROVE  /\ mem'[P(t)][job[t].prof] = [creds |-> job[t].got, used |-> job[t].prev]
         /\ job[t].got # NoCreds /\ job[t].got \in Creds
         /\ \A n \in Profiles : ~Public(n, job[t].got)
<1>0. FileInv /\ TypeInv /\ job[t].got \in Creds /\ P(t) \in Processes /\ job[t].prof \in Profiles
  BY PairTypes DEF GrantInv, FileInv
<1>1. Pending(t) /\ KeepUnsaved(t)
  BY <1>0, NotSavedAt DEF Pending
<1>2. mem'[P(t)][job[t].prof] = [creds |-> job[t].got, used |-> job[t].prev]
  BY <1>0, <1>1, SetsCache DEF KeepUnsaved
<1>3. Holds(t)
  BY <1>1 DEF Holds
<1> QED
  BY <1>0, <1>2, <1>3 DEF GrantInv, Private, NoCreds

(* What a cache holds after a step is as sound as it was before it.        *)
LEMMA SoundCopy ==
  ASSUME SoundInv, [Next]_vars, NEW p \in Processes, NEW n \in Profiles,
         NEW c \in Creds, NEW d \in Creds, mem'[p][n].creds \in {c, NoCreds},
         c = NoCreds \/ Public(n, c), d = NoCreds \/ Public(n, d), Sound(p, n, c, d)
  PROVE  Sound(p, n, c, d)'
<1>0. GrantInv /\ TypeInv /\ \A u \in Tasks : GotGood(u)
  BY DEF SoundInv, GrantInv, FileInv
<1>1. \A t \in Tasks : RefreshNotSaved(t) /\ P(t) = p => job[t].prof # n
  <2> SUFFICES ASSUME NEW t \in Tasks, RefreshNotSaved(t), P(t) = p, job[t].prof = n PROVE FALSE
    OBVIOUS
  <2>1. /\ mem'[P(t)][job[t].prof] = [creds |-> job[t].got, used |-> job[t].prev]
        /\ job[t].got # NoCreds /\ \A m \in Profiles : ~Public(m, job[t].got)
    BY <1>0, KeptInCache
  <2>2. mem'[p][n].creds = job[t].got
    BY <2>1
  <2> QED
    BY <2>1, <2>2
<1>2. c.ref = 0 \/ Seen(n, c.ref)
  BY <1>0, CacheSeen DEF NoCreds
<1> QED
  BY <1>0, <1>1, <1>2, KeepSound

(* What the caches of a sound state hold. *)
LEMMA CachesSound ==
  ASSUME SoundInv, NEW p \in Processes, NEW n \in Profiles
  PROVE  /\ mem[p][n] \in Cached /\ mem[p][n].creds \in Creds /\ mem[p][n].used \in Creds
         /\ Public(n, mem[p][n].creds) /\ Public(n, mem[p][n].used)
         /\ Sound(p, n, mem[p][n].creds, mem[p][n].used)
         /\ file.profiles[n] \in Creds /\ Public(n, file.profiles[n])
BY PairTypes DEF SoundInv, GrantInv, FileInv, Public

(* A cache that does not change stays sound.                               *)
LEMMA SameCache ==
  ASSUME SoundInv, [Next]_vars, NEW p \in Processes, NEW n \in Profiles, mem'[p][n] = mem[p][n]
  PROVE  Sound(p, n, mem[p][n].creds, mem[p][n].used)'
<1>1. ASSUME NEW c \in Creds, c = mem[p][n].creds, NEW d \in Creds, d = mem[p][n].used
      PROVE  Sound(p, n, mem[p][n].creds, mem[p][n].used)'
  <2>1. Sound(p, n, c, d)'
    BY <1>1, CachesSound, SoundCopy
  <2>2. mem'[p][n].creds = c /\ mem'[p][n].used = d
    BY <1>1
  <2> QED
    BY <2>1, <2>2 DEF Sound, Good, WouldSend
<1> QED
  BY <1>1, CachesSound

(* A cache that is read from the file is as sound as the file.             *)
LEMMA ReadCache ==
  ASSUME SoundInv, [Next]_vars, NEW p \in Processes, NEW n \in Profiles,
         mem'[p][n] = [creds |-> file.profiles[n], used |-> NoCreds],
         file.profiles[n] # NoCreds,
         Good(p, n, file.profiles[n].ref)
  PROVE  Sound(p, n, mem[p][n].creds, mem[p][n].used)'
<1>1. ASSUME NEW c \in Creds, c = file.profiles[n]
      PROVE  Sound(p, n, mem[p][n].creds, mem[p][n].used)'
  <2>0. NoCreds \in Creds
    BY ConstantTypes
  <2>1. Sound(p, n, c, NoCreds)
    BY <1>1 DEF Sound, WouldSend, IsBehind, NoCreds
  <2>2. Sound(p, n, c, NoCreds)'
    BY <1>1, <2>0, <2>1, CachesSound, SoundCopy
  <2>3. mem'[p][n].creds = c /\ mem'[p][n].used = NoCreds
    BY <1>1
  <2> QED
    BY <2>2, <2>3 DEF Sound, Good, WouldSend
<1> QED
  BY <1>1, CachesSound

(* A client that is constructed, or a command that reads the file, finds   *)
(* it sound unless it has marked it as used up.                            *)
LEMMA LoadsSound ==
  ASSUME SoundInv, [Next]_vars, NEW q \in Processes, NEW m \in Profiles, Loads(q, m),
         NEW p \in Processes, NEW n \in Profiles
  PROVE  Sound(p, n, mem[p][n].creds, mem[p][n].used)'
<1>0. TypeInv
  BY DEF SoundInv, GrantInv, FileInv
<1>1. CASE mem'[p][n] = mem[p][n]
  BY <1>1, SameCache
<1>2. CASE mem'[p][n] # mem[p][n]
  <2>1. /\ p = q /\ n = m /\ mem'[p][n] = SharedState(mem[p][n], file.profiles[n])
        /\ file.profiles[n] # NoCreds
    BY <1>0, <1>2, LoadsCache DEF Loads, HasProfile
  <2>2. /\ ~IsBehind(file.profiles[n], mem[p][n].used)
        /\ mem'[p][n] = [creds |-> file.profiles[n], used |-> NoCreds]
    BY <1>2, <2>1 DEF SharedState
  <2>3. Good(p, n, file.profiles[n].ref)
    BY <2>1, <2>2, CachesSound DEF Sound, WouldSend, LoggedOut
  <2> QED
    BY <2>1, <2>2, <2>3, ReadCache
<1> QED
  BY <1>1, <1>2

(* A process that has died begins from the file, and what it had used up   *)
(* and not saved is excused.                                               *)
LEMMA ForgottenSound ==
  ASSUME SoundInv, [Next]_vars, NEW ps \in SUBSET Processes, NEW p \in ps, NEW n \in Profiles,
         mem'[p][n] = NotCached, UNCHANGED <<file, live>>, Excuse(Orphaned(ps) \ live, Processes)
  PROVE  Sound(p, n, mem[p][n].creds, mem[p][n].used)'
<1>0. TypeInv /\ p \in Processes
  BY DEF SoundInv, GrantInv, FileInv
<1>1. mem'[p][n].creds = NoCreds /\ mem'[p][n].used = NoCreds
  BY DEF NotCached
<1>2. ASSUME NEW f \in Creds, f = file.profiles[n]
      PROVE  LoggedOut(n, f)' \/ f = NoCreds \/ Good(p, n, f.ref)'
  <2>1. CASE IsBehind(f, mem[p][n].used)
    <3>1. f.ref \in Orphaned(ps) /\ f.ref # 0 /\ f.ref \in Token
      BY <1>2, <2>1, PairTypes, <1>0 DEF IsBehind, Orphaned
    <3>2. CASE f.ref \in live
      BY <3>2 DEF Good
    <3>3. CASE f.ref \notin live
      <4>1. excused'[f.ref] = Processes
        BY <1>0, <3>1, <3>3, ExcuseAll
      <4> QED
        BY <1>0, <4>1 DEF Good
    <3> QED
      BY <3>2, <3>3
  <2>2. CASE ~IsBehind(f, mem[p][n].used) /\ f # NoCreds
    <3>1. ASSUME NEW c \in Creds, c = mem[p][n].creds, NEW d \in Creds, d = mem[p][n].used
          PROVE  Sound(p, n, c, d)'
      BY <1>0, <1>1, <3>1, CachesSound, SoundCopy
    <3>2. ASSUME NEW c \in Creds, c = mem[p][n].creds, NEW d \in Creds, d = mem[p][n].used
          PROVE  LoggedOut(n, f)' \/ Good(p, n, f.ref)'
      <4>1. file'.profiles[n] = f /\ f # NoCreds /\ ~IsBehind(f, d)
        BY <1>2, <2>2, <3>2
      <4>2. WouldSend(n, c, d)' = f.ref
        BY <4>1 DEF WouldSend, IsBehind
      <4> QED
        BY <3>1, <3>2, <4>1, <4>2 DEF Sound, LoggedOut
    <3> QED
      BY <1>0, <3>2, CachesSound
  <2> QED
    BY <2>1, <2>2
<1>3. ASSUME NEW f \in Creds, f = file.profiles[n],
             LoggedOut(n, f)' \/ f = NoCreds \/ Good(p, n, f.ref)'
      PROVE  Sound(p, n, NoCreds, NoCreds)'
  <2>1. file'.profiles[n] = f
    BY <1>3
  <2>2. WouldSend(n, NoCreds, NoCreds)' = IF f # NoCreds THEN f.ref ELSE 0
    BY <2>1 DEF WouldSend, IsBehind, NoCreds
  <2> QED
    BY <1>3, <2>1, <2>2 DEF Sound, LoggedOut, Good
<1>4. Sound(p, n, NoCreds, NoCreds)'
  BY <1>0, <1>2, <1>3, CachesSound
<1> QED
  BY <1>1, <1>4 DEF Sound, WouldSend, Good

(* The grant of a call that ends is as good after the step as before it. *)
LEMMA SpentGood ==
  ASSUME SoundInv, [Next]_vars, NEW t \in Tasks, TaskStep(t), Holds(t), NEW p \in Processes,
         NEW n \in Profiles, NEW g \in Token, g = job[t].got.ref
  PROVE  Good(p, n, g)'
<1>0. FileInv /\ TypeInv /\ TypeInv' /\ GotGood(t)
  BY TypeStep DEF SoundInv, GrantInv, FileInv
<1>1. ASSUME NEW u \in Tasks, ServerRotates(u) PROVE FALSE
  <2>1. pc[u] = "sending" /\ pc'[u] = "answered"
    BY <1>0, <1>1 DEF ServerRotates, Goto, TypeInv, TypeOK
  <2>2. u = t
    BY <1>0, <2>1, OthersStay
  <2> QED
    BY <2>1, <2>2 DEF Holds, Pending
<1>2. g \in live => g \in live' \/ excused'[g] = Processes
  BY <1>0, <1>1, LiveEnds
<1>3. excused[g] \subseteq excused'[g] /\ excused'[g] \in SUBSET Processes
  BY <1>0, ExcusedGrows DEF TypeInv, TypeOK
<1>4. g \in live \cup {0} \/ excused[g] = Processes
  BY <1>0 DEF GotGood
<1> QED
  BY <1>2, <1>3, <1>4 DEF Good

(* A grant that is saved is what the file and the cache then hold.         *)
LEMMA SavesSound ==
  ASSUME SoundInv, [Next]_vars, NEW t \in Tasks, TaskStep(t), Saves(t),
         NEW p \in Processes, NEW n \in Profiles
  PROVE  Sound(p, n, mem[p][n].creds, mem[p][n].used)'
<1>0. /\ FileInv /\ TypeInv /\ P(t) \in Processes /\ job[t].prof \in Profiles
      /\ job[t].got \in Creds /\ job[t].got.ref \in Token /\ file \in File
  BY PairTypes DEF SoundInv, GrantInv, FileInv, TypeInv, TypeOK
<1>1. CASE mem'[p][n] = mem[p][n]
  BY <1>1, SameCache
<1>2. CASE mem'[p][n] # mem[p][n]
  <2>1. /\ n = job[t].prof /\ p = P(t)
        /\ mem'[p][n] = [creds |-> job[t].got, used |-> NoCreds]
    BY <1>0, <1>2, SetsCache DEF Saves
  <2>2. file'.profiles[n] = job[t].got
    BY <1>0, <2>1 DEF Saves, SetProfile, File
  <2>3. Holds(t)
    BY DEF Saves, AtSave, Holds, Pending
  <2>4. ASSUME NEW g \in Token, g = job[t].got.ref
        PROVE  Sound(p, n, mem[p][n].creds, mem[p][n].used)'
    <3>1. Good(p, n, g)'
      BY <2>3, <2>4, SpentGood
    <3>2. WouldSend(n, mem[p][n].creds, mem[p][n].used)' = g
      BY <2>1, <2>2, <2>4 DEF WouldSend
    <3> QED
      BY <3>1, <3>2 DEF Sound, Good
  <2> QED
    BY <1>0, <2>4
<1> QED
  BY <1>1, <1>2

(* A grant that could not be saved is what its process goes on with: the   *)
(* file is behind it, or has been replaced by another.                     *)
LEMMA KeepsSound ==
  ASSUME SoundInv, [Next]_vars, NEW t \in Tasks, TaskStep(t), KeepsInMemory(t),
         NEW p \in Processes, NEW n \in Profiles
  PROVE  Sound(p, n, mem[p][n].creds, mem[p][n].used)'
<1>0. /\ FileInv /\ TypeInv /\ GrantInv /\ P(t) \in Processes /\ job[t].prof \in Profiles
      /\ job[t].got \in Creds /\ job[t].got.ref \in Token /\ file' = file
      /\ \A u \in Tasks : GotGood(u)
  BY PairTypes DEF SoundInv, GrantInv, FileInv, KeepsInMemory
<1>1. CASE mem'[p][n] = mem[p][n]
  BY <1>1, SameCache
<1>2. Holds(t)
  BY DEF KeepsInMemory, Holds, Pending
<1>3. ASSUME mem'[p][n] # mem[p][n], NEW x, SetCache(t, x)
      PROVE  n = job[t].prof /\ p = P(t) /\ mem'[p][n] = x
  BY <1>0, <1>3, SetsCache
(* What it would send is the grant it has kept, or what is on file.        *)
<1>4. ASSUME NEW d, mem'[p][n] = [creds |-> job[t].got, used |-> d],
             ~IsBehind(file.profiles[n], d) /\ file.profiles[n] # NoCreds =>
                LoggedOut(n, file.profiles[n])' \/ Good(p, n, file.profiles[n].ref)'
      PROVE  Sound(p, n, mem[p][n].creds, mem[p][n].used)'
  <2>1. ASSUME NEW g \in Token, g = job[t].got.ref PROVE Good(p, n, g)'
    BY <1>2, <2>1, SpentGood
  <2>2. /\ mem'[p][n].creds = job[t].got /\ mem'[p][n].used = d
        /\ file'.profiles[n] = file.profiles[n]
    BY <1>0, <1>4
  <2>3. CASE ~IsBehind(file.profiles[n], d) /\ file.profiles[n] # NoCreds
    <3>1. ~IsBehind(file'.profiles[n], d)
      BY <2>2, <2>3 DEF IsBehind
    <3>2. WouldSend(n, mem[p][n].creds, mem[p][n].used)' = file'.profiles[n].ref
      BY <2>2, <2>3, <3>1 DEF WouldSend, IsBehind
    <3> QED
      BY <1>4, <2>2, <2>3, <3>2 DEF Sound, Good, LoggedOut
  <2>4. CASE IsBehind(file.profiles[n], d) \/ file.profiles[n] = NoCreds
    <3>1. WouldSend(n, mem[p][n].creds, mem[p][n].used)' = job[t].got.ref
      BY <2>2, <2>4 DEF WouldSend, IsBehind
    <3> QED
      BY <1>0, <2>1, <3>1 DEF Sound, Good
  <2> QED
    BY <2>3, <2>4
<1>5. ASSUME mem'[p][n] # mem[p][n], pc[t] \in {"answered", "loaded"}, job[t].op \in Refreshing,
             KeepUnsaved(t)
      PROVE  Sound(p, n, mem[p][n].creds, mem[p][n].used)'
  <2>1. n = job[t].prof /\ mem'[p][n] = [creds |-> job[t].got, used |-> job[t].prev]
    BY <1>3, <1>5 DEF KeepUnsaved
  <2>2. file.profiles[n] \in {job[t].prev, NoCreds}
    BY <1>5, <2>1 DEF SoundInv, PrevRead, OnFile
  <2>3. ~IsBehind(file.profiles[n], job[t].prev) /\ file.profiles[n] # NoCreds
           => file'.profiles[n].ref = 0
    BY <1>0, <2>2 DEF IsBehind
  <2>4. ~IsBehind(file.profiles[n], job[t].prev) /\ file.profiles[n] # NoCreds
           => Good(p, n, file.profiles[n].ref)'
    BY <2>3 DEF Good
  <2> QED
    BY <1>4, <2>1, <2>4
<1>6. ASSUME mem'[p][n] # mem[p][n], job[t].op = "consent", KeepConsent(t)
      PROVE  Sound(p, n, mem[p][n].creds, mem[p][n].used)'
  <2> DEFINE d == IF mem[p][n].used.ref # 0 THEN mem[p][n].used ELSE job[t].base
  <2>1. n = job[t].prof /\ p = P(t)
    BY <1>3, <1>6 DEF KeepConsent
  <2>2. mem'[p][n] = [creds |-> job[t].got, used |-> d]
    BY <1>3, <1>6, <2>1 DEF KeepConsent, Cache
  <2>3. ASSUME NEW c \in Creds, c = mem[p][n].creds, NEW e \in Creds, e = mem[p][n].used
        PROVE  Sound(p, n, c, e)'
    <3>1. ASSUME NEW u \in Tasks, RefreshNotSaved(u) PROVE FALSE
      <4>1. pc[u] # pc'[u] /\ job[u].op \in Refreshing
        BY <1>0, <3>1, Ends, NotSavedAt DEF RefreshNotSaved
      <4>2. u = t
        BY <1>0, <4>1, OthersStay
      <4> QED
        BY <1>6, <4>1, <4>2 DEF Refreshing
    <3> QED
      BY <1>0, <2>3, <3>1, CachesSound, CacheSeen, KeepSound
  <2>4. ASSUME ~IsBehind(file.profiles[n], d), file.profiles[n] # NoCreds
        PROVE  LoggedOut(n, file.profiles[n])' \/ Good(p, n, file.profiles[n].ref)'
    <3>1. ~IsBehind(file.profiles[n], mem[p][n].used)
      BY <2>4 DEF IsBehind
    <3>2. ASSUME NEW c \in Creds, c = mem[p][n].creds, NEW e \in Creds, e = mem[p][n].used
          PROVE  LoggedOut(n, file.profiles[n])' \/ Good(p, n, file.profiles[n].ref)'
      <4>1. file'.profiles[n] = file.profiles[n] /\ ~IsBehind(file'.profiles[n], e)
        BY <1>0, <3>1, <3>2 DEF IsBehind
      <4>2. WouldSend(n, c, e)' = file'.profiles[n].ref
        BY <2>4, <4>1 DEF WouldSend, IsBehind
      <4> QED
        BY <2>3, <3>2, <4>2 DEF Sound, Good, LoggedOut
    <3> QED
      BY <3>2, CachesSound
  <2> HIDE DEF d
  <2> QED
    BY <1>4, <2>2, <2>4
<1> QED
  BY <1>1, <1>5, <1>6 DEF KeepsInMemory

(* A refresh that adopts what it finds on file finds it sound.             *)
LEMMA AdoptsSound ==
  ASSUME SoundInv, [Next]_vars, NEW t \in Tasks, AdoptRotated(t),
         NEW p \in Processes, NEW n \in Profiles
  PROVE  Sound(p, n, mem[p][n].creds, mem[p][n].used)'
<1>0. TypeInv
  BY DEF SoundInv, GrantInv, FileInv
<1>1. CASE mem'[p][n] = mem[p][n]
  BY <1>1, SameCache
<1>2. CASE mem'[p][n] # mem[p][n]
  <2>1. /\ Disk(t) # NoCreds /\ AtLock(t, Refreshing) /\ ~Refused(t)
        /\ SetCache(t, [creds |-> Disk(t), used |-> NoCreds])
    BY DEF AdoptRotated, Adopts
  <2>2. /\ p = P(t) /\ n = job[t].prof
        /\ mem'[p][n] = [creds |-> Disk(t), used |-> NoCreds]
    BY <1>0, <1>2, <2>1, SetsCache
  <2>3. /\ Disk(t) = file.profiles[n] /\ file.profiles[n] # NoCreds
        /\ ~IsBehind(file.profiles[n], job[t].used)
    BY <2>1, <2>2 DEF Disk, OnFile
  <2>4. Good(p, n, file.profiles[n].ref)
    BY <2>1, <2>2, <2>3 DEF SoundInv, Sound, WouldSend, LoggedOut
  <2> QED
    BY <2>2, <2>3, <2>4, ReadCache
<1> QED
  BY <1>1, <1>2

(* Every step leaves every cache sound.                                    *)
LEMMA CachesStaySound ==
  ASSUME SoundInv, [Next]_vars, NEW p \in Processes, NEW n \in Profiles
  PROVE  Sound(p, n, mem[p][n].creds, mem[p][n].used)'
<1>0. FileInv /\ TypeInv
  BY DEF SoundInv, GrantInv, FileInv
<1>1. ASSUME NEW t \in Tasks, TaskStep(t)
      PROVE  Sound(p, n, mem[p][n].creds, mem[p][n].used)'
  <2>1. CASE UNCHANGED mem
    BY <2>1, SameCache
  <2> QED
    BY <1>0, <1>1, <2>1, MemoryMoves, SavesSound, KeepsSound, AdoptsSound
<1>2. ASSUME NEW t \in Tasks, Call(t)
      PROVE  Sound(p, n, mem[p][n].creds, mem[p][n].used)'
  <2>1. P(t) \in Processes
    BY CredentialsAssumption DEF P
  <2> QED
    BY <1>0, <1>2, <2>1, CallsStart, SameCache, LoadsSound
<1>3. ASSUME Environment \/ UNCHANGED vars
      PROVE  Sound(p, n, mem[p][n].creds, mem[p][n].used)'
  <2>1. ASSUME NEW q \in Processes, Crash(q)
        PROVE  Sound(p, n, mem[p][n].creds, mem[p][n].used)'
    <3>1. /\ mem' = [mem EXCEPT ![q] = [m \in Profiles |-> NotCached]]
          /\ Excuse(Orphaned({q}) \ live, Processes) /\ UNCHANGED <<file, live>>
      BY <2>1 DEF Crash, fileVars, serverVars
    <3>2. mem \in [Processes -> [Profiles -> Cached]]
      BY <1>0 DEF TypeInv, TypeOK
    <3>3. CASE p = q
      <4>1. mem'[p][n] = NotCached
        BY <3>1, <3>2, <3>3
      <4> QED
        BY <3>1, <3>3, <4>1, ForgottenSound
    <3>4. CASE p # q
      BY <3>1, <3>2, <3>4, SameCache
    <3> QED
      BY <3>3, <3>4
  <2>2. CASE Retire
    <3>1. /\ mem'[p][n] = NotCached
          /\ Excuse(Orphaned(Processes) \ live, Processes) /\ UNCHANGED <<file, live>>
      BY <2>2 DEF Retire, fileVars, serverVars
    <3> QED
      BY <3>1, ForgottenSound
  <2>3. CASE MoveAside \/ UNCHANGED mem
    BY <2>3, SameCache DEF MoveAside, procVars
  <2> QED
    BY <1>0, <1>3, <2>1, <2>2, <2>3, OtherwiseMoves, LoadsSound
<1> QED
  BY <1>1, <1>2, <1>3 DEF Next

(* The invariant on copies is inductive.                                   *)
LEMMA SoundStep == SoundInv /\ [Next]_vars => SoundInv'
<1> SUFFICES ASSUME SoundInv, [Next]_vars PROVE SoundInv'
  OBVIOUS
<1>1. GrantInv /\ FileInv
  BY DEF SoundInv, GrantInv
<1>2. GrantInv'
  BY <1>1, GrantStep
<1>3. ASSUME NEW t \in Tasks PROVE OwnRefresh(t)' /\ GotGood(t)' /\ PrevRead(t)'
  <2>1. OwnRefresh(t)'
    BY <1>1, OwnRefreshStep DEF SoundInv
  <2>2. PrevRead(t)'
    BY <1>1, PrevReadStep DEF SoundInv
  <2> QED
    BY <2>1, <2>2, GotGoodStep
<1>4. ASSUME NEW p \in Processes, NEW n \in Profiles
      PROVE  Sound(p, n, mem[p][n].creds, mem[p][n].used)'
  BY <1>4, CachesStaySound
<1>5. ASSUME NEW t \in Tasks
      PROVE  /\ AtLock(t, Refreshing)' => Sound(P(t), job[t].prof, job[t].base, job[t].used)'
             /\ pc'[t] = "sending" => SoundToSend(t)'
  BY <1>5, AtLockStep, SendingStep
<1> QED
  BY <1>2, <1>3, <1>4, <1>5 DEF SoundInv

(* At first every pair on file is honoured and no process has a copy.      *)
LEMMA SoundInit == Answered /\ Init => SoundInv
<1> SUFFICES ASSUME Answered, Init PROVE SoundInv
  OBVIOUS
<1>1. GrantInv
  BY GrantInit
<1>2. \A t \in Tasks : pc[t] = "idle" /\ OwnRefresh(t)
  BY OwnRefreshInit DEF Init
<1>3. \A p \in Processes, n \in Profiles :
         mem[p][n].creds = NoCreds /\ mem[p][n].used = NoCreds
  BY DEF Init, NotCached
<1>4. \A n \in Profiles : file.profiles[n].ref \in live \cup {0}
  <2>1. ASSUME NEW n \in Profiles PROVE Seed[n] \in 0..FirstGrants
    BY CredentialsAssumption
  <2>2. live = 1..FirstGrants /\ FirstGrants \in Nat
    BY Bounds DEF Init, ServerInit
  <2> QED
    BY <2>1, <2>2 DEF Init
<1>5. ASSUME NEW p \in Processes, NEW n \in Profiles PROVE Sound(p, n, NoCreds, NoCreds)
  BY <1>4, <1>5 DEF Sound, Good, WouldSend, NoCreds
<1> QED
  BY <1>1, <1>2, <1>3, <1>5 DEF SoundInv, GotGood, PrevRead, Holds, Pending, AtLock

(* A refresh never sends a used-up refresh token, save one whose end its    *)
(* process could not learn of (credentials.ts:1072, "A refresh token works  *)
(* once"): for every number of processes, tasks and profiles, with every    *)
(* fault, provided a consent for more scope is answered with a refresh      *)
(* token.  Without that proviso it is false.                                *)
THEOREM RefreshTokensUsedOnce == ASSUME Answered PROVE Spec => []NoReplay
<1>1. SoundInv => NoReplay
  <2> SUFFICES ASSUME SoundInv, NEW t \in Tasks, pc[t] = "sending"
               PROVE  job[t].base.ref \in live \/ P(t) \in excused[job[t].base.ref]
    BY DEF NoReplay
  <2>1. FileInv
    BY DEF SoundInv, GrantInv
  <2>2. ~\E u \in Tasks : Pending(u)
    BY <2>1 DEF Pending, FileInv, LockedWork, Locked
  <2>3. /\ job[t].base.ref # 0
        /\ job[t].base.ref \in live \cup {0} \/ P(t) \in excused[job[t].base.ref]
    BY <2>2 DEF SoundInv, SoundToSend, Good
  <2> QED
    BY <2>3
<1> QED
  BY <1>1, SoundInit, SoundStep, PTL DEF Spec

(* Whenever the lock is free, what is on file can be refreshed by every    *)
(* process that does not know better, by the same invariant: nobody has an *)
(* answer that is not on file or marked (credentials.ts:1070-1073).        *)
THEOREM FileStaysUsable == ASSUME Answered PROVE Spec => []FileStaysRefreshable
<1>1. SoundInv => FileStaysRefreshable
  <2> SUFFICES ASSUME SoundInv, holder = Free, NEW n \in Profiles, NEW p \in Processes,
                      ~IsBehind(file.profiles[n], mem[p][n].used)
               PROVE  \/ file.profiles[n].ref \in live \cup {0}
                      \/ p \in excused[file.profiles[n].ref]
    BY DEF FileStaysRefreshable
  <2>1. ~\E u \in Tasks : Pending(u)
    BY CredentialsAssumption DEF SoundInv, GrantInv, Pending, FileInv, LockedWork, Locked
  <2>2. CASE file.profiles[n] = NoCreds
    BY <2>2 DEF NoCreds
  <2>3. CASE file.profiles[n] # NoCreds
    <3>1. WouldSend(n, mem[p][n].creds, mem[p][n].used) = file.profiles[n].ref
      BY <2>3 DEF WouldSend
    <3>2. ~LoggedOut(n, file.profiles[n])
      BY <2>3 DEF LoggedOut
    <3> QED
      BY <2>1, <3>1, <3>2 DEF SoundInv, Sound, Good
  <2> QED
    BY <2>2, <2>3
<1> QED
  BY <1>1, SoundInit, SoundStep, PTL DEF Spec

-----------------------------------------------------------------------------
(* A rejected access token brings one refresh.                             *)

(* Every pair in use has an access token, and a process that has marked a  *)
(* pair as used up has another.                                            *)
Whole == \A n \in Profiles, c \in Creds : Public(n, c) /\ c.acc = 0 => c = NoCreds

Replaced(p, n) == mem[p][n].used.ref # 0 => mem[p][n].creds # NoCreds

Rejected(t) == job[t].op \in {"force", "refresh"} => job[t].stale # 0

(* Why a refresh for a rejected token has been sent. *)
SentFor(t) ==
    pc[t] = "sending" /\ job[t].op \in {"force", "refresh"} =>
        \/ job[t].prev = NoCreds
        \/ IsBehind(job[t].prev, job[t].used)
        \/ job[t].prev.acc = job[t].stale
        \/ Expired(job[t].prev.acc)

(* Without faults the file is as it was read, a profile that was never on  *)
(* file is in no cache, and a rejected token that has been rotated stays   *)
(* on file only until its replacement has been written.                    *)
StillPrev(t) == pc[t] = "sending" => OnFile(t) = job[t].prev

NeverSeen(n) ==
    file.profiles[n] = NoCreds /\ n \notin revoked =>
        /\ \A p \in Processes : mem[p][n].creds = NoCreds
        /\ \A t \in Tasks : job[t].prof = n => job[t].op \notin Refreshing \cup {"consent"}

Rotating(n, s) == \E u \in Tasks : Pending(u) /\ job[u].stale = s /\ job[u].prof = n

AnsweredOnce(n) ==
    \A s \in Token : s # 0 /\ answer[s] # 0 /\ file.profiles[n].acc = s => Rotating(n, s)

OnceInv ==
    /\ GrantInv /\ Whole
    /\ \A p \in Processes, n \in Profiles : Replaced(p, n)
    /\ \A t \in Tasks : Rejected(t) /\ SentFor(t)
    /\ faults = 0 => /\ damaged = "no"
                     /\ \A t \in Tasks : StillPrev(t)
                     /\ \A n \in Profiles : NeverSeen(n) /\ AnsweredOnce(n)

(* Every pair in use keeps an access token.                                *)
LEMMA WholeStep ==
  ASSUME GrantInv, Whole, [Next]_vars
  PROVE  Whole'
<1> SUFFICES ASSUME NEW n \in Profiles, NEW c \in Creds, Public(n, c)', c.acc = 0
             PROVE  c = NoCreds
  BY DEF Whole
<1>1. ASSUME NEW t \in Tasks, Spends(t), c = job[t].got PROVE FALSE
  BY <1>1 DEF GrantInv, Private, Spends
<1> QED
  BY <1>1, PairsFlow DEF Whole, GrantInv

(* A pair is marked as used up together with its replacement.              *)
LEMMA ReplacedStep ==
  ASSUME GrantInv, [Next]_vars, NEW p \in Processes, NEW n \in Profiles, Replaced(p, n)
  PROVE  Replaced(p, n)'
<1>0. FileInv /\ TypeInv
  BY DEF GrantInv, FileInv
<1>1. CASE mem'[p][n] = mem[p][n] \/ mem'[p][n].used = NoCreds
  BY <1>1 DEF Replaced, NoCreds
<1>2. ASSUME NEW t \in Tasks, TaskStep(t), mem'[p][n] # mem[p][n], mem'[p][n].used # NoCreds
      PROVE  Replaced(p, n)'
  <2>1. /\ Saves(t) => mem'[p][n].used = NoCreds
        /\ AdoptRotated(t) => mem'[p][n].used = NoCreds
    BY <1>0, <1>2, SetsCache DEF Saves, AdoptRotated
  <2>2. KeepsInMemory(t)
    BY <1>0, <1>2, <2>1, MemoryMoves
  <2>3. mem'[p][n].creds = job[t].got
    BY <1>0, <1>2, <2>2, SetsCache DEF KeepsInMemory, KeepUnsaved, KeepConsent
  <2>4. Holds(t)
    BY <2>2 DEF KeepsInMemory, Holds, Pending
  <2> QED
    BY <2>3, <2>4 DEF Replaced, GrantInv, Private, NoCreds
<1>3. ASSUME NEW q \in Processes, NEW m \in Profiles, Loads(q, m)
      PROVE  mem'[p][n] = mem[p][n] \/ mem'[p][n].used = NoCreds
  BY <1>0, <1>3, LoadedPairs
<1>4. ASSUME NEW q \in Processes, Crash(q)
      PROVE  mem'[p][n] = mem[p][n] \/ mem'[p][n].used = NoCreds
  <2>1. /\ mem' = [mem EXCEPT ![q] = [m \in Profiles |-> NotCached]]
        /\ mem \in [Processes -> [Profiles -> Cached]]
    BY <1>0, <1>4 DEF Crash, TypeInv, TypeOK
  <2> QED
    BY <2>1 DEF NotCached
<1>5. ASSUME Retire PROVE mem'[p][n].used = NoCreds
  BY <1>5 DEF Retire, NotCached
<1>6. ASSUME NEW t \in Tasks, Call(t) PROVE UNCHANGED mem \/ \E m \in Profiles : Loads(P(t), m)
  BY <1>0, <1>6, CallsStart
<1>7. \A t \in Tasks : P(t) \in Processes
  BY CredentialsAssumption DEF P
<1>8. UNCHANGED mem => mem'[p][n] = mem[p][n]
  OBVIOUS
<1>9. ASSUME Environment \/ UNCHANGED vars PROVE Replaced(p, n)'
  BY <1>0, <1>1, <1>3, <1>4, <1>5, <1>8, <1>9, OtherwiseMoves DEF MoveAside, procVars
<1> QED
  BY <1>1, <1>2, <1>3, <1>6, <1>7, <1>8, <1>9 DEF Next

(* The token a call was rejected with is one. *)
LEMMA RejectedStep ==
  ASSUME GrantInv, Whole, \A p \in Processes, n \in Profiles : Replaced(p, n),
         [Next]_vars, NEW t \in Tasks, Rejected(t)
  PROVE  Rejected(t)'
<1>0. FileInv /\ TypeInv
  BY DEF GrantInv, FileInv
<1>1. ASSUME job'[t] = job[t] PROVE Rejected(t)'
  BY <1>1 DEF Rejected
<1>2. ASSUME TaskStep(t) PROVE Rejected(t)'
  BY <1>0, <1>2, RefreshMovesOf DEF Rejected, RefreshMoves, SameCall, Refreshing
<1>3. ASSUME Call(t) PROVE Rejected(t)'
  <2>0. P(t) \in Processes /\ job \in [Tasks -> Job]
    BY <1>0, CredentialsAssumption DEF P, TypeInv, TypeOK
  <2>1. ASSUME NEW n \in Profiles PROVE ForceRefresh(t, n) => job'[t].stale # 0
    <3> SUFFICES ASSUME ForceRefresh(t, n) PROVE job'[t].stale # 0
      OBVIOUS
    <3>1. /\ mem[P(t)][n].creds # NoCreds
          /\ job'[t] = [NoJob EXCEPT !.op = "force", !.prof = n, !.stale = mem[P(t)][n].creds.acc]
      BY <2>0 DEF ForceRefresh, Begin
    <3>2. job'[t].stale = mem[P(t)][n].creds.acc
      BY <3>1 DEF NoJob
    <3>3. Public(n, mem[P(t)][n].creds) /\ mem[P(t)][n].creds \in Creds
      BY <1>0, <2>0, PairTypes DEF Public
    <3> QED
      BY <3>1, <3>2, <3>3 DEF Whole
  <2>2. ASSUME NEW n \in Profiles, NEW op \in {"refresh", "token", "widen"}
        PROVE  RefreshProfile(t, n, op) /\ job'[t].op = "refresh" => job'[t].stale # 0
    <3> SUFFICES ASSUME RefreshProfile(t, n, op), job'[t].op = "refresh" PROVE job'[t].stale # 0
      OBVIOUS
    <3> DEFINE state == SharedState(mem[P(t)][n], file.profiles[n])
               stale == IF op = "token" THEN 0 ELSE state.creds.acc
    <3>1. /\ file.profiles[n] # NoCreds
          /\ job'[t] = [NoJob EXCEPT !.op = op, !.prof = n, !.stale = stale]
      BY <2>0 DEF RefreshProfile, Begin, HasProfile
    <3> HIDE DEF state, stale
    <3>2. job'[t].stale = stale /\ op = "refresh"
      BY <3>1 DEF NoJob
    <3>3. job'[t].stale = state.creds.acc
      BY <3>2 DEF stale
    <3>4. state.creds \in {mem[P(t)][n].creds, file.profiles[n]} /\ state.creds # NoCreds
      BY <2>0, <3>1 DEF state, SharedState, IsBehind, Replaced
    <3>5. /\ mem[P(t)][n].creds \in Creds /\ file.profiles[n] \in Creds
          /\ Public(n, mem[P(t)][n].creds) /\ Public(n, file.profiles[n])
      BY <1>0, <2>0, PairTypes DEF Public
    <3> QED
      BY <3>3, <3>4, <3>5 DEF Whole
  <2>3. ASSUME NEW n \in Profiles, NEW d \in {"yes", "no"},
               \/ GetAuthHeader(t, n) \/ Login(t, n, d) \/ UseProfile(t, n)
               \/ DeleteProfile(t, n) \/ Logout(t, n) \/ LogoutAll(t)
        PROVE  job'[t].op \notin {"force", "refresh"}
    <3>1. PICK o \in {"auth", "login", "use", "delete", "logout", "deleteAll"} :
             \E x, y :
               \/ job' = [job EXCEPT ![t] = [NoJob EXCEPT !.op = o, !.prof = n]]
               \/ job' = [job EXCEPT ![t] = [NoJob EXCEPT !.op = o, !.prof = n, !.setDefault = x]]
               \/ job' = [job EXCEPT ![t] = [NoJob EXCEPT !.op = o, !.prof = n, !.doomed = y]]
               \/ job' = [job EXCEPT ![t] = [NoJob EXCEPT !.op = o, !.doomed = y]]
      BY <2>3 DEF GetAuthHeader, Login, UseProfile, DeleteProfile, Logout, LogoutAll, Begin
    <3>2. job'[t].op = o
      BY <2>0, <3>1 DEF NoJob
    <3> QED
      BY <3>2
  <2>4. CASE LogoutAll(t)
    BY <2>3, <2>4, CredentialsAssumption DEF Rejected
  <2>5. ASSUME NEW n \in Profiles, ForceRefresh(t, n) PROVE Rejected(t)'
    BY <2>1, <2>5 DEF Rejected
  <2>6. ASSUME NEW n \in Profiles, NEW op \in {"refresh", "token", "widen"},
               RefreshProfile(t, n, op)
        PROVE  Rejected(t)'
    <3>1. job'[t].op = op
      BY <2>0, <2>6 DEF RefreshProfile, Begin, NoJob
    <3> QED
      BY <2>2, <2>6, <3>1 DEF Rejected
  <2>7. ASSUME NEW n \in Profiles, NEW d \in {"yes", "no"},
               \/ GetAuthHeader(t, n) \/ Login(t, n, d) \/ UseProfile(t, n)
               \/ DeleteProfile(t, n) \/ Logout(t, n)
        PROVE  Rejected(t)'
    BY <2>3, <2>7 DEF Rejected
  <2> QED
    BY <1>3, <2>4, <2>5, <2>6, <2>7 DEF Call
<1>4. ASSUME NEW u \in Tasks, TaskStep(u) \/ Call(u), u # t PROVE job'[t] = job[t]
  BY <1>0, <1>4, OthersStay, CallStarts
<1>5. ASSUME NEW q \in Processes, Crash(q) PROVE Rejected(t)'
  BY <1>1, <1>5 DEF Crash, NoJob, Rejected
<1>6. ASSUME Environment \/ UNCHANGED vars PROVE Rejected(t)'
  BY <1>1, <1>5, <1>6 DEF Environment, GetSharedState, Retire, Damage, Repair, MoveAside,
     ClockTicks, Rest, vars, procVars
<1> QED
  BY <1>1, <1>2, <1>3, <1>4, <1>6 DEF Next

(* What has expired stays expired.                                         *)
LEMMA ExpiredStays ==
  ASSUME TypeInv, [Next]_vars, NEW a \in Token, Expired(a)
  PROVE  Expired(a)'
<1>0. age \in [Token -> Ages]
  BY DEF TypeInv, TypeOK, ServerTypeOK
<1>1. ASSUME NEW b, Age(b) PROVE age'[a] = "expired"
  BY <1>0, <1>1 DEF Age, Expired
<1>2. ASSUME NEW t \in Tasks, TaskStep(t) PROVE age' = age
  BY <1>2 DEF TaskStep, EnterMutex, RefuseRefresh, AdoptRotated, SendRefresh, ServerRotates,
     AnswerLost, RefreshFails, ScopeRefused, Reload, SaveRefresh, RefreshNotSaved, Authorized,
     AuthorizationFails, RevokeTokens, Load, LoadRefused, LockTimesOut, SaveLogin, SaveDefault,
     SaveConsent, RecordRevocation, SaveRemoval, SaveFails, Rotate, Grant, Revoke, serverVars
<1>3. ASSUME NEW t \in Tasks, Call(t) PROVE age' = age
  BY <1>3, CallStarts DEF serverVars
<1>4. ASSUME Environment \/ UNCHANGED vars PROVE age' = age \/ \E b : Age(b)
  BY <1>4 DEF Environment, Crash, GetSharedState, Retire, Damage, Repair, MoveAside, ClockTicks,
     Rest, vars, serverVars
<1> QED
  BY <1>1, <1>2, <1>3, <1>4 DEF Next, Expired

(* Faults are never forgotten, and the file is spoilt or changed by none   *)
(* but the holder of the lock without one.                                 *)
LEMMA FaultsCount ==
  ASSUME FileInv, [Next]_vars, faults' = 0
  PROVE  /\ faults = 0
         /\ damaged = "no" => damaged' = "no"
         /\ \A t \in Tasks : ~RefreshNotSaved(t) \/ damaged = "yes"
         /\ \A p \in Processes : ~Crash(p)
         /\ ~MoveAside
         /\ (\A t \in Tasks : pc[t] \notin {"loaded", "marked"}) => file' = file
<1>0. TypeInv /\ faults \in Nat
  BY DEF FileInv, TypeInv, TypeOK
<1>1. ASSUME NEW f PROVE ~Fault(f)
  BY <1>0 DEF Fault
<1>2. ASSUME NEW t \in Tasks, TaskStep(t)
      PROVE  faults' = faults /\ (damaged = "no" => damaged' = "no")
  BY <1>1, <1>2 DEF TaskStep, EnterMutex, RefuseRefresh, AdoptRotated, SendRefresh, ServerRotates,
     AnswerLost, RefreshFails, ScopeRefused, Reload, SaveRefresh, RefreshNotSaved, Authorized,
     AuthorizationFails, RevokeTokens, Load, LoadRefused, LockTimesOut, SaveLogin, SaveDefault,
     SaveConsent, RecordRevocation, SaveRemoval, SaveFails, fileVars
<1>3. ASSUME NEW t \in Tasks, Call(t) PROVE UNCHANGED <<faults, damaged, file>>
  BY <1>0, <1>3, CallStarts DEF fileVars
<1>4. /\ ~MoveAside /\ (\A p \in Processes : ~Crash(p)) /\ ~Damage
      /\ \A t \in Tasks : ~RefreshNotSaved(t) \/ damaged = "yes"
  BY <1>1 DEF MoveAside, Crash, Damage, RefreshNotSaved
<1>5. ASSUME Environment \/ UNCHANGED vars
      PROVE  faults' = faults /\ (damaged = "no" => damaged' = "no") /\ file' = file
  BY <1>4, <1>5 DEF Environment, GetSharedState, Retire, Repair, ClockTicks, Rest, vars, fileVars
<1>6. ASSUME NEW t \in Tasks, TaskStep(t), pc[t] \notin {"loaded", "marked"} PROVE file' = file
  BY <1>6, FileMoves
<1> QED
  BY <1>2, <1>3, <1>4, <1>5, <1>6 DEF Next

(* A refresh is sent for a rejected token only if the file does not show a *)
(* later one.                                                              *)
LEMMA SentForStep ==
  ASSUME OnceInv, [Next]_vars, NEW t \in Tasks
  PROVE  SentFor(t)'
<1>0. FileInv /\ TypeInv /\ TypeInv' /\ SentFor(t) /\ Rejected(t)
  BY TypeStep DEF OnceInv, GrantInv, FileInv
<1> SUFFICES ASSUME pc'[t] = "sending", job'[t].op \in {"force", "refresh"}
             PROVE  \/ job'[t].prev = NoCreds
                    \/ IsBehind(job'[t].prev, job'[t].used)
                    \/ job'[t].prev.acc = job'[t].stale
                    \/ age'[job'[t].prev.acc] = "expired"
  BY DEF SentFor, IsBehind, Expired
<1>1. RefreshMoves(t)
  BY <1>0, AllRefreshMoves DEF Refreshing
<1>2. CASE pc[t] = "sending" /\ job'[t] = job[t]
  <2>1. job[t].prev.acc \in Token
    BY <1>0, PairTypes
  <2>2. Expired(job[t].prev.acc) => age'[job[t].prev.acc] = "expired"
    BY <1>0, <2>1, ExpiredStays DEF Expired
  <2> QED
    BY <1>0, <1>2, <2>2 DEF SentFor, Expired
<1>3. CASE SendRefresh(t)
  <2>1. pc[t] = "lock" /\ ~Adopts(t) /\ age' = age
    BY <1>3 DEF SendRefresh, AtLock, serverVars
  <2>2. /\ job'[t].op = job[t].op /\ job'[t].stale = job[t].stale
        /\ job'[t].prev = OnFile(t) /\ job'[t].used = job[t].used
    BY <1>1, <2>1 DEF RefreshMoves, SameCall, EnterMutex, ServerRotates, Reload
  <2>3. job[t].stale # 0 /\ job[t].op # "widen"
    BY <1>0, <2>2 DEF Rejected
  <2>4. CASE Disk(t) = NoCreds
    <3>1. OnFile(t) = NoCreds \/ IsBehind(OnFile(t), job[t].used)
      BY <2>4 DEF Disk
    <3> QED
      BY <2>2, <3>1
  <2>5. CASE Disk(t) # NoCreds
    <3>1. Disk(t) = OnFile(t)
      BY <2>5 DEF Disk
    <3>2. OnFile(t).acc = job[t].stale \/ Expired(OnFile(t).acc)
      BY <2>1, <2>3, <2>5, <3>1 DEF Adopts, AlreadyRotated
    <3> QED
      BY <2>1, <2>2, <3>2 DEF Expired
  <2> QED
    BY <2>4, <2>5
<1> QED
  BY <1>1, <1>2, <1>3 DEF RefreshMoves

(* Without faults the file stays as the refresh read it.                   *)
LEMMA StillPrevStep ==
  ASSUME FileInv, [Next]_vars, faults' = 0, NEW t \in Tasks, StillPrev(t)
  PROVE  StillPrev(t)'
<1> SUFFICES ASSUME pc'[t] = "sending"
             PROVE  file'.profiles[job'[t].prof] = job'[t].prev
  BY DEF StillPrev, OnFile
<1>0. TypeInv /\ TypeInv'
  BY TypeStep DEF FileInv
<1>1. RefreshMoves(t)
  BY <1>0, AllRefreshMoves DEF TypeInv, OpsAt
<1>2. CASE pc[t] = "sending" /\ job'[t] = job[t]
  <2>1. \A u \in Tasks : pc[u] \notin {"loaded", "marked"}
    BY <1>2 DEF FileInv, LockedWork, Locked
  <2>2. file' = file
    BY <2>1, FaultsCount
  <2> QED
    BY <1>2, <2>2 DEF StillPrev, OnFile
<1>3. CASE SendRefresh(t)
  <2>1. pc[t] = "lock" /\ file' = file
    BY <1>3 DEF SendRefresh, AtLock, fileVars
  <2>2. job'[t].prof = job[t].prof /\ job'[t].prev = OnFile(t)
    BY <1>1, <2>1 DEF RefreshMoves, SameCall, EnterMutex, ServerRotates, Reload
  <2> QED
    BY <2>1, <2>2 DEF OnFile
<1> QED
  BY <1>1, <1>2, <1>3 DEF RefreshMoves

(* The server notes that a rejected token has been rotated. *)
LEMMA AnswersMove ==
  ASSUME TypeInv, [Next]_vars, NEW s \in Token, answer'[s] # answer[s]
  PROVE  \E t \in Tasks : /\ ServerRotates(t) /\ job[t].stale = s
                          /\ Pending(t)' /\ SameCall(t) /\ UNCHANGED file
<1>1. ASSUME NEW t \in Tasks, TaskStep(t), ~ServerRotates(t) PROVE answer' = answer
  BY <1>1 DEF TaskStep, EnterMutex, RefuseRefresh, AdoptRotated, SendRefresh,
     AnswerLost, RefreshFails, ScopeRefused, Reload, SaveRefresh, RefreshNotSaved, Authorized,
     AuthorizationFails, RevokeTokens, Load, LoadRefused, LockTimesOut, SaveLogin, SaveDefault,
     SaveConsent, RecordRevocation, SaveRemoval, SaveFails, WriteFile, Disturb, history
<1>2. ASSUME NEW t \in Tasks, Call(t) PROVE answer' = answer
  BY <1>2, CallStarts
<1>3. ASSUME Environment \/ UNCHANGED vars PROVE answer' = answer
  BY <1>3 DEF Environment, Crash, GetSharedState, Retire, Damage, Repair, MoveAside, ClockTicks,
     Rest, vars, history
<1>4. ASSUME NEW t \in Tasks, ServerRotates(t)
      PROVE  /\ job[t].stale = s
             /\ Pending(t)' /\ SameCall(t) /\ UNCHANGED file
  <2>0. /\ job[t] \in Job /\ answer \in [Token -> Token]
        /\ pc \in [Tasks -> PC] /\ job \in [Tasks -> Job]
    BY DEF TypeInv, TypeOK
  <2>1. PICK x, y : /\ job' = [job EXCEPT ![t].got = x]
                    /\ answer' = answer \/ answer' = [answer EXCEPT ![job[t].stale] = y]
    BY <1>4 DEF ServerRotates
  <2>2. job[t].stale = s
    BY <2>0, <2>1
  <2>3. job'[t] = [job[t] EXCEPT !.got = x]
    BY <2>0, <2>1
  <2>4. SameCall(t)
    BY <2>0, <2>3 DEF SameCall, Job
  <2>5. pc'[t] = "answered" /\ job[t].op \in Refreshing /\ UNCHANGED file
    BY <1>4, <2>0 DEF ServerRotates, Goto, TypeInv, OpsAt, fileVars
  <2> QED
    BY <2>2, <2>4, <2>5 DEF Pending, SameCall
<1> QED
  BY <1>1, <1>2, <1>3, <1>4 DEF Next

(* A rejected token that has been rotated goes from the file with the save *)
(* of its replacement.                                                     *)
LEMMA AnsweredOnceStep ==
  ASSUME OnceInv, [Next]_vars, faults' = 0, NEW n \in Profiles
  PROVE  AnsweredOnce(n)'
<1>0. FileInv /\ TypeInv /\ TypeInv' /\ faults = 0 /\ AnsweredOnce(n) /\ damaged = "no" /\ GrantInv
      /\ answer \in [Token -> Token] /\ file \in File
  BY TypeStep, FaultsCount DEF OnceInv, GrantInv, FileInv, TypeInv, TypeOK
<1> SUFFICES ASSUME NEW s \in Token, s # 0, answer'[s] # 0, file'.profiles[n].acc = s
             PROVE  Rotating(n, s)'
  BY DEF AnsweredOnce, Rotating
<1>1. ASSUME answer'[s] # answer[s] PROVE Rotating(n, s)'
  <2>1. PICK t \in Tasks : /\ ServerRotates(t) /\ job[t].stale = s
                           /\ Pending(t)' /\ SameCall(t) /\ UNCHANGED file
    BY <1>0, <1>1, AnswersMove
  <2>2. Seen(n, s) /\ Seen(job[t].prof, s) /\ job[t].prof \in Profiles
    BY <1>0, <2>1, PairTypes DEF Seen, Public
  <2>3. job[t].prof = n
    BY <1>0, <2>2 DEF GrantInv, Owned
  <2> QED
    BY <2>1, <2>3 DEF Rotating, SameCall
<1>2. ASSUME NEW t \in Tasks, Spends(t), s = job[t].got.acc, answer[s] # 0 PROVE FALSE
  BY <1>0, <1>2 DEF GrantInv, Private, Spends
<1>3. CASE answer'[s] = answer[s] /\ file.profiles[n].acc = s
  <2>1. PICK u \in Tasks : Pending(u) /\ job[u].stale = s /\ job[u].prof = n
    BY <1>0, <1>3 DEF AnsweredOnce, Rotating
  <2>2. ~RefreshNotSaved(u) /\ ~Crash(P(u))
    BY <1>0, FaultsCount, CredentialsAssumption DEF P
  <2>3. ~SaveRefresh(u)
    <3> SUFFICES ASSUME SaveRefresh(u) PROVE FALSE
      OBVIOUS
    <3>1. Saves(u)
      BY <1>0, SavesGrant
    <3>2. file'.profiles[n] = job[u].got
      BY <1>0, <2>1, <3>1 DEF Saves, SetProfile, File
    <3>3. Spends(u)
      BY <2>1, <3>1 DEF Saves, Spends, Holds
    <3> QED
      BY <1>2, <1>3, <3>2, <3>3
  <2>4. Pending(u)' /\ job'[u].prof = job[u].prof
    BY <1>0, <2>1, <2>2, <2>3, PendingMoves
  <2>5. job'[u].stale = job[u].stale
    BY <1>0, <2>4, AllRefreshMoves DEF Pending, RefreshMoves, SameCall
  <2> QED
    BY <2>1, <2>4, <2>5 DEF Rotating
<1>4. CASE answer'[s] = answer[s] /\ file.profiles[n].acc # s
  BY <1>0, <1>2, <1>4, ProfilesMove DEF NoCreds
<1> QED
  BY <1>1, <1>3, <1>4

(* A call on a profile needs it on file or in its cache. *)
LEMMA CallsKnow ==
  ASSUME TypeInv, NEW t \in Tasks, Call(t), job'[t].op \in Refreshing \cup {"consent"}
  PROVE  \/ mem[P(t)][job'[t].prof].creds # NoCreds
         \/ file.profiles[job'[t].prof] # NoCreds
<1>0. job \in [Tasks -> Job]
  BY DEF TypeInv, TypeOK
<1>1. ASSUME NEW n \in Profiles, GetAuthHeader(t, n) \/ ForceRefresh(t, n)
      PROVE  mem[P(t)][job'[t].prof].creds # NoCreds
  <2>1. PICK o, s : /\ mem[P(t)][n].creds # NoCreds
                    /\ \/ job' = [job EXCEPT ![t] = [NoJob EXCEPT !.op = o, !.prof = n]]
                       \/ job' = [job EXCEPT ![t] =
                                    [NoJob EXCEPT !.op = o, !.prof = n, !.stale = s]]
    BY <1>1 DEF GetAuthHeader, ForceRefresh, Begin
  <2>2. job'[t].prof = n
    BY <1>0, <2>1 DEF NoJob
  <2> QED
    BY <2>1, <2>2
<1>2. ASSUME NEW n \in Profiles, NEW op \in {"refresh", "token", "widen"}, RefreshProfile(t, n, op)
      PROVE  file.profiles[job'[t].prof] # NoCreds
  <2>1. PICK s : /\ file.profiles[n] # NoCreds
                 /\ job' = [job EXCEPT ![t] = [NoJob EXCEPT !.op = op, !.prof = n, !.stale = s]]
    BY <1>2 DEF RefreshProfile, Begin, HasProfile
  <2>2. job'[t].prof = n
    BY <1>0, <2>1 DEF NoJob
  <2> QED
    BY <2>1, <2>2
<1>3. ASSUME NEW n \in Profiles, NEW d \in {"yes", "no"},
             \/ Login(t, n, d) \/ UseProfile(t, n)
             \/ DeleteProfile(t, n) \/ Logout(t, n) \/ LogoutAll(t)
      PROVE  job'[t].op \notin Refreshing \cup {"consent"}
  <2>1. PICK o \in {"login", "use", "delete", "logout", "deleteAll"} : \E x, y :
           \/ job' = [job EXCEPT ![t] = [NoJob EXCEPT !.op = o, !.prof = n]]
           \/ job' = [job EXCEPT ![t] = [NoJob EXCEPT !.op = o, !.prof = n, !.setDefault = x]]
           \/ job' = [job EXCEPT ![t] = [NoJob EXCEPT !.op = o, !.prof = n, !.doomed = y]]
           \/ job' = [job EXCEPT ![t] = [NoJob EXCEPT !.op = o, !.doomed = y]]
    BY <1>3 DEF Login, UseProfile, DeleteProfile, Logout, LogoutAll, Begin
  <2>2. job'[t].op = o
    BY <1>0, <2>1 DEF NoJob
  <2> QED
    BY <2>2 DEF Refreshing
<1> QED
  BY <1>1, <1>2, <1>3, CredentialsAssumption DEF Call

(* A call that refreshes, or asks for consent, is on the profile it began  *)
(* with.                                                                   *)
LEMMA ConsentCarries ==
  ASSUME FileInv, NEW t \in Tasks, TaskStep(t), job'[t].op \in Refreshing \cup {"consent"}
  PROVE  job'[t].prof = job[t].prof /\ job[t].op \in Refreshing \cup {"consent"}
<1>0. TypeInv /\ job[t] \in Job
  BY DEF FileInv, TypeInv, TypeOK
<1>1. CASE job'[t].op \in Refreshing
  <2>1. RefreshMoves(t)
    BY <1>0, <1>1, RefreshMovesOf
  <2> QED
    BY <1>1, <2>1 DEF RefreshMoves, SameCall
<1>2. CASE job'[t].op = "consent"
  <2>1. FlowSteps(t)
    BY <1>2, FlowStepsOf
  <2>2. ~Finish(t)
    BY <1>0, <1>2, Ends DEF NoJob
  <2>3. job[t].op \in Refreshing \cup {"consent"}
    <3>1. CASE Starts(t) /\ job'[t].op \in opsLeft[t].ops \cap (AllOps \ {"consent"})
      BY <1>2, <3>1
    <3> QED
      BY <1>2, <2>1, <3>1 DEF FlowSteps, Refreshing
  <2>5. CASE ScopeRefused(t)
    <3>1. job' = [job EXCEPT ![t].op = "consent"] /\ job \in [Tasks -> Job]
      BY <1>0, <2>5 DEF ScopeRefused, TypeInv, TypeOK
    <3>2. job'[t].prof = job[t].prof
      BY <1>0, <3>1 DEF Job
    <3> QED
      BY <2>3, <3>2
  <2>6. CASE job'[t].op = job[t].op
    <3>1. job[t].op = "consent" /\ job'[t].op = "consent"
      BY <1>2, <2>6
    <3>2. Authorized(t) \/ Load(t)
      BY <1>0, <2>2, <3>1 DEF TypeInv, OpsAt, TaskStep, EnterMutex, RefuseRefresh, AdoptRotated,
         SendRefresh, ServerRotates, AnswerLost, RefreshFails, ScopeRefused, Reload, SaveRefresh,
         RefreshNotSaved, AuthorizationFails, RevokeTokens, LoadRefused, LockTimesOut, SaveLogin,
         SaveDefault, SaveConsent, RecordRevocation, SaveRemoval, SaveFails, AtLock, AtSave,
         Refreshing
    <3>3. PICK x : job' = [job EXCEPT ![t].got = x] \/ job' = [job EXCEPT ![t].snap = x]
      BY <3>2 DEF Authorized, Load
    <3>4. job'[t] = [job[t] EXCEPT !.got = x] \/ job'[t] = [job[t] EXCEPT !.snap = x]
      BY <1>0, <3>3 DEF TypeInv, TypeOK
    <3>5. job'[t].prof = job[t].prof
      BY <1>0, <3>4 DEF Job
    <3> QED
      BY <2>3, <3>5
  <2> QED
    BY <1>2, <2>1, <2>5, <2>6 DEF FlowSteps
<1> QED
  BY <1>1, <1>2

(* A profile that is in no cache and not on file comes into none.          *)
LEMMA CachesStayEmpty ==
  ASSUME FileInv, [Next]_vars, NEW n \in Profiles, NeverSeen(n), n \notin revoked,
         file.profiles[n] = NoCreds, file'.profiles[n] = NoCreds, NEW p \in Processes
  PROVE  mem'[p][n].creds = NoCreds
<1>0. TypeInv /\ file \in File
  BY DEF FileInv, TypeInv, TypeOK
<1>1. mem[p][n].creds = NoCreds
  BY DEF NeverSeen
<1>2. ASSUME NEW q \in Processes, NEW m \in Profiles, Loads(q, m) PROVE mem'[p][n] = mem[p][n]
  BY <1>0, <1>2, LoadsCache DEF Loads, HasProfile
<1>3. ASSUME NEW t \in Tasks, TaskStep(t), mem'[p][n] # mem[p][n] PROVE FALSE
  <2>1. CASE job[t].prof = n
    <3>1. job[t].op \notin Refreshing \cup {"consent"}
      BY <2>1 DEF NeverSeen
    <3>2. ~AdoptRotated(t) /\ ~KeepsInMemory(t)
      BY <3>1 DEF AdoptRotated, AtLock, KeepsInMemory
    <3>3. ~Saves(t)
      <4> SUFFICES ASSUME Saves(t) PROVE FALSE
        OBVIOUS
      <4>1. file'.profiles[n] = job[t].got
        BY <1>0, <2>1 DEF Saves, SetProfile, File
      <4>2. job[t].got # NoCreds
        BY DEF Saves, AtSave, FileInv, UnderLock, HasGrant
      <4> QED
        BY <4>1, <4>2
    <3> QED
      BY <1>3, <3>2, <3>3, MemoryMoves
  <2>2. CASE job[t].prof # n
    BY <1>0, <1>3, <2>2, MemoryMoves, SetsCache DEF Saves, KeepsInMemory, KeepUnsaved, KeepConsent,
       AdoptRotated
  <2> QED
    BY <2>1, <2>2
<1>4. ASSUME NEW t \in Tasks, Call(t) PROVE mem'[p][n] = mem[p][n]
  <2>1. P(t) \in Processes
    BY CredentialsAssumption DEF P
  <2> QED
    BY <1>0, <1>2, <1>4, <2>1, CallsStart
<1>5. ASSUME NEW q \in Processes, Crash(q) PROVE mem'[p][n].creds = NoCreds
  <2>1. /\ mem' = [mem EXCEPT ![q] = [m \in Profiles |-> NotCached]]
        /\ mem \in [Processes -> [Profiles -> Cached]]
    BY <1>0, <1>5 DEF Crash, TypeInv, TypeOK
  <2> QED
    BY <1>1, <2>1 DEF NotCached
<1>6. ASSUME Retire PROVE mem'[p][n].creds = NoCreds
  BY <1>6 DEF Retire, NotCached
<1>7. UNCHANGED mem => mem'[p][n] = mem[p][n]
  OBVIOUS
<1>8. ASSUME Environment \/ UNCHANGED vars PROVE mem'[p][n].creds = NoCreds
  BY <1>1, <1>2, <1>5, <1>6, <1>7, <1>8, OtherwiseMoves DEF MoveAside, procVars
<1> QED
  BY <1>1, <1>3, <1>4, <1>8 DEF Next

(* A profile that was never on file is refreshed by nobody.                *)
LEMMA NeverSeenStep ==
  ASSUME FileInv, [Next]_vars, faults' = 0, NEW n \in Profiles, NeverSeen(n)
  PROVE  NeverSeen(n)'
<1>0. TypeInv /\ revoked \subseteq revoked' /\ \A t \in Tasks : P(t) \in Processes
  BY RevokedGrows, CredentialsAssumption DEF FileInv, P
<1> SUFFICES ASSUME file'.profiles[n] = NoCreds, n \notin revoked'
             PROVE  /\ \A p \in Processes : mem'[p][n].creds = NoCreds
                    /\ \A t \in Tasks :
                          job'[t].prof = n => job'[t].op \notin Refreshing \cup {"consent"}
  BY DEF NeverSeen
<1>1. file.profiles[n] = NoCreds /\ n \notin revoked
  BY <1>0, RemovalEnds
<1>2. \A p \in Processes : mem[p][n].creds = NoCreds
  BY <1>1 DEF NeverSeen
<1>3. \A t \in Tasks : job[t].prof = n => job[t].op \notin Refreshing \cup {"consent"}
  BY <1>1 DEF NeverSeen
<1>4. ASSUME NEW t \in Tasks, job'[t].prof = n, job'[t].op \in Refreshing \cup {"consent"}
      PROVE  FALSE
  <2>1. ~TaskStep(t)
    BY <1>3, <1>4, ConsentCarries
  <2>2. ~Call(t)
    BY <1>0, <1>1, <1>2, <1>4, CallsKnow
  <2>3. job'[t] # job[t]
    BY <1>3, <1>4
  <2>4. ASSUME NEW u \in Tasks, u # t PROVE ~TaskStep(u) /\ ~Call(u)
    BY <1>0, <2>3, <2>4, OthersStay, CallStarts
  <2>5. \A p \in Processes : ~Crash(p)
    BY FaultsCount
  <2>6. ~Environment /\ ~UNCHANGED vars
    BY <2>3, <2>5 DEF Environment, GetSharedState, Retire, Damage, Repair, MoveAside, ClockTicks,
       Rest, vars, procVars
  <2> QED
    BY <2>1, <2>2, <2>4, <2>6 DEF Next
<1>5. \A p \in Processes : mem'[p][n].creds = NoCreds
  BY <1>1, CachesStayEmpty
<1> QED
  BY <1>4, <1>5

(* The invariant on rejected tokens is inductive.                          *)
LEMMA OnceStep == OnceInv /\ [Next]_vars => OnceInv'
<1> SUFFICES ASSUME OnceInv, [Next]_vars PROVE OnceInv'
  OBVIOUS
<1>1. GrantInv /\ FileInv /\ Whole /\ \A p \in Processes, n \in Profiles : Replaced(p, n)
  BY DEF OnceInv, GrantInv
<1>2. GrantInv' /\ Whole'
  BY <1>1, GrantStep, WholeStep
<1>3. ASSUME NEW p \in Processes, NEW n \in Profiles PROVE Replaced(p, n)'
  BY <1>1, ReplacedStep
<1>4. ASSUME NEW t \in Tasks PROVE Rejected(t)' /\ SentFor(t)'
  <2>1. Rejected(t)
    BY DEF OnceInv
  <2> QED
    BY <1>1, <2>1, RejectedStep, SentForStep
<1>5. ASSUME faults' = 0
      PROVE  /\ damaged' = "no"
             /\ \A t \in Tasks : StillPrev(t)'
             /\ \A n \in Profiles : NeverSeen(n)' /\ AnsweredOnce(n)'
  <2>1. faults = 0 /\ (damaged = "no" => damaged' = "no")
    BY <1>1, <1>5, FaultsCount
  <2>2. ASSUME NEW t \in Tasks PROVE StillPrev(t)'
    BY <1>1, <1>5, <2>1, StillPrevStep DEF OnceInv
  <2>3. ASSUME NEW n \in Profiles PROVE NeverSeen(n)' /\ AnsweredOnce(n)'
    <3>1. NeverSeen(n)'
      BY <1>1, <1>5, <2>1, NeverSeenStep DEF OnceInv
    <3> QED
      BY <1>5, <3>1, AnsweredOnceStep
  <2> QED
    BY <2>1, <2>2, <2>3 DEF OnceInv
<1> QED
  BY <1>2, <1>3, <1>4, <1>5 DEF OnceInv

(* It holds at first.                                                      *)
LEMMA OnceInit == Init => OnceInv
<1> SUFFICES ASSUME Init PROVE OnceInv
  OBVIOUS
<1>1. GrantInv
  BY GrantInit
<1>2. \A t \in Tasks : pc[t] = "idle" /\ job[t] = NoJob
  BY DEF Init
<1>3. \A p \in Processes, n \in Profiles :
         mem[p][n].creds = NoCreds /\ mem[p][n].used = NoCreds
  BY DEF Init, NotCached
<1>4. \A t \in Tasks : job[t].base = NoCreds /\ job[t].used = NoCreds /\ job[t].prev = NoCreds
  BY <1>2 DEF NoJob
<1>5. \A n \in Profiles : file.profiles[n].acc = 0 => file.profiles[n] = NoCreds
  BY DEF Init, NoCreds
<1>6. Whole
  BY <1>3, <1>4, <1>5 DEF Whole, Public
<1>7. \A p \in Processes, n \in Profiles : Replaced(p, n)
  BY <1>3 DEF Replaced, NoCreds
<1>8. \A t \in Tasks : Rejected(t) /\ SentFor(t) /\ StillPrev(t)
  BY <1>2 DEF Rejected, SentFor, StillPrev, NoJob
<1>9. damaged = "no" /\ \A n \in Profiles : NeverSeen(n) /\ AnsweredOnce(n)
  <2>1. damaged = "no" /\ \A s \in Token : answer[s] = 0
    BY DEF Init
  <2> QED
    BY <1>2, <1>3, <2>1 DEF NeverSeen, AnsweredOnce, NoJob, Refreshing
<1> QED
  BY <1>1, <1>6, <1>7, <1>8, <1>9 DEF OnceInv

(* A rejected access token brings one refresh, whatever the number of      *)
(* processes and of requests it was rejected for, unless its token on file *)
(* has expired since, a fault came in between, or its process goes on with *)
(* a grant it could not save (credentials.ts:16-19, 922-925).              *)
THEOREM RejectedTokenRotatedOnce == Spec => OneRotationPerRejection
<1>1. ASSUME OnceInv, NEW t \in Tasks, pc[t] = "sending", job[t].op \in {"force", "refresh"},
             answer[job[t].stale] # 0, faults = 0
      PROVE  IsBehind(OnFile(t), job[t].used) \/ Expired(OnFile(t).acc)
  <2>0. /\ FileInv /\ TypeInv /\ job[t].prof \in Profiles /\ job[t].stale \in Token
        /\ OnFile(t) = job[t].prev /\ job[t].stale # 0
        /\ NeverSeen(job[t].prof) /\ AnsweredOnce(job[t].prof)
    BY <1>1, PairTypes DEF OnceInv, GrantInv, FileInv, StillPrev, Rejected
  <2>1. CASE job[t].prev = NoCreds
    <3>1. job[t].prof \notin revoked
      BY <1>1, <2>0, <2>1 DEF FileInv, UnderLock, NotLoggedOut, Refreshing
    <3> QED
      BY <1>1, <2>0, <2>1, <3>1 DEF NeverSeen, OnFile, Refreshing
  <2>2. CASE job[t].prev.acc = job[t].stale
    <3>1. PICK u \in Tasks : Pending(u)
      BY <1>1, <2>0, <2>2 DEF AnsweredOnce, Rotating, OnFile
    <3> QED
      BY <1>1, <2>0, <3>1 DEF Pending, FileInv, LockedWork, Locked
  <2> QED
    BY <1>1, <2>0, <2>1, <2>2 DEF OnceInv, SentFor
<1>2. OnceInv /\ [Next]_vars =>
        [\A t \in Tasks :
            pc[t] = "sending" /\ granted' # granted /\ pc'[t] = "answered"
            /\ job[t].op \in {"force", "refresh"} /\ answer[job[t].stale] # 0 =>
                \/ faults > 0
                \/ IsBehind(OnFile(t), job[t].used)
                \/ Expired(OnFile(t).acc)]_vars
  BY <1>1 DEF OnceInv, GrantInv, FileInv, TypeInv, TypeOK
<1> QED
  BY <1>2, OnceInit, OnceStep, PTL DEF Spec, OneRotationPerRejection
=============================================================================
