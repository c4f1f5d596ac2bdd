-------------------------- MODULE FileLockProofs --------------------------
(***************************************************************************)
(* Safety of the lock-v1 protocol for any set of clients and any number of *)
(* crashes and recoveries, when the operator stops every client before     *)
(* removing a lock.                                                        *)
(***************************************************************************)
EXTENDS FileLock, TLAPS

(* Every step of the protocol keeps the types. *)
LEMMA TypeStep == TypeOK /\ [Next]_vars => TypeOK'
<1> SUFFICES ASSUME TypeOK, [Next]_vars PROVE TypeOK'
  OBVIOUS
<1> USE FileLockNames DEF TypeOK, PC, Waiting, Owning, Goto, environment
<1>1. ASSUME NEW c \in Clients, ClientStep(c) PROVE TypeOK'
  <2>1. CASE WriteOwner(c)
    <3>1. written' \in BOOLEAN
      BY <2>1, Zenon DEF WriteOwner
    <3> QED
      BY <2>1, <3>1 DEF WriteOwner
  <2>2. CASE ~WriteOwner(c)
    BY <1>1, <2>2 DEF ClientStep, CheckLegacy, OpenExclusive, OpenExists,
       RecheckLegacy, Leave, ReleaseRead, ReleaseUnlink
  <2> QED
    BY <2>1, <2>2
<1>2. ASSUME NEW c \in Clients,
             Begin(c) \/ DeadlinePasses(c) \/ Crash(c) \/ Restart(c)
      PROVE TypeOK'
  BY <1>2 DEF Begin, DeadlinePasses, Crash, Restart
<1>3. CASE Retire
  BY <1>3 DEF Retire
<1>4. CASE ToggleMarker
  <2>1. legacy' \in BOOLEAN
    BY <1>4, Zenon DEF ToggleMarker
  <2> QED
    BY <1>4, <2>1 DEF ToggleMarker
<1>5. CASE UNCHANGED vars
  BY <1>5 DEF vars
<1> QED
  BY <1>1, <1>2, <1>3, <1>4, <1>5 DEF Next

(* The type invariant. *)
THEOREM TypeCorrect == Spec => []TypeOK
<1>1. Init => TypeOK
  <2> SUFFICES ASSUME Init PROVE TypeOK
    OBVIOUS
  <2>1. written \in BOOLEAN /\ legacy \in BOOLEAN
    BY Zenon DEF Init
  <2>2. pc \in [Clients -> PC]
    BY DEF Init, PC
  <2> QED
    BY <2>1, <2>2, FileLockNames DEF Init, TypeOK
<1> QED
  BY <1>1, TypeStep, PTL DEF Spec

-----------------------------------------------------------------------------
(* OwnFileInPlace is inductive on top of the types: creation needs an      *)
(* absent file, which no owner leaves behind; everyone else's step keeps   *)
(* the file, except the operator's, and then no client owns it.            *)
LEMMA OwnFileStep ==
  ASSUME StopFirst, TypeOK, OwnFileInPlace, [Next]_vars
  PROVE  OwnFileInPlace'
<1> USE FileLockNames DEF TypeOK, OwnFileInPlace, Owns, Owning, Goto, environment
<1>1. ASSUME NEW c \in Clients, ClientStep(c) PROVE OwnFileInPlace'
  <2>1. CASE CheckLegacy(c) \/ OpenExists(c) \/ RecheckLegacy(c) \/ Leave(c)
    BY <2>1 DEF CheckLegacy, OpenExists, RecheckLegacy, Leave
  <2>2. CASE OpenExclusive(c)
    BY <2>2 DEF OpenExclusive
  <2>3. CASE WriteOwner(c)
    BY <2>3 DEF WriteOwner
  <2>4. CASE ReleaseRead(c)
    BY <2>4 DEF ReleaseRead
  <2>5. CASE ReleaseUnlink(c)
    BY <2>5 DEF ReleaseUnlink
  <2> QED
    BY <1>1, <2>1, <2>2, <2>3, <2>4, <2>5 DEF ClientStep
<1>2. ASSUME NEW c \in Clients,
             Begin(c) \/ DeadlinePasses(c) \/ Crash(c) \/ Restart(c)
      PROVE OwnFileInPlace'
  BY <1>2 DEF Begin, DeadlinePasses, Crash, Restart
<1>3. CASE Retire
  BY <1>3 DEF Retire
<1>4. CASE ToggleMarker
  BY <1>4 DEF ToggleMarker
<1>5. CASE UNCHANGED vars
  BY <1>5 DEF vars
<1> QED
  BY <1>1, <1>2, <1>3, <1>4, <1>5 DEF Next

(* While a client owns the lock, the file at the path is its own. *)
THEOREM OwnFile == ASSUME StopFirst PROVE Spec => []OwnFileInPlace
<1>1. Init => OwnFileInPlace
  BY DEF Init, OwnFileInPlace, Owns, Owning
<1>2. TypeOK /\ OwnFileInPlace /\ [Next]_vars => OwnFileInPlace'
  BY OwnFileStep
<1> QED
  BY <1>1, <1>2, TypeCorrect, PTL DEF Spec

(* Two owners would each have its own file at the one path. *)
THEOREM Exclusion == ASSUME StopFirst PROVE Spec => []MutualExclusion
<1>1. OwnFileInPlace => MutualExclusion
  BY DEF OwnFileInPlace, MutualExclusion
<1> QED
  BY <1>1, OwnFile, PTL

(* No holder ever unlinks another client's lock file. *)
THEOREM OnlyOwnDeleted == ASSUME StopFirst PROVE Spec => NeverDeletesReplacement
<1>1. TypeOK /\ OwnFileInPlace =>
        \A c \in Clients :
          pc[c] = "unlink" /\ lockFile' = Absent => lockFile \in {c, Absent}
  BY DEF OwnFileInPlace, Owns, Owning
<1> QED
  BY <1>1, TypeCorrect, OwnFile, PTL DEF NeverDeletesReplacement

(* The critical section is never entered past an older client's marker. *)
THEOREM LegacyFailsClosed == Spec => LegacyRefused
<1>1. TypeOK /\ [Next]_vars =>
        [\A c \in Clients : pc[c] # "held" /\ pc'[c] = "held" => ~legacy]_vars
  <2> SUFFICES ASSUME TypeOK, Next, NEW d \in Clients,
                      pc[d] # "held", pc'[d] = "held"
               PROVE  ~legacy
    OBVIOUS
  <2> USE DEF TypeOK, Goto, environment
  <2>1. ASSUME NEW c \in Clients, ClientStep(c) PROVE ~legacy
    BY <2>1 DEF ClientStep, CheckLegacy, OpenExclusive, OpenExists, WriteOwner,
       RecheckLegacy, Leave, ReleaseRead, ReleaseUnlink
  <2>2. ASSUME NEW c \in Clients,
               Begin(c) \/ DeadlinePasses(c) \/ Crash(c) \/ Restart(c)
        PROVE ~legacy
    BY <2>2 DEF Begin, DeadlinePasses, Crash, Restart
  <2>3. CASE Retire \/ ToggleMarker
    BY <2>3 DEF Retire, ToggleMarker
  <2> QED
    BY <2>1, <2>2, <2>3 DEF Next
<1> QED
  BY <1>1, TypeCorrect, PTL DEF Spec, LegacyRefused

-----------------------------------------------------------------------------
(* What the abstract lock sees. *)
LEMMA HolderIsOwner ==
  ASSUME TypeOK, OwnFileInPlace, NEW c \in Clients, Owns(c)
  PROVE  Holder = c
<1>1. lockFile = c /\ lockFile # Absent
  BY FileLockNames DEF OwnFileInPlace
<1>2. (CHOOSE d \in Clients : Owns(d)) = c
  BY <1>1 DEF OwnFileInPlace
<1> QED
  BY <1>1, <1>2 DEF Holder

(* The protocol refines the abstract lock: opening the file is Acquire,    *)
(* unlinking it Release, a crash or a failed unlink Abandon, the operator  *)
(* Retire; every other step leaves the abstract lock as it is.             *)
LEMMA HolderStep ==
  ASSUME StopFirst, TypeOK, OwnFileInPlace, [Next]_vars
  PROVE  [Service!Next]_Holder
<1> USE FileLockNames
<1>0. TypeOK' /\ OwnFileInPlace'
  BY TypeStep, OwnFileStep
<1> DEFINE Other(c) == \A d \in Clients : d # c => pc'[d] = pc[d]
<1>1. ASSUME NEW c \in Clients, Other(c), Owns(c), Owns(c)' PROVE UNCHANGED Holder
  <2>1. Holder = c
    BY <1>1, HolderIsOwner
  <2>2. lockFile' = c /\ lockFile' # Absent
    BY <1>0, <1>1 DEF OwnFileInPlace
  <2>3. (CHOOSE d \in Clients : Owns(d)') = c
    BY <1>0, <1>1, <2>2 DEF OwnFileInPlace
  <2> QED
    BY <1>1, <2>1, <2>2, <2>3 DEF Holder
<1>2. ASSUME NEW c \in Clients, Other(c), ~Owns(c), ~Owns(c)', UNCHANGED lockFile
      PROVE  UNCHANGED Holder
  <2>1. \A d \in Clients : Owns(d)' <=> Owns(d)
    BY <1>2 DEF Owns
  <2> QED
    BY <1>2, <2>1 DEF Holder
<1>3. ASSUME NEW c \in Clients, Other(c), Owns(c), ~Owns(c)'
      PROVE  \A d \in Clients : ~Owns(d)'
  BY <1>3 DEF OwnFileInPlace, Owns
<1>4. ASSUME NEW c \in Clients, Other(c), Owns(c), ~Owns(c)', lockFile' = Absent
      PROVE  Service!Release(c)
  BY <1>4, HolderIsOwner DEF Holder, Service!Release
<1>5. ASSUME NEW c \in Clients, Other(c), Owns(c), ~Owns(c)', UNCHANGED lockFile
      PROVE  Service!Abandon(c)
  <2>1. lockFile # Absent
    BY <1>5 DEF OwnFileInPlace
  <2> QED
    BY <1>3, <1>5, <2>1, HolderIsOwner DEF Holder, Service!Abandon
<1>6. ASSUME NEW c \in Clients, ClientStep(c) PROVE [Service!Next]_Holder
  <2> USE DEF TypeOK, Owns, Owning, Goto, environment
  <2>1. CASE CheckLegacy(c) \/ OpenExists(c)
    BY <1>2, <2>1 DEF CheckLegacy, OpenExists
  <2>2. CASE RecheckLegacy(c) \/ Leave(c)
    BY <1>1, <2>2 DEF RecheckLegacy, Leave
  <2>3. CASE OpenExclusive(c)
    <3>1. Holder = Free
      BY <2>3 DEF OpenExclusive, Holder
    <3>2. Owns(c)' /\ c \in Clients
      BY <2>3 DEF OpenExclusive
    <3>3. lockFile' = c /\ (CHOOSE d \in Clients : Owns(d)') = c
      BY <1>0, <3>2, <2>3 DEF OwnFileInPlace, OpenExclusive
    <3>4. Holder' = c
      BY <3>2, <3>3 DEF Holder
    <3> QED
      BY <3>1, <3>4 DEF Service!Next, Service!Acquire
  <2>4. CASE WriteOwner(c)
    <3>1. CASE pc'[c] = "recheck"
      BY <1>1, <2>4, <3>1 DEF WriteOwner
    <3>2. CASE pc'[c] = "idle"
      BY <1>4, <1>5, <2>4, <3>2 DEF WriteOwner, Service!Next
    <3> QED
      BY <2>4, <3>1, <3>2 DEF WriteOwner
  <2>5. CASE ReleaseRead(c)
    <3>1. CASE pc'[c] = "unlink"
      BY <1>1, <2>5, <3>1 DEF ReleaseRead
    <3>2. CASE pc'[c] = "idle"
      BY <1>5, <2>5, <3>2 DEF ReleaseRead, Service!Next
    <3> QED
      BY <2>5, <3>1, <3>2 DEF ReleaseRead
  <2>6. CASE ReleaseUnlink(c)
    BY <1>4, <1>5, <2>6 DEF ReleaseUnlink, Service!Next
  <2> QED
    BY <1>6, <2>1, <2>2, <2>3, <2>4, <2>5, <2>6 DEF ClientStep
<1>7. ASSUME NEW c \in Clients, Begin(c) \/ DeadlinePasses(c) \/ Restart(c)
      PROVE  [Service!Next]_Holder
  BY <1>2, <1>7 DEF Begin, DeadlinePasses, Restart, TypeOK, Owns, Owning, Waiting,
     Goto, environment
<1>8. ASSUME NEW c \in Clients, Crash(c) PROVE [Service!Next]_Holder
  BY <1>2, <1>5, <1>8 DEF Crash, TypeOK, Owns, Owning, Goto, Service!Next
<1>9. CASE Retire
  <2>1. \A c \in Clients : ~Owns(c)
    BY <1>9 DEF Retire, Owns, Owning
  <2> QED
    BY <1>9, <2>1 DEF Retire, Holder, Service!Next, Service!Retire
<1>10. CASE ToggleMarker \/ UNCHANGED vars
  BY <1>10 DEF ToggleMarker, vars, Holder, Owns
<1> QED
  BY <1>6, <1>7, <1>8, <1>9, <1>10 DEF Next

(* The file protocol implements the lock the credentials are built on. *)
THEOREM Refinement == ASSUME StopFirst PROVE Spec => ImplementsService
<1>1. Init => Service!Init
  BY FileLockNames DEF Init, Holder, Service!Init
<1>2. TypeOK /\ OwnFileInPlace /\ [Next]_vars => [Service!Next]_Holder
  BY HolderStep
<1> QED
  BY <1>1, <1>2, TypeCorrect, OwnFile, PTL DEF Spec, ImplementsService, Service!Spec

(* No client enters past an older client's marker, and none removes a lock *)
(* file that is not its own.                                               *)
THEOREM OthersAreRespected == ASSUME StopFirst PROVE Spec => OthersRespected
BY OnlyOwnDeleted, LegacyFailsClosed, PTL DEF OthersRespected
=============================================================================
