--------------------------- MODULE McpProxyProofs ---------------------------
(***************************************************************************)
(* What McpProxy promises, for any number of messages, sessions and        *)
(* questions and any limit of pending tasks.  The host: a request is       *)
(* answered once (OneReply) and run at most once (RunOnce).  The waiting:  *)
(* nobody waits for himself (NoWaitCycle).  The sessions: one is used only *)
(* once it is announced (InitializedFirst), and none is given up but for   *)
(* its own 404 (KeepsSession).                                             *)
(*                                                                         *)
(* A message that has not been read has no task (Fresh), and a process     *)
(* that is not in the stream of an answer, nor about to fail, has run      *)
(* nothing, so that whatever it sends again has not been run (RunOK).  A   *)
(* message waits for an earlier one or for the recovery, and these only    *)
(* for replies, which wait for nobody (OrderInv).  A session that nobody   *)
(* has announced is the first one or that of a recovery under way; what    *)
(* the host sends behind its initialized notification waits for either     *)
(* (SessionInv).                                                           *)
(***************************************************************************)
EXTENDS McpProxy, WellFoundedInduction, TLAPS

Fresh == \A m \in Message : pc[m] = "none" <=> m > heard

RunOK(p) ==
    /\ ran[p] <= 1
    /\ pc[p] \notin {"streaming", "failing"} => ran[p] = 0
    /\ kind[p] # "request" => ran[p] = 0

IInv == TypeOK /\ Fresh /\ (\A p \in Process : RunOK(p)) /\ OneReply

LEMMA Processes ==
    /\ Recovery \in Process /\ Recovery \notin Message
    /\ Message \subseteq Process /\ \A p \in Process : p # Recovery => p \in Message
BY McpProxyAssumption DEF Recovery, Process, Message

-----------------------------------------------------------------------------
(* Types.                                                                  *)

(* A process that ends resets its locals and lets the waiting go on.       *)
LEMMA EndTypes ==
    ASSUME TypeOK, NEW p \in Process, NEW ok \in BOOLEAN, End(p, ok)
    PROVE  /\ pc' \in [Process -> PC] /\ sess' \in [Process -> Session]
           /\ attempt' \in [Process -> 0..1] /\ retried' \in [Process -> BOOLEAN]
           /\ ran' \in [Process -> Nat]
<1>1. pc' \in [Process -> PC]
  <2>1. CASE p # Recovery
    BY <2>1 DEF End, TypeOK, PC
  <2>2. CASE p = Recovery
    <3>1. \A q \in Process : Wakes(pc[q], ok) \in PC
      BY DEF Wakes, TypeOK, PC
    <3> QED BY <2>2, <3>1 DEF End, PC
  <2> QED BY <2>1, <2>2
<1>2. sess' \in [Process -> Session] /\ attempt' \in [Process -> 0..1]
  BY McpProxyAssumption DEF End, TypeOK, Session
<1>3. retried' \in [Process -> BOOLEAN]
  BY DEF End, TypeOK
<1>4. ran' \in [Process -> Nat]
  BY DEF End, TypeOK
<1> QED BY <1>1, <1>2, <1>3, <1>4

LEMMA EmitTypes ==
    ASSUME TypeOK, NEW p \in Process, Emit(p)
    PROVE  replies' \in [Message -> Nat]
<1>1. replies' = replies \/ replies' = [replies EXCEPT ![p] = @ + 1]
  BY Zenon DEF Emit
<1>2. replies \in [Message -> Nat]
  BY DEF TypeOK
<1> QED BY <1>1, <1>2

(* Init gives every variable a value of its type, and every step keeps it. *)
LEMMA TypeInit == Init => TypeOK
<1> SUFFICES ASSUME Init PROVE TypeOK
  OBVIOUS
<1>1. /\ closed \in BOOLEAN /\ known \in BOOLEAN
      /\ retried \in [Process -> BOOLEAN]
  BY DEF Init
<1>2. /\ heard \in 0..MaxMessages /\ barrier \in 0..MaxMessages
      /\ before \in [Message -> 0..MaxMessages]
      /\ session \in Session /\ sess \in [Process -> Session]
      /\ opened \in Session /\ notified \subseteq Session
  BY McpProxyAssumption DEF Init, Session
<1>3. kind \in [Process -> Kinds] /\ pc \in [Process -> PC]
  BY DEF Init, Kinds, PC
<1>4. /\ attempt \in [Process -> 0..1] /\ answers \in [Message -> 0..MaxAsks]
      /\ awaiting \in [Process -> 0..MaxAsks]
  BY McpProxyAssumption DEF Init
<1>5. /\ questions \in Seq(Session) /\ Len(questions) <= MaxAsks
      /\ ran \in [Process -> Nat] /\ replies \in [Message -> Nat]
  BY McpProxyAssumption DEF Init
<1> QED BY <1>1, <1>2, <1>3, <1>4, <1>5 DEF TypeOK

LEMMA TypeStep == TypeOK /\ [Next]_vars => TypeOK'
<1> SUFFICES ASSUME TypeOK, [Next]_vars PROVE TypeOK'
  OBVIOUS
<1> USE McpProxyAssumption, Processes
<1>1. ASSUME NEW k \in Kinds, NEW q \in 0..MaxAsks, Read(k, q) PROVE TypeOK'
  <2> DEFINE m == heard + 1
  <2>1. m \in Message /\ m \in Process /\ m \in 0..MaxMessages
    BY <1>1 DEF Read, TypeOK, Message
  <2>2. heard' = m /\ kind' \in [Process -> Kinds] /\ answers' \in [Message -> 0..MaxAsks]
    BY <1>1, <2>1 DEF Read, TypeOK
  <2>3. pc' \in [Process -> PC]
    BY <1>1, <2>1 DEF Read, Goto, TypeOK, PC
  <2>4. sess' \in [Process -> Session] /\ replies' \in [Message -> Nat]
    <3>1. /\ sess' = sess \/ sess' = [sess EXCEPT ![m] = session]
          /\ replies' = replies \/ replies' = [replies EXCEPT ![m] = @ + 1]
      BY <1>1, Zenon DEF Read
    <3>2. /\ sess \in [Process -> Session] /\ session \in Session
          /\ replies \in [Message -> Nat]
      BY DEF TypeOK
    <3> QED BY <2>1, <3>1, <3>2
  <2>5. before' \in [Message -> 0..MaxMessages] /\ barrier' \in 0..MaxMessages
    <3>1. /\ before' = before \/ before' = [before EXCEPT ![m] = barrier]
          /\ barrier' = barrier \/ barrier' = m
      BY <1>1, Zenon DEF Read
    <3>2. before \in [Message -> 0..MaxMessages] /\ barrier \in 0..MaxMessages
      BY DEF TypeOK
    <3> QED BY <2>1, <3>1, <3>2
  <2> QED BY <1>1, <2>1, <2>2, <2>3, <2>4, <2>5 DEF Read, TypeOK, server
<1>2. ASSUME NEW m \in Message, Forward(m) PROVE TypeOK'
  <2>1. pc' \in [Process -> PC] /\ session' \in Session /\ sess' \in [Process -> Session]
    <3>1. \/ Goto(m, "queued") /\ UNCHANGED <<session, sess>>
          \/ StartSend(m)
      BY <1>2, Zenon DEF Forward
    <3>2. pc \in [Process -> PC] /\ session \in Session /\ sess \in [Process -> Session]
      BY DEF TypeOK
    <3>3. ASSUME StartSend(m) PROVE session' \in Session
      BY <3>2, <3>3 DEF StartSend, Session
    <3> QED BY <3>1, <3>2, <3>3 DEF StartSend, Goto, PC
  <2>2. before' \in [Message -> 0..MaxMessages]
    BY <1>2 DEF Forward, TypeOK
  <2> QED BY <1>2, <2>1, <2>2 DEF Forward, TypeOK, server, history
<1>3. ASSUME NEW m \in Message, ForwardRecovered(m) PROVE TypeOK'
  <2>1. ASSUME End(m, TRUE), UNCHANGED session PROVE TypeOK'
    BY <1>3, <2>1, EndTypes DEF ForwardRecovered, TypeOK, loop, server
  <2>2. ASSUME StartSend(m), UNCHANGED <<attempt, retried, ran>> PROVE TypeOK'
    <3>1. pc' \in [Process -> PC] /\ session' \in Session /\ sess' \in [Process -> Session]
      BY <2>2 DEF StartSend, Goto, TypeOK, PC, Session
    <3> QED BY <1>3, <2>2, <3>1 DEF ForwardRecovered, TypeOK, loop, server
  <2> QED BY <1>3, <2>1, <2>2 DEF ForwardRecovered
<1>4. ASSUME NEW p \in Process, Fail(p) PROVE TypeOK'
  <2>1. session' \in Session /\ notified' \subseteq Session
    <3>1. session' \in {0, session} /\ notified' \in {notified, notified \cup {sess[p]}}
      BY <1>4, Zenon DEF Fail
    <3> QED BY <3>1 DEF TypeOK, Session
  <2> QED BY <1>4, <2>1, EndTypes, EmitTypes DEF Fail, TypeOK, loop, server
<1>5. ASSUME NEW p \in Process, Unauthorized(p) PROVE TypeOK'
  <2>1. pc' \in [Process -> PC] /\ session' \in Session
    <3>1. session' \in {0, session} /\ (UNCHANGED pc \/ Goto(p, "failing"))
      BY <1>5, Zenon DEF Unauthorized
    <3> QED BY <3>1 DEF Goto, TypeOK, PC, Session
  <2>2. attempt' \in [Process -> 0..1]
    <3>1. attempt' = [attempt EXCEPT ![p] = 1] \/ UNCHANGED attempt
      BY <1>5, Zenon DEF Unauthorized
    <3>2. attempt \in [Process -> 0..1]
      BY DEF TypeOK
    <3> QED BY <3>1, <3>2
  <2> QED BY <1>5, <2>1, <2>2 DEF Unauthorized, TypeOK, loop, server, history
<1>6. ASSUME NEW p \in Process, NotFound(p) PROVE TypeOK'
  <2>1. \/ Recover(p)
        \/ Goto(p, "failing") /\ UNCHANGED <<session, kind, sess, attempt>>
    <3>1. CASE MayRecover(p)
      BY <1>6, <3>1, Zenon DEF NotFound
    <3>2. CASE ~MayRecover(p)
      BY <1>6, <3>2, Zenon DEF NotFound
    <3> QED BY <3>1, <3>2
  <2>2. pc' \in [Process -> PC]
    BY <2>1 DEF Recover, Goto, TypeOK, PC
  <2>3. \/ UNCHANGED <<session, kind, sess, attempt>>
        \/ /\ session' = 0
           /\ kind' = [kind EXCEPT ![Recovery] = "initialize"]
           /\ sess' = [sess EXCEPT ![Recovery] = 0]
           /\ attempt' = [attempt EXCEPT ![Recovery] = 0]
    BY <2>1, Zenon DEF Recover
  <2>4. /\ session' \in Session /\ kind' \in [Process -> Kinds]
        /\ sess' \in [Process -> Session] /\ attempt' \in [Process -> 0..1]
    <3>1. /\ session \in Session /\ kind \in [Process -> Kinds]
          /\ sess \in [Process -> Session] /\ attempt \in [Process -> 0..1]
      BY DEF TypeOK
    <3> QED BY <2>3, <3>1 DEF Session, Kinds
  <2> QED BY <1>6, <2>2, <2>4 DEF NotFound, TypeOK, server, history
<1>7. ASSUME NEW m \in Message, Resend(m) PROVE TypeOK'
  <2>1. ASSUME End(m, TRUE) PROVE TypeOK'
    BY <1>7, <2>1, EndTypes DEF Resend, TypeOK, loop, server
  <2>2. ASSUME Goto(m, "sent"), sess' = [sess EXCEPT ![m] = session],
               attempt' = [attempt EXCEPT ![m] = 0],
               retried' = [retried EXCEPT ![m] = TRUE], UNCHANGED ran
        PROVE  TypeOK'
    <3>1. pc' \in [Process -> PC]
      BY <2>2 DEF Goto, TypeOK, PC
    <3>2. sess' \in [Process -> Session] /\ attempt' \in [Process -> 0..1]
      BY <2>2 DEF TypeOK
    <3>3. retried' \in [Process -> BOOLEAN]
      BY <2>2 DEF TypeOK
    <3> QED BY <1>7, <2>2, <3>1, <3>2, <3>3 DEF Resend, TypeOK, loop, server
  <2> QED BY <1>7, <2>1, <2>2 DEF Resend
<1>8. ASSUME NEW p \in Process, SessionOpens(p) PROVE TypeOK'
  <2>1. opened + 1 \in Session /\ opened + 1 \in 1..MaxSessions
    BY <1>8 DEF SessionOpens, TypeOK, Session
  <2>2. pc' \in [Process -> PC] /\ sess' \in [Process -> Session]
    BY <1>8, <2>1 DEF SessionOpens, Goto, TypeOK, PC
  <2> QED BY <1>8, <2>1, <2>2 DEF SessionOpens, TypeOK, loop, history
<1>9. ASSUME NEW p \in Process, RequestRuns(p) PROVE TypeOK'
  BY <1>9 DEF RequestRuns, Goto, TypeOK, PC, loop, server
<1>10. ASSUME NEW p \in Process, Delivered(p) PROVE TypeOK'
  <2>1. notified' \subseteq Session
    BY <1>10 DEF Delivered, TypeOK
  <2>2. awaiting' \in [Process -> 0..MaxAsks]
    BY <1>10 DEF Delivered, TypeOK
  <2> QED BY <1>10, <2>1, <2>2, EndTypes DEF Delivered, TypeOK, loop
<1>11. ASSUME NEW p \in Process, Ask(p) PROVE TypeOK'
  <2>1. questions' \in Seq(Session) /\ Len(questions') = Len(questions) + 1
    BY <1>11 DEF Ask, TypeOK
  <2>2. awaiting' \in [Process -> 0..MaxAsks] /\ Len(questions') <= MaxAsks
    BY <1>11, <2>1 DEF Ask, TypeOK
  <2> QED BY <1>11, <2>1, <2>2 DEF Ask, TypeOK, loop, history
<1>12. ASSUME NEW p \in Process, RequestAnswered(p) PROVE TypeOK'
  BY <1>12, EndTypes, EmitTypes DEF RequestAnswered, TypeOK, loop, server
<1>13. ASSUME NEW p \in Process, Initialized(p) PROVE TypeOK'
  <2>1. session' \in Session /\ replies' \in [Message -> Nat]
    BY <1>13, EmitTypes DEF Initialized, TypeOK
  <2>2. ASSUME p # Recovery PROVE TypeOK'
    BY <1>13, <2>1, <2>2, EndTypes DEF Initialized, TypeOK, server
  <2>3. ASSUME p = Recovery PROVE TypeOK'
    <3>1. kind' \in [Process -> Kinds] /\ pc' \in [Process -> PC]
      BY <1>13, <2>3 DEF Initialized, Goto, TypeOK, Kinds, PC
    <3>2. attempt' \in [Process -> 0..1]
      <4>1. attempt' = [attempt EXCEPT ![p] = 0]
        BY <1>13, <2>3, Zenon DEF Initialized
      <4> QED BY <4>1 DEF TypeOK
    <3> QED BY <1>13, <2>1, <2>3, <3>1, <3>2 DEF Initialized, TypeOK, server
  <2> QED BY <2>2, <2>3
<1>14. ASSUME NEW p \in Process, Breaks(p) PROVE TypeOK'
  <2>1. pc' \in [Process -> PC] /\ awaiting' \in [Process -> 0..MaxAsks]
    BY <1>14 DEF Breaks, Goto, TypeOK, PC
  <2>2. ran' \in [Process -> Nat]
    BY <1>14 DEF Breaks, TypeOK
  <2> QED BY <1>14, <2>1, <2>2 DEF Breaks, TypeOK, loop
<1>15. CASE CloseInput
  BY <1>15 DEF CloseInput, TypeOK, server, history
<1>16. CASE UNCHANGED vars
  BY <1>16 DEF vars, TypeOK, loop, server, history
<1> QED
  BY <1>1, <1>2, <1>3, <1>4, <1>5, <1>6, <1>7, <1>8, <1>9, <1>10, <1>11, <1>12, <1>13,
     <1>14, <1>15, <1>16
  DEF Next, TaskStep, SendStep, Rest

(* Every variable of the proxy keeps its type. *)
THEOREM TypeCorrect == Spec => []TypeOK
<1>1. Init => TypeOK BY TypeInit
<1>2. TypeOK /\ [Next]_vars => TypeOK' BY TypeStep
<1> QED BY <1>1, <1>2, PTL DEF Spec

-----------------------------------------------------------------------------
(* One process at a time.                                                  *)

ReplyOK(m) == replies[m] = IF pc[m] = "done" /\ IsRequest(kind[m]) THEN 1 ELSE 0

(* What every step but Read does for a process. *)
StepOK(q) ==
    /\ q \in Message => (pc'[q] = "none" <=> pc[q] = "none")
    /\ RunOK(q)'
    /\ q \in Message /\ ~closed /\ ReplyOK(q) => ReplyOK(q)'

(* What a step does to the processes whose step it is not. *)
Untouched(q) ==
    /\ kind'[q] = kind[q] /\ ran'[q] = ran[q]
    /\ q \in Message => replies'[q] = replies[q]
    /\ \/ pc'[q] = pc[q]
       \/ pc[q] \in {"queued", "expired"} /\ pc'[q] \in {"released", "resend", "failing"}

LEMMA UntouchedOK ==
    ASSUME NEW q \in Process, RunOK(q), Untouched(q)
    PROVE  StepOK(q)
<1>1. RunOK(q)'
  BY DEF RunOK, Untouched
<1>2. pc'[q] = "none" <=> pc[q] = "none"
  BY DEF Untouched
<1>3. (pc'[q] = "done" <=> pc[q] = "done") /\ kind'[q] = kind[q]
  BY DEF Untouched
<1>4. q \in Message /\ ReplyOK(q) => ReplyOK(q)'
  BY <1>3 DEF Untouched, ReplyOK, IsRequest
<1> QED BY <1>1, <1>2, <1>4 DEF StepOK

(* A process that goes from one label to another and has run nothing, or   *)
(* was in the stream of an answer and fails.                               *)
LEMMA GotoOK ==
    ASSUME TypeOK, NEW p \in Process, NEW l, RunOK(p), Goto(p, l),
           UNCHANGED <<kind, ran, replies>>,
           l \notin {"none", "done"}, pc[p] \notin {"none", "done"},
           pc[p] \in {"streaming", "failing"} => l \in {"streaming", "failing"}
    PROVE  \A q \in Process : StepOK(q) \/ (q # p /\ Untouched(q))
<1>1. pc' = [pc EXCEPT ![p] = l] /\ pc \in [Process -> PC]
  BY DEF Goto, TypeOK
<1>2. ASSUME NEW q \in Process, q # p PROVE Untouched(q)
  BY <1>1, <1>2 DEF Untouched
<1>3. StepOK(p)
  <2>1. pc'[p] = l BY <1>1
  <2>2. RunOK(p)' BY <2>1 DEF RunOK
  <2>3. ReplyOK(p) => ReplyOK(p)' BY <2>1 DEF ReplyOK, IsRequest
  <2> QED BY <2>1, <2>2, <2>3 DEF StepOK
<1> QED BY <1>2, <1>3

(* A process that ends. *)
LEMMA EndOK ==
    ASSUME TypeOK, NEW p \in Process, NEW ok \in BOOLEAN, End(p, ok), UNCHANGED kind,
           pc[p] \notin {"none", "done"}
    PROVE  /\ RunOK(p)' /\ (p \in Message => pc'[p] = "done")
           /\ \A q \in Process : q # p /\ (q \in Message => replies'[q] = replies[q])
                                 => Untouched(q)
<1> USE Processes
<1>1. ran' = [ran EXCEPT ![p] = 0] /\ ran \in [Process -> Nat] /\ pc \in [Process -> PC]
  BY DEF End, TypeOK
<1>2. CASE p # Recovery
  <2>1. pc' = [pc EXCEPT ![p] = "done"]
    BY <1>2, Zenon DEF End
  <2> QED BY <1>1, <2>1 DEF RunOK, Untouched
<1>3. CASE p = Recovery
  <2>1. pc' = [q \in Process |-> IF q = Recovery THEN "none" ELSE Wakes(pc[q], ok)]
    BY <1>3, Zenon DEF End
  <2>2. pc'[p] = "none"
    BY <1>3, <2>1
  <2>3. ASSUME NEW q \in Process, q # p
        PROVE  \/ pc'[q] = pc[q]
               \/ pc[q] \in {"queued", "expired"} /\ pc'[q] \in {"released", "resend", "failing"}
    <3>1. pc'[q] = Wakes(pc[q], ok)
      BY <1>3, <2>1, <2>3
    <3> QED BY <3>1 DEF Wakes
  <2> QED BY <1>1, <1>3, <2>2, <2>3 DEF RunOK, Untouched
<1> QED BY <1>2, <1>3

(* Emit answers the host of a request, unless its input is closed.         *)
LEMMA EmitOnce ==
    ASSUME NEW p \in Process, TypeOK, Emit(p)
    PROVE  /\ p \in Message /\ ~closed =>
                replies'[p] = IF IsRequest(kind[p]) THEN replies[p] + 1 ELSE replies[p]
           /\ \A q \in Message : q # p => replies'[q] = replies[q]
<1>1. replies \in [Message -> Nat]
  BY DEF TypeOK
<1>2. CASE closed \/ p = Recovery \/ ~IsRequest(kind[p])
  <2>1. replies' = replies
    BY <1>2, Zenon DEF Emit
  <2> QED BY <1>2, <2>1, Processes, Zenon
<1>3. CASE ~(closed \/ p = Recovery \/ ~IsRequest(kind[p]))
  <2>1. replies' = [replies EXCEPT ![p] = @ + 1] /\ IsRequest(kind[p])
    BY <1>3, Zenon DEF Emit
  <2> QED BY <1>1, <2>1
<1> QED BY <1>2, <1>3

(* A process that ends, of a request one that has answered the host.       *)
LEMMA EndStep ==
    ASSUME TypeOK, \A q \in Process : RunOK(q),
           NEW p \in Process, NEW ok \in BOOLEAN, End(p, ok), UNCHANGED kind,
           pc[p] \notin {"none", "done"},
           Emit(p) \/ (~IsRequest(kind[p]) /\ UNCHANGED replies)
    PROVE  \A q \in Process : StepOK(q)
<1>1. \A q \in Message : q # p => replies'[q] = replies[q]
  BY EmitOnce
<1>2. ASSUME NEW q \in Process, q # p PROVE StepOK(q)
  BY <1>1, <1>2, EndOK, UntouchedOK
<1>3. ASSUME p # Recovery PROVE StepOK(p)
  <2>1. p \in Message /\ pc'[p] = "done" /\ RunOK(p)'
    BY <1>3, EndOK, Processes
  <2>2. ASSUME ~closed, ReplyOK(p) PROVE ReplyOK(p)'
    <3>1. replies[p] = 0
      BY <2>2 DEF ReplyOK
    <3>2. replies'[p] = IF IsRequest(kind[p]) THEN 1 ELSE 0
      <4>1. CASE Emit(p)
        <5>1. replies'[p] = IF IsRequest(kind[p]) THEN replies[p] + 1 ELSE replies[p]
          BY <2>1, <2>2, <4>1, EmitOnce
        <5> QED BY <3>1, <5>1
      <4>2. CASE ~IsRequest(kind[p]) /\ UNCHANGED replies
        BY <3>1, <4>2
      <4> QED BY <4>1, <4>2
    <3> QED BY <2>1, <3>2 DEF ReplyOK, IsRequest
  <2> QED BY <2>1, <2>2 DEF StepOK
<1>4. ASSUME p = Recovery PROVE StepOK(p)
  BY <1>4, EndOK, Processes DEF StepOK
<1> QED BY <1>2, <1>3, <1>4

(* A step other than Read.                                                 *)
LEMMA StepSafe ==
    ASSUME TypeOK, \A q \in Process : RunOK(q), NEW p \in Process,
           (p \in Message /\ TaskStep(p)) \/ SendStep(p)
    PROVE  \A q \in Process : StepOK(q)
<1> USE Processes
<1>0. /\ ran \in [Process -> Nat] /\ pc \in [Process -> PC] /\ kind \in [Process -> Kinds]
      /\ replies \in [Message -> Nat] /\ RunOK(p)
  BY DEF TypeOK
<1>1. ASSUME p \in Message, Forward(p) PROVE \A q \in Process : StepOK(q)
  <2>1. pc[p] = "barrier" /\ UNCHANGED <<kind, ran, replies>>
    BY <1>1 DEF Forward, history
  <2>2. Goto(p, "queued") \/ Goto(p, "sent")
    <3>1. Goto(p, "queued") \/ StartSend(p)
      BY <1>1, Zenon DEF Forward
    <3> QED BY <3>1 DEF StartSend
  <2> QED BY <1>0, <2>1, <2>2, GotoOK, UntouchedOK
<1>2. ASSUME p \in Message, ForwardRecovered(p) PROVE \A q \in Process : StepOK(q)
  <2>1. pc[p] = "released" /\ UNCHANGED <<kind, replies>>
    BY <1>2 DEF ForwardRecovered, loop
  <2>2. CASE kind[p] = "initialized"
    <3>1. End(p, TRUE) /\ ~IsRequest(kind[p])
      BY <1>2, <2>2 DEF ForwardRecovered, IsRequest
    <3> QED BY <2>1, <3>1, EndStep
  <2>3. CASE kind[p] # "initialized"
    <3>1. Goto(p, "sent") /\ UNCHANGED ran
      BY <1>2, <2>3 DEF ForwardRecovered, StartSend
    <3> QED BY <1>0, <2>1, <3>1, GotoOK, UntouchedOK
  <2> QED BY <2>2, <2>3
<1>3. ASSUME p \in Message, Resend(p) PROVE \A q \in Process : StepOK(q)
  <2>1. pc[p] = "resend" /\ UNCHANGED <<kind, replies>>
    BY <1>3 DEF Resend, loop
  <2>2. CASE kind[p] = "initialized"
    <3>1. End(p, TRUE) /\ ~IsRequest(kind[p])
      BY <1>3, <2>2 DEF Resend, IsRequest
    <3> QED BY <2>1, <3>1, EndStep
  <2>3. CASE kind[p] # "initialized"
    <3>1. Goto(p, "sent") /\ UNCHANGED ran
      BY <1>3, <2>3 DEF Resend
    <3> QED BY <1>0, <2>1, <3>1, GotoOK, UntouchedOK
  <2> QED BY <2>2, <2>3
<1>4. ASSUME Fail(p) PROVE \A q \in Process : StepOK(q)
  <2>1. pc[p] = "failing" /\ End(p, FALSE) /\ Emit(p) /\ UNCHANGED kind
    BY <1>4 DEF Fail, loop
  <2> QED BY <2>1, EndStep
<1>5. ASSUME Unauthorized(p) PROVE \A q \in Process : StepOK(q)
  <2>1. pc[p] = "sent" /\ UNCHANGED <<kind, ran, replies>>
    BY <1>5 DEF Unauthorized, Answerable, loop, history
  <2>2. Goto(p, "failing") \/ UNCHANGED pc
    BY <1>5, Zenon DEF Unauthorized
  <2>3. CASE Goto(p, "failing")
    BY <1>0, <2>1, <2>3, GotoOK, UntouchedOK
  <2>4. CASE UNCHANGED pc
    BY <2>1, <2>4, UntouchedOK DEF Untouched
  <2> QED BY <2>2, <2>3, <2>4
<1>6. ASSUME NotFound(p) PROVE \A q \in Process : StepOK(q)
  <2>1. pc[p] = "sent" /\ UNCHANGED <<ran, replies>>
    BY <1>6 DEF NotFound, Answerable, history
  <2>2. \/ p # Recovery /\ Recover(p)
        \/ Goto(p, "failing") /\ UNCHANGED kind
    <3>1. CASE MayRecover(p)
      <4>1. p # Recovery
        BY <3>1, Zenon DEF MayRecover
      <4> QED BY <1>6, <3>1, <4>1, Zenon DEF NotFound
    <3>2. CASE ~MayRecover(p)
      BY <1>6, <3>2, Zenon DEF NotFound
    <3> QED BY <3>1, <3>2
  <2>3. \/ (Goto(p, "failing") \/ Goto(p, "expired") \/ Goto(p, "resend")) /\ UNCHANGED kind
        \/ /\ p # Recovery /\ ~Recovering
           /\ pc' = [pc EXCEPT ![p] = "expired", ![Recovery] = "sent"]
           /\ kind' = [kind EXCEPT ![Recovery] = "initialize"]
    BY <2>2, Zenon DEF Recover
  <2>4. CASE (Goto(p, "failing") \/ Goto(p, "expired") \/ Goto(p, "resend")) /\ UNCHANGED kind
    BY <1>0, <2>1, <2>4, GotoOK, UntouchedOK
  <2>5. CASE /\ p # Recovery /\ ~Recovering
             /\ pc' = [pc EXCEPT ![p] = "expired", ![Recovery] = "sent"]
             /\ kind' = [kind EXCEPT ![Recovery] = "initialize"]
    <3>1. pc'[Recovery] = "sent" /\ pc'[p] = "expired" /\ kind'[p] = kind[p]
      BY <1>0, <2>5
    <3>2. ran[Recovery] = 0
      BY <2>5 DEF Recovering, RunOK
    <3>3. StepOK(Recovery)
      BY <2>1, <3>1, <3>2 DEF StepOK, RunOK
    <3>4. StepOK(p)
      BY <1>0, <2>1, <3>1 DEF StepOK, RunOK, ReplyOK, IsRequest
    <3>5. ASSUME NEW q \in Process, q # p, q # Recovery PROVE StepOK(q)
      BY <1>0, <2>1, <2>5, <3>5, UntouchedOK DEF Untouched
    <3> QED BY <3>3, <3>4, <3>5
  <2> QED BY <2>3, <2>4, <2>5
<1>7. ASSUME SessionOpens(p) PROVE \A q \in Process : StepOK(q)
  <2>1. /\ pc[p] = "sent" /\ UNCHANGED <<kind, ran, replies>>
        /\ Goto(p, "streaming")
    BY <1>7 DEF SessionOpens, Answerable, loop, history
  <2> QED BY <1>0, <2>1, GotoOK, UntouchedOK
<1>8. ASSUME RequestRuns(p) PROVE \A q \in Process : StepOK(q)
  <2>1. /\ pc[p] = "sent" /\ kind[p] = "request" /\ UNCHANGED <<kind, replies>>
        /\ pc' = [pc EXCEPT ![p] = "streaming"] /\ ran' = [ran EXCEPT ![p] = @ + 1]
    BY <1>8 DEF RequestRuns, Answerable, Goto, loop
  <2>2. StepOK(p)
    BY <1>0, <2>1 DEF StepOK, RunOK, ReplyOK, IsRequest
  <2>3. ASSUME NEW q \in Process, q # p PROVE StepOK(q)
    BY <1>0, <2>1, <2>3, UntouchedOK DEF Untouched
  <2> QED BY <2>2, <2>3
<1>9. ASSUME Delivered(p) PROVE \A q \in Process : StepOK(q)
  <2>1. /\ pc[p] = "sent" /\ UNCHANGED <<kind, replies>> /\ ~IsRequest(kind[p])
        /\ End(p, TRUE)
    BY <1>9 DEF Delivered, Answerable, loop
  <2> QED BY <2>1, EndStep
<1>10. ASSUME Ask(p) PROVE \A q \in Process : StepOK(q)
  BY <1>10, UntouchedOK DEF Ask, Untouched, loop, history
<1>11. ASSUME RequestAnswered(p) PROVE \A q \in Process : StepOK(q)
  <2>1. pc[p] = "streaming" /\ UNCHANGED kind /\ End(p, TRUE) /\ Emit(p)
    BY <1>11 DEF RequestAnswered, Finishes, loop
  <2> QED BY <2>1, EndStep
<1>12. ASSUME Initialized(p) PROVE \A q \in Process : StepOK(q)
  <2>1. pc[p] = "streaming" /\ kind[p] = "initialize" /\ Emit(p)
    BY <1>12 DEF Initialized, Finishes
  <2>2. CASE p # Recovery
    <3>1. End(p, TRUE) /\ UNCHANGED kind
      BY <1>12, <2>2, Zenon DEF Initialized
    <3> QED BY <2>1, <3>1, EndStep
  <2>3. CASE p = Recovery
    <3>1. /\ kind' = [kind EXCEPT ![p] = "initialized"]
          /\ pc' = [pc EXCEPT ![p] = "sent"] /\ UNCHANGED ran
      BY <1>12, <2>3, Zenon DEF Initialized, Goto
    <3>2. ran[p] = 0
      BY <1>0, <2>1 DEF RunOK
    <3>3. StepOK(p)
      BY <1>0, <2>3, <3>1, <3>2 DEF StepOK, RunOK
    <3>4. ASSUME NEW q \in Process, q # p PROVE StepOK(q)
      <4>1. q \in Message => replies'[q] = replies[q]
        BY <2>1, <3>4, EmitOnce
      <4> QED BY <1>0, <3>1, <3>4, <4>1, UntouchedOK DEF Untouched
    <3> QED BY <3>3, <3>4
  <2> QED BY <2>2, <2>3
<1>13. ASSUME Breaks(p) PROVE \A q \in Process : StepOK(q)
  <2>1. /\ pc[p] \in {"sent", "streaming"} /\ UNCHANGED <<kind, replies>>
        /\ pc' = [pc EXCEPT ![p] = "failing"]
        /\ \/ UNCHANGED ran
           \/ /\ pc[p] = "sent" /\ kind[p] = "request"
              /\ ran' = [ran EXCEPT ![p] = @ + 1]
    BY <1>13 DEF Breaks, Goto, loop
  <2>2. StepOK(p)
    BY <1>0, <2>1 DEF StepOK, RunOK, ReplyOK, IsRequest
  <2>3. ASSUME NEW q \in Process, q # p PROVE StepOK(q)
    BY <1>0, <2>1, <2>3, UntouchedOK DEF Untouched
  <2> QED BY <2>2, <2>3
<1> QED
  BY <1>1, <1>2, <1>3, <1>4, <1>5, <1>6, <1>7, <1>8, <1>9, <1>10, <1>11, <1>12, <1>13
  DEF TaskStep, SendStep

-----------------------------------------------------------------------------
(* The inductive invariant.                                                *)

(* The invariant holds of the proxy that has read nothing. *)
LEMMA InvInit == Init => IInv
<1> SUFFICES ASSUME Init PROVE IInv
  OBVIOUS
<1>1. TypeOK
  BY TypeInit
<1>2. Fresh /\ OneReply /\ \A p \in Process : RunOK(p)
  BY McpProxyAssumption, Processes DEF Init, Fresh, OneReply, RunOK, Message
<1> QED BY <1>1, <1>2 DEF IInv

(* Reading a message starts its task, or refuses a request over the limit. *)
LEMMA ReadStep ==
    ASSUME IInv, NEW k \in Kinds, NEW q \in 0..MaxAsks, Read(k, q)
    PROVE  Fresh' /\ (\A p \in Process : RunOK(p)') /\ \A m \in Message : ReplyOK(m) => ReplyOK(m)'
<1> DEFINE m == heard + 1
<1> USE McpProxyAssumption, Processes
<1>1. m \in Message /\ m \in Process /\ pc[m] = "none"
  BY DEF Read, IInv, TypeOK, Fresh, Message
<1>2. /\ pc \in [Process -> PC] /\ kind \in [Process -> Kinds] /\ heard \in Nat
      /\ replies \in [Message -> Nat]
  BY DEF IInv, TypeOK
<1>3. heard' = m /\ kind' = [kind EXCEPT ![m] = k] /\ UNCHANGED ran
  BY DEF Read
<1>4. \/ /\ IsRequest(k) /\ Goto(m, "done")
         /\ replies' = [replies EXCEPT ![m] = @ + 1]
      \/ (Goto(m, "sent") \/ Goto(m, "barrier")) /\ UNCHANGED replies
  BY Zenon DEF Read
<1>5. pc' = [pc EXCEPT ![m] = pc'[m]] /\ pc'[m] \in {"done", "sent", "barrier"}
  BY <1>1, <1>2, <1>4 DEF Goto
<1>6. Fresh'
  <2>1. \A i \in Message : i > m <=> i > heard /\ i # m
    BY <1>2 DEF Message
  <2> QED BY <1>1, <1>2, <1>3, <1>5, <2>1 DEF IInv, Fresh, Message
<1>7. ASSUME NEW p \in Process PROVE RunOK(p)'
  <2>1. RunOK(p)
    BY DEF IInv
  <2>2. CASE p = m
    BY <1>1, <1>3, <1>5, <2>1, <2>2 DEF RunOK
  <2>3. CASE p # m
    BY <1>2, <1>3, <1>5, <2>1, <2>3 DEF RunOK
  <2> QED BY <2>2, <2>3
<1>8. ASSUME NEW i \in Message, ReplyOK(i) PROVE ReplyOK(i)'
  <2>1. CASE i = m
    <3>1. replies[m] = 0 /\ kind'[m] = k
      BY <1>1, <1>2, <1>3, <1>8, <2>1 DEF ReplyOK
    <3> QED BY <1>1, <1>2, <1>4, <2>1, <3>1 DEF ReplyOK, Goto, IsRequest
  <2>2. CASE i # m
    <3>1. kind'[i] = kind[i] /\ pc'[i] = pc[i] /\ replies'[i] = replies[i]
      BY <1>2, <1>3, <1>4, <1>5, <2>2
    <3> QED BY <1>8, <3>1 DEF ReplyOK, IsRequest
  <2> QED BY <2>1, <2>2
<1> QED BY <1>6, <1>7, <1>8

LEMMA InvStep == IInv /\ [Next]_vars => IInv'
<1> SUFFICES ASSUME IInv, [Next]_vars PROVE IInv'
  OBVIOUS
<1>1. TypeOK'
  BY TypeStep DEF IInv
<1>2. TypeOK /\ (\A p \in Process : RunOK(p)) /\ (~closed => \A m \in Message : ReplyOK(m))
  BY DEF IInv, OneReply, ReplyOK
<1>3. ASSUME UNCHANGED heard, closed => closed', \A p \in Process : StepOK(p) PROVE IInv'
  <2>1. Fresh'
    BY <1>3, Processes DEF IInv, Fresh, StepOK
  <2>2. \A p \in Process : RunOK(p)'
    BY <1>3 DEF StepOK
  <2>3. ~closed' => \A m \in Message : ReplyOK(m)'
    BY <1>2, <1>3, Processes DEF StepOK
  <2>4. OneReply'
    BY <2>3 DEF OneReply, ReplyOK
  <2> QED BY <1>1, <2>1, <2>2, <2>4 DEF IInv
<1>4. ASSUME NEW k \in Kinds, NEW q \in 0..MaxAsks, Read(k, q) PROVE IInv'
  <2>1. closed' = closed
    BY <1>4 DEF Read
  <2>2. OneReply'
    BY <1>2, <1>4, <2>1, ReadStep DEF OneReply, ReplyOK
  <2> QED BY <1>1, <1>4, <2>2, ReadStep DEF IInv
<1>5. ASSUME NEW p \in Process, (p \in Message /\ TaskStep(p)) \/ SendStep(p) PROVE IInv'
  <2>1. UNCHANGED <<heard, closed>>
    BY <1>5 DEF TaskStep, SendStep, Forward, ForwardRecovered, Resend, Fail, Unauthorized,
       NotFound, SessionOpens, RequestRuns, Delivered, Ask, RequestAnswered,
       Initialized, Breaks, loop
  <2> QED BY <1>2, <1>3, <1>5, <2>1, StepSafe
<1>6. ASSUME UNCHANGED <<heard, kind, pc, ran, replies>>, closed => closed' PROVE IInv'
  BY <1>2, <1>3, <1>6, UntouchedOK DEF Untouched
<1>7. CASE CloseInput
  BY <1>6, <1>7 DEF CloseInput, history
<1>8. CASE UNCHANGED vars
  BY <1>6, <1>8 DEF vars, loop, history
<1> QED
  BY <1>4, <1>5, <1>7, <1>8, Processes DEF Next, Rest

LEMMA Invariant == Spec => []IInv
<1>1. Init => IInv BY InvInit
<1>2. IInv /\ [Next]_vars => IInv' BY InvStep
<1> QED BY <1>1, <1>2, PTL DEF Spec

(* A request of the host is answered once: when its task is over, and not  *)
(* again by a recovery that replays its initialize (run.ts:279-302,        *)
(* transport.ts:225-231).                                                  *)
THEOREM OneAnswerEach == Spec => []OneReply
<1>1. IInv => OneReply BY DEF IInv
<1> QED BY <1>1, Invariant, PTL

(* What the server may have run is not sent again, although a message is   *)
(* sent again after a 401 and after a 404 (docs/mcpb.md:88-89).            *)
THEOREM NothingRunsTwice == Spec => []RunOnce
<1>1. IInv => RunOnce BY Processes DEF IInv, RunOK, RunOnce
<1> QED BY <1>1, Invariant, PTL

-----------------------------------------------------------------------------
(* The order of the messages, and who waits for whom.                      *)

(* The host begins with its initialize, says initialized at most once, and *)
(* only its replies answer a question.                                     *)
HostOrder ==
    /\ \A m \in Message : m > heard => kind[m] = "none" /\ answers[m] = 0
    /\ \A m \in Message : kind[m] = "initialize" => m = 1
    /\ \A i, j \in Message : kind[i] = "initialized" /\ kind[j] = "initialized" => i = j
    /\ \A m \in Message : answers[m] # 0 => kind[m] = "reply"

(* Replies wait for nobody, nor does the recovery for another; a message   *)
(* waits for an earlier one only.                                          *)
WaitsOK ==
    /\ pc[Recovery] \in {"none", "sent", "streaming", "failing"}
    /\ \A m \in Message : kind[m] = "reply" => pc[m] \in {"sent", "failing", "done"}
    /\ \A m \in Message : before[m] < m

(* What the host sends after its initialized notification waits for it.    *)
BarrierOK ==
    /\ barrier <= heard
    /\ \A i \in Message : kind[i] = "initialized" =>
         /\ barrier = i
         /\ \A m \in Message : m > i =>
              /\ pc[m] = "barrier" => before[m] = i
              /\ kind[m] = "request" /\ pc[m] \notin {"none", "barrier", "done"}
                   => pc[i] = "done"

OrderInv == IInv /\ HostOrder /\ WaitsOK /\ BarrierOK

(* What a step that reads nothing may do to a message.                     *)
Move(m) ==
    /\ kind'[m] = kind[m]
    /\ before'[m] = IF pc[m] = "barrier" /\ pc'[m] # "barrier" THEN 0 ELSE before[m]
    /\ \/ pc'[m] = pc[m]
       \/ pc[m] = "barrier" /\ Settled(before[m]) /\ pc'[m] \in {"queued", "sent"}
       \/ pc[m] \in {"queued", "expired"} /\ pc'[m] \in {"released", "resend", "failing"}
       \/ pc[m] \in {"released", "resend"} /\ pc'[m] \in {"sent", "done"}
       \/ pc[m] = "sent" /\ pc'[m] \in {"failing", "done"}
       \/ pc[m] = "sent" /\ IsRequest(kind[m]) /\ pc'[m] = "streaming"
       \/ pc[m] = "sent" /\ kind[m] # "reply" /\ pc'[m] \in {"expired", "resend"}
       \/ pc[m] \in {"streaming", "failing"} /\ pc'[m] \in {"failing", "done"}

RecoveryMoves == pc'[Recovery] \in {"none", "sent", "streaming", "failing"}

Moves ==
    /\ UNCHANGED <<closed, heard, barrier, answers>>
    /\ RecoveryMoves /\ \A m \in Message : Move(m)

(* A step from one label to another, and the end of a process, are moves.  *)
LEMMA GotoMoves ==
    ASSUME OrderInv, NEW p \in Process, NEW l, Goto(p, l), UNCHANGED <<kind, before>>,
           pc[p] # "barrier", l # "barrier",
           p = Recovery => l \in {"sent", "streaming", "failing"},
           p # Recovery =>
             \/ pc[p] \in {"released", "resend"} /\ l = "sent"
             \/ pc[p] = "sent" /\ l \in {"sent", "failing"}
             \/ pc[p] = "sent" /\ IsRequest(kind[p]) /\ l = "streaming"
             \/ pc[p] = "sent" /\ kind[p] # "reply" /\ l \in {"expired", "resend"}
             \/ pc[p] = "streaming" /\ l = "failing"
    PROVE  RecoveryMoves /\ \A m \in Message : Move(m)
<1>1. pc' = [pc EXCEPT ![p] = l] /\ pc \in [Process -> PC]
  BY DEF Goto, OrderInv, IInv, TypeOK
<1>2. RecoveryMoves
  BY <1>1, Processes DEF RecoveryMoves, OrderInv, WaitsOK
<1>3. ASSUME NEW m \in Message PROVE Move(m)
  BY <1>1, <1>3, Processes DEF Move
<1> QED BY <1>2, <1>3

LEMMA EndMoves ==
    ASSUME OrderInv, NEW p \in Process, NEW ok \in BOOLEAN, End(p, ok), UNCHANGED <<kind, before>>,
           pc[p] \in {"released", "resend", "sent", "streaming", "failing"}
    PROVE  RecoveryMoves /\ \A m \in Message : Move(m)
<1> USE Processes
<1>1. pc \in [Process -> PC]
  BY DEF OrderInv, IInv, TypeOK
<1>2. CASE p # Recovery
  <2>1. pc' = [pc EXCEPT ![p] = "done"]
    BY <1>2, Zenon DEF End
  <2>2. RecoveryMoves
    BY <1>1, <1>2, <2>1 DEF RecoveryMoves, OrderInv, WaitsOK
  <2>3. ASSUME NEW m \in Message PROVE Move(m)
    BY <1>1, <2>1 DEF Move
  <2> QED BY <2>2, <2>3
<1>3. CASE p = Recovery
  <2>1. pc' = [q \in Process |-> IF q = Recovery THEN "none" ELSE Wakes(pc[q], ok)]
    BY <1>3, Zenon DEF End
  <2>2. RecoveryMoves
    BY <2>1 DEF RecoveryMoves
  <2>3. ASSUME NEW m \in Message PROVE Move(m)
    <3>1. pc'[m] = Wakes(pc[m], ok)
      BY <2>1
    <3>2. \/ pc'[m] = pc[m]
          \/ pc[m] \in {"queued", "expired"} /\ pc'[m] \in {"released", "resend", "failing"}
      BY <3>1 DEF Wakes
    <3> QED BY <3>2 DEF Move
  <2> QED BY <2>2, <2>3
<1> QED BY <1>2, <1>3

(* Every step but Read moves the messages in this way.                     *)
LEMMA StepMoves ==
    ASSUME OrderInv, NEW p \in Process, (p \in Message /\ TaskStep(p)) \/ SendStep(p)
    PROVE  Moves
<1> USE Processes
<1>0. /\ pc \in [Process -> PC] /\ kind \in [Process -> Kinds]
      /\ before \in [Message -> 0..MaxMessages]
  BY DEF OrderInv, IInv, TypeOK
<1>1. ASSUME p \in Message, Forward(p) PROVE Moves
  <2>1. /\ pc[p] = "barrier" /\ Settled(before[p]) /\ before' = [before EXCEPT ![p] = 0]
        /\ UNCHANGED <<closed, heard, barrier, kind, answers>>
    BY <1>1 DEF Forward
  <2>2. Goto(p, "queued") \/ Goto(p, "sent")
    <3>1. Goto(p, "queued") \/ StartSend(p)
      BY <1>1, Zenon DEF Forward
    <3> QED BY <3>1 DEF StartSend
  <2>3. RecoveryMoves
    BY <1>0, <1>1, <2>2 DEF Goto, RecoveryMoves, OrderInv, WaitsOK
  <2>4. ASSUME NEW m \in Message PROVE Move(m)
    BY <1>0, <2>1, <2>2 DEF Goto, Move
  <2> QED BY <2>1, <2>3, <2>4 DEF Moves
<1>2. ASSUME p \in Message, ForwardRecovered(p) PROVE Moves
  <2>1. pc[p] = "released" /\ UNCHANGED loop
    BY <1>2 DEF ForwardRecovered
  <2>2. End(p, TRUE) \/ Goto(p, "sent")
    <3>1. End(p, TRUE) \/ StartSend(p)
      BY <1>2, Zenon DEF ForwardRecovered
    <3> QED BY <3>1 DEF StartSend
  <2> QED BY <1>2, <2>1, <2>2, GotoMoves, EndMoves DEF Moves, loop
<1>3. ASSUME p \in Message, Resend(p) PROVE Moves
  <2>1. pc[p] = "resend" /\ UNCHANGED loop
    BY <1>3 DEF Resend
  <2>2. End(p, TRUE) \/ Goto(p, "sent")
    BY <1>3, Zenon DEF Resend
  <2> QED BY <1>3, <2>1, <2>2, GotoMoves, EndMoves DEF Moves, loop
<1>4. ASSUME Fail(p) PROVE Moves
  <2>1. pc[p] = "failing" /\ End(p, FALSE) /\ UNCHANGED loop
    BY <1>4 DEF Fail
  <2> QED BY <2>1, EndMoves DEF Moves, loop
<1>5. ASSUME Unauthorized(p) PROVE Moves
  <2>1. pc[p] = "sent" /\ UNCHANGED loop
    BY <1>5 DEF Unauthorized, Answerable
  <2>2. Goto(p, "failing") \/ UNCHANGED pc
    BY <1>5, Zenon DEF Unauthorized
  <2>3. CASE Goto(p, "failing")
    BY <2>1, <2>3, GotoMoves DEF Moves, loop
  <2>4. CASE UNCHANGED pc
    BY <2>1, <2>4 DEF Moves, Move, RecoveryMoves, OrderInv, WaitsOK, loop
  <2> QED BY <2>2, <2>3, <2>4
<1>6. ASSUME NotFound(p) PROVE Moves
  <2>1. pc[p] = "sent" /\ UNCHANGED <<closed, heard, barrier, before, answers>>
    BY <1>6 DEF NotFound, Answerable
  <2>2. \/ p # Recovery /\ kind[p] # "reply" /\ Recover(p)
        \/ Goto(p, "failing") /\ UNCHANGED kind
    <3>1. CASE MayRecover(p)
      <4>1. p # Recovery /\ kind[p] # "reply"
        BY <3>1, Zenon DEF MayRecover, IsMethod
      <4> QED BY <1>6, <3>1, <4>1, Zenon DEF NotFound
    <3>2. CASE ~MayRecover(p)
      BY <1>6, <3>2, Zenon DEF NotFound
    <3> QED BY <3>1, <3>2
  <2>3. \/ Goto(p, "failing") /\ UNCHANGED kind
        \/ /\ p # Recovery /\ kind[p] # "reply" /\ UNCHANGED kind
           /\ Goto(p, "expired") \/ Goto(p, "resend") \/ Goto(p, "failing")
        \/ /\ p # Recovery /\ kind[p] # "reply"
           /\ pc' = [pc EXCEPT ![p] = "expired", ![Recovery] = "sent"]
           /\ kind' = [kind EXCEPT ![Recovery] = "initialize"]
    BY <2>2, Zenon DEF Recover
  <2>4. CASE Goto(p, "failing") /\ UNCHANGED kind
    BY <2>1, <2>4, GotoMoves DEF Moves
  <2>5. CASE /\ p # Recovery /\ kind[p] # "reply" /\ UNCHANGED kind
             /\ Goto(p, "expired") \/ Goto(p, "resend") \/ Goto(p, "failing")
    BY <2>1, <2>5, GotoMoves DEF Moves
  <2>6. CASE /\ p # Recovery /\ kind[p] # "reply"
             /\ pc' = [pc EXCEPT ![p] = "expired", ![Recovery] = "sent"]
             /\ kind' = [kind EXCEPT ![Recovery] = "initialize"]
    <3>1. RecoveryMoves
      BY <1>0, <2>6 DEF RecoveryMoves
    <3>2. ASSUME NEW m \in Message PROVE Move(m)
      BY <1>0, <2>1, <2>6 DEF Move
    <3> QED BY <2>1, <3>1, <3>2 DEF Moves
  <2> QED BY <2>3, <2>4, <2>5, <2>6
<1>7. ASSUME SessionOpens(p) PROVE Moves
  <2>1. /\ pc[p] = "sent" /\ kind[p] = "initialize" /\ UNCHANGED loop
        /\ Goto(p, "streaming")
    BY <1>7 DEF SessionOpens, Answerable
  <2> QED BY <2>1, GotoMoves DEF Moves, loop, IsRequest
<1>8. ASSUME RequestRuns(p) PROVE Moves
  <2>1. /\ pc[p] = "sent" /\ kind[p] = "request" /\ UNCHANGED loop
        /\ Goto(p, "streaming")
    BY <1>8 DEF RequestRuns, Answerable
  <2> QED BY <2>1, GotoMoves DEF Moves, loop, IsRequest
<1>9. ASSUME Delivered(p) PROVE Moves
  <2>1. pc[p] = "sent" /\ UNCHANGED loop /\ End(p, TRUE)
    BY <1>9 DEF Delivered, Answerable
  <2> QED BY <2>1, EndMoves DEF Moves, loop
<1>10. ASSUME Ask(p) PROVE Moves
  BY <1>10 DEF Ask, Moves, Move, RecoveryMoves, OrderInv, WaitsOK, loop
<1>11. ASSUME RequestAnswered(p) PROVE Moves
  <2>1. pc[p] = "streaming" /\ UNCHANGED loop /\ End(p, TRUE)
    BY <1>11 DEF RequestAnswered, Finishes
  <2> QED BY <2>1, EndMoves DEF Moves, loop
<1>12. ASSUME Initialized(p) PROVE Moves
  <2>1. pc[p] = "streaming" /\ UNCHANGED <<closed, heard, barrier, before, answers>>
    BY <1>12 DEF Initialized, Finishes
  <2>2. CASE p # Recovery
    <3>1. End(p, TRUE) /\ UNCHANGED kind
      BY <1>12, <2>2, Zenon DEF Initialized
    <3> QED BY <2>1, <3>1, EndMoves DEF Moves
  <2>3. CASE p = Recovery
    <3>1. /\ kind' = [kind EXCEPT ![p] = "initialized"]
          /\ pc' = [pc EXCEPT ![p] = "sent"]
      BY <1>12, <2>3, Zenon DEF Initialized, Goto
    <3>2. RecoveryMoves
      BY <1>0, <2>3, <3>1 DEF RecoveryMoves
    <3>3. ASSUME NEW m \in Message PROVE Move(m)
      BY <1>0, <2>1, <2>3, <3>1 DEF Move
    <3> QED BY <2>1, <3>2, <3>3 DEF Moves
  <2> QED BY <2>2, <2>3
<1>13. ASSUME Breaks(p) PROVE Moves
  <2>1. /\ pc[p] \in {"sent", "streaming"} /\ UNCHANGED loop /\ Goto(p, "failing")
    BY <1>13 DEF Breaks
  <2> QED BY <2>1, GotoMoves DEF Moves, loop
<1> QED
  BY <1>1, <1>2, <1>3, <1>4, <1>5, <1>6, <1>7, <1>8, <1>9, <1>10, <1>11, <1>12, <1>13
  DEF TaskStep, SendStep

(* The order of the messages survives such a step, and the next message.   *)
LEMMA OrderMoves == OrderInv /\ IInv' /\ Moves => OrderInv'
<1> SUFFICES ASSUME OrderInv, IInv', Moves PROVE OrderInv'
  OBVIOUS
<1>1. UNCHANGED <<heard, barrier, answers>> /\ \A m \in Message : Move(m)
  BY DEF Moves
<1>2. \A m \in Message : kind'[m] = kind[m]
  BY <1>1 DEF Move
<1>3. HostOrder'
  BY <1>1, <1>2 DEF OrderInv, HostOrder
<1>4. WaitsOK'
  <2>1. pc'[Recovery] \in {"none", "sent", "streaming", "failing"}
    BY DEF Moves, RecoveryMoves
  <2>2. ASSUME NEW m \in Message, kind[m] = "reply" PROVE pc'[m] \in {"sent", "failing", "done"}
    BY <1>1, <2>2 DEF Move, OrderInv, WaitsOK, IsRequest
  <2>3. ASSUME NEW m \in Message PROVE before'[m] < m
    BY <1>1 DEF Move, OrderInv, WaitsOK, Message
  <2> QED BY <1>2, <2>1, <2>2, <2>3 DEF WaitsOK
<1>5. BarrierOK'
  <2>1. ASSUME NEW i \in Message, kind[i] = "initialized", NEW m \in Message, m > i
        PROVE  /\ pc'[m] = "barrier" => before'[m] = i
               /\ kind[m] = "request" /\ pc'[m] \notin {"none", "barrier", "done"}
                    => pc'[i] = "done"
    <3>1. Move(m) /\ Move(i)
      BY <1>1
    <3>2. /\ pc[m] = "barrier" => before[m] = i
          /\ kind[m] = "request" /\ pc[m] \notin {"none", "barrier", "done"}
               => pc[i] = "done"
      BY <2>1 DEF OrderInv, BarrierOK
    <3>3. pc[i] = "done" => pc'[i] = "done"
      BY <3>1 DEF Move
    <3>4. pc[m] = "barrier" /\ pc'[m] # "barrier" => pc[i] = "done"
      BY <3>1, <3>2 DEF Move, Settled, Message
    <3> QED BY <3>1, <3>2, <3>3, <3>4 DEF Move
  <2> QED BY <1>1, <1>2, <2>1 DEF OrderInv, BarrierOK
<1> QED BY <1>3, <1>4, <1>5 DEF OrderInv

LEMMA OrderRead ==
    ASSUME OrderInv, IInv', NEW k \in Kinds, NEW q \in 0..MaxAsks, Read(k, q)
    PROVE  OrderInv'
<1> DEFINE n == heard + 1
<1> USE McpProxyAssumption, Processes
<1>1. n \in Message /\ n \in Process /\ pc[n] = "none" /\ kind[n] = "none"
  BY DEF Read, OrderInv, IInv, TypeOK, Fresh, HostOrder, Message
<1>2. /\ pc \in [Process -> PC] /\ kind \in [Process -> Kinds] /\ heard \in Nat
      /\ before \in [Message -> 0..MaxMessages] /\ answers \in [Message -> 0..MaxAsks]
      /\ barrier \in 0..MaxMessages
  BY DEF OrderInv, IInv, TypeOK
<1>3. /\ heard' = n /\ kind' = [kind EXCEPT ![n] = k] /\ answers' = [answers EXCEPT ![n] = q]
      /\ HostMay(k, q)
  BY DEF Read
<1>4. /\ k = "initialize" => n = 1
      /\ k = "initialized" => \A m \in Message : kind[m] # "initialized"
      /\ q # 0 => k = "reply"
  BY <1>2, <1>3 DEF HostMay
<1>5. \/ /\ IsRequest(k) /\ Goto(n, "done") /\ UNCHANGED <<barrier, before>>
      \/ /\ Passes(k) /\ Goto(n, "sent") /\ UNCHANGED <<barrier, before>>
      \/ /\ ~Passes(k) /\ Goto(n, "barrier")
         /\ before' = [before EXCEPT ![n] = barrier]
         /\ barrier' = IF IsBarrier(k) THEN n ELSE barrier
  BY Zenon DEF Read
<1>6. /\ pc' = [pc EXCEPT ![n] = pc'[n]]
      /\ pc'[n] \in {"done", "sent", "barrier"}
      /\ k = "reply" => pc'[n] = "sent"
      /\ k = "request" => pc'[n] \in {"done", "barrier"}
      /\ before' = [before EXCEPT ![n] = before'[n]]
      /\ before'[n] \in {before[n], barrier}
      /\ pc'[n] = "barrier" => before'[n] = barrier
      /\ barrier' = IF IsBarrier(k) /\ pc'[n] = "barrier" THEN n ELSE barrier
      /\ k = "initialized" => pc'[n] = "barrier"
  BY <1>1, <1>2, <1>5 DEF Goto, IsRequest, Passes, IsBarrier
<1>7. \A m \in Message : m # n => kind'[m] = kind[m] /\ pc'[m] = pc[m] /\ before'[m] = before[m]
                                  /\ answers'[m] = answers[m]
  BY <1>1, <1>2, <1>3, <1>6
<1>8. \A m \in Message : m > n => m > heard
  BY <1>2 DEF Message
<1>9. kind'[n] = k /\ answers'[n] = q
  BY <1>1, <1>2, <1>3
<1>10. HostOrder'
  <2>1. \A m \in Message : m > heard' => kind'[m] = "none" /\ answers'[m] = 0
    BY <1>3, <1>7, <1>8 DEF OrderInv, HostOrder, Message
  <2>2. \A m \in Message : kind'[m] = "initialize" => m = 1
    BY <1>4, <1>7, <1>9 DEF OrderInv, HostOrder
  <2>3. \A i, j \in Message : kind'[i] = "initialized" /\ kind'[j] = "initialized" => i = j
    BY <1>4, <1>7, <1>9 DEF OrderInv, HostOrder
  <2>4. \A m \in Message : answers'[m] # 0 => kind'[m] = "reply"
    BY <1>4, <1>7, <1>9 DEF OrderInv, HostOrder
  <2> QED BY <2>1, <2>2, <2>3, <2>4 DEF HostOrder
<1>11. WaitsOK'
  <2>1. pc'[Recovery] = pc[Recovery]
    BY <1>1, <1>2, <1>6
  <2>2. \A m \in Message : kind'[m] = "reply" => pc'[m] \in {"sent", "failing", "done"}
    BY <1>6, <1>7, <1>9 DEF OrderInv, WaitsOK
  <2>3. before'[n] < n
    BY <1>1, <1>2, <1>6 DEF OrderInv, WaitsOK, BarrierOK
  <2> QED BY <1>7, <2>1, <2>2, <2>3 DEF OrderInv, WaitsOK
<1>12. BarrierOK'
  <2>1. barrier' <= heard'
    BY <1>2, <1>3, <1>6 DEF OrderInv, BarrierOK
  <2>2. ASSUME NEW i \in Message, kind'[i] = "initialized"
        PROVE  barrier' = i
    <3>1. CASE i = n
      BY <1>6, <1>9, <2>2, <3>1 DEF IsBarrier
    <3>2. CASE i # n
      <4>1. kind[i] = "initialized"
        BY <1>7, <2>2, <3>2
      <4>2. barrier = i /\ k # "initialized"
        BY <1>4, <4>1 DEF OrderInv, BarrierOK
      <4>3. k # "initialize"
        <5>1. i <= heard
          BY <1>2, <4>1 DEF OrderInv, HostOrder, Message
        <5> QED BY <1>2, <1>4, <5>1 DEF Message
      <4> QED BY <1>6, <4>2, <4>3 DEF IsBarrier
    <3> QED BY <3>1, <3>2
  <2>3. ASSUME NEW i \in Message, kind'[i] = "initialized", NEW m \in Message, m > i
        PROVE  /\ pc'[m] = "barrier" => before'[m] = i
               /\ kind'[m] = "request" /\ pc'[m] \notin {"none", "barrier", "done"}
                    => pc'[i] = "done"
    <3>1. CASE i = n
      <4>1. m > heard /\ m # n
        BY <1>2, <2>3, <3>1 DEF Message
      <4>2. pc'[m] = "none"
        BY <1>7, <4>1 DEF OrderInv, IInv, Fresh
      <4> QED BY <4>2
    <3>2. CASE i # n
      <4>1. kind[i] = "initialized" /\ pc'[i] = pc[i] /\ barrier = i
        BY <1>7, <2>3, <3>2 DEF OrderInv, BarrierOK
      <4>2. CASE m = n
        BY <1>6, <1>9, <4>1, <4>2
      <4>3. CASE m # n
        BY <1>7, <2>3, <4>1, <4>3 DEF OrderInv, BarrierOK
      <4> QED BY <4>2, <4>3
    <3> QED BY <3>1, <3>2
  <2> QED BY <2>1, <2>2, <2>3 DEF BarrierOK
<1> QED BY <1>10, <1>11, <1>12 DEF OrderInv

LEMMA OrderInit == Init => OrderInv
<1> SUFFICES ASSUME Init PROVE OrderInv
  OBVIOUS
<1>1. IInv BY InvInit
<1>2. HostOrder /\ WaitsOK /\ BarrierOK
  BY McpProxyAssumption, Processes DEF Init, HostOrder, WaitsOK, BarrierOK, Message
<1> QED BY <1>1, <1>2 DEF OrderInv

LEMMA OrderStep == OrderInv /\ [Next]_vars => OrderInv'
<1> SUFFICES ASSUME OrderInv, [Next]_vars PROVE OrderInv'
  OBVIOUS
<1>1. IInv'
  BY InvStep DEF OrderInv
<1>2. ASSUME NEW k \in Kinds, NEW q \in 0..MaxAsks, Read(k, q) PROVE OrderInv'
  BY <1>1, <1>2, OrderRead
<1>3. ASSUME NEW p \in Process, (p \in Message /\ TaskStep(p)) \/ SendStep(p) PROVE OrderInv'
  BY <1>1, <1>3, StepMoves, OrderMoves
<1>4. ASSUME UNCHANGED <<heard, barrier, before, kind, answers, pc>> PROVE OrderInv'
  BY <1>1, <1>4 DEF OrderInv, HostOrder, WaitsOK, BarrierOK
<1>5. CASE CloseInput
  BY <1>4, <1>5 DEF CloseInput
<1>6. CASE UNCHANGED vars
  BY <1>4, <1>6 DEF vars, loop
<1> QED
  BY <1>2, <1>3, <1>5, <1>6, Processes DEF Next, Rest

LEMMA OrderInvariant == Spec => []OrderInv
<1>1. Init => OrderInv BY OrderInit
<1>2. OrderInv /\ [Next]_vars => OrderInv' BY OrderStep
<1> QED BY <1>1, <1>2, PTL DEF Spec

(* A set of naturals has a least element. *)
LEMMA Least ==
    ASSUME NEW T \in SUBSET Nat, T # {}
    PROVE  \E x \in T : \A y \in T : x <= y
<1> DEFINE R == OpToRel(<, Nat)
<1>1. IsWellFoundedOn(R, Nat)
  BY NatLessThanWellFounded
<1>2. \A x, y \in Nat : y < x => <<y, x>> \in R
  BY DEF OpToRel
<1> HIDE DEF R
<1>3. PICK x \in T : \A y \in T : ~(<<y, x>> \in R)
  BY <1>1, WFMin
<1>4. ASSUME NEW y \in T PROVE x <= y
  <2>1. x \in Nat /\ y \in Nat /\ ~(y < x)
    BY <1>2, <1>3
  <2> QED BY <2>1
<1> QED BY <1>4

(* Of any processes one waits for none of them: a reply; one that streams, *)
(* which waits for replies only; the recovery; or the first message.       *)
LEMMA OrderNoCycle == OrderInv => NoWaitCycle
<1> SUFFICES ASSUME OrderInv, NEW S \in SUBSET Process, S # {}
             PROVE  \E p \in S : WaitsFor(p) \cap S = {}
  BY DEF NoWaitCycle
<1> USE Processes
<1>1. \A m \in Message : answers[m] # 0 => kind[m] = "reply"
  BY DEF OrderInv, HostOrder
<1>2. ASSUME NEW m \in S, m \in Message, kind[m] = "reply" PROVE WaitsFor(m) = {}
  BY <1>2 DEF WaitsFor, OrderInv, WaitsOK
<1>3. ASSUME NEW p \in S, pc[p] = "streaming", \A m \in S : m \in Message => kind[m] # "reply"
      PROVE  WaitsFor(p) \cap S = {}
  BY <1>1, <1>3 DEF WaitsFor
<1>4. ASSUME Recovery \in S, pc[Recovery] # "streaming" PROVE WaitsFor(Recovery) = {}
  BY <1>4 DEF WaitsFor, OrderInv, WaitsOK
<1>5. ASSUME S \subseteq Message, \A m \in S : pc[m] # "streaming"
      PROVE  \E p \in S : WaitsFor(p) \cap S = {}
  <2>1. S \in SUBSET Nat
    BY <1>5 DEF Message
  <2>2. PICK m \in S : \A y \in S : m <= y
    BY <2>1, Least
  <2>3. m \in Message /\ before[m] < m /\ before[m] \in Nat /\ m \in Nat
    BY <1>5 DEF Message, OrderInv, WaitsOK, IInv, TypeOK
  <2>4. before[m] \notin S
    BY <2>1, <2>2, <2>3
  <2>5. Recovery \notin S
    BY <1>5
  <2>6. WaitsFor(m) \cap S = {}
    BY <1>5, <2>4, <2>5 DEF WaitsFor
  <2> QED BY <2>6
<1>6. CASE \E m \in S : m \in Message /\ kind[m] = "reply"
  BY <1>2, <1>6
<1>7. CASE ~\E m \in S : m \in Message /\ kind[m] = "reply"
  <2>1. CASE \E p \in S : pc[p] = "streaming"
    BY <1>3, <1>7, <2>1
  <2>2. CASE ~\E p \in S : pc[p] = "streaming"
    <3>1. CASE Recovery \in S
      BY <1>4, <2>2, <3>1
    <3>2. CASE Recovery \notin S
      BY <1>5, <2>2, <3>2
    <3> QED BY <3>1, <3>2
  <2> QED BY <2>1, <2>2
<1> QED BY <1>6, <1>7

(* Nobody waits for himself by way of others: a message waits for an       *)
(* earlier one or for the recovery, the recovery for replies, and replies  *)
(* pass both (transport.ts:190-197, run.ts:279-302).                       *)
THEOREM NobodyWaitsForHimself == Spec => []NoWaitCycle
<1>1. OrderInv => NoWaitCycle BY OrderNoCycle
<1> QED BY <1>1, OrderInvariant, PTL

-----------------------------------------------------------------------------
(* The sessions.                                                           *)

(* An initialize of the host that is not over has the proxy to itself:     *)
(* there is no recovery, no session but its own, and its initialized waits *)
(* for it.                                                                 *)
Opening(m) == kind[m] = "initialize" /\ pc[m] \notin {"none", "done"}

OpeningOK ==
    /\ \A m \in Message : Opening(m) =>
         /\ ~known /\ pc[m] \in {"barrier", "sent", "streaming", "failing"}
         /\ pc[m] \in {"barrier", "sent"} => session = 0
         /\ pc[m] \in {"sent", "streaming", "failing"} => sess[m] = session
         /\ \A i \in Message : kind[i] = "initialized" => pc[i] = "barrier" /\ before[i] = m
         /\ (\A i \in Message : kind[i] # "initialized") => barrier = m
    /\ ~known => ~Recovering
    /\ heard = 0 => session = 0 /\ ~known

(* A recovery starts without a session, and announces the one it has       *)
(* opened, which is its own; meanwhile nobody that has waited for one goes *)
(* on.                                                                     *)
RecoveryOK ==
    Recovering =>
      /\ kind[Recovery] \in {"initialize", "initialized"}
      /\ sess[Recovery] = session
      /\ pc[Recovery] = "sent" /\ kind[Recovery] = "initialize" => session = 0
      /\ \A m \in Message : pc[m] \notin {"released", "resend"}

Announced == session \in notified \cup {0}

(* A session that nobody has announced is the first one, which the host's  *)
(* own notification is still to announce.                                  *)
Ready ==
    ~Recovering /\ ~Announced =>
      \A i \in Message : kind[i] = "initialized" =>
         pc[i] = "barrier" \/ (pc[i] \in {"sent", "failing"} /\ sess[i] = session)

Behind(m) == \E i \in 1..m : kind[i] = "initialized"

SentReady ==
    \A m \in Message :
        kind[m] = "request" /\ pc[m] = "sent" /\ Behind(m) => sess[m] \in notified \cup {0}

SessionInv == OrderInv /\ OpeningOK /\ RecoveryOK /\ Ready /\ SentReady

(* The initialized notification of a request that is behind it came first. *)
LEMMA Earlier ==
    ASSUME OrderInv, NEW m \in Message, Behind(m), kind[m] = "request"
    PROVE  \E i \in Message : i < m /\ kind[i] = "initialized"
<1>1. PICK i \in 1..m : kind[i] = "initialized"
  BY DEF Behind
<1>2. i # m /\ i \in Message /\ i < m
  BY <1>1, McpProxyAssumption DEF Message
<1> QED BY <1>1, <1>2

(* What a step of a message does to it, of which the session has no notice. *)
SessionMove(m) ==
    \/ pc'[m] = pc[m] /\ sess'[m] = sess[m]
    \/ pc[m] = "barrier" /\ pc'[m] = "queued" /\ Recovering
    \/ pc[m] = "barrier" /\ pc'[m] = "sent" /\ ~Recovering /\ sess'[m] = session
    \/ pc[m] \in {"released", "resend"} /\ pc'[m] = "sent" /\ sess'[m] = session
    \/ pc[m] \in {"released", "resend"} /\ pc'[m] = "done" /\ kind[m] # "initialize"
    \/ pc[m] \in {"sent", "streaming"} /\ pc'[m] = "failing" /\ sess'[m] = sess[m]
    \/ pc[m] = "sent" /\ pc'[m] = "streaming" /\ kind[m] = "request"
    \/ /\ pc[m] \in {"sent", "failing"} /\ pc'[m] = "done" /\ kind[m] # "initialize"
       /\ kind[m] = "initialized" => sess[m] \in notified'
    \/ pc[m] = "streaming" /\ pc'[m] = "done" /\ kind[m] = "request"
    \/ pc[m] = "sent" /\ pc'[m] = "expired" /\ Recovering
    \/ pc[m] = "sent" /\ pc'[m] = "resend" /\ ~Recovering /\ session # sess[m]

Quiet(p) ==
    /\ UNCHANGED <<session, known>> /\ notified \subseteq notified'
    /\ \A q \in Process : q # p => pc'[q] = pc[q] /\ sess'[q] = sess[q]
    /\ kind'[Recovery] = kind[Recovery]
    /\ SessionMove(p)

(* Such a step keeps what is known of the sessions.                        *)
LEMMA QuietKeeps ==
    ASSUME SessionInv, OrderInv', Moves, NEW p \in Message, Quiet(p)
    PROVE  SessionInv'
<1> USE Processes
<1>0. UNCHANGED <<heard, barrier, session, known>> /\ \A m \in Message : Move(m)
  BY DEF Moves, Quiet
<1>1. \A m \in Message : kind'[m] = kind[m]
  BY <1>0 DEF Move
<1>2. \A m \in Message : SessionMove(m)
  BY DEF Quiet, SessionMove
<1>3. /\ pc'[Recovery] = pc[Recovery] /\ sess'[Recovery] = sess[Recovery]
      /\ kind'[Recovery] = kind[Recovery] /\ notified \subseteq notified'
  BY DEF Quiet
<1>4. OpeningOK'
  <2>1. ASSUME NEW m \in Message, Opening(m)'
        PROVE /\ ~known /\ pc'[m] \in {"barrier", "sent", "streaming", "failing"}
              /\ pc'[m] \in {"barrier", "sent"} => session = 0
              /\ pc'[m] \in {"sent", "streaming", "failing"} => sess'[m] = session
              /\ \A i \in Message : kind[i] = "initialized" => pc'[i] = "barrier" /\ before'[i] = m
              /\ (\A i \in Message : kind[i] # "initialized") => barrier = m
    <3>1. Opening(m)
      BY <1>0, <1>1, <2>1 DEF Opening, Move
    <3>2. /\ ~known /\ pc[m] \in {"barrier", "sent", "streaming", "failing"} /\ ~Recovering
          /\ pc[m] \in {"barrier", "sent"} => session = 0
          /\ pc[m] \in {"sent", "streaming", "failing"} => sess[m] = session
          /\ \A i \in Message : kind[i] = "initialized" => pc[i] = "barrier" /\ before[i] = m
          /\ (\A i \in Message : kind[i] # "initialized") => barrier = m
      BY <3>1 DEF SessionInv, OpeningOK
    <3>3. /\ pc'[m] \in {"barrier", "sent", "streaming", "failing"}
          /\ pc'[m] \in {"barrier", "sent"} => session = 0
          /\ pc'[m] \in {"sent", "streaming", "failing"} => sess'[m] = session
      BY <1>2, <2>1, <3>1, <3>2 DEF SessionMove, Opening
    <3>4. ASSUME NEW i \in Message, kind[i] = "initialized"
          PROVE  pc'[i] = "barrier" /\ before'[i] = m
      <4>1. Move(i) /\ pc[i] = "barrier" /\ before[i] = m
        BY <1>0, <3>2, <3>4
      <4>2. ~Settled(before[i])
        BY <3>1, <4>1 DEF Settled, Opening, Message
      <4> QED BY <4>1, <4>2 DEF Move
    <3> QED BY <3>2, <3>3, <3>4
  <2> QED BY <1>0, <1>1, <1>3, <2>1 DEF SessionInv, OpeningOK, Recovering
<1>5. RecoveryOK'
  <2>1. ASSUME Recovering, NEW m \in Message PROVE pc'[m] \notin {"released", "resend"}
    BY <1>2, <2>1 DEF SessionInv, RecoveryOK, SessionMove
  <2> QED BY <1>0, <1>3, <2>1 DEF SessionInv, RecoveryOK, Recovering
<1>6. Ready'
  <2>1. ASSUME ~Recovering, session \notin notified' \cup {0},
               NEW i \in Message, kind[i] = "initialized"
        PROVE  pc'[i] = "barrier" \/ (pc'[i] \in {"sent", "failing"} /\ sess'[i] = session)
    <3>1. pc[i] = "barrier" \/ (pc[i] \in {"sent", "failing"} /\ sess[i] = session)
      BY <1>3, <2>1 DEF SessionInv, Ready, Announced
    <3> QED BY <1>2, <2>1, <3>1 DEF SessionMove
  <2> QED BY <1>0, <1>1, <1>3, <2>1 DEF Ready, Announced, Recovering
<1>7. SentReady'
  <2>1. ASSUME NEW m \in Message, kind[m] = "request", pc'[m] = "sent", Behind(m)'
        PROVE  sess'[m] \in notified' \cup {0}
    <3>1. Behind(m)
      BY <1>1, <2>1, McpProxyAssumption DEF Behind, Message
    <3>2. CASE pc[m] = "sent" /\ sess'[m] = sess[m]
      BY <1>3, <2>1, <3>1, <3>2 DEF SessionInv, SentReady
    <3>3. CASE ~(pc[m] = "sent" /\ sess'[m] = sess[m])
      <4>1. /\ sess'[m] = session
            /\ \/ pc[m] = "barrier" /\ ~Recovering
               \/ pc[m] \in {"released", "resend"}
        BY <1>2, <2>1, <3>3 DEF SessionMove
      <4>2. ~Recovering
        BY <4>1 DEF SessionInv, RecoveryOK
      <4>3. PICK i \in Message : i < m /\ kind[i] = "initialized"
        BY <2>1, <3>1, Earlier DEF SessionInv
      <4>4. pc[i] = "done"
        <5>1. pc[m] = "barrier" => before[m] = i
          BY <4>3 DEF SessionInv, OrderInv, BarrierOK, Message
        <5>2. pc[m] = "barrier" => Settled(before[m])
          BY <1>0, <2>1 DEF Move
        <5>3. pc[m] # "barrier" => pc[i] = "done"
          BY <2>1, <4>1, <4>3 DEF SessionInv, OrderInv, BarrierOK, Message
        <5> QED BY <5>1, <5>2, <5>3 DEF Settled, Message
      <4>5. Announced
        BY <4>2, <4>3, <4>4 DEF SessionInv, Ready
      <4> QED BY <1>3, <4>1, <4>5 DEF Announced
    <3> QED BY <3>2, <3>3
  <2> QED BY <1>1, <2>1 DEF SentReady
<1> QED BY <1>4, <1>5, <1>6, <1>7 DEF SessionInv

(* A process that ends, of a message. *)
LEMMA EndTask ==
    ASSUME TypeOK, NEW p \in Message, NEW ok \in BOOLEAN, End(p, ok)
    PROVE  /\ pc'[p] = "done"
           /\ \A q \in Process : q # p => pc'[q] = pc[q] /\ sess'[q] = sess[q]
<1>1. pc' = [pc EXCEPT ![p] = "done"] /\ sess' = [sess EXCEPT ![p] = 0]
  BY Processes, Zenon DEF End
<1>2. pc \in [Process -> PC] /\ sess \in [Process -> Session]
  BY DEF TypeOK
<1> QED BY <1>1, <1>2, Processes

LEMMA GotoTask ==
    ASSUME TypeOK, NEW p \in Process, NEW l, Goto(p, l), UNCHANGED sess
    PROVE  /\ pc'[p] = l /\ sess'[p] = sess[p]
           /\ \A q \in Process : q # p => pc'[q] = pc[q] /\ sess'[q] = sess[q]
<1>1. pc' = [pc EXCEPT ![p] = l] /\ pc \in [Process -> PC]
  BY DEF Goto, TypeOK
<1> QED BY <1>1

LEMMA SendTask ==
    ASSUME SessionInv, NEW p \in Message, StartSend(p),
           pc[p] \in {"barrier", "released"}, ~Recovering
    PROVE  /\ session' = session /\ pc'[p] = "sent" /\ sess'[p] = session
           /\ \A q \in Process : q # p => pc'[q] = pc[q] /\ sess'[q] = sess[q]
<1>1. /\ pc' = [pc EXCEPT ![p] = "sent"] /\ sess' = [sess EXCEPT ![p] = session']
      /\ session' = IF kind[p] = "initialize" THEN 0 ELSE session
  BY DEF StartSend, Goto
<1>2. pc \in [Process -> PC] /\ sess \in [Process -> Session]
  BY DEF SessionInv, OrderInv, IInv, TypeOK
<1>3. kind[p] = "initialize" => session = 0
  BY DEF SessionInv, OpeningOK, Opening
<1> QED BY <1>1, <1>2, <1>3, Processes

(* The steps of a message that leave the session alone.                    *)
LEMMA QuietStep ==
    ASSUME SessionInv, NEW p \in Message,
           \/ TaskStep(p)
           \/ Unauthorized(p) \/ RequestRuns(p) \/ Delivered(p) \/ Ask(p)
           \/ RequestAnswered(p) \/ Breaks(p)
           \/ Fail(p) /\ kind[p] # "initialize"
           \/ NotFound(p) /\ pc'[Recovery] = pc[Recovery]
    PROVE  Quiet(p)
<1> USE Processes
<1>0. TypeOK /\ p \in Process /\ p # Recovery
  BY DEF SessionInv, OrderInv, IInv
<1>1. ASSUME Forward(p) PROVE Quiet(p)
  <2>1. pc[p] = "barrier" /\ UNCHANGED <<known, kind, notified>>
    BY <1>1 DEF Forward, history
  <2>2. CASE Recovering
    <3>1. Goto(p, "queued") /\ UNCHANGED <<session, sess>>
      BY <1>1, <2>2, Zenon DEF Forward
    <3> QED BY <1>0, <2>1, <2>2, <3>1, GotoTask DEF Quiet, SessionMove
  <2>3. CASE ~Recovering
    <3>1. StartSend(p)
      BY <1>1, <2>3, Zenon DEF Forward
    <3> QED BY <1>0, <2>1, <2>3, <3>1, SendTask DEF Quiet, SessionMove
  <2> QED BY <2>2, <2>3
<1>2. ASSUME ForwardRecovered(p) PROVE Quiet(p)
  <2>1. pc[p] = "released" /\ UNCHANGED <<known, kind, notified>>
    BY <1>2 DEF ForwardRecovered, loop
  <2>2. CASE kind[p] = "initialized"
    <3>1. End(p, TRUE) /\ UNCHANGED session
      BY <1>2, <2>2, Zenon DEF ForwardRecovered
    <3> QED BY <1>0, <2>1, <2>2, <3>1, EndTask DEF Quiet, SessionMove
  <2>3. CASE kind[p] # "initialized"
    <3>1. StartSend(p)
      BY <1>2, <2>3, Zenon DEF ForwardRecovered
    <3>2. ~Recovering
      BY <2>1 DEF SessionInv, RecoveryOK
    <3> QED BY <1>0, <2>1, <3>1, <3>2, SendTask DEF Quiet, SessionMove
  <2> QED BY <2>2, <2>3
<1>3. ASSUME Resend(p) PROVE Quiet(p)
  <2>1. pc[p] = "resend" /\ UNCHANGED <<session, known, kind, notified>>
    BY <1>3 DEF Resend, loop
  <2>2. CASE kind[p] = "initialized"
    <3>1. End(p, TRUE)
      BY <1>3, <2>2, Zenon DEF Resend
    <3> QED BY <1>0, <2>1, <2>2, <3>1, EndTask DEF Quiet, SessionMove
  <2>3. CASE kind[p] # "initialized"
    <3>1. pc' = [pc EXCEPT ![p] = "sent"] /\ sess' = [sess EXCEPT ![p] = session]
      BY <1>3, <2>3, Zenon DEF Resend, Goto
    <3>2. pc \in [Process -> PC] /\ sess \in [Process -> Session]
      BY <1>0 DEF TypeOK
    <3>3. /\ pc'[p] = "sent" /\ sess'[p] = session
          /\ \A q \in Process : q # p => pc'[q] = pc[q] /\ sess'[q] = sess[q]
      BY <1>0, <3>1, <3>2
    <3> QED BY <2>1, <3>3 DEF Quiet, SessionMove
  <2> QED BY <2>2, <2>3
<1>4. ASSUME Unauthorized(p) PROVE Quiet(p)
  <2>1. /\ pc[p] = "sent" /\ UNCHANGED <<known, kind, notified, sess>>
        /\ session' = IF kind[p] = "initialize" THEN 0 ELSE session
    BY <1>4 DEF Unauthorized, Answerable, loop, history
  <2>2. Goto(p, "failing") \/ UNCHANGED pc
    BY <1>4, Zenon DEF Unauthorized
  <2>3. session' = session
    BY <2>1 DEF SessionInv, OpeningOK, Opening
  <2>4. CASE Goto(p, "failing")
    BY <1>0, <2>1, <2>3, <2>4, GotoTask DEF Quiet, SessionMove
  <2>5. CASE UNCHANGED pc
    BY <2>1, <2>3, <2>5 DEF Quiet, SessionMove
  <2> QED BY <2>2, <2>4, <2>5
<1>5. ASSUME RequestRuns(p) PROVE Quiet(p)
  <2>1. /\ pc[p] = "sent" /\ kind[p] = "request" /\ Goto(p, "streaming")
        /\ UNCHANGED <<session, known, kind, notified, sess>>
    BY <1>5 DEF RequestRuns, Answerable, loop
  <2> QED BY <1>0, <2>1, GotoTask DEF Quiet, SessionMove
<1>6. ASSUME Delivered(p) PROVE Quiet(p)
  <2>1. /\ pc[p] = "sent" /\ kind[p] # "initialize" /\ End(p, TRUE)
        /\ UNCHANGED <<session, known, kind>>
        /\ notified' = IF kind[p] = "initialized" THEN notified \cup {sess[p]} ELSE notified
    BY <1>6 DEF Delivered, Answerable, loop, IsRequest
  <2> QED BY <1>0, <2>1, EndTask DEF Quiet, SessionMove
<1>7. ASSUME Ask(p) PROVE Quiet(p)
  BY <1>7 DEF Ask, loop, history, Quiet, SessionMove
<1>8. ASSUME RequestAnswered(p) PROVE Quiet(p)
  <2>1. /\ pc[p] = "streaming" /\ kind[p] = "request" /\ End(p, TRUE)
        /\ UNCHANGED <<session, known, kind, notified>>
    BY <1>8 DEF RequestAnswered, Finishes, loop
  <2> QED BY <1>0, <2>1, EndTask DEF Quiet, SessionMove
<1>9. ASSUME Breaks(p) PROVE Quiet(p)
  <2>1. /\ pc[p] \in {"sent", "streaming"} /\ Goto(p, "failing")
        /\ UNCHANGED <<session, known, kind, notified, sess>>
    BY <1>9 DEF Breaks, loop
  <2> QED BY <1>0, <2>1, GotoTask DEF Quiet, SessionMove
<1>10. ASSUME Fail(p), kind[p] # "initialize" PROVE Quiet(p)
  <2>1. /\ pc[p] = "failing" /\ End(p, FALSE)
        /\ UNCHANGED <<session, known, kind>>
        /\ notified' = IF kind[p] = "initialized" THEN notified \cup {sess[p]} ELSE notified
    BY <1>10 DEF Fail, loop
  <2> QED BY <1>0, <1>10, <2>1, EndTask DEF Quiet, SessionMove
<1>11. ASSUME NotFound(p), pc'[Recovery] = pc[Recovery] PROVE Quiet(p)
  <2>1. pc[p] = "sent" /\ UNCHANGED <<known, notified>>
    BY <1>11 DEF NotFound, Answerable, history
  <2>2. Recover(p) \/ (Goto(p, "failing") /\ UNCHANGED <<session, kind, sess>>)
    <3>1. CASE MayRecover(p)
      BY <1>11, <3>1, Zenon DEF NotFound
    <3>2. CASE ~MayRecover(p)
      BY <1>11, <3>2, Zenon DEF NotFound
    <3> QED BY <3>1, <3>2
  <2>3. \/ Recovering /\ Goto(p, "expired") /\ UNCHANGED <<session, kind, sess>>
        \/ /\ ~Recovering /\ session # sess[p] /\ Goto(p, "resend")
           /\ UNCHANGED <<session, kind, sess>>
        \/ Goto(p, "failing") /\ UNCHANGED <<session, kind, sess>>
        \/ ~Recovering /\ pc' = [pc EXCEPT ![p] = "expired", ![Recovery] = "sent"]
    BY <2>2, Zenon DEF Recover, IsCurrent
  <2>4. ~(~Recovering /\ pc' = [pc EXCEPT ![p] = "expired", ![Recovery] = "sent"])
    <3>1. pc \in [Process -> PC]
      BY <1>0 DEF TypeOK
    <3> QED BY <1>11, <3>1 DEF Recovering
  <2> QED BY <1>0, <2>1, <2>3, <2>4, GotoTask DEF Quiet, SessionMove
<1> QED
  BY <1>1, <1>2, <1>3, <1>4, <1>5, <1>6, <1>7, <1>8, <1>9, <1>10, <1>11 DEF TaskStep

(* The steps of the host's initialize that change the session: the server  *)
(* opens one, the answer is over, or it fails.                             *)
LEMMA OpeningStep ==
    ASSUME SessionInv, OrderInv', Moves, NEW p \in Message, kind[p] = "initialize",
           SessionOpens(p) \/ Initialized(p) \/ Fail(p)
    PROVE  SessionInv'
<1> USE Processes
<1>0. TypeOK /\ p \in Process /\ p # Recovery /\ p = 1
  BY DEF SessionInv, OrderInv, IInv, HostOrder
<1>1. UNCHANGED <<heard, barrier>> /\ \A m \in Message : Move(m)
  BY DEF Moves
<1>2. \A m \in Message : kind'[m] = kind[m]
  BY <1>1 DEF Move
<1>3. pc[p] \in {"sent", "streaming", "failing"}
  BY DEF SessionOpens, Initialized, Fail, Answerable, Finishes
<1>4. Opening(p) /\ ~known /\ ~Recovering /\ heard # 0
  <2>1. Opening(p)
    BY <1>3 DEF Opening
  <2>2. heard # 0
    BY <1>0, <1>3 DEF SessionInv, OrderInv, IInv, Fresh
  <2> QED BY <2>1, <2>2 DEF SessionInv, OpeningOK
<1>5. /\ \A q \in Process : q # p => pc'[q] = pc[q] /\ sess'[q] = sess[q]
      /\ notified \subseteq notified'
      /\ pc'[p] = "done" \/ (pc'[p] = "streaming" /\ known' = known /\ sess'[p] = session')
  <2>1. CASE SessionOpens(p)
    <3>1. /\ pc' = [pc EXCEPT ![p] = "streaming"] /\ sess' = [sess EXCEPT ![p] = opened + 1]
          /\ session' = opened + 1 /\ UNCHANGED <<known, notified>>
      BY <2>1 DEF SessionOpens, Goto, history
    <3> QED BY <1>0, <3>1 DEF TypeOK
  <2>2. CASE Initialized(p)
    <3>1. End(p, TRUE) /\ UNCHANGED notified
      BY <1>0, <2>2 DEF Initialized
    <3> QED BY <1>0, <3>1, EndTask
  <2>3. CASE Fail(p)
    <3>1. End(p, FALSE) /\ UNCHANGED notified
      BY <2>3 DEF Fail
    <3> QED BY <1>0, <3>1, EndTask
  <2> QED BY <2>1, <2>2, <2>3
<1>6. ASSUME NEW i \in Message, kind[i] = "initialized"
      PROVE  pc'[i] = "barrier" /\ before'[i] = p
  <2>1. i # p /\ pc[i] = "barrier" /\ before[i] = p
    BY <1>4, <1>6 DEF SessionInv, OpeningOK
  <2> QED BY <1>1, <1>5, <2>1 DEF Move
<1>7. OpeningOK'
  <2>1. ASSUME NEW m \in Message, Opening(m)'
        PROVE  m = p /\ pc'[p] = "streaming" /\ known' = known /\ sess'[p] = session'
    <3>1. m = p
      BY <1>0, <1>2, <2>1 DEF Opening, SessionInv, OrderInv, HostOrder
    <3> QED BY <1>5, <2>1, <3>1 DEF Opening
  <2>2. ~Recovering'
    BY <1>0, <1>4, <1>5 DEF Recovering
  <2>3. (\A i \in Message : kind[i] # "initialized") => barrier = p
    BY <1>4 DEF SessionInv, OpeningOK
  <2> QED BY <1>1, <1>2, <1>4, <1>6, <2>1, <2>2, <2>3 DEF OpeningOK
<1>8. RecoveryOK'
  BY <1>0, <1>4, <1>5 DEF RecoveryOK, Recovering
<1>9. Ready'
  BY <1>2, <1>6 DEF Ready
<1>10. SentReady'
  <2>1. ASSUME NEW m \in Message, kind[m] = "request", pc'[m] = "sent", Behind(m)'
        PROVE  sess'[m] \in notified' \cup {0}
    <3>1. Behind(m) /\ m # p
      BY <1>2, <2>1, McpProxyAssumption DEF Behind, Message
    <3> QED BY <1>5, <2>1, <3>1 DEF SessionInv, SentReady
  <2> QED BY <1>2, <2>1 DEF SentReady
<1> QED BY <1>7, <1>8, <1>9, <1>10 DEF SessionInv

(* While there is a recovery, or from its start, the handshake of the host *)
(* is over.                                                                *)
LEMMA KnownKeeps ==
    ASSUME SessionInv, Moves, known, known'
    PROVE  OpeningOK'
<1>1. UNCHANGED heard /\ \A m \in Message : kind'[m] = kind[m] /\ Move(m)
  BY DEF Moves, Move
<1>2. heard # 0 /\ \A m \in Message : ~Opening(m)
  BY DEF SessionInv, OpeningOK
<1>3. ASSUME NEW m \in Message PROVE ~Opening(m)'
  BY <1>1, <1>2 DEF Opening, Move
<1> QED BY <1>1, <1>2, <1>3 DEF OpeningOK

(* No request is sent by a step that keeps the messages where they are.    *)
LEMMA SentKept ==
    ASSUME SessionInv, Moves, notified \subseteq notified',
           \A m \in Message : pc'[m] = "sent" => pc[m] = "sent" /\ sess'[m] = sess[m]
    PROVE  SentReady'
<1>1. \A m \in Message : kind'[m] = kind[m]
  BY DEF Moves, Move
<1>2. ASSUME NEW m \in Message, kind[m] = "request", pc'[m] = "sent", Behind(m)'
      PROVE  sess'[m] \in notified' \cup {0}
  <2>1. Behind(m)
    BY <1>1, <1>2, McpProxyAssumption DEF Behind, Message
  <2> QED BY <1>2, <2>1 DEF SessionInv, SentReady
<1> QED BY <1>1, <1>2 DEF SentReady

(* The 404 that starts a recovery gives up the session.                    *)
LEMMA RecoveryStarts ==
    ASSUME SessionInv, OrderInv', Moves, NEW p \in Process, NotFound(p),
           pc'[Recovery] # pc[Recovery], p # Recovery
    PROVE  SessionInv'
<1> USE Processes
<1>0. /\ pc \in [Process -> PC] /\ kind \in [Process -> Kinds] /\ sess \in [Process -> Session]
      /\ p \in Message
  BY DEF SessionInv, OrderInv, IInv, TypeOK
<1>1. MicrotasksDone /\ UNCHANGED <<known, notified>> /\ pc[p] = "sent"
  BY DEF NotFound, Answerable, history
<1>2. Recover(p) \/ Goto(p, "failing")
  <2>1. CASE MayRecover(p)
    BY <2>1, Zenon DEF NotFound
  <2>2. CASE ~MayRecover(p)
    BY <2>2, Zenon DEF NotFound
  <2> QED BY <2>1, <2>2
<1>3. ~Goto(p, "failing") /\ ~Goto(p, "expired") /\ ~Goto(p, "resend")
  BY <1>0 DEF Goto
<1>4. /\ ~Recovering /\ known
      /\ pc' = [pc EXCEPT ![p] = "expired", ![Recovery] = "sent"]
      /\ session' = 0
      /\ kind' = [kind EXCEPT ![Recovery] = "initialize"]
      /\ sess' = [sess EXCEPT ![Recovery] = 0]
  BY <1>2, <1>3, Zenon DEF Recover
<1>5. /\ pc'[Recovery] = "sent" /\ kind'[Recovery] = "initialize" /\ sess'[Recovery] = 0
      /\ pc'[p] = "expired"
      /\ \A m \in Message : m # p => pc'[m] = pc[m] /\ sess'[m] = sess[m]
  BY <1>0, <1>4
<1>6. OpeningOK'
  BY <1>1, <1>4, KnownKeeps
<1>7. RecoveryOK'
  BY <1>1, <1>4, <1>5 DEF RecoveryOK, MicrotasksDone
<1>8. Ready'
  BY <1>5 DEF Ready, Recovering
<1>9. SentReady'
  BY <1>1, <1>5, SentKept
<1> QED BY <1>6, <1>7, <1>8, <1>9 DEF SessionInv

(* A recovery under way. *)
LEMMA RecoveryGoesOn ==
    ASSUME SessionInv, OrderInv', Moves,
           \/ Unauthorized(Recovery) \/ NotFound(Recovery) \/ SessionOpens(Recovery)
           \/ Ask(Recovery) \/ Initialized(Recovery) \/ Breaks(Recovery)
    PROVE  SessionInv'
<1> USE Processes
<1>0. /\ TypeOK /\ pc \in [Process -> PC] /\ kind \in [Process -> Kinds]
      /\ sess \in [Process -> Session]
  BY DEF SessionInv, OrderInv, IInv, TypeOK
<1>1. pc[Recovery] \in {"sent", "streaming"} /\ Recovering
  BY DEF Unauthorized, NotFound, SessionOpens, Ask, Initialized, Breaks, Answerable,
     Finishes, Recovering
<1>2. known /\ known' /\ UNCHANGED notified
  <2>1. known
    BY <1>1 DEF SessionInv, OpeningOK
  <2> QED BY <2>1 DEF Unauthorized, NotFound, SessionOpens, Ask, Initialized, Breaks, history
<1>3. /\ kind[Recovery] \in {"initialize", "initialized"}
      /\ sess[Recovery] = session
      /\ pc[Recovery] = "sent" /\ kind[Recovery] = "initialize" => session = 0
      /\ \A m \in Message : pc[m] \notin {"released", "resend"}
  BY <1>1 DEF SessionInv, RecoveryOK
<1>4. /\ pc'[Recovery] # "none"
      /\ \A q \in Process : q # Recovery => pc'[q] = pc[q] /\ sess'[q] = sess[q]
      /\ kind'[Recovery] \in {"initialize", "initialized"}
      /\ sess'[Recovery] = session'
      /\ pc'[Recovery] = "sent" /\ kind'[Recovery] = "initialize" => session' = 0
  <2>1. CASE Unauthorized(Recovery)
    <3>1. /\ UNCHANGED <<kind, sess>> /\ pc[Recovery] = "sent"
          /\ session' = IF kind[Recovery] = "initialize" THEN 0 ELSE session
      BY <2>1 DEF Unauthorized, Answerable, loop
    <3>2. Goto(Recovery, "failing") \/ UNCHANGED pc
      BY <2>1, Zenon DEF Unauthorized
    <3>3. CASE Goto(Recovery, "failing")
      BY <1>0, <1>3, <3>1, <3>3, GotoTask
    <3>4. CASE UNCHANGED pc
      BY <1>1, <1>3, <3>1, <3>4
    <3> QED BY <3>2, <3>3, <3>4
  <2>2. CASE NotFound(Recovery)
    <3>1. ~MayRecover(Recovery)
      BY Zenon DEF MayRecover
    <3>2. Goto(Recovery, "failing") /\ UNCHANGED <<session, kind, sess>>
      BY <2>2, <3>1, Zenon DEF NotFound
    <3> QED BY <1>0, <1>3, <3>2, GotoTask
  <2>3. CASE SessionOpens(Recovery)
    <3>1. /\ kind[Recovery] = "initialize" /\ UNCHANGED kind
          /\ pc' = [pc EXCEPT ![Recovery] = "streaming"]
          /\ sess' = [sess EXCEPT ![Recovery] = opened + 1] /\ session' = opened + 1
      BY <2>3 DEF SessionOpens, Goto, loop
    <3> QED BY <1>0, <3>1
  <2>4. CASE Ask(Recovery)
    BY <1>1, <1>3, <2>4 DEF Ask, loop
  <2>5. CASE Initialized(Recovery)
    <3>1. /\ session' = sess[Recovery] /\ UNCHANGED sess
          /\ kind' = [kind EXCEPT ![Recovery] = "initialized"]
          /\ pc' = [pc EXCEPT ![Recovery] = "sent"]
      BY <2>5 DEF Initialized, Goto
    <3> QED BY <1>0, <3>1
  <2>6. CASE Breaks(Recovery)
    <3>1. Goto(Recovery, "failing") /\ UNCHANGED <<session, kind, sess>>
      BY <2>6 DEF Breaks, loop
    <3> QED BY <1>0, <1>3, <3>1, GotoTask
  <2> QED BY <2>1, <2>2, <2>3, <2>4, <2>5, <2>6
<1>5. OpeningOK'
  BY <1>2, KnownKeeps
<1>6. RecoveryOK'
  BY <1>3, <1>4 DEF RecoveryOK
<1>7. Ready'
  BY <1>4 DEF Ready, Recovering
<1>8. SentReady'
  BY <1>2, <1>4, SentKept
<1> QED BY <1>5, <1>6, <1>7, <1>8 DEF SessionInv

(* The session that a recovery leaves is announced, or there is none.      *)
LEMMA RecoveryEnds ==
    ASSUME SessionInv, OrderInv', Moves, Delivered(Recovery) \/ Fail(Recovery)
    PROVE  SessionInv'
<1> USE Processes
<1>0. pc \in [Process -> PC] /\ kind \in [Process -> Kinds] /\ sess \in [Process -> Session]
  BY DEF SessionInv, OrderInv, IInv, TypeOK
<1>1. PICK ok \in BOOLEAN : End(Recovery, ok)
  BY DEF Delivered, Fail
<1>2. pc[Recovery] \in {"sent", "failing"} /\ Recovering /\ UNCHANGED <<known, kind>>
  BY DEF Delivered, Fail, Answerable, Recovering, loop
<1>3. known
  BY <1>2 DEF SessionInv, OpeningOK
<1>4. /\ notified' = IF kind[Recovery] = "initialized" THEN notified \cup {sess[Recovery]}
                     ELSE notified
      /\ session' = 0 \/ (kind[Recovery] # "initialize" /\ session' = session)
  BY DEF Delivered, Fail, IsRequest
<1>5. session' \in notified' \cup {0}
  BY <1>2, <1>4 DEF SessionInv, RecoveryOK
<1>6. /\ pc' = [q \in Process |-> IF q = Recovery THEN "none" ELSE Wakes(pc[q], ok)]
      /\ sess' = [sess EXCEPT ![Recovery] = 0]
  BY <1>1, Zenon DEF End
<1>7. ASSUME NEW m \in Message, pc'[m] = "sent" PROVE pc[m] = "sent" /\ sess'[m] = sess[m]
  <2>1. pc'[m] = Wakes(pc[m], ok) /\ sess'[m] = sess[m]
    BY <1>0, <1>6
  <2> QED BY <1>7, <2>1 DEF Wakes
<1>8. pc'[Recovery] = "none"
  BY <1>6
<1>9. OpeningOK'
  BY <1>2, <1>3, KnownKeeps
<1>10. RecoveryOK'
  BY <1>8 DEF RecoveryOK, Recovering
<1>11. Ready'
  BY <1>5 DEF Ready, Announced
<1>12. SentReady'
  BY <1>4, <1>7, SentKept
<1> QED BY <1>9, <1>10, <1>11, <1>12 DEF SessionInv

(* A message that is read waits behind the handshake, or passes it.        *)
LEMMA SessionRead ==
    ASSUME SessionInv, OrderInv', NEW k \in Kinds, NEW q \in 0..MaxAsks, Read(k, q)
    PROVE  SessionInv'
<1> DEFINE n == heard + 1
<1> USE McpProxyAssumption, Processes
<1>0. /\ pc \in [Process -> PC] /\ kind \in [Process -> Kinds] /\ heard \in Nat
      /\ sess \in [Process -> Session] /\ before \in [Message -> 0..MaxMessages]
  BY DEF SessionInv, OrderInv, IInv, TypeOK
<1>1. n \in Message /\ n \in Process /\ pc[n] = "none" /\ kind[n] = "none" /\ n # Recovery
  <2>1. n \in Message /\ n > heard
    BY <1>0 DEF Read, Message
  <2>2. pc[n] = "none" /\ kind[n] = "none"
    BY <2>1 DEF SessionInv, OrderInv, IInv, Fresh, HostOrder
  <2> QED BY <2>1, <2>2
<1>2. /\ heard' = n /\ kind' = [kind EXCEPT ![n] = k] /\ HostMay(k, q)
      /\ UNCHANGED <<session, known, notified>>
  BY DEF Read
<1>3. \/ /\ IsRequest(k) /\ Goto(n, "done") /\ UNCHANGED <<barrier, before, sess>>
      \/ /\ Passes(k) /\ Goto(n, "sent") /\ sess' = [sess EXCEPT ![n] = session]
         /\ UNCHANGED <<barrier, before>>
      \/ /\ ~Passes(k) /\ Goto(n, "barrier") /\ UNCHANGED sess
         /\ before' = [before EXCEPT ![n] = barrier]
         /\ barrier' = IF IsBarrier(k) THEN n ELSE barrier
  BY Zenon DEF Read
<1>4. /\ pc'[n] \in {"done", "sent", "barrier"}
      /\ pc'[n] = "sent" => Passes(k)
      /\ pc'[n] = "barrier" => before'[n] = barrier
      /\ k = "initialized" => pc'[n] = "barrier"
      /\ k = "initialize" => pc'[n] = "done" \/ (pc'[n] = "barrier" /\ barrier' = n)
      /\ ~IsBarrier(k) => barrier' = barrier
  BY <1>0, <1>1, <1>3 DEF Goto, IsRequest, Passes, IsBarrier
<1>5. /\ \A p \in Process : p # n => pc'[p] = pc[p] /\ sess'[p] = sess[p] /\ kind'[p] = kind[p]
      /\ \A m \in Message : m # n => before'[m] = before[m]
      /\ kind'[n] = k
  BY <1>0, <1>1, <1>2, <1>3 DEF Goto
<1>6. /\ k = "initialize" <=> heard = 0
      /\ k = "initialized" => \A m \in Message : kind[m] # "initialized"
  BY <1>2 DEF HostMay
<1>7. OpeningOK'
  <2>1. ASSUME NEW m \in Message, Opening(m)', m = n
        PROVE /\ ~known /\ pc'[m] = "barrier" /\ session = 0 /\ barrier' = m
              /\ \A i \in Message : kind'[i] # "initialized"
    <3>1. k = "initialize" /\ pc'[n] = "barrier" /\ barrier' = n /\ heard = 0
      BY <1>4, <1>5, <1>6, <2>1 DEF Opening
    <3>2. session = 0 /\ ~known
      BY <3>1 DEF SessionInv, OpeningOK
    <3>3. \A i \in Message : i # n => kind[i] = "none"
      BY <3>1 DEF SessionInv, OrderInv, HostOrder, Message
    <3> QED BY <1>5, <2>1, <3>1, <3>2, <3>3
  <2>2. ASSUME NEW m \in Message, Opening(m)', m # n
        PROVE /\ ~known /\ pc'[m] \in {"barrier", "sent", "streaming", "failing"}
              /\ pc'[m] \in {"barrier", "sent"} => session = 0
              /\ pc'[m] \in {"sent", "streaming", "failing"} => sess'[m] = session
              /\ \A i \in Message : kind'[i] = "initialized" => pc'[i] = "barrier" /\ before'[i] = m
              /\ (\A i \in Message : kind'[i] # "initialized") => barrier' = m
    <3>1. Opening(m) /\ pc'[m] = pc[m] /\ sess'[m] = sess[m]
      BY <1>5, <2>2 DEF Opening
    <3>2. /\ ~known /\ pc[m] \in {"barrier", "sent", "streaming", "failing"}
          /\ pc[m] \in {"barrier", "sent"} => session = 0
          /\ pc[m] \in {"sent", "streaming", "failing"} => sess[m] = session
          /\ \A i \in Message : kind[i] = "initialized" => pc[i] = "barrier" /\ before[i] = m
          /\ (\A i \in Message : kind[i] # "initialized") => barrier = m
      BY <3>1 DEF SessionInv, OpeningOK
    <3>3. k # "initialize"
      <4>1. m <= heard
        BY <1>0, <3>1 DEF SessionInv, OrderInv, HostOrder, Opening, Message
      <4> QED BY <1>0, <1>6, <4>1 DEF Message
    <3>4. ASSUME NEW i \in Message, kind'[i] = "initialized"
          PROVE  pc'[i] = "barrier" /\ before'[i] = m
      <4>1. CASE i = n
        BY <1>4, <1>5, <1>6, <3>2, <3>4, <4>1
      <4>2. CASE i # n
        BY <1>5, <3>2, <3>4, <4>2
      <4> QED BY <4>1, <4>2
    <3>5. ASSUME \A i \in Message : kind'[i] # "initialized" PROVE barrier' = m
      <4>1. k # "initialized" /\ \A i \in Message : kind[i] # "initialized"
        BY <1>1, <1>5, <3>5
      <4> QED BY <1>4, <3>2, <3>3, <4>1 DEF IsBarrier
    <3> QED BY <3>1, <3>2, <3>4, <3>5
  <2>3. ~known' => ~Recovering'
    BY <1>1, <1>2, <1>5 DEF SessionInv, OpeningOK, Recovering
  <2>4. heard' # 0
    BY <1>0, <1>2
  <2> QED BY <1>2, <2>1, <2>2, <2>3, <2>4 DEF OpeningOK
<1>8. RecoveryOK'
  <2>1. /\ pc'[Recovery] = pc[Recovery] /\ kind'[Recovery] = kind[Recovery]
        /\ sess'[Recovery] = sess[Recovery] /\ session' = session
    BY <1>1, <1>2, <1>5
  <2>2. ASSUME Recovering, NEW m \in Message PROVE pc'[m] \notin {"released", "resend"}
    BY <1>4, <1>5, <2>2 DEF SessionInv, RecoveryOK
  <2> QED BY <2>1, <2>2 DEF SessionInv, RecoveryOK, Recovering
<1>9. Ready'
  <2>1. ASSUME ~Recovering, ~Announced, NEW i \in Message, kind'[i] = "initialized"
        PROVE  pc'[i] = "barrier" \/ (pc'[i] \in {"sent", "failing"} /\ sess'[i] = session)
    BY <1>4, <1>5, <2>1 DEF SessionInv, Ready
  <2> QED BY <1>1, <1>2, <1>5, <2>1 DEF Ready, Announced, Recovering
<1>10. SentReady'
  <2>1. ASSUME NEW m \in Message, kind'[m] = "request", pc'[m] = "sent", Behind(m)'
        PROVE  sess'[m] \in notified \cup {0}
    <3>1. m # n
      BY <1>4, <1>5, <2>1 DEF Passes
    <3>2. m <= heard
      BY <1>0, <1>5, <2>1, <3>1 DEF SessionInv, OrderInv, IInv, Fresh, Message
    <3>3. Behind(m)
      <4>1. PICK i \in 1..m : kind'[i] = "initialized"
        BY <2>1 DEF Behind
      <4>2. i \in Process /\ i # n
        BY <1>0, <3>2 DEF Message
      <4> QED BY <1>5, <4>1, <4>2 DEF Behind
    <3> QED BY <1>5, <2>1, <3>1, <3>3 DEF SessionInv, SentReady
  <2> QED BY <1>2, <2>1 DEF SentReady
<1> QED BY <1>7, <1>8, <1>9, <1>10 DEF SessionInv

LEMMA SessionInit == Init => SessionInv
<1> SUFFICES ASSUME Init PROVE SessionInv
  OBVIOUS
<1>1. OrderInv BY OrderInit
<1>2. OpeningOK /\ RecoveryOK /\ Ready /\ SentReady
  BY McpProxyAssumption, Processes
  DEF Init, OpeningOK, Opening, RecoveryOK, Recovering, Ready, SentReady
<1> QED BY <1>1, <1>2 DEF SessionInv

(* Every step keeps what is known of the sessions.                         *)
LEMMA SessionStep == SessionInv /\ [Next]_vars => SessionInv'
<1> SUFFICES ASSUME SessionInv, [Next]_vars PROVE SessionInv'
  OBVIOUS
<1> USE Processes
<1>1. OrderInv'
  BY OrderStep DEF SessionInv
<1>2. ASSUME NEW k \in Kinds, NEW q \in 0..MaxAsks, Read(k, q) PROVE SessionInv'
  BY <1>1, <1>2, SessionRead
<1>3. ASSUME NEW p \in Process, (p \in Message /\ TaskStep(p)) \/ SendStep(p) PROVE Moves
  BY <1>3, StepMoves DEF SessionInv
<1>4. ASSUME NEW p \in Message, TaskStep(p) PROVE SessionInv'
  BY <1>1, <1>3, <1>4, QuietStep, QuietKeeps
<1>5. ASSUME NEW p \in Message, SendStep(p) PROVE SessionInv'
  <2>1. Moves
    BY <1>3, <1>5
  <2>2. CASE NotFound(p) /\ pc'[Recovery] # pc[Recovery]
    BY <1>1, <2>1, <2>2, RecoveryStarts
  <2>3. CASE kind[p] = "initialize" /\ (SessionOpens(p) \/ Initialized(p) \/ Fail(p))
    BY <1>1, <2>1, <2>3, OpeningStep
  <2>4. CASE /\ ~(NotFound(p) /\ pc'[Recovery] # pc[Recovery])
             /\ ~(kind[p] = "initialize" /\ (SessionOpens(p) \/ Initialized(p) \/ Fail(p)))
    <3>1. SessionOpens(p) \/ Initialized(p) => kind[p] = "initialize"
      BY DEF SessionOpens, Initialized
    <3>2. Quiet(p)
      BY <1>5, <2>4, <3>1, QuietStep DEF SendStep
    <3> QED BY <1>1, <2>1, <3>2, QuietKeeps
  <2> QED BY <2>2, <2>3, <2>4
<1>6. ASSUME SendStep(Recovery) PROVE SessionInv'
  <2>1. Moves
    BY <1>3, <1>6
  <2>2. ~RequestRuns(Recovery) /\ ~RequestAnswered(Recovery)
    <3>1. Recovering => kind[Recovery] # "request"
      BY DEF SessionInv, RecoveryOK
    <3> QED BY <3>1 DEF RequestRuns, RequestAnswered, Answerable, Finishes, Recovering
  <2> QED BY <1>1, <1>6, <2>1, <2>2, RecoveryGoesOn, RecoveryEnds DEF SendStep
<1>7. ASSUME UNCHANGED <<heard, barrier, before, kind, pc, session, known, sess, notified>>
      PROVE  SessionInv'
  BY <1>1, <1>7
  DEF SessionInv, OpeningOK, Opening, RecoveryOK, Recovering, Ready, Announced, SentReady,
      Behind
<1>8. CASE CloseInput
  BY <1>7, <1>8 DEF CloseInput, history
<1>9. CASE UNCHANGED vars
  BY <1>7, <1>9 DEF vars, loop, history
<1>10. ASSUME NEW p \in Process, SendStep(p) PROVE SessionInv'
  <2>1. p = Recovery \/ p \in Message
    OBVIOUS
  <2> QED BY <1>5, <1>6, <1>10, <2>1, Zenon
<1> QED
  BY <1>2, <1>4, <1>8, <1>9, <1>10 DEF Next, Rest

LEMMA SessionInvariant == Spec => []SessionInv
<1>1. Init => SessionInv BY SessionInit
<1>2. SessionInv /\ [Next]_vars => SessionInv' BY SessionStep
<1> QED BY <1>1, <1>2, PTL DEF Spec

(* What runs a request has sent it.                                        *)
LEMMA OnlyRuns ==
    ASSUME TypeOK, Next, NEW m \in Message, ran'[m] > ran[m]
    PROVE  pc[m] = "sent" /\ kind[m] = "request"
<1> USE Processes
<1>0. ran \in [Process -> Nat] /\ m \in Process
  BY DEF TypeOK
<1>1. ASSUME NEW p \in Process, NEW ok \in BOOLEAN, End(p, ok) PROVE FALSE
  <2>1. ran' = [ran EXCEPT ![p] = 0]
    BY <1>1 DEF End
  <2>2. ran'[m] \in {0, ran[m]}
    BY <1>0, <2>1
  <2> QED BY <1>0, <2>2
<1>2. ran' # ran
  BY <1>0
<1>3. \E p \in Process : RequestRuns(p) \/ Breaks(p)
  <2>1. ASSUME NEW p \in Message, TaskStep(p) PROVE FALSE
    <3>1. CASE Forward(p)
      BY <1>2, <3>1 DEF Forward, history
    <3>2. CASE ForwardRecovered(p)
      BY <1>1, <1>2, <3>2 DEF ForwardRecovered
    <3>3. CASE Resend(p)
      BY <1>1, <1>2, <3>3 DEF Resend
    <3> QED BY <2>1, <3>1, <3>2, <3>3 DEF TaskStep
  <2>2. ASSUME NEW p \in Process, SendStep(p) PROVE RequestRuns(p) \/ Breaks(p)
    <3>1. ~Fail(p) /\ ~Delivered(p) /\ ~RequestAnswered(p)
      BY <1>1 DEF Fail, Delivered, RequestAnswered
    <3>2. ~Unauthorized(p) /\ ~NotFound(p) /\ ~SessionOpens(p) /\ ~Ask(p)
      BY <1>2 DEF Unauthorized, NotFound, SessionOpens, Ask, history
    <3>3. ~Initialized(p)
      BY <1>1, <1>2 DEF Initialized
    <3> QED BY <2>2, <3>1, <3>2, <3>3 DEF SendStep
  <2>3. /\ ~\E k \in Kinds, q \in 0..MaxAsks : Read(k, q)
        /\ ~CloseInput /\ ~Rest
    BY <1>2 DEF Read, CloseInput, Rest, vars, history
  <2> QED BY <2>1, <2>2, <2>3 DEF Next
<1>4. PICK p \in Process : RequestRuns(p) \/ Breaks(p)
  BY <1>3
<1>5. /\ pc[p] = "sent" /\ kind[p] = "request"
      /\ ran' = [ran EXCEPT ![p] = @ + 1]
  BY <1>2, <1>4 DEF RequestRuns, Breaks, Answerable
<1> QED BY <1>0, <1>5

(* What the host sends after its initialized notification is run in a      *)
(* session whose own notification is over, the first session as well as    *)
(* one that a recovery has opened (run.ts:289-308, transport.ts:220-247).  *)
THEOREM NotifiedBeforeUse == Spec => InitializedFirst
<1>1. SessionInv /\ [Next]_vars =>
        [\A m \in Message :
           (/\ ran'[m] > ran[m] /\ sess[m] # 0
            /\ \E i \in 1..m : kind[i] = "initialized")
           => sess[m] \in notified]_vars
  <2> SUFFICES ASSUME SessionInv, Next, NEW m \in Message, ran'[m] > ran[m], sess[m] # 0,
                      \E i \in 1..m : kind[i] = "initialized"
               PROVE  sess[m] \in notified
    OBVIOUS
  <2>1. pc[m] = "sent" /\ kind[m] = "request"
    BY OnlyRuns DEF SessionInv, OrderInv, IInv
  <2> QED BY <2>1 DEF SessionInv, SentReady, Behind
<1> QED BY <1>1, SessionInvariant, PTL DEF Spec, InitializedFirst

(* A session is given up only for a 404 to what was sent in it, or because *)
(* its own initialize fails: neither a later 404 of an earlier session nor *)
(* a 401 discards it (transport.ts:210-237).                               *)
THEOREM SessionIsKept == Spec => KeepsSession
<1>1. SessionInv /\ [Next]_vars =>
        [(session # 0 /\ session' # session)
         => \E p \in Process :
              /\ sess[p] = session
              /\ \/ pc[p] = "sent" /\ pc'[p] = "expired"
                 \/ pc[p] = "failing" /\ kind[p] = "initialize"]_vars
  <2> SUFFICES ASSUME SessionInv, Next, session # 0, session' # session
               PROVE  \E p \in Process :
                        /\ sess[p] = session
                        /\ \/ pc[p] = "sent" /\ pc'[p] = "expired"
                           \/ pc[p] = "failing" /\ kind[p] = "initialize"
    OBVIOUS
  <2> USE Processes
  <2>1. \A p \in Message : ~Quiet(p)
    BY DEF Quiet
  <2>2. \A p \in Process : pc[p] = "sent" => kind[p] # "initialize"
    BY DEF SessionInv, OpeningOK, Opening, RecoveryOK, Recovering
  <2>3. \A p \in Process : kind[p] = "initialize" /\ pc[p] \in {"streaming", "failing"}
                          => sess[p] = session
    BY DEF SessionInv, OpeningOK, Opening, RecoveryOK, Recovering
  <2>4. ASSUME NEW p \in Process, SendStep(p)
        PROVE  /\ sess[p] = session
               /\ \/ pc[p] = "sent" /\ pc'[p] = "expired"
                  \/ pc[p] = "failing" /\ kind[p] = "initialize"
    <3>1. CASE Fail(p)
      BY <2>3, <3>1 DEF Fail
    <3>2. CASE Initialized(p)
      BY <2>3, <3>2 DEF Initialized, Finishes
    <3>3. CASE SessionOpens(p)
      BY <2>2, <3>3 DEF SessionOpens, Answerable
    <3>4. CASE Unauthorized(p)
      BY <2>2, <3>4 DEF Unauthorized, Answerable
    <3>5. CASE NotFound(p)
      <4>1. pc[p] = "sent"
        BY <3>5 DEF NotFound, Answerable
      <4>2. MayRecover(p) /\ Recover(p)
        BY <3>5, Zenon DEF NotFound
      <4>3. /\ p # Recovery /\ IsCurrent(p)
            /\ pc' = [pc EXCEPT ![p] = "expired", ![Recovery] = "sent"]
        BY <4>2, Zenon DEF Recover, MayRecover
      <4>4. pc \in [Process -> PC]
        BY DEF SessionInv, OrderInv, IInv, TypeOK
      <4>5. pc'[p] = "expired"
        BY <4>3, <4>4
      <4> QED BY <4>1, <4>3, <4>5 DEF IsCurrent
    <3>6. CASE RequestRuns(p) \/ Delivered(p) \/ Ask(p) \/ RequestAnswered(p) \/ Breaks(p)
      BY <3>6 DEF RequestRuns, Delivered, Ask, RequestAnswered, Breaks
    <3> QED BY <2>4, <3>1, <3>2, <3>3, <3>4, <3>5, <3>6 DEF SendStep
  <2>5. \A m \in Message : ~TaskStep(m)
    BY <2>1, QuietStep
  <2>6. /\ ~\E k \in Kinds, q \in 0..MaxAsks : Read(k, q)
        /\ ~CloseInput /\ ~Rest
    BY DEF Read, CloseInput, Rest, vars
  <2> QED BY <2>4, <2>5, <2>6 DEF Next
<1> QED BY <1>1, SessionInvariant, PTL DEF Spec, KeepsSession
=============================================================================
