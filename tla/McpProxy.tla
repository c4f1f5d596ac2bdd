------------------------------ MODULE McpProxy ------------------------------
(***************************************************************************)
(* The stdio proxy of src/mcp: the run loop (run.ts), which reads the      *)
(* messages of its host and gives each a task, and the transport           *)
(* (transport.ts), which sends them upstream, keeps the session, and       *)
(* reinitializes it when the server answers 404 to what names it.          *)
(*                                                                         *)
(* A process is the task of a message, or Recovery, the handshake that a   *)
(* 404 sets off and that others may wait for.  All run in one event loop:  *)
(* a step is what runs between two awaits, and what one answer sets off is *)
(* over before the next arrives.                                           *)
(***************************************************************************)
EXTENDS Naturals, Sequences, FiniteSets

CONSTANTS
    MaxMessages,   \* bound: messages of the host
    MaxSessions,   \* bound: sessions, which are numbered as they are opened
    MaxAsks,       \* bound: requests of the server to the host
    MaxPending     \* tasks at a time before a further request is refused

ASSUME McpProxyAssumption ==
    /\ MaxMessages \in Nat /\ MaxSessions \in Nat
    /\ MaxAsks \in Nat /\ MaxPending \in Nat

Message == 1..MaxMessages
Recovery == 0
Process == Message \cup {Recovery}
Session == 0..MaxSessions          \* 0 is undefined

VARIABLES
    closed,       \* stdin has ended and the controller is aborted
    heard,        \* how many messages have been read
    barrier,      \* the task that later messages wait for; 0 is none
    before,       \* the barrier each message found
    session,      \* of the transport
    known,        \* an initialize is remembered, to be replayed
    kind,         \* what each process sends
    pc,
    sess,         \* the session a message names, or its answer has opened
    attempt,      \* 0, or 1 after a 401
    retried,      \* sent again, on another session
    answers,      \* the question a reply of the host answers
    awaiting,     \* the question that keeps the stream of an answer open
    questions,    \* the sessions in which the server has asked the host
    opened,       \* how many sessions the server has opened
    (* history *)
    notified,     \* the sessions whose initialized notification is over
    ran,          \* how often the server has run each pending message
    replies       \* how often the host was answered

loop == <<closed, heard, barrier, before, kind, answers>>
server == <<awaiting, questions, opened>>
history == <<notified, ran, replies>>
vars == <<loop, session, known, pc, sess, attempt, retried, server, history>>

Kinds == {"none", "initialize", "initialized", "request", "notification", "cancelled", "reply"}
PC == {"none", "barrier", "queued", "released", "sent", "streaming", "expired",
       "resend", "failing", "done"}

Goto(p, l) == pc' = [pc EXCEPT ![p] = l]

Recovering == pc[Recovery] # "none"
IsRequest(k) == k \in {"initialize", "request"}
IsMethod(k) == k # "reply"
PassesNoReply(k) == k = "cancelled"

(* What need not wait for a handshake. *)
Passes(k) == k \in {"reply", "cancelled"}

Settled(m) == m = 0 \/ pc[m] = "done"

(* Nothing an earlier answer has set off is still to run.                  *)
MicrotasksDone ==
    \A p \in Process : /\ pc[p] \notin {"released", "resend", "failing"}
                       /\ pc[p] = "barrier" => ~Settled(before[p])

EmitAll(p) ==
    replies' = IF closed \/ ~IsRequest(kind[p]) THEN replies
               ELSE [replies EXCEPT ![IF p = Recovery THEN 1 ELSE p] = @ + 1]

(* The host is answered, unless it has closed the proxy's input.           *)
Emit(p) ==
    replies' = IF closed \/ p = Recovery \/ ~IsRequest(kind[p]) THEN replies
               ELSE [replies EXCEPT ![p] = @ + 1]

-----------------------------------------------------------------------------
(* The run loop: runProxy.                                                 *)

IsBarrierOnly(k) == k = "initialize"

(* What later messages wait for. *)
IsBarrier(k) == k \in {"initialize", "initialized"}

Pending == {m \in Message : pc[m] \notin {"none", "done"}}

(* What a host may say: initialize first, initialized once, an answer to a *)
(* question it was asked, anything else at any time.                       *)
HostMay(k, q) ==
    /\ k # "none" /\ (k = "initialize" <=> heard = 0)
    /\ k = "initialized" => \A m \in Message : kind[m] # "initialized"
    /\ IF k = "reply" THEN q \in DOMAIN questions /\ \A m \in Message : answers[m] # q
       ELSE q = 0

Busy == Cardinality(Pending) >= MaxPending

Read(k, q) ==
    /\ ~closed /\ heard < MaxMessages /\ HostMay(k, q)
    /\ LET m == heard + 1 IN
         /\ heard' = m
         /\ kind' = [kind EXCEPT ![m] = k]
         /\ answers' = [answers EXCEPT ![m] = q]
         /\ \/ /\ IsRequest(k) /\ Busy
               /\ Goto(m, "done")
               /\ replies' = [replies EXCEPT ![m] = @ + 1]
               /\ UNCHANGED <<barrier, before, sess>>
            \/ /\ Passes(k)
               /\ Goto(m, "sent") /\ sess' = [sess EXCEPT ![m] = session]
               /\ UNCHANGED <<barrier, before, replies>>
            \/ /\ ~Passes(k) /\ ~(IsRequest(k) /\ Busy)
               /\ Goto(m, "barrier")
               /\ before' = [before EXCEPT ![m] = barrier]
               /\ barrier' = IF IsBarrier(k) THEN m ELSE barrier
               /\ UNCHANGED <<sess, replies>>
    /\ UNCHANGED <<closed, session, known, attempt, retried, server, notified, ran>>

(* stdin ends: the controller is aborted, and what is pending settles.     *)
CloseInput ==
    /\ ~closed /\ closed' = TRUE
    /\ UNCHANGED <<heard, barrier, before, kind, answers>>
    /\ UNCHANGED <<session, known, pc, sess, attempt, retried, server, history>>

-----------------------------------------------------------------------------
(* The transport: forward, recover, send.                                  *)

StartSend(m) ==
    /\ Goto(m, "sent")
    /\ session' = IF kind[m] = "initialize" THEN 0 ELSE session
    /\ sess' = [sess EXCEPT ![m] = session']

LostWakeup(l, ok) == CASE l = "queued" /\ ok -> "released"
                       [] l = "expired" /\ ok -> "resend"
                       [] OTHER -> l

(* Those who wait for a recovery go on, or fail with it.                   *)
Wakes(l, ok) == CASE l = "queued" /\ ok -> "released"
                  [] l = "expired" /\ ok -> "resend"
                  [] l \in {"queued", "expired"} /\ ~ok -> "failing"
                  [] OTHER -> l

(* A process is over and its locals are gone. *)
End(p, ok) ==
    /\ pc' = IF p # Recovery THEN [pc EXCEPT ![p] = "done"]
             ELSE [q \in Process |-> IF q = Recovery THEN "none" ELSE Wakes(pc[q], ok)]
    /\ sess' = [sess EXCEPT ![p] = 0]
    /\ attempt' = [attempt EXCEPT ![p] = 0]
    /\ retried' = [retried EXCEPT ![p] = FALSE]
    /\ ran' = [ran EXCEPT ![p] = 0]

(* forward, once the barrier is down. *)
Forward(m) ==
    /\ pc[m] = "barrier" /\ Settled(before[m])
    /\ before' = [before EXCEPT ![m] = 0]
    /\ IF Recovering THEN Goto(m, "queued") /\ UNCHANGED <<session, sess>>
       ELSE StartSend(m)
    /\ UNCHANGED <<closed, heard, barrier, kind, answers>>
    /\ UNCHANGED <<known, attempt, retried, server, history>>

(* forward, after the recovery it has waited for. *)
ForwardRecovered(m) ==
    /\ pc[m] = "released"
    /\ IF kind[m] = "initialized" THEN End(m, TRUE) /\ UNCHANGED session
       ELSE StartSend(m) /\ UNCHANGED <<attempt, retried, ran>>
    /\ UNCHANGED <<loop, known, server, notified, replies>>

(* A request that ends without an answer of the server is answered by the  *)
(* proxy.  An initialize that has not succeeded leaves no session.         *)
Fail(p) ==
    /\ pc[p] = "failing"
    /\ End(p, FALSE)
    /\ session' = IF kind[p] = "initialize" THEN 0 ELSE session
    /\ notified' = IF kind[p] = "initialized" THEN notified \cup {sess[p]} ELSE notified
    /\ Emit(p)
    /\ UNCHANGED <<loop, known, server>>

Answerable(p) == pc[p] = "sent" /\ MicrotasksDone /\ ~closed

(* 401: the token is refreshed and the message sent again, once. *)
Unauthorized(p) ==
    /\ Answerable(p)
    /\ IF attempt[p] = 0 THEN attempt' = [attempt EXCEPT ![p] = 1] /\ UNCHANGED pc
       ELSE Goto(p, "failing") /\ UNCHANGED attempt
    /\ session' = IF kind[p] = "initialize" THEN 0 ELSE session
    /\ UNCHANGED <<loop, known, sess, retried, server, history>>

AnySession(p) == TRUE

(* The transport still has the session of the 404. *)
IsCurrent(p) == session = sess[p]

(* recover: join the recovery under way, or find that it is over, or       *)
(* replay the handshake.                                                   *)
Recover(p) ==
    \/ /\ Recovering
       /\ Goto(p, "expired") /\ UNCHANGED <<session, kind, sess, attempt>>
    \/ /\ ~Recovering /\ ~IsCurrent(p)
       /\ Goto(p, "resend") /\ UNCHANGED <<session, kind, sess, attempt>>
    \/ /\ ~Recovering /\ IsCurrent(p) /\ ~known
       /\ Goto(p, "failing") /\ UNCHANGED <<session, kind, sess, attempt>>
    \/ /\ ~Recovering /\ IsCurrent(p) /\ known
       /\ pc' = [pc EXCEPT ![p] = "expired", ![Recovery] = "sent"]
       /\ session' = 0
       /\ kind' = [kind EXCEPT ![Recovery] = "initialize"]
       /\ sess' = [sess EXCEPT ![Recovery] = 0]
       /\ attempt' = [attempt EXCEPT ![Recovery] = 0]

(* Replies and what was sent again are not sent once more. *)
MayRecover(p) == p # Recovery /\ ~retried[p] /\ IsMethod(kind[p])

(* 404 to what names a session, at any time: the server has dropped it in  *)
(* an idle hour or a restart, or holds it still and refuses what was sent; *)
(* the transport cannot tell.                                              *)
NotFound(p) ==
    /\ Answerable(p) /\ sess[p] # 0
    /\ IF MayRecover(p) THEN Recover(p)
       ELSE Goto(p, "failing") /\ UNCHANGED <<session, kind, sess, attempt>>
    /\ UNCHANGED <<closed, heard, barrier, before, answers>>
    /\ UNCHANGED <<known, retried, server, history>>

(* The recovery has sent the initialized notification itself. *)
Resend(p) ==
    /\ pc[p] = "resend"
    /\ IF kind[p] = "initialized" THEN End(p, TRUE)
       ELSE /\ Goto(p, "sent")
            /\ sess' = [sess EXCEPT ![p] = session]
            /\ attempt' = [attempt EXCEPT ![p] = 0]
            /\ retried' = [retried EXCEPT ![p] = TRUE]
            /\ UNCHANGED ran
    /\ UNCHANGED <<loop, session, known, server, notified, replies>>

(* The server opens a session; its id is in the headers of the answer.     *)
SessionOpens(p) ==
    /\ Answerable(p) /\ kind[p] = "initialize" /\ opened < MaxSessions
    /\ opened' = opened + 1
    /\ Goto(p, "streaming")
    /\ session' = opened + 1
    /\ sess' = [sess EXCEPT ![p] = opened + 1]
    /\ UNCHANGED <<loop, known, attempt, retried, awaiting, questions, history>>

(* The server runs a request, in a session or without one.                 *)
RequestRuns(p) ==
    /\ Answerable(p) /\ kind[p] = "request"
    /\ ran' = [ran EXCEPT ![p] = @ + 1]
    /\ Goto(p, "streaming")
    /\ UNCHANGED <<loop, session, known, sess, attempt, retried, server, notified, replies>>

(* A notification or a reply arrives.  The reply ends the wait of a stream *)
(* of the same session.                                                    *)
Delivered(p) ==
    /\ Answerable(p) /\ ~IsRequest(kind[p])
    /\ End(p, TRUE)
    /\ notified' = IF kind[p] = "initialized" THEN notified \cup {sess[p]} ELSE notified
    /\ awaiting' = IF kind[p] = "reply" /\ questions[answers[p]] = sess[p]
                   THEN [r \in Process |-> IF awaiting[r] = answers[p] THEN 0 ELSE awaiting[r]]
                   ELSE awaiting
    /\ UNCHANGED <<loop, session, known, questions, opened, replies>>

(* In the stream of an answer the server asks the host, and goes on when   *)
(* it has the reply.                                                       *)
Ask(p) ==
    /\ pc[p] = "streaming" /\ MicrotasksDone /\ ~closed
    /\ awaiting[p] = 0 /\ Len(questions) < MaxAsks /\ sess[p] # 0
    /\ questions' = Append(questions, sess[p])
    /\ awaiting' = [awaiting EXCEPT ![p] = Len(questions) + 1]
    /\ UNCHANGED <<loop, session, known, pc, sess, attempt, retried, opened, history>>

Finishes(p) == pc[p] = "streaming" /\ awaiting[p] = 0 /\ MicrotasksDone /\ ~closed

RequestAnswered(p) ==
    /\ Finishes(p) /\ kind[p] = "request"
    /\ End(p, TRUE) /\ Emit(p)
    /\ UNCHANGED <<loop, session, known, server, notified>>

(* The initialize succeeds: its message is kept for a recovery.  That of a *)
(* recovery is not passed on; the initialized notification follows it.     *)
Initialized(p) ==
    /\ Finishes(p) /\ kind[p] = "initialize"
    /\ known' = TRUE /\ session' = sess[p]
    /\ IF p = Recovery
       THEN /\ kind' = [kind EXCEPT ![p] = "initialized"]
            /\ attempt' = [attempt EXCEPT ![p] = 0]
            /\ Goto(p, "sent")
            /\ UNCHANGED <<sess, retried, ran>>
       ELSE End(p, TRUE) /\ UNCHANGED kind
    /\ Emit(p)
    /\ UNCHANGED <<closed, heard, barrier, before, answers>>
    /\ UNCHANGED <<server, notified>>

RetriesBroken(p) ==
    /\ pc[p] \in {"sent", "streaming"} /\ MicrotasksDone
    /\ Goto(p, IF p # Recovery /\ ~retried[p] THEN "resend" ELSE "failing")
    /\ awaiting' = [awaiting EXCEPT ![p] = 0]
    /\ UNCHANGED <<loop, session, known, sess, attempt, retried, questions, opened,
                   history>>

(* The connection fails, the server rejects the message or its answer is   *)
(* no good, the deadline passes, or the input is closed.                   *)
Breaks(p) ==
    /\ pc[p] \in {"sent", "streaming"} /\ MicrotasksDone
    /\ Goto(p, "failing")
    /\ awaiting' = [awaiting EXCEPT ![p] = 0]
    /\ \/ UNCHANGED ran
       \/ /\ pc[p] = "sent" /\ kind[p] = "request"
          /\ ran' = [ran EXCEPT ![p] = @ + 1]
    /\ UNCHANGED <<loop, session, known, sess, attempt, retried, questions, opened,
                   notified, replies>>

-----------------------------------------------------------------------------
Rest == (\A p \in Process : pc[p] \in {"none", "done"}) /\ UNCHANGED vars

Init ==
    /\ closed = FALSE /\ heard = 0 /\ barrier = 0
    /\ before = [m \in Message |-> 0]
    /\ session = 0 /\ known = FALSE
    /\ kind = [p \in Process |-> "none"]
    /\ pc = [p \in Process |-> "none"]
    /\ sess = [p \in Process |-> 0]
    /\ attempt = [p \in Process |-> 0]
    /\ retried = [p \in Process |-> FALSE]
    /\ answers = [m \in Message |-> 0]
    /\ awaiting = [p \in Process |-> 0]
    /\ questions = <<>>
    /\ opened = 0
    /\ notified = {}
    /\ ran = [p \in Process |-> 0]
    /\ replies = [m \in Message |-> 0]

TaskStep(m) == Forward(m) \/ ForwardRecovered(m) \/ Resend(m)

SendStep(p) ==
    \/ Fail(p) \/ Unauthorized(p) \/ NotFound(p) \/ SessionOpens(p) \/ RequestRuns(p)
    \/ Delivered(p) \/ Ask(p) \/ RequestAnswered(p) \/ Initialized(p) \/ Breaks(p)

Next ==
    \/ \E k \in Kinds, q \in 0..MaxAsks : Read(k, q)
    \/ \E m \in Message : TaskStep(m)
    \/ \E p \in Process : SendStep(p)
    \/ CloseInput \/ Rest

Spec == Init /\ [][Next]_vars

(* The event loop runs, and each request has its deadline.                 *)
FairSpec ==
    /\ Spec
    /\ \A m \in Message : WF_vars(TaskStep(m))
    /\ \A p \in Process : WF_vars(SendStep(p))

-----------------------------------------------------------------------------
TypeOK ==
    /\ closed \in BOOLEAN /\ heard \in 0..MaxMessages /\ barrier \in 0..MaxMessages
    /\ before \in [Message -> 0..MaxMessages]
    /\ session \in Session /\ known \in BOOLEAN
    /\ kind \in [Process -> Kinds] /\ pc \in [Process -> PC]
    /\ sess \in [Process -> Session]
    /\ attempt \in [Process -> 0..1] /\ retried \in [Process -> BOOLEAN]
    /\ answers \in [Message -> 0..MaxAsks] /\ awaiting \in [Process -> 0..MaxAsks]
    /\ questions \in Seq(Session) /\ Len(questions) <= MaxAsks
    /\ opened \in Session
    /\ notified \subseteq Session
    /\ ran \in [Process -> Nat] /\ replies \in [Message -> Nat]

(* The host gets one answer to a request, when its task is over, also when *)
(* its session is recovered or its initialize replayed                     *)
(* (transport.ts:225-231, run.ts:279-302).                                 *)
OneReply ==
    ~closed => \A m \in Message :
        replies[m] = IF pc[m] = "done" /\ IsRequest(kind[m]) THEN 1 ELSE 0

(* No request is run twice: what may have run is not sent again            *)
(* (docs/mcpb.md:88-89).                                                   *)
RunOnce == \A m \in Message : ran[m] <= 1

(* A request that the host sent after its initialized notification runs in *)
(* a session only when the notification of that session is over.           *)
InitializedFirst ==
    [][\A m \in Message :
         (/\ ran'[m] > ran[m] /\ sess[m] # 0
          /\ \E i \in 1..m : kind[i] = "initialized")
         => sess[m] \in notified]_vars

(* A session is given up only for a 404 to what was sent in it, or when    *)
(* its own initialize fails.  However many messages meet its 404, whenever *)
(* they do, the session that has replaced it is not discarded              *)
(* (transport.ts:215).                                                     *)
KeepsSession ==
    [][(session # 0 /\ session' # session)
       => \E p \in Process :
            /\ sess[p] = session
            /\ \/ pc[p] = "sent" /\ pc'[p] = "expired"
               \/ pc[p] = "failing" /\ kind[p] = "initialize"]_vars

(* The host's reply to a question of the server goes out in the session of *)
(* the question, to which it belongs (transport.ts:290-292).               *)
ReplyInItsSession ==
    \A m \in Message :
        pc[m] = "sent" /\ kind[m] = "reply" => sess[m] \in {0, questions[answers[m]]}

(* Whom a process waits for: the barrier, the recovery, or the host's      *)
(* reply that its stream needs.                                            *)
WaitsFor(p) ==
    CASE pc[p] = "barrier" -> {before[p]} \ {0}
      [] pc[p] \in {"queued", "expired"} -> {Recovery}
      [] pc[p] = "streaming" /\ awaiting[p] # 0 -> {m \in Message : answers[m] = awaiting[p]}
      [] OTHER -> {}

(* Nobody waits for himself by way of others: the answer to a question     *)
(* asked during a handshake is not held up by that handshake               *)
(* (transport.ts:195-196).                                                 *)
NoWaitCycle ==
    \A S \in SUBSET Process :
        S # {} => \E p \in S : WaitsFor(p) \cap S = {}

(* Every message is done with in the end, also when the recovery it waits  *)
(* for fails or the input is closed meanwhile; a request is then answered  *)
(* (OneReply).  A host that goes on writing is beyond the bound.           *)
EveryTaskSettles == <>[](\A m \in Message : heard >= m => Settled(m))
=============================================================================
