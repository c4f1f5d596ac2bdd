----------------------------- MODULE McpSession -----------------------------
(***************************************************************************)
(* The MCP session of one KaguraClient (src/src/client.ts): concurrent     *)
(* calls of its tools share one session, opened by one `initialize` at a   *)
(* time, reopened once per call when the server has dropped it, and let go *)
(* of by close().                                                          *)
(*                                                                         *)
(* All of it runs in one event loop.  A step is what runs between two      *)
(* awaits; answers of the server come in turns of their own, after what    *)
(* earlier answers have set off (MicrotasksDone).  A handshake and the     *)
(* session it opens have one number.                                       *)
(***************************************************************************)
EXTENDS Naturals

CONSTANTS
    Calls,          \* callers, each with one call in flight at a time
    MaxCalls,       \* bound: calls per caller
    MaxHandshakes,  \* bound: handshakes, which is also how sessions are named
    MaxCloses       \* bound: calls of close()

ASSUME McpSessionAssumption ==
    MaxCalls \in Nat /\ MaxHandshakes \in Nat /\ MaxCloses \in Nat

VARIABLES
    sessionId, sessionOpening, sessionEpoch,   \* of the client; 0 is null
    started,        \* the handshakes begun
    phase,          \* of each handshake
    epochOf,        \* the epoch each handshake began in
    opened,         \* the sessions whose id the client has been told
    live,           \* the sessions the server holds
    pc,             \* of each caller
    session,        \* the session, or handshake, of the call
    first,          \* the session a call was first sent with, once it is retried
    callsLeft,
    (* history *)
    began,          \* the epoch each call began in
    dispatched      \* how often the server has run the call

fields == <<sessionId, sessionOpening, sessionEpoch>>
handshakes == <<started, phase, epochOf, opened>>
callVars == <<pc, session, first, callsLeft, began, dispatched>>
vars == <<fields, handshakes, live, callVars>>

Handshake == 1..MaxHandshakes
Session == 0..MaxHandshakes

Phases == {"unused", "sent", "granted", "refused", "settling", "settled"}
PC == {"idle", "tick", "waiting", "sent", "answered", "failed", "expired"}

Goto(c, l) == pc' = [pc EXCEPT ![c] = l]

(* What one answer sets off is over before the next turn of the loop: the  *)
(* `finally` of a handshake, and the calls that await a settled promise.   *)
MicrotasksDone ==
    /\ \A h \in Handshake : phase[h] # "settling"
    /\ \A c \in Calls : /\ pc[c] # "tick"
                        /\ pc[c] = "waiting" => phase[session[c]] # "settled"

-----------------------------------------------------------------------------
(* Opening a session.                                                      *)

OpenSession ==
    /\ started < MaxHandshakes
    /\ started' = started + 1
    /\ sessionOpening' = started + 1
    /\ phase' = [phase EXCEPT ![started + 1] = "sent"]
    /\ epochOf' = [epochOf EXCEPT ![started + 1] = sessionEpoch]

(* initializeSession, for a caller that finds `id` in sessionId: it has a  *)
(* session, joins the handshake in flight, or starts one.                  *)
InitializeSession(c, id) ==
    \/ /\ id # 0
       /\ Goto(c, "tick") /\ session' = [session EXCEPT ![c] = id]
       /\ UNCHANGED <<sessionOpening, started, phase, epochOf>>
    \/ /\ id = 0 /\ sessionOpening # 0
       /\ Goto(c, "waiting") /\ session' = [session EXCEPT ![c] = sessionOpening]
       /\ UNCHANGED <<sessionOpening, started, phase, epochOf>>
    \/ /\ id = 0 /\ sessionOpening = 0
       /\ OpenSession
       /\ Goto(c, "waiting") /\ session' = [session EXCEPT ![c] = started + 1]

(* The server opens the session, or it does not; of one whose answer is    *)
(* lost nobody knows the name.  Without an Authorization header there is   *)
(* nothing to wait for.                                                    *)
ServerInitializes(h) ==
    /\ phase[h] = "sent"
    /\ \/ /\ MicrotasksDone
          /\ phase' = [phase EXCEPT ![h] = "granted"] /\ live' = live \cup {h}
       \/ phase' = [phase EXCEPT ![h] = "refused"] /\ UNCHANGED live
    /\ UNCHANGED <<fields, started, epochOf, opened, callVars>>

(* A handshake that close() has overtaken serves only those who wait on it. *)
Adopts(h) == IF epochOf[h] = sessionEpoch THEN h ELSE sessionId

DropsOvertaken(h) ==
    /\ phase[h] = "granted" /\ epochOf[h] = sessionEpoch
    /\ phase' = [phase EXCEPT ![h] = "settling"]
    /\ opened' = opened \cup {h}
    /\ sessionId' = h
    /\ UNCHANGED <<sessionOpening, sessionEpoch, started, epochOf, live, callVars>>

(* openSession goes on after its answer. *)
Granted(h) ==
    /\ phase[h] = "granted"
    /\ phase' = [phase EXCEPT ![h] = "settling"]
    /\ opened' = opened \cup {h}
    /\ sessionId' = Adopts(h)
    /\ UNCHANGED <<sessionOpening, sessionEpoch, started, epochOf, live, callVars>>

(* An error status, no session id, or no answer within the timeout. *)
Refused(h) ==
    /\ phase[h] = "refused"
    /\ phase' = [phase EXCEPT ![h] = "settling"]
    /\ UNCHANGED <<fields, started, epochOf, opened, live, callVars>>

SettleAny(h) ==
    /\ phase[h] = "settling"
    /\ phase' = [phase EXCEPT ![h] = "settled"]
    /\ sessionOpening' = 0
    /\ UNCHANGED <<sessionId, sessionEpoch, started, epochOf, opened, live, callVars>>

(* The `finally` of the handshake: dropped once settled, unless close() or *)
(* a newer one has taken its place.                                        *)
Settle(h) ==
    /\ phase[h] = "settling"
    /\ phase' = [phase EXCEPT ![h] = "settled"]
    /\ sessionOpening' = IF sessionOpening = h THEN 0 ELSE sessionOpening
    /\ UNCHANGED <<sessionId, sessionEpoch, started, epochOf, opened, live, callVars>>

-----------------------------------------------------------------------------
(* A call: jsonRpcResult, under every tool method.                         *)

Call(c) ==
    /\ pc[c] = "idle" /\ callsLeft[c] > 0
    /\ callsLeft' = [callsLeft EXCEPT ![c] = @ - 1]
    /\ began' = [began EXCEPT ![c] = sessionEpoch]
    /\ InitializeSession(c, sessionId)
    /\ UNCHANGED <<sessionId, sessionEpoch, opened, live, first, dispatched>>

End(c) ==
    /\ Goto(c, "idle")
    /\ session' = [session EXCEPT ![c] = 0]
    /\ first' = [first EXCEPT ![c] = 0]
    /\ began' = [began EXCEPT ![c] = 0]
    /\ dispatched' = [dispatched EXCEPT ![c] = 0]
    /\ UNCHANGED <<fields, handshakes, live, callsLeft>>

RereadSession(c) == sessionId

(* The session the request names is the one initializeSession returned. *)
SessionSent(c) == session[c]

(* The await of initializeSession is over: the request is sent. *)
Resume(c) ==
    /\ \/ pc[c] = "tick"
       \/ pc[c] = "waiting" /\ phase[session[c]] = "settled" /\ session[c] \in opened
    /\ Goto(c, "sent")
    /\ session' = [session EXCEPT ![c] = SessionSent(c)]
    /\ UNCHANGED <<fields, handshakes, live, first, callsLeft, began, dispatched>>

HandshakeFailed(c) ==
    /\ pc[c] = "waiting" /\ phase[session[c]] = "settled" /\ session[c] \notin opened
    /\ End(c)

(* The server runs the call, or rejects it unrun because of its session or *)
(* for another reason, if it gets there.  The answer to a call that has    *)
(* run may be lost.                                                        *)
ServerAnswers(c) ==
    /\ pc[c] = "sent"
    /\ \/ /\ session[c] \in live /\ MicrotasksDone
          /\ dispatched' = [dispatched EXCEPT ![c] = @ + 1]
          /\ \/ Goto(c, "answered")
             \/ Goto(c, "failed")
       \/ /\ session[c] \notin live /\ MicrotasksDone
          /\ Goto(c, "expired") /\ UNCHANGED dispatched
       \/ Goto(c, "failed") /\ UNCHANGED dispatched
    /\ UNCHANGED <<fields, handshakes, live, session, first, callsLeft, began>>

AnyFailure(c) == pc[c] \in {"expired", "failed"}

(* mcpSessionExpired: a 404 that is not about the method. *)
SessionExpired(c) == pc[c] = "expired"

(* The session is forgotten only while it is still the stale one. *)
Forget(c) == IF sessionId = session[c] THEN 0 ELSE sessionId

(* Reopen the session and send the call again, once. *)
Retry(c) ==
    /\ SessionExpired(c) /\ first[c] = 0
    /\ first' = [first EXCEPT ![c] = session[c]]
    /\ sessionId' = Forget(c)
    /\ InitializeSession(c, Forget(c))
    /\ UNCHANGED <<sessionEpoch, opened, live, callsLeft, began, dispatched>>

(* The answer, an error, or a second expired session. *)
Return(c) ==
    /\ pc[c] \in {"answered", "failed", "expired"}
    /\ ~(SessionExpired(c) /\ first[c] = 0)
    /\ End(c)

-----------------------------------------------------------------------------
Close ==
    /\ sessionEpoch < MaxCloses
    /\ sessionEpoch' = sessionEpoch + 1
    /\ sessionId' = 0 /\ sessionOpening' = 0
    /\ UNCHANGED <<handshakes, live, callVars>>

(* An idle hour, or a restart. *)
ServerDrops(s) ==
    /\ s \in live
    /\ live' = live \ {s}
    /\ UNCHANGED <<fields, handshakes, callVars>>

Rest == (\A c \in Calls : pc[c] = "idle") /\ UNCHANGED vars

Init ==
    /\ sessionId = 0 /\ sessionOpening = 0 /\ sessionEpoch = 0
    /\ started = 0
    /\ phase = [h \in Handshake |-> "unused"]
    /\ epochOf = [h \in Handshake |-> 0]
    /\ opened = {} /\ live = {}
    /\ pc = [c \in Calls |-> "idle"]
    /\ session = [c \in Calls |-> 0] /\ first = [c \in Calls |-> 0]
    /\ callsLeft = [c \in Calls |-> MaxCalls]
    /\ began = [c \in Calls |-> 0] /\ dispatched = [c \in Calls |-> 0]

HandshakeStep(h) == ServerInitializes(h) \/ Granted(h) \/ Refused(h) \/ Settle(h)

CallStep(c) ==
    Resume(c) \/ HandshakeFailed(c) \/ ServerAnswers(c) \/ Retry(c) \/ Return(c)

Next ==
    \/ \E c \in Calls : Call(c) \/ CallStep(c)
    \/ \E h \in Handshake : HandshakeStep(h) \/ ServerDrops(h)
    \/ Close \/ Rest

Spec == Init /\ [][Next]_vars

(* The event loop runs, and a request is answered or its timeout passes. *)
FairSpec ==
    /\ Spec
    /\ \A c \in Calls : WF_vars(CallStep(c))
    /\ \A h \in Handshake : WF_vars(HandshakeStep(h))

-----------------------------------------------------------------------------
TypeOK ==
    /\ sessionId \in Session /\ sessionOpening \in Session /\ sessionEpoch \in Nat
    /\ started \in Session
    /\ phase \in [Handshake -> Phases] /\ epochOf \in [Handshake -> Nat]
    /\ opened \subseteq Handshake /\ live \subseteq Handshake
    /\ pc \in [Calls -> PC]
    /\ session \in [Calls -> Session] /\ first \in [Calls -> Session]
    /\ callsLeft \in [Calls -> Nat]
    /\ began \in [Calls -> Nat] /\ dispatched \in [Calls -> Nat]

(* A request names a session the client was given, and after close() none  *)
(* that was opened before (client.ts:2338-2340, README.md:1891).           *)
FreshSession ==
    \A c \in Calls : pc[c] = "sent" =>
        session[c] \in opened /\ epochOf[session[c]] >= began[c]

(* The retry never runs a call twice (client.ts:2404-2409). *)
DispatchedOnce == \A c \in Calls : dispatched[c] <= 1

(* Of the sessions opened since the last close(), the server holds none    *)
(* but the one in use: concurrent calls orphan none (client.ts:2334-2336). *)
NoOrphans == \A s \in opened \cap live : epochOf[s] = sessionEpoch => s = sessionId

(* A call is not sent again with the session that was found expired, even  *)
(* when others reopen it at the same time (client.ts:2402-2404).           *)
RetryOnAnother ==
    \A c \in Calls : pc[c] = "sent" /\ first[c] # 0 => session[c] # first[c]

(* Whatever close() and the 404s of others do in between, a request names  *)
(* a session it may name, and a retry another one than its first attempt.  *)
RightSession == FreshSession /\ RetryOnAnother

(* Every call ends, also one whose handshake close() has dropped.          *)
EveryCallEnds == \A c \in Calls : pc[c] # "idle" ~> pc[c] = "idle"
=============================================================================
