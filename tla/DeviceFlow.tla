----------------------------- MODULE DeviceFlow -----------------------------
(***************************************************************************)
(* The device authorization of one login: authorizeDevice and pollForToken *)
(* of src/src/auth/deviceFlow.ts, run by login() of auth/login.ts.  Times  *)
(* are in units of five seconds since the login began.  The person in the  *)
(* browser and the token endpoint are external: any answer that fits the   *)
(* person's decision may come, or none.                                    *)
(***************************************************************************)
EXTENDS Naturals, FiniteSetsExt

CONSTANTS
    Interval,       \* the server's polling interval
    Increment,      \* SLOW_DOWN_INCREMENT_SEC
    Lifetimes,      \* expires_in of a device code
    RetryAfters,    \* the Retry-After of temporarily_unavailable; 0 is none
    MaxTime         \* bound: the last moment the model looks at

ASSUME DeviceFlowAssumption ==
    /\ Interval \in Nat \ {0} /\ Increment \in Nat
    /\ Lifetimes \subseteq Nat /\ RetryAfters \subseteq Nat
    /\ MaxTime \in Nat

VARIABLES
    clock,
    flow,       \* the locals of authorizeDevice and pollForToken
    decision,   \* of the person: "none", "approved" or "denied"
    (* history *)
    slowDowns,  \* slow_down answers so far
    due,        \* the earliest next poll the server's answers allow
    latePolls   \* polls sent when the code had expired

history == <<slowDowns, due, latePolls>>
flowVars == <<clock, flow, decision, history>>

Ended == {"approved", "denied", "expired", "failed"}
Phases == {"off", "authorizing", "polling", "sleeping"} \cup Ended

FlowTypeOK ==
    /\ clock \in Nat /\ slowDowns \in Nat /\ latePolls \in Nat
    /\ flow \in [phase : Phases, expiresAt : Nat, interval : Nat, wake : Nat]
    /\ decision \in {"none", "approved", "denied"}
    /\ due \in Nat

NoFlow == [phase |-> "off", expiresAt |-> 0, interval |-> Interval, wake |-> 0]

FlowInit ==
    /\ clock = 0 /\ decision = "none" /\ flow = NoFlow
    /\ slowDowns = 0 /\ due = 0 /\ latePolls = 0

(* The login is over: its locals, and its clock, are gone.                 *)
EndFlow ==
    /\ clock' = 0 /\ decision' = "none" /\ flow' = NoFlow
    /\ slowDowns' = 0 /\ due' = 0 /\ latePolls' = 0

InProgress == flow.phase \in Phases \ (Ended \cup {"off"})
Expired == clock >= flow.expiresAt

BeginFlow == flow' = [flow EXCEPT !.phase = "authorizing"]

End(how) == flow' = [flow EXCEPT !.phase = how]

-----------------------------------------------------------------------------
(* authorizeDevice: the first poll follows at once, after onUserCode.      *)
Authorized ==
    /\ flow.phase = "authorizing"
    /\ \E life \in Lifetimes :
          flow' = [flow EXCEPT !.expiresAt = clock + life,
                               !.phase = IF life = 0 THEN "expired" ELSE "polling"]
    /\ UNCHANGED <<clock, decision, history>>

(* A refused request, an answer without the fields, or no answer.          *)
NotAuthorized ==
    /\ flow.phase = "authorizing"
    /\ End("failed")
    /\ UNCHANGED <<clock, decision, history>>

Decide ==
    /\ flow.phase \in {"polling", "sleeping"}
    /\ decision = "none"
    /\ decision' \in {"approved", "denied"}
    /\ UNCHANGED <<clock, flow, history>>

(* The head of the loop: a code that has expired is not waited for, else   *)
(* the next poll follows the sleep.                                        *)
Again(wait, interval) ==
    flow' = [flow EXCEPT !.interval = interval,
                         !.phase = IF Expired THEN "expired" ELSE "sleeping",
                         !.wake = clock + wait]

(* What RFC 8628 and the server's Retry-After ask of the next poll, kept   *)
(* apart from the client's own count.                                      *)
Owed(retryAfter, slow) == clock + Max({retryAfter, Interval + Increment * slow})

PollPending ==
    /\ flow.phase = "polling" /\ decision = "none"
    /\ Again(flow.interval, flow.interval)
    /\ due' = Owed(0, slowDowns)
    /\ UNCHANGED <<clock, decision, slowDowns, latePolls>>

PollSlowDown ==
    /\ flow.phase = "polling"
    /\ Again(flow.interval + Increment, flow.interval + Increment)
    /\ slowDowns' = slowDowns + 1
    /\ due' = Owed(0, slowDowns + 1)
    /\ UNCHANGED <<clock, decision, latePolls>>

RetryAfterAlone(retryAfter) == retryAfter

(* The wait of temporarily_unavailable: at least the interval, and cut at  *)
(* the end of the code's lifetime.                                         *)
UnavailableWait(retryAfter) ==
    LET next == Max({retryAfter, flow.interval})
        left == IF Expired THEN 0 ELSE flow.expiresAt - clock
    IN  Min({next, left})

PollUnavailable ==
    /\ flow.phase = "polling"
    /\ \E retryAfter \in RetryAfters :
          /\ Again(UnavailableWait(retryAfter), flow.interval)
          /\ due' = Owed(retryAfter, slowDowns)
    /\ UNCHANGED <<clock, decision, slowDowns, latePolls>>

PollGranted ==
    /\ flow.phase = "polling" /\ decision = "approved" /\ ~Expired
    /\ End("approved")
    /\ UNCHANGED <<clock, decision, history>>

(* access_denied, expired_token, any other error, a lost connection.       *)
PollRefused ==
    /\ flow.phase = "polling"
    /\ \/ decision = "denied" /\ End("denied")
       \/ Expired /\ End("expired")
       \/ End("failed")
    /\ UNCHANGED <<clock, decision, history>>

Poll ==
    /\ flow.phase = "sleeping" /\ clock >= flow.wake
    /\ flow' = [flow EXCEPT !.phase = "polling", !.wake = 0]
    /\ latePolls' = latePolls + IF Expired THEN 1 ELSE 0
    /\ due' = 0
    /\ UNCHANGED <<clock, decision, slowDowns>>

Tick ==
    /\ InProgress /\ clock < MaxTime
    /\ clock' = clock + 1
    /\ UNCHANGED <<flow, decision, history>>

FlowStep ==
    \/ Authorized \/ NotAuthorized \/ Poll \/ PollPending \/ PollSlowDown
    \/ PollUnavailable \/ PollRefused

-----------------------------------------------------------------------------
(* The client keeps the pace the server asks for, counting every slow_down *)
(* and Retry-After, or else polls because the code has run out; and it     *)
(* polls at most once after that (pollForToken, deviceFlow.ts:411-457).    *)
PollsInTime ==
    /\ latePolls <= 1
    /\ flow.phase = "sleeping" => flow.wake >= Min({due, flow.expiresAt})
=============================================================================
