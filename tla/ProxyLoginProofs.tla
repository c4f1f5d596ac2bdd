-------------------------- MODULE ProxyLoginProofs --------------------------
(***************************************************************************)
(* ProxyLogin for any number of requests, outside events and faults: one   *)
(* browser login at most, asked for only when the file has nothing to      *)
(* offer, and polls that keep the server's pace.                           *)
(***************************************************************************)
EXTENDS ProxyLogin, TLAPS

(* The larger and the smaller of two numbers.                              *)
LEMMA MaxOfTwo ==
    ASSUME NEW a \in Nat, NEW b \in Nat
    PROVE  Max({a, b}) = IF a >= b THEN a ELSE b
<1> DEFINE m == IF a >= b THEN a ELSE b
<1>1. m \in {a, b} /\ \A y \in {a, b} : m >= y
  OBVIOUS
<1>2. \A x \in {a, b} : (\A y \in {a, b} : x >= y) => x = m
  OBVIOUS
<1> HIDE DEF m
<1>3. (CHOOSE x \in {a, b} : \A y \in {a, b} : x >= y) = m
  BY <1>1, <1>2
<1>4. Max({a, b}) = m
  BY <1>3 DEF Max
<1> QED
  BY <1>4 DEF m

LEMMA MinOfTwo ==
    ASSUME NEW a \in Nat, NEW b \in Nat
    PROVE  Min({a, b}) = IF a <= b THEN a ELSE b
<1> DEFINE m == IF a <= b THEN a ELSE b
<1>1. m \in {a, b} /\ \A y \in {a, b} : m <= y
  OBVIOUS
<1>2. \A x \in {a, b} : (\A y \in {a, b} : x <= y) => x = m
  OBVIOUS
<1> HIDE DEF m
<1>3. (CHOOSE x \in {a, b} : \A y \in {a, b} : x <= y) = m
  BY <1>1, <1>2
<1>4. Min({a, b}) = m
  BY <1>3 DEF Min
<1> QED
  BY <1>4 DEF m

-----------------------------------------------------------------------------
(* The pace.  The interval of the loop counts the slow_down answers, and a *)
(* poll after the end of the code is the last one.                         *)
Pace == flow.interval = Interval + Increment * slowDowns
LastPoll ==
    latePolls = 1 => \/ flow.phase = "polling" /\ clock >= flow.expiresAt
                     \/ flow.phase \in Ended
FlowInv == FlowTypeOK /\ Pace /\ LastPoll /\ PollsInTime

Numbers ==
    /\ Interval \in Nat /\ Increment \in Nat
    /\ Lifetimes \subseteq Nat /\ RetryAfters \subseteq Nat

LEMMA NumbersHold == Numbers
  BY DeviceFlowAssumption DEF Numbers

LEMMA FlowInitially == FlowInit => FlowInv
  BY NumbersHold DEF Numbers, FlowInit, FlowInv, FlowTypeOK, Pace, LastPoll,
     PollsInTime, NoFlow, Phases, Ended

FlowRecords == [phase : Phases, expiresAt : Nat, interval : Nat, wake : Nat]

LEMMA FlowRecordUpdates ==
    ASSUME NEW f \in FlowRecords, NEW phase \in Phases, NEW expiry \in Nat,
           NEW interval \in Nat, NEW wake \in Nat,
           NEW g, g = [f EXCEPT !.phase = phase, !.expiresAt = expiry,
                                !.interval = interval, !.wake = wake]
    PROVE  /\ g \in FlowRecords
           /\ g.phase = phase /\ g.expiresAt = expiry
           /\ g.interval = interval /\ g.wake = wake
<1> HIDE DEF Phases
<1> QED
  BY DEF FlowRecords

LEMMA FlowFacts ==
    ASSUME FlowInv
    PROVE  /\ flow \in FlowRecords
           /\ flow.phase \in Phases /\ flow.expiresAt \in Nat
           /\ flow.interval \in Nat /\ flow.wake \in Nat
           /\ clock \in Nat /\ slowDowns \in Nat /\ due \in Nat
           /\ latePolls \in {0, 1}
           /\ decision \in {"none", "approved", "denied"}
           /\ flow = [flow EXCEPT !.phase = flow.phase]
<1>1. flow \in FlowRecords /\ latePolls \in Nat /\ latePolls <= 1
  BY DEF FlowInv, FlowTypeOK, PollsInTime, FlowRecords
<1> HIDE DEF Phases
<1>2. /\ flow.phase \in Phases /\ flow.expiresAt \in Nat
      /\ flow.interval \in Nat /\ flow.wake \in Nat
      /\ flow = [flow EXCEPT !.phase = flow.phase]
  BY <1>1 DEF FlowRecords
<1> QED
  BY <1>1, <1>2 DEF FlowInv, FlowTypeOK

(* A new sleep: pace and wake-up call in one place.                        *)
LEMMA SleepIsLongEnough ==
    ASSUME FlowInv, flow.phase = "polling",
           NEW wait \in Nat, NEW interval \in Nat, NEW owed \in Nat,
           Again(wait, interval), due' = owed,
           UNCHANGED <<clock, decision, latePolls>>,
           slowDowns' \in Nat, interval = Interval + Increment * slowDowns',
           Expired \/ (clock + wait >= owed) \/ (clock + wait >= flow.expiresAt)
    PROVE  FlowInv'
<1>1. /\ clock \in Nat /\ flow.expiresAt \in Nat /\ latePolls \in {0, 1}
      /\ flow \in FlowRecords
      /\ decision \in {"none", "approved", "denied"}
  BY FlowFacts
<1> DEFINE phase == IF Expired THEN "expired" ELSE "sleeping"
           wake == clock + wait
<1>2. phase \in Phases /\ wake \in Nat
  BY <1>1 DEF Phases, Ended
<1>3. flow' = [flow EXCEPT !.interval = interval, !.phase = phase, !.wake = wake]
  BY DEF Again
<1> HIDE DEF phase, wake, Phases
<1>4. /\ flow'.phase = phase /\ flow'.wake = wake /\ flow'.interval = interval
      /\ flow'.expiresAt = flow.expiresAt /\ flow' \in FlowRecords
  BY <1>1, <1>2, <1>3 DEF FlowRecords
<1>5. FlowTypeOK'
  BY <1>1, <1>4 DEF FlowTypeOK, FlowRecords
<1>6. Pace'
  BY <1>4 DEF Pace
<1>7. LastPoll'
  BY <1>1, <1>4 DEF FlowInv, LastPoll, Expired, Ended, phase
<1>8. Min({due', flow'.expiresAt}) =
        IF owed <= flow.expiresAt THEN owed ELSE flow.expiresAt
  BY <1>1, <1>4, MinOfTwo
<1>9. Expired => phase = "expired"
  BY DEF phase
<1>10. PollsInTime'
  BY <1>1, <1>4, <1>8, <1>9 DEF PollsInTime, wake
<1> QED
  BY <1>5, <1>6, <1>7, <1>10 DEF FlowInv

(* A step of the flow that starts no sleep and leaves the pace alone.      *)
LEMMA AwakeSteps ==
    ASSUME FlowInv, NEW phase \in Phases \ {"sleeping"}, NEW expiry \in Nat,
           NEW wake \in Nat,
           flow' = [flow EXCEPT !.phase = phase, !.expiresAt = expiry, !.wake = wake],
           UNCHANGED <<clock, decision, slowDowns>>,
           due' \in Nat, latePolls' \in {0, 1}, LastPoll'
    PROVE  FlowInv'
<1>1. /\ clock \in Nat /\ slowDowns \in Nat /\ flow \in FlowRecords
      /\ decision \in {"none", "approved", "denied"}
  BY FlowFacts
<1> HIDE DEF Phases
<1>2. /\ flow' \in FlowRecords /\ flow'.phase = phase
      /\ flow'.interval = flow.interval
  BY <1>1 DEF FlowRecords
<1>3. FlowTypeOK'
  BY <1>1, <1>2 DEF FlowTypeOK, FlowRecords
<1>4. Pace'
  BY <1>2 DEF FlowInv, Pace
<1>5. PollsInTime'
  BY <1>2 DEF PollsInTime
<1> QED
  BY <1>3, <1>4, <1>5 DEF FlowInv

(* An end: from a phase of the flow to one of Ended.                       *)
LEMMA EndingSteps ==
    ASSUME FlowInv, NEW how \in Ended, End(how),
           UNCHANGED <<clock, decision, history>>
    PROVE  FlowInv'
<1>1. flow \in FlowRecords /\ due \in Nat /\ latePolls \in {0, 1}
  BY FlowFacts
<1>2. flow.expiresAt \in Nat /\ flow.wake \in Nat /\ how \in Phases \ {"sleeping"}
  BY FlowFacts DEF Phases, Ended
<1> HIDE DEF Phases
<1>3. /\ flow' = [flow EXCEPT !.phase = how, !.expiresAt = flow.expiresAt,
                              !.wake = flow.wake]
      /\ flow'.phase = how
  BY <1>1 DEF End, FlowRecords
<1>4. LastPoll'
  BY <1>3 DEF LastPoll
<1> QED
  BY <1>1, <1>2, <1>3, <1>4, AwakeSteps DEF history

LEMMA OtherFlowSteps ==
    ASSUME FlowInv,
           \/ Authorized \/ NotAuthorized \/ Decide \/ PollGranted
           \/ PollRefused \/ Poll \/ Tick
    PROVE  FlowInv'
<1>0. /\ flow \in FlowRecords /\ flow.expiresAt \in Nat /\ flow.wake \in Nat
      /\ clock \in Nat /\ due \in Nat /\ slowDowns \in Nat /\ latePolls \in {0, 1}
  BY FlowFacts
<1>1. CASE Authorized
  <2>1. PICK life \in Lifetimes :
          flow' = [flow EXCEPT !.expiresAt = clock + life,
                      !.phase = IF life = 0 THEN "expired" ELSE "polling"]
    BY <1>1 DEF Authorized
  <2> DEFINE phase == IF life = 0 THEN "expired" ELSE "polling"
             expiry == clock + life
  <2>2. phase \in Phases \ {"sleeping"}
    BY DEF Phases, Ended
  <2>3. expiry \in Nat
    BY <1>0, NumbersHold DEF Numbers
  <2> HIDE DEF phase, Phases
  <2>4. flow' = [flow EXCEPT !.expiresAt = expiry, !.phase = phase]
    BY <2>1 DEF phase
  <2> HIDE DEF expiry
  <2>5. flow' = [flow EXCEPT !.phase = phase, !.expiresAt = expiry, !.wake = flow.wake]
    BY <1>0, <2>4 DEF FlowRecords
  <2>6. flow.phase = "authorizing" /\ UNCHANGED <<clock, decision, slowDowns, due, latePolls>>
    BY <1>1 DEF Authorized, history
  <2>7. latePolls = 0
    BY <1>0, <2>6 DEF FlowInv, LastPoll, Ended
  <2>8. LastPoll'
    BY <2>6, <2>7 DEF LastPoll
  <2>9. due' \in Nat /\ latePolls' \in {0, 1}
    BY <1>0, <2>6
  <2> QED
    BY <1>0, <2>2, <2>3, <2>5, <2>6, <2>8, <2>9, AwakeSteps
<1>2. CASE NotAuthorized
  BY <1>2, EndingSteps DEF NotAuthorized, Ended
<1>3. CASE Decide
  <2>1. /\ UNCHANGED <<clock, flow, slowDowns, due, latePolls>>
        /\ decision' \in {"none", "approved", "denied"}
    BY <1>3 DEF Decide, history
  <2> QED
    BY <2>1 DEF FlowInv, FlowTypeOK, Pace, LastPoll, PollsInTime
<1>4. CASE PollGranted
  BY <1>4, EndingSteps DEF PollGranted, Ended
<1>5. CASE PollRefused
  <2>1. \E how \in Ended : End(how)
    BY <1>5 DEF PollRefused, Ended
  <2> QED
    BY <1>5, <2>1, EndingSteps DEF PollRefused
<1>6. CASE Poll
  <2>1. /\ flow.phase = "sleeping" /\ flow' = [flow EXCEPT !.phase = "polling", !.wake = 0]
        /\ latePolls' = latePolls + (IF Expired THEN 1 ELSE 0)
        /\ due' = 0 /\ UNCHANGED <<clock, decision, slowDowns>>
    BY <1>6 DEF Poll
  <2>2. latePolls = 0
    BY <1>0, <2>1 DEF FlowInv, LastPoll, Ended
  <2>3. /\ flow' = [flow EXCEPT !.phase = "polling", !.expiresAt = flow.expiresAt,
                                !.wake = 0]
        /\ flow'.phase = "polling" /\ flow'.expiresAt = flow.expiresAt
    BY <1>0, <2>1 DEF FlowRecords
  <2>4. latePolls' \in {0, 1} /\ (latePolls' = 1 => Expired)
    BY <2>1, <2>2
  <2>5. LastPoll'
    BY <2>1, <2>3, <2>4 DEF LastPoll, Expired
  <2>6. "polling" \in Phases \ {"sleeping"}
    BY DEF Phases, Ended
  <2>7. UNCHANGED <<clock, decision, slowDowns>> /\ due' \in Nat /\ 0 \in Nat
    BY <2>1
  <2>8. latePolls' \in {0, 1}
    BY <2>4
  <2> QED
    BY <1>0, <2>3, <2>5, <2>6, <2>7, <2>8, FlowInv, AwakeSteps
<1>7. CASE Tick
  <2>1. clock' = clock + 1 /\ UNCHANGED <<flow, decision, slowDowns, due, latePolls>>
    BY <1>7 DEF Tick, history
  <2> QED
    BY <1>0, <2>1 DEF FlowInv, FlowTypeOK, Pace, LastPoll, PollsInTime
<1> QED
  BY <1>1, <1>2, <1>3, <1>4, <1>5, <1>6, <1>7

LEMMA SleepSteps ==
    ASSUME FlowInv, PollPending \/ PollSlowDown \/ PollUnavailable
    PROVE  FlowInv'
<1>1. /\ clock \in Nat /\ flow.expiresAt \in Nat /\ flow.interval \in Nat
      /\ slowDowns \in Nat /\ flow.interval = Interval + Increment * slowDowns
      /\ Interval \in Nat /\ Increment \in Nat
  BY NumbersHold, FlowFacts DEF Numbers, FlowInv, Pace
<1>2. \A n \in Nat : Increment * n \in Nat /\ Increment * (n + 1) = Increment * n + Increment
  BY <1>1
<1>3. CASE PollPending
  <2>1. Owed(0, slowDowns) = clock + flow.interval
    BY <1>1, <1>2, MaxOfTwo DEF Owed
  <2> QED
    BY <1>1, <1>3, <2>1, SleepIsLongEnough DEF PollPending
<1>4. CASE PollSlowDown
  <2>1. flow.interval + Increment = Interval + Increment * (slowDowns + 1)
    BY <1>1, <1>2
  <2>2. Interval + Increment * (slowDowns + 1) \in Nat
    BY <1>1, <1>2, <2>1
  <2> DEFINE i == Interval + Increment * (slowDowns + 1)
  <2> HIDE DEF i
  <2>3. i \in Nat /\ i = flow.interval + Increment /\ i = Interval + Increment * (slowDowns + 1)
    BY <2>1, <2>2 DEF i
  <2>4. Max({0, i}) = i
    BY <2>3, MaxOfTwo
  <2>5. Owed(0, slowDowns + 1) = clock + i
    BY <2>3, <2>4 DEF Owed
  <2>6. Again(i, i) /\ due' = clock + i /\ slowDowns' = slowDowns + 1
    BY <1>4, <2>3, <2>5 DEF PollSlowDown
  <2> QED
    BY <1>1, <1>4, <2>3, <2>6, SleepIsLongEnough DEF PollSlowDown
<1>5. CASE PollUnavailable
  <2>1. PICK retryAfter \in RetryAfters :
          /\ Again(UnavailableWait(retryAfter), flow.interval)
          /\ due' = Owed(retryAfter, slowDowns)
    BY <1>5 DEF PollUnavailable
  <2> DEFINE next == Max({retryAfter, flow.interval})
             left == IF Expired THEN 0 ELSE flow.expiresAt - clock
  <2>2. retryAfter \in Nat
    BY NumbersHold DEF Numbers
  <2>3. next \in Nat
    BY <1>1, <2>2, MaxOfTwo
  <2>4. left \in Nat
    BY <1>1 DEF Expired
  <2>5. Owed(retryAfter, slowDowns) = clock + next
    BY <1>1 DEF Owed
  <2>6. UnavailableWait(retryAfter) = Min({next, left})
    BY DEF UnavailableWait
  <2> HIDE DEF next
  <2>7. Min({next, left}) = IF next <= left THEN next ELSE left
    BY <2>3, <2>4, MinOfTwo
  <2>8. Min({next, left}) \in Nat
    BY <2>3, <2>4, <2>7
  <2>9. \/ Expired \/ (clock + Min({next, left}) >= clock + next)
        \/ (clock + Min({next, left}) >= flow.expiresAt)
    BY <1>1, <2>3, <2>4, <2>7
  <2> HIDE DEF left
  <2> QED
    BY <1>1, <1>5, <2>1, <2>3, <2>5, <2>6, <2>8, <2>9, SleepIsLongEnough
    DEF PollUnavailable
<1> QED
  BY <1>3, <1>4, <1>5

LEMMA FlowStepKeepsInv == FlowInv /\ FlowStep => FlowInv'
  BY OtherFlowSteps, SleepSteps DEF FlowStep

LEMMA BeginKeepsFlowInv ==
    ASSUME FlowInv, latePolls = 0, BeginFlow, UNCHANGED <<clock, decision, history>>
    PROVE  FlowInv'
<1>1. flow \in FlowRecords /\ due \in Nat
  BY FlowFacts
<1>2. flow.expiresAt \in Nat /\ flow.wake \in Nat /\ "authorizing" \in Phases \ {"sleeping"}
  BY FlowFacts DEF Phases, Ended
<1>3. flow' = [flow EXCEPT !.phase = "authorizing", !.expiresAt = flow.expiresAt,
                           !.wake = flow.wake]
  BY <1>1 DEF BeginFlow, FlowRecords
<1>4. LastPoll'
  BY DEF LastPoll, history
<1>5. latePolls' \in {0, 1} /\ due' \in Nat /\ UNCHANGED <<clock, decision, slowDowns>>
  BY <1>1 DEF history
<1> QED
  BY <1>2, <1>3, <1>4, <1>5, AwakeSteps

LEMMA EndKeepsFlowInv == EndFlow => FlowInv' /\ flow'.phase = "off" /\ latePolls' = 0
  BY NumbersHold DEF Numbers, EndFlow, FlowInv, FlowTypeOK, Pace, LastPoll,
     PollsInTime, NoFlow, Phases, Ended

LEMMA FlowUnchanged == FlowInv /\ UNCHANGED flowVars => FlowInv'
  BY DEF FlowInv, FlowTypeOK, Pace, LastPoll, PollsInTime, flowVars, history

-----------------------------------------------------------------------------
(* The inductive invariant.                                                *)

(* Until the login is begun none was, and nothing of a flow exists but     *)
(* while it runs.                                                          *)
LoginInv ==
    /\ login \in {"allowed", "running", "spent"} /\ logins \in Nat
    /\ login = "allowed" => logins = 0
    /\ logins <= 1
    /\ login # "running" => flow.phase = "off" /\ latePolls = 0

(* Every pair in sight was issued, and one whose successor is only in      *)
(* memory is dead.                                                         *)
TokenInv ==
    /\ live \in SUBSET Nat /\ accepted \in SUBSET Nat /\ fresh \in SUBSET Nat
    /\ last \in Nat
    /\ \A n \in live : 0 < n /\ n <= last
    /\ disk = Unreadable \/ (disk \in Nat /\ disk <= last)
    /\ mem \in [cred : Nat, used : Nat]
    /\ mem.cred <= last /\ mem.used <= last
    /\ mem.used # 0 => mem.used \notin live

(* The one request with the lock refreshes what the file holds, or the     *)
(* file holds nothing that could be refreshed.                             *)
SendInv ==
    /\ req \in [Requests -> Request]
    /\ holder \in Requests \cup {Free}
    /\ \A r \in Requests : req[r].pc = "sending" =>
          /\ holder = r /\ req[r].base <= last
          /\ disk \in {Unreadable, req[r].base} \/ disk \notin live

BoundInv == outside \in Nat /\ faults \in Nat

IInv == FlowInv /\ LoginInv /\ TokenInv /\ SendInv /\ BoundInv

LEMMA IInvTypes == IInv => TypeOK
<1> HIDE DEF Request
<1> QED
  BY DEF IInv, FlowInv, LoginInv, TokenInv, SendInv, BoundInv, TypeOK

LEMMA Names == Free \notin Requests /\ Unreadable \notin Nat
  BY ProxyLoginAssumption

-----------------------------------------------------------------------------
(* What a request does to itself.                                          *)

(* It does not begin to refresh, and is not told to log in.                *)
Quiet(r) ==
    \E new \in Request :
        /\ new.pc # "sending"
        /\ new.outcome = req[r].outcome \/ new.outcome # "loginRequired"
        /\ req' = [req EXCEPT ![r] = new]

LEMMA ReadyIsRequest ==
    /\ Ready \in Request
    /\ Ready.pc = "start" /\ Ready.outcome = "none"
    /\ \A o \in Outcomes : /\ Over(o) \in Request
                           /\ Over(o).pc = "done" /\ Over(o).outcome = o
<1>1. Ready \in Request /\ Ready.pc = "start" /\ Ready.outcome = "none"
  BY DEF Ready, Request, Outcomes
<1>2. ASSUME NEW o \in Outcomes
      PROVE  Over(o) \in Request /\ Over(o).pc = "done" /\ Over(o).outcome = o
  <2> HIDE DEF Outcomes
  <2> QED
    BY <1>1 DEF Over, Ready, Request
<1> QED
  BY <1>1, <1>2

LEMMA QuietFinish ==
    ASSUME NEW r \in Requests, NEW o \in Outcomes \ {"loginRequired"}, Finish(r, o)
    PROVE  Quiet(r)
  BY ReadyIsRequest DEF Quiet, Finish

Pcs == {"start", "mutex", "lock", "sending", "login", "post", "done"}

LEMMA RequestFields ==
    ASSUME NEW q \in Request
    PROVE  /\ q.pc \in Pcs /\ q.call \in {"header", "force", "retry"}
           /\ q.again \in {"yes", "no"} /\ q.stale \in Nat /\ q.base \in Nat
           /\ q.bearer \in Nat /\ q.outcome \in Outcomes
<1> HIDE DEF Outcomes
<1> QED
  BY DEF Request, Pcs

LEMMA RequestUpdates ==
    ASSUME NEW q \in Request, NEW pc \in Pcs, NEW call \in {"header", "force", "retry"},
           NEW again \in {"yes", "no"}, NEW stale \in Nat, NEW base \in Nat,
           NEW bearer \in Nat,
           NEW new, new = [q EXCEPT !.pc = pc, !.call = call, !.again = again,
                              !.stale = stale, !.base = base, !.bearer = bearer]
    PROVE  /\ new \in Request /\ new.pc = pc /\ new.outcome = q.outcome
           /\ new.base = base
<1> HIDE DEF Outcomes
<1> QED
  BY DEF Request, Pcs

LEMMA QuietGoto ==
    ASSUME req \in [Requests -> Request], NEW r \in Requests,
           NEW pc \in Pcs \ {"sending"}, Goto(r, pc)
    PROVE  Quiet(r)
<1> DEFINE new == [req[r] EXCEPT !.pc = pc]
<1>1. req[r] \in Request
  OBVIOUS
<1>2. new \in Request /\ new.pc = pc /\ new.outcome = req[r].outcome
  <2> HIDE DEF Outcomes
  <2> QED
    BY <1>1 DEF Request, Pcs
<1>3. req' = [req EXCEPT ![r] = new]
  BY DEF Goto
<1> QED
  BY <1>2, <1>3 DEF Quiet

Awaits(r) == \E caught \in {"yes", "no"} : AwaitLogin(r, caught)

LEMMA QuietAwait ==
    ASSUME req \in [Requests -> Request], NEW r \in Requests, Awaits(r)
    PROVE  Quiet(r)
<1>1. PICK caught \in {"yes", "no"} : AwaitLogin(r, caught)
  BY DEF Awaits
<1> DEFINE new == [req[r] EXCEPT !.pc = "login", !.again = caught]
<1>2. req[r] \in Request
  OBVIOUS
<1>3. new \in Request /\ new.pc = "login" /\ new.outcome = req[r].outcome
  <2> HIDE DEF Outcomes
  <2> QED
    BY <1>2 DEF Request
<1>4. req' = [req EXCEPT ![r] = new]
  BY <1>1 DEF AwaitLogin
<1> QED
  BY <1>3, <1>4 DEF Quiet

LEMMA QuietReturned ==
    ASSUME req \in [Requests -> Request], NEW r \in Requests,
           NEW pair \in Nat, Returned(r, pair)
    PROVE  Quiet(r)
<1>1. req[r] \in Request /\ req[r].call \in {"header", "force", "retry"}
  BY RequestFields
<1>2. CASE req[r].call = "force"
  <2> DEFINE new == [Ready EXCEPT !.call = "retry"]
  <2>1. new \in Request /\ new.pc = "start" /\ new.outcome = "none"
    BY DEF Ready, Request, Outcomes
  <2>2. req' = [req EXCEPT ![r] = new]
    BY <1>2 DEF Returned
  <2> QED
    BY <2>1, <2>2 DEF Quiet
<1>3. CASE req[r].call # "force"
  <2> DEFINE new == [Ready EXCEPT !.pc = "post", !.call = req[r].call, !.bearer = pair]
  <2>1. new \in Request /\ new.pc = "post" /\ new.outcome = "none"
    BY <1>1 DEF Ready, Request, Outcomes
  <2>2. req' = [req EXCEPT ![r] = new]
    BY <1>3 DEF Returned
  <2> QED
    BY <2>1, <2>2 DEF Quiet
<1> QED
  BY <1>2, <1>3

Refused(r) == req' = [req EXCEPT ![r] = Over("loginRequired")]

(* Authenticate and LoginExpired: what comes of the login.                 *)
LEMMA Asking ==
    ASSUME IInv, NEW r \in Requests, Authenticate(r, "no") \/ LoginExpired(r),
           UNCHANGED <<clock, decision, history>>
    PROVE  /\ FlowInv' /\ LoginInv'
           /\ \/ Quiet(r)
              \/ Refused(r) /\ login # "running"
           /\ logins' # logins => login # "running"
<1> USE DEF IInv
<1>0. req \in [Requests -> Request]
  BY DEF SendInv
<1>1. CASE UNCHANGED <<login, logins, flow>>
  <2>1. FlowInv' /\ LoginInv'
    BY <1>1, FlowUnchanged DEF LoginInv, flowVars, history
  <2>2. \/ Awaits(r) \/ (login = "spent" /\ Finish(r, "loginRequired"))
        \/ Finish(r, "expired") \/ login = "allowed"
    BY DEF Authenticate, LoginExpired, Awaits
  <2>3. login = "allowed" => \/ Awaits(r) \/ Finish(r, "expired")
                             \/ (login # "running" /\ Finish(r, "loginRequired"))
    BY <1>1 DEF Authenticate, LoginExpired, Awaits
  <2>4. Awaits(r) => Quiet(r)
    BY <1>0, QuietAwait
  <2>5. Finish(r, "expired") => Quiet(r)
    BY QuietFinish DEF Outcomes
  <2>6. Finish(r, "loginRequired") => Refused(r)
    BY DEF Finish, Refused
  <2> QED
    BY <1>1, <2>1, <2>2, <2>3, <2>4, <2>5, <2>6
<1>2. CASE login = "allowed" /\ login' = "running" /\ logins' = logins + 1
           /\ BeginFlow /\ Awaits(r)
  <2>1. Quiet(r)
    BY <1>0, <1>2, QuietAwait
  <2>2. latePolls = 0
    BY <1>2 DEF LoginInv
  <2>3. FlowInv'
    BY <1>2, <2>2, BeginKeepsFlowInv
  <2>4. LoginInv'
    BY <1>2 DEF LoginInv
  <2> QED
    BY <1>2, <2>1, <2>3, <2>4
<1>3. CASE login = "allowed" /\ login' = "spent" /\ Finish(r, "loginFailed")
           /\ UNCHANGED <<logins, flow>>
  <2>1. Quiet(r)
    BY <1>3, QuietFinish DEF Outcomes
  <2>2. FlowInv'
    BY <1>3, FlowUnchanged DEF flowVars
  <2>3. LoginInv'
    BY <1>3 DEF LoginInv, history
  <2> QED
    BY <1>3, <2>1, <2>2, <2>3
<1> QED
  BY <1>1, <1>2, <1>3 DEF Authenticate, LoginExpired, Awaits

-----------------------------------------------------------------------------
(* What the steps do to the pairs and to the request that refreshes.       *)

LEMMA SendingLeft ==
    ASSUME req \in [Requests -> Request], NEW r \in Requests, Quiet(r) \/ Refused(r)
    PROVE  /\ req' \in [Requests -> Request]
           /\ req'[r].pc # "sending"
           /\ \A q \in Requests \ {r} : req'[q] = req[q]
           /\ Quiet(r) => (req'[r].outcome = "loginRequired"
                             => req[r].outcome = "loginRequired")
<1> HIDE DEF Request
<1>1. CASE Quiet(r)
  BY <1>1 DEF Quiet
<1>2. CASE Refused(r) /\ ~Quiet(r)
  <2>1. Over("loginRequired") \in Request /\ Over("loginRequired").pc # "sending"
    BY ReadyIsRequest DEF Outcomes
  <2> QED
    BY <1>2, <2>1 DEF Refused
<1> QED
  BY <1>1, <1>2

(* A pair is replaced by the next one.                                     *)
LEMMA Rotation ==
    ASSUME TokenInv, NEW base \in Nat, base <= last, Rotate(base)
    PROVE  /\ live' \in SUBSET Nat /\ accepted' \in SUBSET Nat /\ fresh' \in SUBSET Nat
           /\ last' \in Nat /\ last' = last + 1
           /\ \A n \in live' : 0 < n /\ n <= last'
           /\ base \notin live' /\ last' \in live'
           /\ \A n \in Nat : (n <= last /\ n \notin live) => n \notin live'
  BY DEF TokenInv, Rotate

LEMMA NotLive ==
    ASSUME TokenInv
    PROVE  0 \notin live
  BY DEF TokenInv

(* The copy in memory: the file's, or the pair that could not be saved.    *)
LEMMA LoadedPair ==
    ASSUME TokenInv, disk # Unreadable
    PROVE  /\ Loaded \in [cred : Nat, used : Nat]
           /\ Loaded.cred <= last /\ Loaded.used <= last
           /\ Loaded.used # 0 => Loaded.used \notin live
  BY Names DEF TokenInv, Loaded, Behind

LEMMA TokensUnchanged ==
    ASSUME TokenInv, UNCHANGED <<disk, server>>,
           \/ UNCHANGED mem
           \/ disk # Unreadable /\ mem' = Loaded
           \/ disk # Unreadable /\ mem' = [cred |-> disk, used |-> 0]
    PROVE  TokenInv'
<1>1. CASE UNCHANGED mem
  BY <1>1 DEF TokenInv, server
<1>2. CASE disk # Unreadable /\ mem' = Loaded
  BY <1>2, LoadedPair DEF TokenInv, server
<1>3. CASE disk # Unreadable /\ mem' = [cred |-> disk, used |-> 0]
  <2>1. disk \in Nat /\ disk <= last
    BY <1>3 DEF TokenInv
  <2>2. /\ mem' \in [cred : Nat, used : Nat] /\ mem'.cred = disk /\ mem'.used = 0
        /\ UNCHANGED <<disk, live, accepted, fresh, last>>
    BY <1>3, <2>1 DEF server
  <2>3. 0 <= last
    BY DEF TokenInv
  <2> QED
    BY <2>1, <2>2, <2>3 DEF TokenInv
<1> QED
  BY <1>1, <1>2, <1>3

(* A step of one request that takes no lock and changes no pair.           *)
LEMMA SendUnchanged ==
    ASSUME SendInv, NEW r \in Requests, Quiet(r) \/ Refused(r),
           UNCHANGED <<disk, server>>,
           holder' = holder \/ (holder' = Free /\ req[r].pc = "sending")
    PROVE  SendInv'
<1>1. /\ req' \in [Requests -> Request] /\ req'[r].pc # "sending"
      /\ \A q \in Requests \ {r} : req'[q] = req[q]
  BY SendingLeft DEF SendInv
<1>2. holder' \in Requests \cup {Free}
  BY DEF SendInv
<1>3. ASSUME NEW q \in Requests, req'[q].pc = "sending"
      PROVE  /\ holder' = q /\ req'[q].base <= last'
             /\ disk' \in {Unreadable, req'[q].base} \/ disk' \notin live'
  <2>1. q # r /\ req'[q] = req[q]
    BY <1>1, <1>3
  <2>2. holder = q /\ req[q].base <= last
        /\ (disk \in {Unreadable, req[q].base} \/ disk \notin live)
    BY <1>3, <2>1 DEF SendInv
  <2>3. holder' = holder
    BY <2>1, <2>2 DEF SendInv
  <2> QED
    BY <2>1, <2>2, <2>3 DEF server
<1> QED
  BY <1>1, <1>2, <1>3 DEF SendInv

(* While nobody has the lock nobody refreshes.                             *)
LEMMA NobodySends ==
    ASSUME SendInv, holder = Free
    PROVE  \A r \in Requests : req[r].pc # "sending"
  BY Names DEF SendInv

LEMMA SendersGone ==
    ASSUME SendInv, NEW r \in Requests, req[r].pc = "sending",
           Quiet(r) \/ Refused(r), holder' = Free
    PROVE  SendInv'
<1>1. /\ req' \in [Requests -> Request] /\ req'[r].pc # "sending"
      /\ \A q \in Requests \ {r} : req'[q] = req[q]
  BY SendingLeft DEF SendInv
<1>2. \A q \in Requests : req'[q].pc # "sending"
  BY <1>1 DEF SendInv
<1> QED
  BY <1>1, <1>2 DEF SendInv

(* What NeverAsksInVain says of a step.                                    *)
NotInVain ==
    (\/ logins' # logins
     \/ \E r \in Requests : /\ req'[r].outcome = "loginRequired"
                            /\ req[r].outcome # "loginRequired")
    => ~Usable /\ login # "running"

LEMMA QuietAsksNothing ==
    ASSUME SendInv, NEW r \in Requests, Quiet(r), logins' = logins
    PROVE  NotInVain
<1>1. /\ req'[r].outcome = "loginRequired" => req[r].outcome = "loginRequired"
      /\ \A q \in Requests \ {r} : req'[q] = req[q]
  BY SendingLeft DEF SendInv
<1> QED
  BY <1>1 DEF NotInVain

LEMMA AskedForAReason ==
    ASSUME SendInv, ~Usable, NEW r \in Requests,
           Quiet(r) \/ (Refused(r) /\ login # "running"),
           logins' # logins => login # "running"
    PROVE  NotInVain
<1>1. CASE Quiet(r)
  <2>1. /\ req'[r].outcome = "loginRequired" => req[r].outcome = "loginRequired"
        /\ \A q \in Requests \ {r} : req'[q] = req[q]
    BY <1>1, SendingLeft DEF SendInv
  <2> QED
    BY <2>1 DEF NotInVain
<1>2. CASE Refused(r) /\ login # "running"
  BY <1>2 DEF NotInVain
<1> QED
  BY <1>1, <1>2

-----------------------------------------------------------------------------
(* The steps of a request.                                                 *)
LEMMA SameLogin ==
    ASSUME FlowInv, LoginInv, UNCHANGED <<login, logins, flowVars>>
    PROVE  FlowInv' /\ LoginInv'
  BY FlowUnchanged DEF LoginInv, flowVars, history

LEMMA CallStep ==
    ASSUME IInv, NEW r \in Requests, Call(r)
    PROVE  IInv' /\ NotInVain
<1> USE DEF IInv
<1>1. /\ req \in [Requests -> Request]
      /\ UNCHANGED <<disk, holder, server, bounds, clock, decision, history>>
  BY DEF SendInv, Call
<1>2. BoundInv'
  BY <1>1 DEF BoundInv, bounds
<1>3. CASE disk = Unreadable
  <2>1. Finish(r, "fileError") /\ UNCHANGED <<mem, login, logins, flow>>
    BY <1>3, Names DEF Call
  <2>2. Quiet(r)
    BY <2>1, QuietFinish DEF Outcomes
  <2>3. FlowInv' /\ LoginInv'
    BY <1>1, <2>1, SameLogin DEF flowVars
  <2>4. TokenInv'
    BY <1>1, <2>1, TokensUnchanged
  <2>5. SendInv'
    BY <1>1, <2>2, SendUnchanged
  <2> QED
    BY <1>2, <2>1, <2>2, <2>3, <2>4, <2>5, QuietAsksNothing
<1>4. CASE disk # Unreadable /\ disk = 0
  <2>1. Authenticate(r, "no") /\ UNCHANGED mem
    BY <1>4 DEF Call
  <2>2. /\ FlowInv' /\ LoginInv'
        /\ Quiet(r) \/ (Refused(r) /\ login # "running")
        /\ logins' # logins => login # "running"
    BY <1>1, <2>1, Asking
  <2>3. TokenInv'
    BY <1>1, <2>1, TokensUnchanged
  <2>4. SendInv'
    BY <1>1, <2>2, SendUnchanged
  <2>5. ~Usable
    BY <1>4, NotLive DEF Usable
  <2>6. NotInVain
    BY <2>2, <2>5, AskedForAReason
  <2> QED
    BY <1>2, <2>2, <2>3, <2>4, <2>6
<1>5. CASE disk \notin {0, Unreadable}
  <2> DEFINE stale == IF req[r].call = "force" THEN Loaded.cred ELSE 0
             new == [req[r] EXCEPT !.pc = "mutex", !.again = "no", !.stale = stale]
  <2>1. /\ mem' = Loaded /\ UNCHANGED <<login, logins, flow>>
        /\ req' = [req EXCEPT ![r].pc = "mutex", ![r].again = "no", ![r].stale = stale]
    BY <1>5 DEF Call
  <2>2. Loaded.cred \in Nat
    BY <1>5, LoadedPair
  <2>3. stale \in Nat
    BY <2>2
  <2> HIDE DEF stale
  <2>4. req[r] \in Request
    BY <1>1
  <2>5. new \in Request /\ new.pc = "mutex" /\ new.outcome = req[r].outcome
    BY <2>3, <2>4 DEF Request, Outcomes
  <2>6. req' = [req EXCEPT ![r] = new]
    BY <2>1
  <2>7. Quiet(r)
    BY <2>5, <2>6 DEF Quiet
  <2>8. FlowInv' /\ LoginInv'
    BY <1>1, <2>1, SameLogin DEF flowVars
  <2>9. TokenInv'
    BY <1>1, <1>5, <2>1, TokensUnchanged
  <2>10. SendInv'
    BY <1>1, <2>7, SendUnchanged
  <2> QED
    BY <1>2, <2>1, <2>7, <2>8, <2>9, <2>10, QuietAsksNothing
<1> QED
  BY <1>3, <1>4, <1>5

LEMMA EnterMutexStep ==
    ASSUME IInv, NEW r \in Requests, EnterMutex(r)
    PROVE  IInv' /\ NotInVain
<1> USE DEF IInv
<1>1. /\ req \in [Requests -> Request] /\ mem.cred \in Nat
      /\ UNCHANGED <<store, holder, server, login, logins, bounds, flowVars>>
  BY DEF SendInv, EnterMutex, TokenInv
<1>2. Quiet(r)
  BY <1>1, QuietReturned, QuietGoto DEF EnterMutex, Pcs
<1>3. BoundInv' /\ FlowInv' /\ LoginInv' /\ TokenInv'
  BY <1>1, SameLogin, TokensUnchanged DEF BoundInv, bounds, store
<1>4. SendInv'
  BY <1>1, <1>2, SendUnchanged DEF store
<1> QED
  BY <1>1, <1>2, <1>3, <1>4, QuietAsksNothing

LEMMA PostStep ==
    ASSUME IInv, NEW r \in Requests, Post(r)
    PROVE  IInv' /\ NotInVain
<1> USE DEF IInv
<1>1. /\ req \in [Requests -> Request]
      /\ UNCHANGED <<store, holder, server, login, logins, bounds, flowVars>>
  BY DEF SendInv, Post
<1>2. Quiet(r)
  <2> DEFINE new == [req[r] EXCEPT !.pc = "start", !.call = "force"]
  <2>1. req[r] \in Request
    BY <1>1
  <2>2. new \in Request /\ new.pc = "start" /\ new.outcome = req[r].outcome
    BY <2>1 DEF Request, Outcomes
  <2>3. \/ Finish(r, "answered") \/ Finish(r, "rejected") \/ req' = [req EXCEPT ![r] = new]
    BY DEF Post
  <2> QED
    BY <2>2, <2>3, QuietFinish DEF Quiet, Outcomes
<1>3. BoundInv' /\ FlowInv' /\ LoginInv' /\ TokenInv'
  BY <1>1, SameLogin, TokensUnchanged DEF BoundInv, bounds, store
<1>4. SendInv'
  BY <1>1, <1>2, SendUnchanged DEF store
<1> QED
  BY <1>1, <1>2, <1>3, <1>4, QuietAsksNothing

LEMMA TakeLockStep ==
    ASSUME IInv, NEW r \in Requests, TakeLock(r)
    PROVE  IInv' /\ NotInVain
<1> USE DEF IInv
<1>1. /\ req \in [Requests -> Request] /\ holder = Free
      /\ UNCHANGED <<disk, server, bounds, clock, decision, history>>
  BY DEF SendInv, TakeLock
<1>2. BoundInv'
  BY <1>1 DEF BoundInv, bounds
<1>3. CASE disk = Unreadable
  <2>1. Finish(r, "fileError") /\ UNCHANGED <<mem, holder, login, logins, flow>>
    BY <1>3, Names DEF TakeLock
  <2>2. Quiet(r)
    BY <2>1, QuietFinish DEF Outcomes
  <2>3. FlowInv' /\ LoginInv'
    BY <1>1, <2>1, SameLogin DEF flowVars
  <2>4. TokenInv'
    BY <1>1, <2>1, TokensUnchanged
  <2>5. SendInv'
    BY <1>1, <2>1, <2>2, SendUnchanged
  <2> QED
    BY <1>2, <2>1, <2>2, <2>3, <2>4, <2>5, QuietAsksNothing
<1>4. CASE disk # Unreadable /\ disk = 0
  <2>1. LoginExpired(r) /\ UNCHANGED <<mem, holder>>
    BY <1>4 DEF TakeLock
  <2>2. /\ FlowInv' /\ LoginInv'
        /\ Quiet(r) \/ (Refused(r) /\ login # "running")
        /\ logins' # logins => login # "running"
    BY <1>1, <2>1, Asking
  <2>3. TokenInv'
    BY <1>1, <2>1, TokensUnchanged
  <2>4. SendInv'
    BY <1>1, <2>1, <2>2, SendUnchanged
  <2>5. ~Usable
    BY <1>4, NotLive DEF Usable
  <2>6. NotInVain
    BY <2>2, <2>5, AskedForAReason
  <2> QED
    BY <1>2, <2>2, <2>3, <2>4, <2>6
<1>5. CASE /\ disk \notin {0, Unreadable} /\ mem' = [cred |-> disk, used |-> 0]
           /\ Returned(r, disk) /\ UNCHANGED <<holder, login, logins, flow>>
  <2>1. disk \in Nat
    BY <1>5 DEF TokenInv
  <2>2. Quiet(r)
    BY <1>1, <1>5, <2>1, QuietReturned
  <2>3. FlowInv' /\ LoginInv'
    BY <1>1, <1>5, SameLogin DEF flowVars
  <2>4. TokenInv'
    BY <1>1, <1>5, TokensUnchanged
  <2>5. SendInv'
    BY <1>1, <1>5, <2>2, SendUnchanged
  <2> QED
    BY <1>2, <1>5, <2>2, <2>3, <2>4, <2>5, QuietAsksNothing
<1>6. CASE /\ disk \notin {0, Unreadable} /\ holder' = r
           /\ req' = [req EXCEPT ![r].pc = "sending",
                         ![r].base = IF Behind(disk) THEN mem.cred ELSE disk]
           /\ UNCHANGED <<mem, login, logins, flow>>
  <2> DEFINE base == IF Behind(disk) THEN mem.cred ELSE disk
             new == [req[r] EXCEPT !.pc = "sending", !.base = base]
  <2>1. /\ disk \in Nat /\ mem.cred \in Nat /\ disk <= last /\ mem.cred <= last
        /\ mem.used # 0 => mem.used \notin live
    BY <1>6 DEF TokenInv
  <2>2. base \in Nat /\ base <= last /\ (disk = base \/ disk \notin live)
    BY <2>1 DEF Behind
  <2>3. req' = [req EXCEPT ![r].pc = "sending", ![r].base = base]
    BY <1>6
  <2> HIDE DEF base
  <2>4. req[r] \in Request
    BY <1>1
  <2>5. new \in Request /\ new.pc = "sending" /\ new.base = base
        /\ new.outcome = req[r].outcome
    BY <2>2, <2>4 DEF Request, Outcomes
  <2>6. req' = [req EXCEPT ![r] = new]
    BY <2>3
  <2> HIDE DEF new
  <2>7. /\ req' \in [Requests -> Request] /\ req'[r] = new
        /\ \A q \in Requests \ {r} : req'[q] = req[q]
    BY <1>1, <2>5, <2>6
  <2>8. \A q \in Requests \ {r} : req'[q].pc # "sending"
    BY <1>1, <2>7, NobodySends
  <2>9. SendInv'
    BY <1>1, <1>6, <2>2, <2>5, <2>7, <2>8 DEF SendInv, server
  <2>10. FlowInv' /\ LoginInv' /\ TokenInv'
    BY <1>1, <1>6, SameLogin, TokensUnchanged DEF flowVars
  <2>11. NotInVain
    BY <1>6, <2>5, <2>7 DEF NotInVain
  <2> QED
    BY <1>2, <2>9, <2>10, <2>11
<1> QED
  BY <1>3, <1>4, <1>5, <1>6 DEF TakeLock

LEMMA RefreshAnsweredStep ==
    ASSUME IInv, NEW r \in Requests, RefreshAnswered(r)
    PROVE  IInv' /\ NotInVain
<1> USE DEF IInv
<1>1. /\ req \in [Requests -> Request] /\ req[r].pc = "sending"
      /\ req[r].base <= last /\ Rotate(req[r].base) /\ holder' = Free
      /\ disk \in {Unreadable, req[r].base} \/ disk \notin live
      /\ Returned(r, last + 1)
      /\ UNCHANGED <<login, logins, outside, flowVars>>
  BY DEF SendInv, RefreshAnswered
<1>2. req[r].base \in Nat /\ last \in Nat /\ last + 1 \in Nat
  BY <1>1, RequestFields DEF TokenInv
<1>3. Quiet(r)
  BY <1>1, <1>2, QuietReturned
<1>4. FlowInv' /\ LoginInv'
  BY <1>1, SameLogin
<1>5. SendInv'
  BY <1>1, <1>3, SendersGone
<1>6. BoundInv'
  BY <1>1 DEF RefreshAnswered, BoundInv
<1>7. /\ live' \in SUBSET Nat /\ accepted' \in SUBSET Nat /\ fresh' \in SUBSET Nat
      /\ last' = last + 1
      /\ \A n \in live' : 0 < n /\ n <= last'
      /\ req[r].base \notin live'
      /\ \A n \in Nat : (n <= last /\ n \notin live) => n \notin live'
  BY <1>1, <1>2, Rotation
<1>8. TokenInv'
  <2>1. CASE disk' = last + 1 /\ mem' = [cred |-> last + 1, used |-> 0]
    <3>1. mem' \in [cred : Nat, used : Nat] /\ mem'.cred = last + 1 /\ mem'.used = 0
      BY <1>2, <2>1
    <3> QED
      BY <1>2, <1>7, <2>1, <3>1 DEF TokenInv
  <2>2. CASE /\ disk' = disk
             /\ mem' = [cred |-> last + 1,
                        used |-> IF disk = Unreadable THEN req[r].base ELSE disk]
    <3> DEFINE used == IF disk = Unreadable THEN req[r].base ELSE disk
    <3>1. used \in Nat /\ used <= last /\ used \notin live'
      BY <1>1, <1>2, <1>7 DEF TokenInv
    <3>2. mem' = [cred |-> last + 1, used |-> used]
      BY <2>2
    <3> HIDE DEF used
    <3>3. mem' \in [cred : Nat, used : Nat] /\ mem'.cred = last + 1 /\ mem'.used = used
      BY <1>2, <3>1, <3>2
    <3>4. used <= last' /\ last + 1 <= last' /\ last' \in Nat
      BY <1>2, <1>7, <3>1
    <3>5. disk' = Unreadable \/ (disk' \in Nat /\ disk' <= last')
      BY <1>2, <1>7, <2>2 DEF TokenInv
    <3> QED
      BY <1>7, <3>1, <3>3, <3>4, <3>5 DEF TokenInv
  <2> QED
    BY <2>1, <2>2 DEF RefreshAnswered
<1> QED
  BY <1>1, <1>3, <1>4, <1>5, <1>6, <1>8, QuietAsksNothing

LEMMA RefreshRefusedStep ==
    ASSUME IInv, NEW r \in Requests, RefreshRefused(r)
    PROVE  IInv' /\ NotInVain
<1> USE DEF IInv
<1>1. /\ req[r].pc = "sending" /\ req[r].base \notin live /\ holder' = Free
      /\ LoginExpired(r)
      /\ UNCHANGED <<store, server, bounds, clock, decision, history>>
  BY DEF RefreshRefused
<1>2. /\ FlowInv' /\ LoginInv'
      /\ Quiet(r) \/ (Refused(r) /\ login # "running")
      /\ logins' # logins => login # "running"
  BY <1>1, Asking
<1>3. BoundInv' /\ TokenInv'
  BY <1>1, TokensUnchanged DEF BoundInv, bounds, store
<1>4. SendInv'
  BY <1>1, <1>2, SendersGone
<1>5. ~Usable
  BY <1>1 DEF Usable, SendInv
<1>6. NotInVain
  BY <1>2, <1>5, AskedForAReason
<1> QED
  BY <1>2, <1>3, <1>4, <1>6

LEMMA RefreshLostStep ==
    ASSUME IInv, NEW r \in Requests, RefreshLost(r)
    PROVE  IInv' /\ NotInVain
<1> USE DEF IInv
<1>1. /\ req \in [Requests -> Request] /\ req[r].pc = "sending"
      /\ req[r].base <= last /\ holder' = Free /\ Finish(r, "networkError")
      /\ faults' = faults + 1
      /\ UNCHANGED <<store, login, logins, outside, flowVars>>
  BY DEF SendInv, RefreshLost
<1>2. Quiet(r)
  BY <1>1, QuietFinish DEF Outcomes
<1>3. FlowInv' /\ LoginInv' /\ BoundInv'
  BY <1>1, SameLogin DEF BoundInv
<1>4. SendInv'
  BY <1>1, <1>2, SendersGone
<1>5. TokenInv'
  <2>1. CASE UNCHANGED server
    BY <1>1, <2>1, TokensUnchanged DEF store
  <2>2. CASE Rotate(req[r].base)
    <3>1. req[r].base \in Nat
      BY <1>1, RequestFields
    <3>2. /\ live' \in SUBSET Nat /\ accepted' \in SUBSET Nat /\ fresh' \in SUBSET Nat
          /\ last' = last + 1 /\ last' \in Nat
          /\ \A n \in live' : 0 < n /\ n <= last'
          /\ \A n \in Nat : (n <= last /\ n \notin live) => n \notin live'
      BY <1>1, <2>2, <3>1, Rotation
    <3> QED
      BY <1>1, <3>2 DEF TokenInv, store
  <2> QED
    BY <2>1, <2>2 DEF RefreshLost
<1> QED
  BY <1>1, <1>2, <1>3, <1>4, <1>5, QuietAsksNothing

-----------------------------------------------------------------------------
(* The steps of the login, of the world and of time.                       *)

LEMMA RequestsUnchanged ==
    ASSUME SendInv, UNCHANGED req, logins' = logins
    PROVE  NotInVain
  BY DEF NotInVain

(* The pairs and the requests stay as they are.                            *)
LEMMA SameTokens ==
    ASSUME TokenInv, SendInv, BoundInv, UNCHANGED <<store, holder, server, req, bounds>>
    PROVE  TokenInv' /\ SendInv' /\ BoundInv'
<1>1. TokenInv' /\ BoundInv'
  BY TokensUnchanged DEF store, BoundInv, bounds
<1>2. SendInv'
  BY DEF SendInv, store, server
<1> QED
  BY <1>1, <1>2

(* A step of the flow is one of a login that runs.                         *)
LEMMA FlowMoves ==
    ASSUME LoginInv, FlowStep \/ PollGranted \/ Tick \/ Decide \/ InProgress
    PROVE  login = "running"
<1>1. flow.phase # "off"
  BY DEF FlowStep, Authorized, NotAuthorized, Poll, PollPending, PollSlowDown,
     PollUnavailable, PollRefused, PollGranted, Tick, Decide, InProgress, Phases, Ended
<1> QED
  BY <1>1 DEF LoginInv

LEMMA RunningKeepsLoginInv ==
    ASSUME LoginInv, login = "running", UNCHANGED <<login, logins>>
    PROVE  LoginInv'
  BY DEF LoginInv

LEMMA FlowOnlySteps ==
    ASSUME IInv, LoginStep \/ Abort \/ Time
    PROVE  IInv' /\ NotInVain
<1> USE DEF IInv
<1>1. UNCHANGED <<store, holder, server, req, login, logins, bounds>>
  BY DEF LoginStep, Abort, Time
<1>2. TokenInv' /\ SendInv' /\ BoundInv' /\ NotInVain
  BY <1>1, SameTokens, RequestsUnchanged
<1>3. LoginInv'
  BY <1>1, FlowMoves, RunningKeepsLoginInv DEF LoginStep, Abort, Time
<1>4. FlowInv'
  <2>1. CASE LoginStep
    BY <2>1, FlowStepKeepsInv DEF LoginStep
  <2>2. CASE Abort
    BY <2>2, EndingSteps DEF Abort, Ended
  <2>3. CASE Time
    BY <2>3, OtherFlowSteps DEF Time
  <2> QED
    BY <2>1, <2>2, <2>3
<1> QED
  BY <1>2, <1>3, <1>4

LEMMA LoginGrantedStep ==
    ASSUME IInv, LoginGranted
    PROVE  IInv' /\ NotInVain
<1> USE DEF IInv
<1>1. /\ PollGranted /\ last' = last + 1 /\ live' = live \cup {last + 1}
      /\ accepted' = accepted \cup {last + 1} /\ fresh' = fresh \cup {last + 1}
      /\ UNCHANGED <<disk, mem, holder, req, login, logins, outside, faults>>
  BY DEF LoginGranted, store, bounds
<1>2. FlowInv' /\ LoginInv' /\ BoundInv' /\ NotInVain
  BY <1>1, OtherFlowSteps, FlowMoves, RunningKeepsLoginInv, RequestsUnchanged DEF BoundInv
<1>3. last \in Nat /\ \A n \in Nat : (n <= last /\ n \notin live) => n \notin live'
  BY <1>1 DEF TokenInv
<1>4. TokenInv'
  BY <1>1 DEF TokenInv
<1>5. SendInv'
  <2>1. ASSUME NEW r \in Requests, req'[r].pc = "sending"
        PROVE  /\ holder' = r /\ req'[r].base <= last'
               /\ disk' \in {Unreadable, req'[r].base} \/ disk' \notin live'
    <3>1. /\ holder = r /\ req[r].base <= last
          /\ disk \in {Unreadable, req[r].base} \/ disk \notin live
      BY <1>1, <2>1 DEF SendInv
    <3>2. req[r].base \in Nat
      BY RequestFields DEF SendInv
    <3>3. disk = Unreadable \/ (disk \in Nat /\ disk <= last)
      BY DEF TokenInv
    <3> QED
      BY <1>1, <1>3, <3>1, <3>2, <3>3
  <2> QED
    BY <1>1, <2>1 DEF SendInv
<1> QED
  BY <1>2, <1>4, <1>5

(* The requests that wait for the login get its outcome.                   *)
LEMMA Settled ==
    ASSUME IInv, NEW saved, Settle(saved), logins' = logins
    PROVE  /\ FlowInv' /\ LoginInv' /\ NotInVain
           /\ req' \in [Requests -> Request]
           /\ \A r \in Requests : req'[r].pc = "sending" => req'[r] = req[r]
<1> USE DEF IInv
<1>1. FlowInv' /\ LoginInv'
  BY EndKeepsFlowInv DEF Settle, AfterLogin, LoginInv
<1> DEFINE next(r) ==
          IF req[r].pc # "login" THEN req[r]
          ELSE IF ~saved THEN Over("loginFailed")
          ELSE IF req[r].call = "force" THEN [Ready EXCEPT !.call = "retry"]
          ELSE [req[r] EXCEPT !.pc = "mutex"]
<1>2. req' = [r \in Requests |-> next(r)]
  BY DEF Settle
<1>3. ASSUME NEW r \in Requests
      PROVE  /\ next(r) \in Request
             /\ next(r).outcome = "loginRequired" => req[r].outcome = "loginRequired"
             /\ next(r).pc = "sending" => next(r) = req[r]
  <2>0. req[r] \in Request
    BY DEF SendInv
  <2>1. CASE req[r].pc # "login"
    BY <2>0, <2>1
  <2>2. CASE req[r].pc = "login" /\ ~saved
    <3>1. next(r) = Over("loginFailed")
      BY <2>2
    <3> HIDE DEF next
    <3> QED
      BY <3>1, ReadyIsRequest DEF Outcomes
  <2>3. CASE req[r].pc = "login" /\ saved /\ req[r].call = "force"
    <3>1. next(r) = [Ready EXCEPT !.call = "retry"]
      BY <2>3
    <3> HIDE DEF next
    <3> QED
      BY <3>1 DEF Ready, Request, Outcomes
  <2>4. CASE req[r].pc = "login" /\ saved /\ req[r].call # "force"
    <3>1. next(r) = [req[r] EXCEPT !.pc = "mutex"]
      BY <2>4
    <3> HIDE DEF next
    <3> QED
      BY <2>0, <3>1 DEF Request, Outcomes
  <2> QED
    BY <2>1, <2>2, <2>3, <2>4
<1> HIDE DEF next
<1>4. \A r \in Requests : req'[r] = next(r)
  BY <1>2
<1>5. req' \in [Requests -> Request]
  BY <1>2, <1>3
<1>6. NotInVain
  BY <1>3, <1>4 DEF NotInVain
<1> QED
  BY <1>1, <1>3, <1>4, <1>5, <1>6

LEMMA LoginEndedStep ==
    ASSUME IInv, LoginEnded
    PROVE  IInv' /\ NotInVain
<1> USE DEF IInv
<1>1. UNCHANGED <<store, holder, server, logins, bounds>> /\ Settle(FALSE)
  BY DEF LoginEnded
<1>2. /\ FlowInv' /\ LoginInv' /\ NotInVain
      /\ req' \in [Requests -> Request]
      /\ \A r \in Requests : req'[r].pc = "sending" => req'[r] = req[r]
  BY <1>1, Settled
<1>3. TokenInv' /\ BoundInv'
  BY <1>1, TokensUnchanged DEF store, BoundInv, bounds
<1>4. SendInv'
  BY <1>1, <1>2 DEF SendInv, store, server
<1> QED
  BY <1>2, <1>3, <1>4

LEMMA SaveLoginStep ==
    ASSUME IInv, SaveLogin
    PROVE  IInv' /\ NotInVain
<1> USE DEF IInv
<1>1. /\ holder = Free /\ UNCHANGED <<holder, server, logins, outside>>
      /\ \E saved \in {TRUE, FALSE} : Settle(saved)
      /\ faults' \in {faults, faults + 1}
  BY DEF SaveLogin
<1>2. PICK saved \in {TRUE, FALSE} : Settle(saved)
  BY <1>1
<1>3. /\ FlowInv' /\ LoginInv' /\ NotInVain
      /\ req' \in [Requests -> Request]
      /\ \A r \in Requests : req'[r].pc = "sending" => req'[r] = req[r]
  BY <1>1, <1>2, Settled
<1>4. BoundInv'
  BY <1>1 DEF BoundInv
<1>5. \A r \in Requests : req'[r].pc # "sending"
  BY <1>1, <1>3, NobodySends
<1>6. SendInv'
  BY <1>1, <1>3, <1>5 DEF SendInv
<1>7. TokenInv'
  <2>1. CASE disk' = last /\ mem' = [cred |-> last, used |-> 0]
    <3>1. last \in Nat
      BY DEF TokenInv
    <3>2. mem' \in [cred : Nat, used : Nat] /\ mem'.cred = last /\ mem'.used = 0
      BY <2>1, <3>1
    <3> QED
      BY <1>1, <2>1, <3>1, <3>2 DEF TokenInv, server
  <2>2. CASE UNCHANGED store
    BY <1>1, <2>2, TokensUnchanged DEF store
  <2> QED
    BY <2>1, <2>2 DEF SaveLogin
<1> QED
  BY <1>3, <1>4, <1>6, <1>7

(* Other processes write the file under the lock, so not while a request   *)
(* of this one refreshes; damage to it may come at any time.               *)
LEMMA WorldStep ==
    ASSUME IInv, World
    PROVE  IInv' /\ NotInVain
<1> USE DEF IInv
<1>1. /\ outside' = outside + 1
      /\ UNCHANGED <<mem, holder, req, login, logins, faults, flowVars>>
  BY DEF World
<1>2. FlowInv' /\ LoginInv' /\ BoundInv' /\ NotInVain
  BY <1>1, SameLogin, RequestsUnchanged DEF BoundInv
<1>3. CASE /\ live' \in SUBSET live /\ accepted' \in SUBSET accepted
           /\ fresh' \in SUBSET fresh /\ last' = last
           /\ \/ disk' = disk
              \/ disk' = Unreadable
              \/ holder = Free /\ disk' = 0
  <2>1. TokenInv'
    BY <1>1, <1>3 DEF TokenInv
  <2>4. UNCHANGED <<holder, req>>
    BY <1>1
  <2>2. ASSUME holder = Free PROVE SendInv'
    <3>1. \A r \in Requests : req'[r].pc # "sending"
      BY <2>4, <2>2, NobodySends
    <3> QED
      BY <2>4, <3>1 DEF SendInv
  <2>3. ASSUME disk' \in {disk, Unreadable} PROVE SendInv'
    <3>1. disk' \notin live => disk' \notin live'
      BY <1>3
    <3>2. Unreadable \notin live'
      BY <1>3, Names DEF TokenInv
    <3>3. last' = last
      BY <1>3
    <3>4. ASSUME NEW r \in Requests, req'[r].pc = "sending"
          PROVE  /\ holder' = r /\ req'[r].base <= last'
                 /\ disk' \in {Unreadable, req'[r].base} \/ disk' \notin live'
      <4>1. /\ holder = r /\ req[r].base <= last
            /\ disk \in {Unreadable, req[r].base} \/ disk \notin live
        BY <2>4, <3>4 DEF SendInv
      <4> QED
        BY <2>4, <2>3, <3>1, <3>2, <3>3, <4>1
    <3> QED
      BY <2>4, <3>4 DEF SendInv
  <2> QED
    BY <1>2, <1>3, <2>1, <2>2, <2>3
<1>4. CASE holder = Free /\ disk' = last + 1 /\ \E base \in Nat : base <= last /\ Rotate(base)
  <2>1. PICK base \in Nat : base <= last /\ Rotate(base)
    BY <1>4
  <2>2. /\ live' \in SUBSET Nat /\ accepted' \in SUBSET Nat /\ fresh' \in SUBSET Nat
        /\ last' \in Nat /\ last' = last + 1
        /\ \A n \in live' : 0 < n /\ n <= last'
        /\ \A n \in Nat : (n <= last /\ n \notin live) => n \notin live'
    BY <2>1, Rotation
  <2>3. TokenInv'
    BY <1>1, <1>4, <2>2 DEF TokenInv
  <2>4. SendInv'
    BY <1>1, <1>4, NobodySends DEF SendInv
  <2> QED
    BY <1>2, <2>3, <2>4
<1>5. \/ /\ live' \in SUBSET live /\ accepted' \in SUBSET accepted
         /\ fresh' \in SUBSET fresh /\ last' = last
         /\ \/ disk' = disk
            \/ disk' = Unreadable
            \/ holder = Free /\ disk' = 0
      \/ holder = Free /\ disk' = last + 1 /\ \E base \in Nat : base <= last /\ Rotate(base)
  <2>1. disk \in live => disk \in Nat /\ disk <= last
    BY DEF TokenInv
  <2>2. 0 \in Nat /\ 0 <= last
    BY DEF TokenInv
  <2> QED
    BY <2>1, <2>2 DEF World
<1> QED
  BY <1>3, <1>4, <1>5

-----------------------------------------------------------------------------
LEMMA InitIInv == Init => IInv
<1> SUFFICES ASSUME Init
             PROVE  IInv
  OBVIOUS
<1>1. FlowInv /\ flow.phase = "off" /\ latePolls = 0
  BY FlowInitially DEF Init, FlowInit, NoFlow
<1>2. LoginInv
  BY <1>1 DEF Init, LoginInv
<1>3. TokenInv
  <2>1. /\ disk \in {0, 1} /\ live = {1} /\ last = 1
        /\ accepted \in SUBSET {1} /\ fresh \in SUBSET {1}
        /\ mem = [cred |-> disk, used |-> 0]
    BY DEF Init
  <2>2. mem \in [cred : Nat, used : Nat] /\ mem.cred = disk /\ mem.used = 0
    BY <2>1
  <2> QED
    BY <2>1, <2>2 DEF TokenInv
<1>4. SendInv
  BY ReadyIsRequest DEF Init, SendInv
<1> QED
  BY <1>1, <1>2, <1>3, <1>4 DEF Init, IInv, BoundInv

LEMMA StutterIInv ==
    ASSUME IInv, UNCHANGED vars
    PROVE  IInv' /\ NotInVain
<1>1. /\ UNCHANGED <<store, holder, server, req, bounds>>
      /\ UNCHANGED <<login, logins, flowVars>>
  BY DEF vars
<1> QED
  BY <1>1, SameTokens, SameLogin, RequestsUnchanged DEF IInv

LEMMA NextIInv ==
    ASSUME IInv, [Next]_vars
    PROVE  IInv' /\ NotInVain
<1>1. CASE \E r \in Requests : RequestStep(r) \/ RefreshLost(r)
  BY <1>1, CallStep, EnterMutexStep, TakeLockStep, RefreshAnsweredStep,
     RefreshRefusedStep, RefreshLostStep, PostStep DEF RequestStep
<1>2. CASE LoginStep \/ Abort \/ Time
  BY <1>2, FlowOnlySteps
<1>3. CASE LoginGranted \/ SaveLogin \/ LoginEnded \/ World
  BY <1>3, LoginGrantedStep, SaveLoginStep, LoginEndedStep, WorldStep
<1>4. CASE AllDone \/ UNCHANGED vars
  BY <1>4, StutterIInv DEF AllDone
<1> QED
  BY <1>1, <1>2, <1>3, <1>4 DEF Next

LEMMA AlwaysIInv == Spec => []IInv
  BY InitIInv, NextIInv, PTL DEF Spec

(* The variables keep their types, for any number of requests.             *)
THEOREM LoginTypes == Spec => []TypeOK
  BY AlwaysIInv, IInvTypes, PTL

(* A process opens the browser at most once (auth.ts:205-217).             *)
THEOREM OneBrowser == Spec => []OneLogin
<1>1. IInv => OneLogin
  BY DEF IInv, LoginInv, OneLogin
<1> QED
  BY <1>1, AlwaysIInv, PTL

(* Polls keep the pace of the server's answers, whatever intervals and     *)
(* lifetimes it chooses (pollForToken, deviceFlow.ts:411-457).             *)
THEOREM PaceKept == Spec => []PollsInTime
<1>1. IInv => PollsInTime
  BY DEF IInv, FlowInv
<1> QED
  BY <1>1, AlwaysIInv, PTL

(* No login is asked for while the file holds a profile that could be      *)
(* refreshed (auth.ts:161-217).                                            *)
THEOREM AskedOnlyInNeed == Spec => NeverAsksInVain
<1>1. IInv /\ [Next]_vars => [NotInVain]_vars
  BY NextIInv
<1> QED
  BY <1>1, AlwaysIInv, PTL DEF Spec, NeverAsksInVain, NotInVain
=============================================================================
