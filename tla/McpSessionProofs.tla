------------------------- MODULE McpSessionProofs -------------------------
(***************************************************************************)
(* The safety invariants of McpSession, for any callers and bounds.        *)
(*                                                                         *)
(* Of the handshakes begun since the last close() at most one is not       *)
(* settled, the one in sessionOpening, and while it has no answer there is *)
(* no session (Client).  A caller keeps hold of a session or a handshake   *)
(* at least as new as its call; when the server has reported a session     *)
(* expired, its handshake was settled and it stays dropped (CallOK).       *)
(***************************************************************************)
EXTENDS McpSession, TLAPS

Unsettled(h) == phase[h] \in {"sent", "granted", "refused", "settling"}

Numbered == \A h \in Handshake : phase[h] = "unused" <=> h > started
Epochs == \A h \in Handshake : epochOf[h] <= sessionEpoch
Opening ==
    sessionOpening # 0 =>
        Unsettled(sessionOpening) /\ epochOf[sessionOpening] = sessionEpoch
SingleFlight ==
    \A h \in Handshake :
        Unsettled(h) /\ epochOf[h] = sessionEpoch => h = sessionOpening
Adopted ==
    sessionId # 0 => sessionId \in opened /\ epochOf[sessionId] = sessionEpoch
Replaces ==
    sessionOpening # 0 /\ phase[sessionOpening] # "settling" => sessionId = 0
Told == \A h \in opened : phase[h] \in {"settling", "settled"}

Client ==
    /\ Numbered /\ Epochs /\ Opening /\ SingleFlight
    /\ Adopted /\ Replaces /\ Told /\ NoOrphans

Answered == {"answered", "failed", "expired"}

CallOK(c) ==
    /\ pc[c] = "waiting" => /\ session[c] \in Handshake
                            /\ phase[session[c]] # "unused"
                            /\ epochOf[session[c]] >= began[c]
    /\ pc[c] \in {"tick", "sent"} \cup Answered =>
          session[c] \in opened /\ epochOf[session[c]] >= began[c]
    /\ pc[c] = "expired" => phase[session[c]] = "settled" /\ session[c] \notin live
    /\ pc[c] # "idle" => began[c] <= sessionEpoch
    /\ pc[c] = "idle" => first[c] = 0
    /\ first[c] # 0 => session[c] # first[c]
    /\ dispatched[c] <= 1
    /\ pc[c] \notin {"answered", "failed"} => dispatched[c] = 0

IInv == TypeOK /\ Client /\ \A c \in Calls : CallOK(c)

-----------------------------------------------------------------------------
(* Types.                                                                  *)

(* What the two branches of a caller that needs a session do to the types. *)
LEMMA InitializeTypes ==
    ASSUME TypeOK, NEW c \in Calls, NEW STATE id, id \in Session, InitializeSession(c, id)
    PROVE  /\ sessionOpening' \in Session /\ started' \in Session
           /\ phase' \in [Handshake -> Phases] /\ epochOf' \in [Handshake -> Nat]
           /\ pc' \in [Calls -> PC] /\ session' \in [Calls -> Session]
<1> DEFINE Fields ==
          /\ sessionOpening' \in Session /\ started' \in Session
          /\ phase' \in [Handshake -> Phases] /\ epochOf' \in [Handshake -> Nat]
<1>1. ASSUME OpenSession PROVE Fields
  <2>1. started + 1 \in Session /\ started + 1 \in Handshake
    BY <1>1, McpSessionAssumption DEF OpenSession, TypeOK, Session, Handshake
  <2>2. /\ sessionOpening' = started + 1 /\ started' = started + 1
        /\ phase' = [phase EXCEPT ![started + 1] = "sent"]
        /\ epochOf' = [epochOf EXCEPT ![started + 1] = sessionEpoch]
    BY <1>1 DEF OpenSession
  <2>3. phase' \in [Handshake -> Phases] /\ epochOf' \in [Handshake -> Nat]
    BY <2>1, <2>2 DEF TypeOK, Phases
  <2> QED BY <2>1, <2>2, <2>3
<1>2. ASSUME UNCHANGED <<sessionOpening, started, phase, epochOf>> PROVE Fields
  BY <1>2 DEF TypeOK
<1>3. \E l \in PC, n \in Session : Goto(c, l) /\ session' = [session EXCEPT ![c] = n]
  <2>1. CASE id # 0
    BY <2>1 DEF InitializeSession, PC
  <2>2. CASE id = 0 /\ sessionOpening # 0
    BY <2>2 DEF InitializeSession, PC, TypeOK
  <2>3. CASE id = 0 /\ sessionOpening = 0
    <3>1. OpenSession /\ Goto(c, "waiting") /\ session' = [session EXCEPT ![c] = started + 1]
      BY <2>3 DEF InitializeSession
    <3>2. started + 1 \in Session
      BY <3>1, McpSessionAssumption DEF OpenSession, TypeOK, Session
    <3> QED BY <3>1, <3>2 DEF PC
  <2> QED BY <2>1, <2>2, <2>3
<1>4. pc' \in [Calls -> PC] /\ session' \in [Calls -> Session]
  BY <1>3 DEF Goto, TypeOK
<1>5. OpenSession \/ UNCHANGED <<sessionOpening, started, phase, epochOf>>
  BY DEF InitializeSession
<1> QED BY <1>1, <1>2, <1>4, <1>5

(* Init gives every variable a value of its type, and every step keeps it. *)
LEMMA TypeInit == Init => TypeOK
BY McpSessionAssumption DEF Init, TypeOK, Session, Handshake, Phases, PC

LEMMA TypeStep == TypeOK /\ [Next]_vars => TypeOK'
<1> SUFFICES ASSUME TypeOK, [Next]_vars PROVE TypeOK'
  OBVIOUS
<1> USE McpSessionAssumption
<1>1. ASSUME NEW c \in Calls, Call(c) PROVE TypeOK'
  <2>1. sessionId \in Session BY DEF TypeOK
  <2>2. InitializeSession(c, sessionId) BY <1>1 DEF Call
  <2>3. callsLeft' \in [Calls -> Nat] /\ began' \in [Calls -> Nat]
    BY <1>1 DEF Call, TypeOK
  <2> QED BY <1>1, <2>1, <2>2, <2>3, InitializeTypes DEF Call, TypeOK
<1>2. ASSUME NEW c \in Calls, Resume(c) PROVE TypeOK'
  BY <1>2 DEF Resume, Goto, SessionSent, TypeOK, PC, fields, handshakes
<1>3. ASSUME NEW c \in Calls, HandshakeFailed(c) \/ Return(c) PROVE TypeOK'
  <2>1. End(c) BY <1>3 DEF HandshakeFailed, Return
  <2> QED BY <2>1 DEF End, Goto, TypeOK, PC, Session, fields, handshakes
<1>4. ASSUME NEW c \in Calls, ServerAnswers(c) PROVE TypeOK'
  <2>1. pc' \in [Calls -> PC]
    BY <1>4 DEF ServerAnswers, Goto, TypeOK, PC
  <2>2. dispatched' \in [Calls -> Nat]
    BY <1>4 DEF ServerAnswers, TypeOK
  <2> QED BY <1>4, <2>1, <2>2 DEF ServerAnswers, TypeOK, fields, handshakes
<1>5. ASSUME NEW c \in Calls, Retry(c) PROVE TypeOK'
  <2>1. Forget(c) \in Session BY DEF Forget, TypeOK, Session
  <2>2. InitializeSession(c, Forget(c)) BY <1>5 DEF Retry
  <2>3. first' \in [Calls -> Session] BY <1>5 DEF Retry, TypeOK
  <2> QED BY <1>5, <2>1, <2>2, <2>3, InitializeTypes DEF Retry, TypeOK
<1>6. ASSUME NEW h \in Handshake, ServerInitializes(h) PROVE TypeOK'
  BY <1>6 DEF ServerInitializes, TypeOK, Phases, fields, callVars
<1>7. ASSUME NEW h \in Handshake, Granted(h) PROVE TypeOK'
  <2>1. sessionId' \in Session
    BY <1>7 DEF Granted, Adopts, TypeOK, Session, Handshake
  <2> QED BY <1>7, <2>1 DEF Granted, TypeOK, Phases, callVars
<1>8. ASSUME NEW h \in Handshake, Refused(h) PROVE TypeOK'
  BY <1>8 DEF Refused, TypeOK, Phases, fields, callVars
<1>9. ASSUME NEW h \in Handshake, Settle(h) PROVE TypeOK'
  BY <1>9 DEF Settle, TypeOK, Phases, Session, callVars
<1>10. ASSUME NEW h \in Handshake, ServerDrops(h) PROVE TypeOK'
  BY <1>10 DEF ServerDrops, TypeOK, fields, handshakes, callVars
<1>11. CASE Close
  BY <1>11 DEF Close, TypeOK, Session, handshakes, callVars
<1>12. CASE UNCHANGED vars
  BY <1>12 DEF vars, TypeOK, fields, handshakes, callVars
<1> QED
  BY <1>1, <1>2, <1>3, <1>4, <1>5, <1>6, <1>7, <1>8, <1>9, <1>10, <1>11, <1>12
  DEF Next, CallStep, HandshakeStep, Rest

(* Every variable of the session keeps its type.                           *)
THEOREM TypeCorrect == Spec => []TypeOK
<1>1. Init => TypeOK BY TypeInit
<1>2. TypeOK /\ [Next]_vars => TypeOK' BY TypeStep
<1> QED BY <1>1, <1>2, PTL DEF Spec

-----------------------------------------------------------------------------
(* The client's fields.                                                    *)

(* A caller that finds no session, and opens one if none is being opened,  *)
(* keeps the single flight; `id` is what sessionId holds afterwards.       *)
LEMMA InitializeKeepsClient ==
    ASSUME TypeOK, NEW c \in Calls, NEW STATE id, id \in Session, InitializeSession(c, id),
           sessionId' = id, id = sessionId \/ (id = 0 /\ sessionId \notin live),
           UNCHANGED <<sessionEpoch, opened, live>>, Client
    PROVE  Client'
<1>1. CASE UNCHANGED <<sessionOpening, started, phase, epochOf>>
  <2>1. NoOrphans' BY <1>1 DEF NoOrphans, Client, TypeOK
  <2>2. Adopted' /\ Replaces' BY <1>1 DEF Adopted, Replaces, Client
  <2>3. Numbered' /\ Epochs' /\ Opening' /\ SingleFlight' /\ Told'
    BY <1>1 DEF Numbered, Epochs, Opening, SingleFlight, Told, Unsettled, Client
  <2> QED BY <2>1, <2>2, <2>3 DEF Client
<1>2. CASE OpenSession /\ id = 0 /\ sessionOpening = 0
  <2> DEFINE n == started + 1
  <2>1. /\ n \in Handshake /\ n # 0 /\ phase[n] = "unused"
        /\ started \in Nat /\ sessionEpoch \in Nat
        /\ started' = n /\ sessionOpening' = n
        /\ phase' = [phase EXCEPT ![n] = "sent"]
        /\ epochOf' = [epochOf EXCEPT ![n] = sessionEpoch]
    BY <1>2, McpSessionAssumption
    DEF OpenSession, Client, Numbered, TypeOK, Session, Handshake
  <2> HIDE DEF n
  <2>2. n \notin opened BY <2>1 DEF Client, Told
  <2>3. phase'[n] = "sent" /\ epochOf'[n] = sessionEpoch
    BY <2>1 DEF TypeOK
  <2>4. \A h \in Handshake : h # n => phase'[h] = phase[h] /\ epochOf'[h] = epochOf[h]
    BY <2>1 DEF TypeOK
  <2>5. opened \subseteq Handshake BY DEF TypeOK
  <2>6. sessionEpoch' = sessionEpoch /\ opened' = opened /\ live' = live /\ sessionId' = 0
    BY <1>2
  <2>7. Numbered'
    <3>1. SUFFICES ASSUME NEW h \in Handshake PROVE phase'[h] = "unused" <=> h > n
      BY <2>1 DEF Numbered
    <3>2. h = n \/ (h > n <=> h > started)
      BY <2>1 DEF n, Handshake
    <3>3. phase[h] = "unused" <=> h > started BY DEF Client, Numbered
    <3>4. ~(n > n) BY <2>1 DEF Handshake
    <3>5. h = n => phase'[h] # "unused" BY <2>3
    <3>6. h # n => phase'[h] = phase[h] BY <2>4
    <3> QED BY <3>2, <3>3, <3>4, <3>5, <3>6
  <2>8. Epochs'
    BY <2>1, <2>3, <2>4, <2>6 DEF Epochs, Client
  <2>9. Opening'
    BY <2>1, <2>3, <2>6 DEF Opening, Unsettled
  <2>10. SingleFlight'
    BY <1>2, <2>1, <2>3, <2>4, <2>6 DEF SingleFlight, Unsettled, Client, Handshake
  <2>11. Adopted' /\ Replaces' BY <2>6 DEF Adopted, Replaces
  <2>12. Told' BY <2>2, <2>4, <2>5, <2>6 DEF Told, Client
  <2>13. NoOrphans'
    <3>1. \A s \in opened \cap live : epochOf[s] # sessionEpoch
      BY <1>2, <2>5 DEF NoOrphans, Client, Handshake, TypeOK
    <3> QED BY <2>2, <2>4, <2>5, <2>6, <3>1 DEF NoOrphans
  <2> QED
    BY <2>7, <2>8, <2>9, <2>10, <2>11, <2>12, <2>13 DEF Client
<1> QED BY <1>1, <1>2 DEF InitializeSession

(* The steps that leave the fields alone, or only forget what is settled.  *)
LEMMA ClientKept ==
    ASSUME Client, UNCHANGED <<fields, handshakes>>, live' \subseteq live
    PROVE  Client'
<1>1. NoOrphans' BY DEF Client, NoOrphans, fields, handshakes
<1>2. Numbered' /\ Epochs' /\ Opening' /\ SingleFlight' /\ Adopted' /\ Replaces' /\ Told'
  BY DEF Client, Numbered, Epochs, Opening, SingleFlight, Adopted, Replaces, Told,
         Unsettled, fields, handshakes
<1> QED BY <1>1, <1>2 DEF Client

(* An answer to a handshake keeps the single flight and orphans no session. *)
LEMMA AnswerKeepsClient ==
    ASSUME TypeOK, Client, NEW h \in Handshake,
           ServerInitializes(h) \/ Granted(h) \/ Refused(h) \/ Settle(h)
    PROVE  Client'
<1> USE DEF Client
<1>1. /\ started' = started /\ epochOf' = epochOf /\ sessionEpoch' = sessionEpoch
      /\ Unsettled(h) /\ h # 0
      /\ phase' = [phase EXCEPT ![h] = phase'[h]]
      /\ phase'[h] \in {"granted", "refused", "settling", "settled"}
  <2>1. h # 0 BY DEF Handshake
  <2>2. started' = started /\ epochOf' = epochOf /\ sessionEpoch' = sessionEpoch
    BY DEF ServerInitializes, Granted, Refused, Settle, fields
  <2>3. Unsettled(h)
    BY DEF ServerInitializes, Granted, Refused, Settle, Unsettled
  <2>4. \E l \in {"granted", "refused", "settling", "settled"} :
            phase' = [phase EXCEPT ![h] = l]
    BY DEF ServerInitializes, Granted, Refused, Settle
  <2> QED BY <2>1, <2>2, <2>3, <2>4 DEF TypeOK
<1>2. \A k \in Handshake : k # h => phase'[k] = phase[k]
  BY <1>1 DEF TypeOK
<1>3. Numbered'
  BY <1>1, <1>2 DEF Numbered, Unsettled
<1>4. Epochs' BY <1>1 DEF Epochs
<1>5. opened \subseteq Handshake /\ live \subseteq Handshake
      /\ sessionOpening \in Session /\ sessionId \in Session
  BY DEF TypeOK
<1>6. ASSUME ServerInitializes(h) PROVE Client'
  <2>1. /\ UNCHANGED fields /\ opened' = opened /\ live' \subseteq live \cup {h}
        /\ phase[h] = "sent" /\ phase'[h] \in {"granted", "refused"}
    BY <1>6 DEF ServerInitializes, TypeOK
  <2>2. h \notin opened BY <2>1 DEF Told
  <2>3. NoOrphans' BY <1>1, <2>1, <2>2 DEF NoOrphans, fields
  <2>4. Opening' /\ SingleFlight'
    BY <1>1, <1>2, <1>5, <2>1
    DEF Opening, SingleFlight, Unsettled, fields, Session, Handshake
  <2>5. Replaces'
    BY <1>1, <1>2, <1>5, <2>1 DEF Replaces, fields, Session, Handshake
  <2>6. Adopted' /\ Told'
    BY <1>1, <1>2, <1>5, <2>1, <2>2 DEF Adopted, Told, fields
  <2> QED BY <1>3, <1>4, <2>3, <2>4, <2>5, <2>6
<1>7. ASSUME Granted(h) PROVE Client'
  <2>1. /\ sessionOpening' = sessionOpening /\ live' = live
        /\ opened' = opened \cup {h} /\ sessionId' = Adopts(h)
        /\ phase[h] = "granted" /\ phase'[h] = "settling"
    BY <1>7 DEF Granted, TypeOK
  <2>2. Opening' /\ SingleFlight'
    BY <1>1, <1>2, <1>5, <2>1
    DEF Opening, SingleFlight, Unsettled, Session, Handshake
  <2>3. Told' BY <1>2, <1>5, <2>1 DEF Told
  <2>4. ASSUME epochOf[h] = sessionEpoch PROVE Adopted' /\ Replaces' /\ NoOrphans'
    <3>1. sessionOpening = h BY <1>1, <2>4 DEF SingleFlight
    <3>2. sessionId = 0 BY <1>1, <2>1, <3>1 DEF Replaces
    <3>3. sessionId' = h BY <2>1, <2>4 DEF Adopts
    <3>4. \A s \in opened \cap live : epochOf[s] # sessionEpoch
      BY <1>5, <3>2 DEF NoOrphans, Handshake
    <3> QED BY <1>1, <2>1, <2>4, <3>1, <3>3, <3>4 DEF Adopted, Replaces, NoOrphans
  <2>5. ASSUME epochOf[h] # sessionEpoch PROVE Adopted' /\ Replaces' /\ NoOrphans'
    <3>1. sessionId' = sessionId BY <2>1, <2>5 DEF Adopts
    <3>2. sessionOpening # h BY <1>1, <2>5 DEF Opening
    <3>3. sessionOpening # 0 => phase'[sessionOpening] = phase[sessionOpening]
      BY <1>2, <1>5, <3>2 DEF Session, Handshake
    <3> QED BY <1>1, <2>1, <2>5, <3>1, <3>3 DEF Adopted, Replaces, NoOrphans
  <2> QED BY <1>3, <1>4, <2>2, <2>3, <2>4, <2>5
<1>8. ASSUME Refused(h) PROVE Client'
  <2>1. /\ UNCHANGED fields /\ live' = live /\ opened' = opened
        /\ phase[h] = "refused" /\ phase'[h] = "settling"
    BY <1>8 DEF Refused, TypeOK
  <2>2. NoOrphans' /\ Adopted' BY <1>1, <2>1 DEF NoOrphans, Adopted, fields
  <2>3. Opening' /\ SingleFlight'
    BY <1>1, <1>2, <1>5, <2>1
    DEF Opening, SingleFlight, Unsettled, fields, Session, Handshake
  <2>4. Replaces'
    BY <1>1, <1>2, <1>5, <2>1 DEF Replaces, fields, Session, Handshake
  <2>5. Told' BY <1>2, <1>5, <2>1 DEF Told
  <2> QED BY <1>3, <1>4, <2>2, <2>3, <2>4, <2>5
<1>9. ASSUME Settle(h) PROVE Client'
  <2>1. /\ sessionId' = sessionId /\ live' = live /\ opened' = opened
        /\ sessionOpening' = IF sessionOpening = h THEN 0 ELSE sessionOpening
        /\ phase[h] = "settling" /\ phase'[h] = "settled"
    BY <1>9 DEF Settle, TypeOK
  <2>2. NoOrphans' /\ Adopted' BY <1>1, <2>1 DEF NoOrphans, Adopted
  <2>3. sessionOpening' # 0 =>
          /\ sessionOpening' = sessionOpening
          /\ phase'[sessionOpening] = phase[sessionOpening]
    BY <1>2, <1>5, <2>1 DEF Session, Handshake
  <2>4. Opening' /\ Replaces'
    BY <1>1, <2>1, <2>3 DEF Opening, Replaces, Unsettled
  <2>5. SingleFlight'
    BY <1>1, <1>2, <2>1 DEF SingleFlight, Unsettled
  <2>6. Told' BY <1>2, <1>5, <2>1 DEF Told
  <2> QED BY <1>3, <1>4, <2>2, <2>4, <2>5, <2>6
<1> QED BY <1>6, <1>7, <1>8, <1>9

LEMMA ClientStep ==
    TypeOK /\ Client /\ (\A c \in Calls : CallOK(c)) /\ [Next]_vars => Client'
<1> SUFFICES ASSUME TypeOK, Client, \A c \in Calls : CallOK(c), [Next]_vars
             PROVE  Client'
  OBVIOUS
<1>1. ASSUME NEW c \in Calls, Call(c) PROVE Client'
  <2>1. sessionId \in Session BY DEF TypeOK
  <2>2. /\ InitializeSession(c, sessionId) /\ sessionId' = sessionId
        /\ UNCHANGED <<sessionEpoch, opened, live>>
    BY <1>1 DEF Call
  <2> QED BY <2>1, <2>2, InitializeKeepsClient
<1>2. ASSUME NEW c \in Calls, Retry(c) PROVE Client'
  <2>1. Forget(c) \in Session BY McpSessionAssumption DEF Forget, TypeOK, Session
  <2>2. /\ InitializeSession(c, Forget(c)) /\ sessionId' = Forget(c)
        /\ UNCHANGED <<sessionEpoch, opened, live>>
    BY <1>2 DEF Retry
  <2>3. session[c] \notin live BY <1>2 DEF Retry, SessionExpired, CallOK
  <2>4. Forget(c) = sessionId \/ (Forget(c) = 0 /\ sessionId \notin live)
    BY <2>3 DEF Forget
  <2> QED BY <2>1, <2>2, <2>4, InitializeKeepsClient
<1>3. ASSUME NEW c \in Calls,
             Resume(c) \/ HandshakeFailed(c) \/ ServerAnswers(c) \/ Return(c)
      PROVE  Client'
  <2>1. UNCHANGED <<fields, handshakes>> /\ live' \subseteq live
    BY <1>3 DEF Resume, HandshakeFailed, ServerAnswers, Return, End
  <2> QED BY <2>1, ClientKept
<1>4. ASSUME NEW h \in Handshake, HandshakeStep(h) PROVE Client'
  BY <1>4, AnswerKeepsClient DEF HandshakeStep
<1>5. ASSUME NEW h \in Handshake, ServerDrops(h) PROVE Client'
  BY <1>5, ClientKept DEF ServerDrops
<1>6. CASE Close
  <2>1. /\ sessionEpoch' = sessionEpoch + 1 /\ sessionId' = 0 /\ sessionOpening' = 0
        /\ started' = started /\ phase' = phase /\ epochOf' = epochOf
        /\ opened' = opened /\ live' = live
    BY <1>6 DEF Close, handshakes
  <2>2. sessionEpoch \in Nat /\ opened \subseteq Handshake
        /\ \A h \in Handshake : epochOf[h] \in Nat
    BY DEF TypeOK
  <2>3. \A h \in Handshake : epochOf[h] <= sessionEpoch BY DEF Client, Epochs
  <2>4. \A h \in Handshake : epochOf[h] # sessionEpoch + 1 /\ epochOf[h] <= sessionEpoch + 1
    BY <2>2, <2>3
  <2>5. NoOrphans' BY <2>1, <2>2, <2>4 DEF NoOrphans
  <2>6. Epochs' /\ SingleFlight' BY <2>1, <2>4 DEF Epochs, SingleFlight
  <2>7. Opening' /\ Adopted' /\ Replaces' BY <2>1 DEF Opening, Adopted, Replaces
  <2>8. Numbered' /\ Told' BY <2>1 DEF Client, Numbered, Told
  <2> QED BY <2>5, <2>6, <2>7, <2>8 DEF Client
<1>7. CASE UNCHANGED vars
  BY <1>7, ClientKept DEF vars
<1> QED
  BY <1>1, <1>2, <1>3, <1>4, <1>5, <1>6, <1>7 DEF Next, CallStep, Rest

-----------------------------------------------------------------------------
(* The callers.                                                            *)

(* What no step takes back, so that what a caller holds stays valid.       *)
Progress ==
    /\ \A h \in Handshake : phase[h] # "unused" =>
          phase'[h] # "unused" /\ epochOf'[h] = epochOf[h]
    /\ \A h \in Handshake : phase[h] = "settled" =>
          phase'[h] = "settled" /\ (h \notin live => h \notin live')
    /\ opened \subseteq opened'
    /\ sessionEpoch <= sessionEpoch'

LEMMA OpenProgresses ==
    ASSUME TypeOK, Client, UNCHANGED <<sessionEpoch, opened, live>>,
           OpenSession \/ UNCHANGED <<phase, epochOf>>
    PROVE  Progress
<1>1. opened = opened' /\ live' = live /\ sessionEpoch <= sessionEpoch'
  BY DEF TypeOK
<1>2. CASE UNCHANGED <<phase, epochOf>>
  BY <1>1, <1>2 DEF Progress
<1>3. CASE OpenSession
  <2> DEFINE n == started + 1
  <2>1. n \in Handshake /\ phase[n] = "unused"
    BY <1>3, McpSessionAssumption
    DEF OpenSession, Client, Numbered, TypeOK, Session, Handshake
  <2>2. /\ phase' = [phase EXCEPT ![n] = "sent"]
        /\ epochOf' = [epochOf EXCEPT ![n] = sessionEpoch]
    BY <1>3 DEF OpenSession
  <2> HIDE DEF n
  <2>3. \A h \in Handshake : h # n => phase'[h] = phase[h] /\ epochOf'[h] = epochOf[h]
    BY <2>2 DEF TypeOK
  <2> QED BY <1>1, <2>1, <2>3 DEF Progress
<1> QED BY <1>2, <1>3

(* Every step makes progress in that sense. *)
LEMMA Progresses ==
    ASSUME TypeOK, Client, [Next]_vars
    PROVE  Progress
<1>1. ASSUME NEW c \in Calls, Call(c) \/ Retry(c) PROVE Progress
  <2>1. /\ UNCHANGED <<sessionEpoch, opened, live>>
        /\ OpenSession \/ UNCHANGED <<phase, epochOf>>
    BY <1>1 DEF Call, Retry, InitializeSession
  <2> QED BY <2>1, OpenProgresses
<1>2. ASSUME UNCHANGED handshakes, live' = live, sessionEpoch <= sessionEpoch'
      PROVE  Progress
  BY <1>2 DEF Progress, handshakes
<1>3. sessionEpoch \in Nat BY DEF TypeOK
<1>4. ASSUME NEW c \in Calls,
             Resume(c) \/ HandshakeFailed(c) \/ ServerAnswers(c) \/ Return(c)
      PROVE  Progress
  <2>1. UNCHANGED <<fields, handshakes, live>>
    BY <1>4 DEF Resume, HandshakeFailed, ServerAnswers, Return, End
  <2> QED BY <1>2, <1>3, <2>1 DEF fields
<1>5. ASSUME NEW h \in Handshake, HandshakeStep(h) PROVE Progress
  <2>1. /\ epochOf' = epochOf /\ sessionEpoch' = sessionEpoch /\ phase[h] # "settled"
        /\ live' \subseteq live \cup {h} /\ opened \subseteq opened'
    BY <1>5 DEF HandshakeStep, ServerInitializes, Granted, Refused, Settle, fields
  <2>2. \E l \in {"granted", "refused", "settling", "settled"} :
            phase' = [phase EXCEPT ![h] = l]
    BY <1>5 DEF HandshakeStep, ServerInitializes, Granted, Refused, Settle
  <2>3. /\ phase'[h] # "unused"
        /\ \A k \in Handshake : k # h => phase'[k] = phase[k]
    BY <2>2 DEF TypeOK
  <2> QED BY <1>3, <2>1, <2>3 DEF Progress
<1>6. ASSUME NEW h \in Handshake, ServerDrops(h) PROVE Progress
  BY <1>3, <1>6 DEF ServerDrops, Progress, fields, handshakes
<1>7. CASE Close
  BY <1>2, <1>3, <1>7 DEF Close
<1>8. CASE UNCHANGED vars
  BY <1>2, <1>3, <1>8 DEF vars, fields
<1> QED
  BY <1>1, <1>4, <1>5, <1>6, <1>7, <1>8 DEF Next, CallStep, Rest

(* A caller that does not move keeps what it had.                          *)
LEMMA CallKept ==
    ASSUME TypeOK, TypeOK', Client, Progress, NEW c \in Calls, CallOK(c),
           pc'[c] = pc[c], session'[c] = session[c], first'[c] = first[c],
           began'[c] = began[c], dispatched'[c] = dispatched[c]
    PROVE  CallOK(c)'
<1>1. /\ began[c] \in Nat /\ sessionEpoch \in Nat
      /\ opened \subseteq Handshake
  BY DEF TypeOK
<1>2. \A h \in opened : phase[h] # "unused" BY DEF Client, Told
<1>3. pc[c] = "waiting" => /\ session[c] \in Handshake
                           /\ phase'[session[c]] # "unused"
                           /\ epochOf'[session[c]] >= began[c]
  BY DEF CallOK, Progress
<1>4. pc[c] \in {"tick", "sent"} \cup Answered =>
          session[c] \in opened' /\ epochOf'[session[c]] >= began[c]
  BY <1>1, <1>2 DEF CallOK, Progress
<1>5. pc[c] = "expired" => session[c] \in Handshake /\ phase'[session[c]] = "settled"
  BY <1>1 DEF CallOK, Progress, Answered
<1>6. pc[c] = "expired" => session[c] \notin live'
  BY <1>1 DEF CallOK, Progress, Answered
<1>7. pc[c] # "idle" => began[c] <= sessionEpoch'
  <2>1. sessionEpoch' \in Nat BY DEF TypeOK
  <2> QED BY <1>1, <2>1 DEF CallOK, Progress
<1> QED BY <1>3, <1>4, <1>5, <1>6, <1>7 DEF CallOK, Answered

(* The local state of a caller. *)
Unmoved(c) ==
    /\ pc'[c] = pc[c] /\ session'[c] = session[c] /\ first'[c] = first[c]
    /\ began'[c] = began[c] /\ dispatched'[c] = dispatched[c]

LEMMA OthersUnmoved ==
    ASSUME TypeOK, NEW c \in Calls, NEW d \in Calls, c # d, Call(d) \/ CallStep(d)
    PROVE  Unmoved(c)
<1> USE DEF TypeOK, Goto
<1>1. ASSUME NEW STATE id, InitializeSession(d, id)
      PROVE  pc'[c] = pc[c] /\ session'[c] = session[c]
  BY <1>1 DEF InitializeSession
<1>2. CASE Call(d)
  <2>1. pc'[c] = pc[c] /\ session'[c] = session[c] BY <1>1, <1>2 DEF Call
  <2>2. /\ first' = first /\ dispatched' = dispatched
        /\ began' = [began EXCEPT ![d] = sessionEpoch]
    BY <1>2 DEF Call
  <2> QED BY <2>1, <2>2 DEF Unmoved
<1>3. CASE Retry(d)
  <2>1. pc'[c] = pc[c] /\ session'[c] = session[c] BY <1>1, <1>3 DEF Retry
  <2>2. /\ first' = [first EXCEPT ![d] = session[d]]
        /\ began' = began /\ dispatched' = dispatched
    BY <1>3 DEF Retry
  <2> QED BY <2>1, <2>2 DEF Unmoved
<1>4. CASE Resume(d)
  BY <1>4 DEF Resume, Unmoved
<1>5. CASE HandshakeFailed(d) \/ Return(d)
  BY <1>5 DEF HandshakeFailed, Return, End, Unmoved
<1>6. CASE ServerAnswers(d)
  BY <1>6 DEF ServerAnswers, Unmoved
<1> QED BY <1>2, <1>3, <1>4, <1>5, <1>6 DEF CallStep

(* A caller that gets its session, joins a handshake or begins one holds   *)
(* one of the present epoch, and not the one it found expired.             *)
LEMMA InitializeOK ==
    ASSUME TypeOK, Client, Client', NEW c \in Calls,
           NEW STATE id, id \in Session, InitializeSession(c, id), sessionId' = id,
           UNCHANGED <<sessionEpoch, opened>>,
           began'[c] \in Nat, began'[c] <= sessionEpoch, dispatched'[c] = 0,
           first'[c] # 0 => /\ first'[c] \in Handshake /\ phase[first'[c]] = "settled"
                            /\ first'[c] # id
    PROVE  CallOK(c)'
<1>1. sessionEpoch \in Nat BY DEF TypeOK
<1>2. CASE id # 0
  <2>1. /\ pc'[c] = "tick" /\ session'[c] = id
        /\ UNCHANGED <<phase, epochOf>>
    BY <1>2 DEF InitializeSession, Goto, TypeOK
  <2>2. id \in opened' /\ epochOf'[id] = sessionEpoch
    BY <1>2, <2>1 DEF Client, Adopted
  <2> QED BY <1>1, <2>1, <2>2 DEF CallOK, Answered
<1>3. CASE id = 0
  <2>1. \E h \in Handshake :
           /\ sessionOpening' = h /\ pc'[c] = "waiting" /\ session'[c] = h
           /\ phase[h] # "settled"
    <3>1. CASE sessionOpening # 0
      <4>1. /\ sessionOpening' = sessionOpening /\ pc'[c] = "waiting"
            /\ session'[c] = sessionOpening
        BY <1>3, <3>1 DEF InitializeSession, Goto, TypeOK
      <4>2. sessionOpening \in Handshake /\ phase[sessionOpening] # "settled"
        BY <3>1 DEF Client, Opening, Unsettled, TypeOK, Session, Handshake
      <4> QED BY <4>1, <4>2
    <3>2. CASE sessionOpening = 0
      <4>1. /\ OpenSession /\ sessionOpening' = started + 1 /\ pc'[c] = "waiting"
            /\ session'[c] = started + 1
        BY <1>3, <3>2 DEF InitializeSession, OpenSession, Goto, TypeOK
      <4>2. started + 1 \in Handshake /\ phase[started + 1] = "unused"
        BY <4>1, McpSessionAssumption
        DEF OpenSession, Client, Numbered, TypeOK, Session, Handshake
      <4> QED BY <4>1, <4>2
    <3> QED BY <3>1, <3>2
  <2>2. PICK h \in Handshake :
           /\ sessionOpening' = h /\ pc'[c] = "waiting" /\ session'[c] = h
           /\ phase[h] # "settled"
    BY <2>1
  <2>3. phase'[h] # "unused" /\ epochOf'[h] = sessionEpoch
    BY <2>2 DEF Client, Opening, Unsettled, Handshake
  <2> QED BY <1>1, <2>2, <2>3 DEF CallOK, Answered
<1> QED BY <1>2, <1>3

(* A call that has ended holds nothing. *)
LEMMA EndOK ==
    ASSUME TypeOK, NEW c \in Calls, End(c)
    PROVE  CallOK(c)'
<1>1. pc'[c] = "idle" /\ first'[c] = 0 /\ dispatched'[c] = 0
  BY DEF End, Goto, TypeOK
<1> QED BY <1>1 DEF CallOK, Answered

LEMMA CallsStep ==
    ASSUME TypeOK, TypeOK', Client, Client', [Next]_vars,
           \A c \in Calls : CallOK(c), NEW c \in Calls
    PROVE  CallOK(c)'
<1>1. Progress BY Progresses
<1>2. CASE Unmoved(c)
  BY <1>1, <1>2, CallKept DEF Unmoved
<1>3. CASE Call(c)
  <2>1. /\ InitializeSession(c, sessionId) /\ sessionId' = sessionId
        /\ UNCHANGED <<sessionEpoch, opened>> /\ sessionId \in Session
    BY <1>3 DEF Call, TypeOK
  <2>2. /\ began'[c] = sessionEpoch /\ sessionEpoch \in Nat
        /\ dispatched'[c] = 0 /\ first'[c] = 0
    BY <1>3 DEF Call, CallOK, TypeOK
  <2>3. began'[c] \in Nat /\ began'[c] <= sessionEpoch BY <2>2
  <2> QED BY <2>1, <2>2, <2>3, InitializeOK
<1>4. CASE Retry(c)
  <2>1. /\ InitializeSession(c, Forget(c)) /\ sessionId' = Forget(c)
        /\ UNCHANGED <<sessionEpoch, opened>>
    BY <1>4 DEF Retry
  <2>2. Forget(c) \in Session
    BY McpSessionAssumption DEF Forget, TypeOK, Session
  <2>3. pc[c] = "expired" BY <1>4 DEF Retry, SessionExpired
  <2>4. /\ began'[c] = began[c] /\ dispatched'[c] = dispatched[c]
        /\ first'[c] = session[c]
    BY <1>4 DEF Retry, TypeOK
  <2>5. /\ began'[c] \in Nat /\ began'[c] <= sessionEpoch /\ dispatched'[c] = 0
    BY <2>3, <2>4 DEF CallOK, TypeOK
  <2>6. session[c] \in Handshake /\ phase[session[c]] = "settled"
    BY <2>3 DEF CallOK, Answered, TypeOK
  <2>7. Forget(c) # session[c] BY <2>6 DEF Forget, Handshake
  <2> QED BY <2>1, <2>2, <2>4, <2>5, <2>6, <2>7, InitializeOK
<1>5. CASE HandshakeFailed(c) \/ Return(c)
  BY <1>5, EndOK DEF HandshakeFailed, Return
<1>6. CASE Resume(c)
  <2>1. /\ pc'[c] = "sent" /\ session'[c] = session[c] /\ first'[c] = first[c]
        /\ began'[c] = began[c] /\ dispatched'[c] = dispatched[c]
        /\ epochOf' = epochOf /\ opened' = opened /\ sessionEpoch' = sessionEpoch
    BY <1>6 DEF Resume, Goto, SessionSent, TypeOK, fields, handshakes
  <2>2. pc[c] \in {"tick", "waiting"} /\ session[c] \in opened
    BY <1>6 DEF Resume, CallOK
  <2> QED BY <2>1, <2>2 DEF CallOK, Answered
<1>7. CASE ServerAnswers(c)
  <2>1. /\ session' = session /\ first' = first /\ began' = began
        /\ UNCHANGED <<fields, handshakes, live>>
        /\ pc[c] = "sent" /\ pc'[c] \in Answered
    BY <1>7 DEF ServerAnswers, Goto, Answered, TypeOK
  <2>2. pc'[c] = "expired" =>
          session[c] \notin live /\ dispatched'[c] = dispatched[c] /\ MicrotasksDone
    BY <1>7 DEF ServerAnswers, Goto, TypeOK
  <2>3. dispatched[c] = 0 /\ dispatched'[c] \in {0, 1}
    BY <1>7 DEF ServerAnswers, CallOK, TypeOK
  <2>4. session[c] \in opened /\ epochOf[session[c]] >= began[c]
        /\ began[c] <= sessionEpoch /\ (first[c] # 0 => session[c] # first[c])
    BY <2>1 DEF CallOK
  <2>5. pc'[c] = "expired" => phase[session[c]] = "settled"
    BY <2>2, <2>4 DEF MicrotasksDone, Client, Told, TypeOK
  <2>6. dispatched'[c] <= 1 BY <2>3
  <2> QED BY <2>1, <2>2, <2>3, <2>4, <2>5, <2>6 DEF CallOK, Answered, fields, handshakes
<1>8. Unmoved(c) \/ Call(c) \/ CallStep(c)
  <2>1. ASSUME NEW d \in Calls, d # c, Call(d) \/ CallStep(d) PROVE Unmoved(c)
    BY <2>1, OthersUnmoved
  <2>2. ASSUME UNCHANGED callVars PROVE Unmoved(c)
    BY <2>2 DEF callVars, Unmoved
  <2>3. ASSUME NEW h \in Handshake, HandshakeStep(h) \/ ServerDrops(h) PROVE Unmoved(c)
    BY <2>2, <2>3
    DEF HandshakeStep, ServerInitializes, Granted, Refused, Settle, ServerDrops
  <2>4. Close \/ UNCHANGED vars => Unmoved(c)
    BY <2>2 DEF Close, vars
  <2> QED BY <2>1, <2>3, <2>4 DEF Next, Rest
<1> QED BY <1>2, <1>3, <1>4, <1>5, <1>6, <1>7, <1>8 DEF CallStep
-----------------------------------------------------------------------------
(* The invariant and what follows from it.                                 *)

LEMMA InvInit == Init => IInv
<1> SUFFICES ASSUME Init PROVE IInv
  OBVIOUS
<1>1. TypeOK BY TypeInit
<1>2. Client
  <2>1. \A h \in Handshake : phase[h] = "unused" /\ epochOf[h] = 0 /\ h > 0
    BY DEF Init, Handshake
  <2>2. Numbered /\ Epochs BY <2>1 DEF Init, Numbered, Epochs
  <2>3. SingleFlight BY <2>1 DEF SingleFlight, Unsettled
  <2>4. Opening /\ Adopted /\ Replaces /\ Told /\ NoOrphans
    BY DEF Init, Opening, Adopted, Replaces, Told, NoOrphans
  <2> QED BY <2>2, <2>3, <2>4 DEF Client
<1>3. \A c \in Calls : pc[c] = "idle" /\ first[c] = 0 /\ dispatched[c] = 0
  BY DEF Init
<1>4. \A c \in Calls : CallOK(c)
  <2>1. SUFFICES ASSUME NEW c \in Calls PROVE CallOK(c)
    OBVIOUS
  <2>2. pc[c] = "idle" /\ first[c] = 0 /\ dispatched[c] = 0 /\ dispatched[c] <= 1
    BY <1>3
  <2> QED BY <2>2 DEF CallOK, Answered
<1> QED BY <1>1, <1>2, <1>4 DEF IInv

LEMMA InvStep == IInv /\ [Next]_vars => IInv'
<1> SUFFICES ASSUME IInv, [Next]_vars PROVE IInv'
  OBVIOUS
<1>1. TypeOK /\ Client /\ \A c \in Calls : CallOK(c) BY DEF IInv
<1>2. TypeOK' BY <1>1, TypeStep
<1>3. Client' BY <1>1, ClientStep
<1>4. \A c \in Calls : CallOK(c)' BY <1>1, <1>2, <1>3, CallsStep
<1> QED BY <1>2, <1>3, <1>4 DEF IInv

LEMMA Invariance == Spec => []IInv
<1> QED BY InvInit, InvStep, PTL DEF Spec

(* At most one session opened since the last close() is alive at the      *)
(* server, the one in use, whatever calls, answers and drops interleave.   *)
THEOREM NothingOrphaned == Spec => []NoOrphans
<1>1. IInv => NoOrphans BY DEF IInv, Client
<1> QED BY <1>1, Invariance, PTL

(* A request names a session the client was given, one no older than the   *)
(* last close() before its call.                                           *)
THEOREM SessionsAreFresh == Spec => []FreshSession
<1>1. IInv => FreshSession BY DEF IInv, CallOK, FreshSession
<1> QED BY <1>1, Invariance, PTL

(* The retry after an expired session runs no call twice.                  *)
THEOREM NothingRunsTwice == Spec => []DispatchedOnce
<1>1. IInv => DispatchedOnce BY DEF IInv, CallOK, DispatchedOnce
<1> QED BY <1>1, Invariance, PTL

(* The retry goes to another session than the expired one.                 *)
THEOREM RetriesElsewhere == Spec => []RetryOnAnother
<1>1. IInv => RetryOnAnother BY DEF IInv, CallOK, RetryOnAnother
<1> QED BY <1>1, Invariance, PTL

(* Both together: the session of a request is one it may name.             *)
THEOREM SessionsAreRight == Spec => []RightSession
<1>1. FreshSession /\ RetryOnAnother => RightSession BY DEF RightSession
<1> QED BY <1>1, SessionsAreFresh, RetriesElsewhere, PTL
=============================================================================
