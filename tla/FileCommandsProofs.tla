------------------------- MODULE FileCommandsProofs -------------------------
(***************************************************************************)
(* FileCommands for any commands, profiles and bounds: a command acts      *)
(* under the identity its sources name and on what its prompt named, and a *)
(* stream of events ends once, as the exit code says.                      *)
(*                                                                         *)
(* The record of a command has 20 fields, of which an action changes a     *)
(* few; Rec is all of its type that the proofs need.                       *)
(***************************************************************************)
EXTENDS FileCommands, TLAPS

Fields == {"kind", "flag", "pc", "sent", "auth", "asked", "target", "reserved",
           "uploaded", "confirmStarted", "confirmed", "total", "bad", "batch",
           "taken", "created", "failed", "begun", "ends", "result"}
Rec(m) == m = [f \in Fields |-> m[f]]

(* n is the command m later on: what it is and acts as has not changed.    *)
Same(m, n) ==
    /\ Rec(n) /\ n.kind = m.kind /\ n.flag = m.flag
    /\ n.auth = m.auth /\ n.asked = m.asked

LEMMA SameFailed ==
    ASSUME NEW m, Rec(m)
    PROVE  Same(m, Failed(m)) /\ Failed(m).pc = "done"
  BY DEF Rec, Same, Failed, Fields

LEMMA SameSucceeded ==
    ASSUME NEW m, Rec(m)
    PROVE  Same(m, Succeeded(m)) /\ Succeeded(m).pc = "done"
  BY DEF Rec, Same, Succeeded, Fields

LEMMA SameEmit ==
    ASSUME NEW m, Rec(m), NEW kind
    PROVE  Same(m, Emit(m, kind)) /\ Emit(m, kind).pc = m.pc
  BY DEF Rec, Same, Emit, Fields

LEMMA SameBreak ==
    ASSUME NEW m, Rec(m)
    PROVE  Same(m, Break(m)) /\ Break(m).pc = "done"
<1>1. Same(m, Emit(m, "error"))
  BY SameEmit
<1>2. Same(Emit(m, "error"), Failed(Emit(m, "error"))) /\ Failed(Emit(m, "error")).pc = "done"
  BY <1>1, SameFailed DEF Same
<1> QED
  BY <1>1, <1>2 DEF Same, Break

LEMMA SameUploaded ==
    ASSUME NEW m, Rec(m)
    PROVE  /\ Same(m, Uploaded(m))
           /\ Uploaded(m).pc = "done" \/ (Uploaded(m).pc = "remember" /\ m.kind = "remember")
<1>1. CASE m.kind = "remember"
  <2>1. Uploaded(m) = [m EXCEPT !.pc = "remember", !.sent = FALSE]
    BY <1>1 DEF Uploaded, EmitSuccess
  <2> QED
    BY <1>1, <2>1 DEF Rec, Same, Fields
<1>2. CASE m.kind # "remember"
  <2>1. Uploaded(m) = Succeeded(Emit(m, "success"))
    BY <1>2 DEF Uploaded, EmitSuccess
  <2>2. Same(m, Emit(m, "success"))
    BY SameEmit
  <2>3. Same(Emit(m, "success"), Uploaded(m)) /\ Uploaded(m).pc = "done"
    BY <2>1, <2>2, SameSucceeded DEF Same
  <2> QED
    BY <2>2, <2>3 DEF Same
<1> QED
  BY <1>1, <1>2

LEMMA SameTrans ==
    ASSUME NEW l, NEW m, NEW n, Same(l, m), Same(m, n)
    PROVE  Same(l, n)
  BY DEF Same

-----------------------------------------------------------------------------
(* The identity of a command.                                              *)

OneOfASource == {"upload", "import", "workspace"}
Owned(a, kind) ==
    /\ a.server \in {a.account, "default"}
    /\ a.workspace \in {a.account, "flag"} \/ kind = "import"
ProfileNamed == env.profile # "none" /\ ~env.key

(* What a command acts as while it works.                                  *)
Bearing(me) ==
    me.pc \notin {"idle", "done"} =>
        /\ me.kind = "workspace" => me.asked = me.auth
        /\ me.kind \in OneOfASource => Owned(me.auth, me.kind)
        /\ (me.kind # "data" /\ ProfileNamed) => me.auth.account = env.profile

(* What it has acted as.                                                   *)
Deeds(me, acts) ==
    /\ me.pc = "idle" => acts = {}
    /\ me.kind = "workspace" => /\ acts \subseteq {me.asked}
                                /\ me.flag = "auto" => me.pc = "done" /\ acts = {}
    /\ me.kind \in OneOfASource => \A a \in acts : a = me.auth /\ Owned(a, me.kind)
    /\ (me.kind # "data" /\ ProfileNamed) => \A a \in acts : a.account = env.profile

Sound(me, acts) ==
    /\ Rec(me)
    /\ me.pc = "remember" => me.kind = "remember"
    /\ Bearing(me) /\ Deeds(me, acts)

IInv ==
    /\ cmd = [c \in Commands |-> cmd[c]]
    /\ acted = [c \in Commands |-> acted[c]]
    /\ \A c \in Commands : Sound(cmd[c], acted[c])

(* A command goes on; it acts as before, or writes the memory.             *)
LEMMA Onward ==
    ASSUME NEW m, NEW n, NEW acts, NEW new,
           Sound(m, acts), Same(m, n), m.pc \notin {"idle", "done"},
           n.pc # "idle", n.pc = "remember" => n.kind = "remember",
           \/ new = acts
           \/ new = acts \cup {m.auth}
           \/ /\ m.pc = "remember"
              /\ \E a : new = acts \cup {a} /\ (ProfileNamed => a.account = env.profile)
    PROVE  Sound(n, new)
<1>1. Bearing(n)
  BY DEF Sound, Same, Bearing
<1>2. m.kind = "workspace" /\ m.flag = "auto" => FALSE
  BY DEF Sound, Deeds
<1>3. CASE new = acts
  BY <1>1, <1>2, <1>3 DEF Sound, Same, Deeds
<1>4. CASE new = acts \cup {m.auth}
  BY <1>1, <1>2, <1>4 DEF Sound, Same, Deeds, Bearing
<1>5. CASE /\ m.pc = "remember"
           /\ \E a : new = acts \cup {a} /\ (ProfileNamed => a.account = env.profile)
  <2>1. PICK a : new = acts \cup {a} /\ (ProfileNamed => a.account = env.profile)
    BY <1>5
  <2>2. n.kind = "remember"
    BY <1>5 DEF Sound, Same
  <2>3. Deeds(n, new)
    BY <2>1, <2>2 DEF Sound, Same, Deeds, OneOfASource
  <2> QED
    BY <1>1, <2>3 DEF Sound, Same
<1> QED
  BY <1>3, <1>4, <1>5

(* The step of one command leaves the others as they are.                  *)
LEMMA OneMoves ==
    ASSUME IInv, NEW c \in Commands, NEW n, Become(c, n), env' = env,
           acted' = acted \/ \E new : acted' = [acted EXCEPT ![c] = new],
           Sound(n, acted'[c])
    PROVE  IInv'
<1>1. /\ cmd' = [d \in Commands |-> cmd'[d]] /\ cmd'[c] = n
      /\ \A d \in Commands \ {c} : cmd'[d] = cmd[d]
  BY DEF IInv, Become
<1>2. /\ acted' = [d \in Commands |-> acted'[d]]
      /\ \A d \in Commands \ {c} : acted'[d] = acted[d]
  BY DEF IInv
<1> QED
  BY <1>1, <1>2 DEF IInv, Sound, Bearing, Deeds, ProfileNamed

-----------------------------------------------------------------------------
(* The chain.  Without an explicit key, a credential's server and          *)
(* workspace come from where its key comes from, and a profile named in    *)
(* the environment is used or nothing is.                                  *)
OfFile(cfg) ==
    /\ cfg.key \in {"none", "file"} \/ env.key
    /\ cfg.key = "file" => cfg.url \in {"none", "file"}

LEMMA ConfigOfFile == OfFile(LoadConfig)
<1>1. CASE config = {}
  BY <1>1 DEF OfFile, LoadConfig, Given, First
<1>2. CASE config # {}
  <2> DEFINE file1 == CHOOSE c \in config : TRUE
  <2>1. LoadConfig = [key |-> Given(file1.key, "file"), url |-> Given(file1.url, "file"),
                      context |-> file1.context, fallback |-> FALSE]
    BY <1>2 DEF LoadConfig
  <2> HIDE DEF file1
  <2>2. LoadConfig.key \in {"none", "file"} /\ LoadConfig.url \in {"none", "file"}
    BY <2>1 DEF Given
  <2> QED
    BY <2>2 DEF OfFile
<1> QED
  BY <1>1, <1>2

LEMMA ChainOfOneSource ==
    ASSUME NEW cfg, OfFile(cfg) \/ cfg.key = "none",
           NEW auth, auth = ResolveAuth("none", "none", cfg), auth.source # "refused"
    PROVE  /\ auth.server \in {auth.account, "default"}
           /\ auth.source = "oauth" => auth.workspace \in {auth.account, "none"}
           /\ auth.source = "config" => auth.account = "file"
           /\ auth.source \in {"env", "oauth", "config"}
           /\ ProfileNamed => auth.account = env.profile
  BY DEF OfFile, ResolveAuth, Refused, Static, First, Given, NamedIsRefused, ProfileNamed,
     Ambiguous

LEMMA ResolvedShape ==
    ASSUME NEW cfg
    PROVE  LET auth == ResolveAuth("none", "none", cfg)
           IN  auth = [source |-> auth.source, account |-> auth.account,
                       server |-> auth.server, workspace |-> auth.workspace]
  BY DEF ResolveAuth, Refused, Static

(* pairWorkspaceCredential: the workspace too.                             *)
LEMMA PairOfOneSource ==
    ASSUME NEW flag \in {"flag", "auto", "none"},
           NEW auth, auth = PairWorkspaceCredential(flag), auth.source # "refused"
    PROVE  /\ auth.server \in {auth.account, "default"}
           /\ auth.workspace \in {auth.account, "flag"}
           /\ ProfileNamed => auth.account = env.profile
<1> DEFINE plain == ResolveAuth("none", "none", LoadConfig)
           workspace == WorkspaceFromSource(plain, LoadConfig, flag)
<1>1. /\ plain.source # "refused" /\ workspace # "none"
      /\ auth = [plain EXCEPT !.workspace = workspace]
  BY DEF PairWorkspaceCredential, Refused
<1>2. /\ plain.server \in {plain.account, "default"}
      /\ plain.source = "oauth" => plain.workspace \in {plain.account, "none"}
      /\ plain.source = "config" => plain.account = "file"
      /\ plain.source \in {"env", "oauth", "config"}
      /\ ProfileNamed => plain.account = env.profile
  BY <1>1, ConfigOfFile, ChainOfOneSource
<1>3. plain = [source |-> plain.source, account |-> plain.account,
               server |-> plain.server, workspace |-> plain.workspace]
  BY ResolvedShape
<1> HIDE DEF plain
<1>4. workspace \in {plain.account, "flag"}
  BY <1>1, <1>2 DEF WorkspaceFromSource, Unpaired
<1> HIDE DEF workspace
<1>5. /\ auth.account = plain.account /\ auth.server = plain.server
      /\ auth.workspace = workspace
  BY <1>1, <1>3
<1> QED
  BY <1>2, <1>4, <1>5

LEMMA ResolvedIsOwned ==
    ASSUME NEW kind \in {"upload", "remember", "import", "workspace", "data"},
           NEW flag \in {"flag", "auto", "none"},
           NEW auth, auth = Resolved(kind, flag), auth.source # "refused"
    PROVE  /\ kind \in OneOfASource => Owned(auth, kind)
           /\ (kind # "data" /\ ProfileNamed) => auth.account = env.profile
           /\ kind = "workspace" => flag # "auto"
<1>1. CASE kind = "import"
  <2>1. auth = ResolveAuth("none", "none", LoadConfig)
    BY <1>1 DEF Resolved, CliAuth, Refused
  <2> QED
    BY <1>1, <2>1, ConfigOfFile, ChainOfOneSource DEF Owned
<1>2. CASE kind \in {"upload", "remember", "workspace"}
  <2>1. ~(kind = "workspace" /\ flag = "auto") /\ auth = PairWorkspaceCredential(flag)
    BY <1>2 DEF Resolved, Refused
  <2> QED
    BY <1>2, <2>1, PairOfOneSource DEF Owned
<1>3. CASE kind = "data"
  BY <1>3 DEF OneOfASource
<1> QED
  BY <1>1, <1>2, <1>3

(* rememberFileObject: the chain once more.                                *)
LEMMA ChainAgainNamed ==
    ASSUME ChainAgain.source # "refused", NEW w
    PROVE  ProfileNamed => [ChainAgain EXCEPT !.workspace = w].account = env.profile
<1> DEFINE cfg == IF Unreadable THEN [key |-> "none"] ELSE LoadConfig
<1>1. OfFile(cfg) \/ cfg.key = "none"
  BY ConfigOfFile
<1>2. ChainAgain = ResolveAuth("none", "none", cfg)
  BY DEF ChainAgain
<1> HIDE DEF cfg
<1>3. ProfileNamed => ChainAgain.account = env.profile
  BY <1>1, <1>2, ChainOfOneSource
<1>4. [ChainAgain EXCEPT !.workspace = w].account = ChainAgain.account
  BY <1>2, ResolvedShape
<1> QED
  BY <1>3, <1>4

-----------------------------------------------------------------------------
(* The actions.                                                            *)
LEMMA StartStep ==
    ASSUME IInv, NEW c \in Commands, Start(c)
    PROVE  IInv'
<1>1. PICK kind \in Kinds[c], flag \in {"flag", "auto", "none"} :
          LET auth == Resolved(kind, flag)
              me == [cmd[c] EXCEPT !.kind = kind, !.flag = flag, !.auth = auth]
          IN  \/ auth.source = "refused" /\ Become(c, Failed(me))
              \/ /\ auth.source # "refused" /\ kind \in {"upload", "remember"}
                 /\ Become(c, [me EXCEPT !.pc = "reserve", !.begun = TRUE])
              \/ /\ auth.source # "refused" /\ kind = "workspace"
                 /\ Become(c, [me EXCEPT !.pc = "ask", !.asked = auth])
              \/ /\ auth.source # "refused" /\ kind = "data"
                 /\ Become(c, [me EXCEPT !.pc = "operate"])
              \/ /\ auth.source # "refused" /\ kind = "import"
                 /\ \E total \in 1..MaxEvents, bad \in 0..MaxEvents :
                       Become(c, [me EXCEPT !.pc = "batch", !.begun = TRUE,
                                            !.total = total, !.bad = bad])
  BY DEF Start
<1> DEFINE auth == Resolved(kind, flag)
           me == [cmd[c] EXCEPT !.kind = kind, !.flag = flag, !.auth = auth]
<1>2. kind \in {"upload", "remember", "import", "workspace", "data"}
  BY FileCommandsAssumption
<1>3. Sound(cmd[c], acted[c]) /\ cmd[c].pc = "idle" /\ acted[c] = {}
  BY DEF IInv, Sound, Deeds, Start
<1>4. /\ Rec(me) /\ me.kind = kind /\ me.flag = flag /\ me.auth = auth
      /\ me.pc = "idle"
  BY <1>3 DEF Sound, Rec, Fields
<1>5. env' = env /\ acted' = acted
  BY DEF Start, sources, service
<1>6. auth.source # "refused" =>
          /\ kind \in OneOfASource => Owned(auth, kind)
          /\ (kind # "data" /\ ProfileNamed) => auth.account = env.profile
          /\ kind = "workspace" => flag # "auto"
  BY <1>2, ResolvedIsOwned
<1> HIDE DEF auth
<1>7. ASSUME NEW n, Rec(n), n.pc \notin {"idle", "remember"},
             n.kind = kind, n.flag = flag, n.auth = auth,
             n.pc = "done" \/ auth.source # "refused",
             n.pc # "done" /\ kind = "workspace" => n.asked = auth,
             Become(c, n)
      PROVE  IInv'
  <2>1. Bearing(n)
    BY <1>6, <1>7 DEF Bearing
  <2>2. Deeds(n, {})
    BY <1>6, <1>7 DEF Deeds
  <2>3. Sound(n, acted'[c])
    BY <1>3, <1>5, <1>7, <2>1, <2>2 DEF Sound
  <2> QED
    BY <1>5, <1>7, <2>3, OneMoves
<1> HIDE DEF me
<1>8. CASE auth.source = "refused" /\ Become(c, Failed(me))
  <2>1. Same(me, Failed(me)) /\ Failed(me).pc = "done"
    BY <1>4, SameFailed
  <2> QED
    BY <1>4, <1>7, <1>8, <2>1 DEF Same
<1>9. CASE /\ auth.source # "refused" /\ kind \in {"upload", "remember"}
           /\ Become(c, [me EXCEPT !.pc = "reserve", !.begun = TRUE])
  <2> DEFINE n == [me EXCEPT !.pc = "reserve", !.begun = TRUE]
  <2>1. Same(me, n) /\ n.pc = "reserve"
    BY <1>4 DEF Same, Rec, Fields
  <2> HIDE DEF n
  <2>2. Become(c, n)
    BY <1>9 DEF n
  <2> QED
    BY <1>4, <1>7, <1>9, <2>1, <2>2 DEF Same
<1>10. CASE /\ auth.source # "refused" /\ kind = "workspace"
            /\ Become(c, [me EXCEPT !.pc = "ask", !.asked = auth])
  <2> DEFINE n == [me EXCEPT !.pc = "ask", !.asked = auth]
  <2>1. /\ Rec(n) /\ n.kind = kind /\ n.flag = flag /\ n.auth = auth
        /\ n.asked = auth /\ n.pc = "ask"
    BY <1>4 DEF Rec, Fields
  <2> HIDE DEF n
  <2>2. Become(c, n)
    BY <1>10 DEF n
  <2> QED
    BY <1>7, <1>10, <2>1, <2>2
<1>11. CASE /\ auth.source # "refused" /\ kind = "data"
            /\ Become(c, [me EXCEPT !.pc = "operate"])
  <2> DEFINE n == [me EXCEPT !.pc = "operate"]
  <2>1. Same(me, n) /\ n.pc = "operate"
    BY <1>4 DEF Same, Rec, Fields
  <2> HIDE DEF n
  <2>2. Become(c, n)
    BY <1>11 DEF n
  <2> QED
    BY <1>4, <1>7, <1>11, <2>1, <2>2 DEF Same
<1>12. CASE /\ auth.source # "refused" /\ kind = "import"
            /\ \E total \in 1..MaxEvents, bad \in 0..MaxEvents :
                  Become(c, [me EXCEPT !.pc = "batch", !.begun = TRUE,
                                       !.total = total, !.bad = bad])
  <2>1. PICK total \in 1..MaxEvents, bad \in 0..MaxEvents :
                  Become(c, [me EXCEPT !.pc = "batch", !.begun = TRUE,
                                       !.total = total, !.bad = bad])
    BY <1>12
  <2> DEFINE n == [me EXCEPT !.pc = "batch", !.begun = TRUE, !.total = total, !.bad = bad]
  <2>2. Same(me, n) /\ n.pc = "batch"
    BY <1>4 DEF Same, Rec, Fields
  <2> HIDE DEF n
  <2>3. Become(c, n)
    BY <2>1 DEF n
  <2> QED
    BY <1>4, <1>7, <1>12, <2>2, <2>3 DEF Same
<1> QED
  BY <1>1, <1>8, <1>9, <1>10, <1>11, <1>12 DEF auth, me

(* What every other action makes of its command, and of what it acted as.  *)
GoesOn(c) ==
    \E n : /\ Become(c, n) /\ Same(cmd[c], n)
           /\ n.pc # "idle" /\ (n.pc = "remember" => n.kind = "remember")
ActsAsBefore(c) ==
    \/ acted' = acted
    \/ Act(c)
    \/ /\ cmd[c].pc = "remember"
       /\ \E a : /\ acted' = [acted EXCEPT ![c] = @ \cup {a}]
                 /\ ProfileNamed => a.account = env.profile

LEMMA GoingOn ==
    ASSUME IInv, NEW c \in Commands, cmd[c].pc \notin {"idle", "done"},
           GoesOn(c), ActsAsBefore(c), env' = env
    PROVE  IInv'
<1>1. PICK n : /\ Become(c, n) /\ Same(cmd[c], n)
               /\ n.pc # "idle" /\ (n.pc = "remember" => n.kind = "remember")
  BY DEF GoesOn
<1>2. Sound(cmd[c], acted[c])
  BY DEF IInv
<1>3. /\ acted' = acted \/ \E new : acted' = [acted EXCEPT ![c] = new]
      /\ \/ acted'[c] = acted[c]
         \/ acted'[c] = acted[c] \cup {cmd[c].auth}
         \/ /\ cmd[c].pc = "remember"
            /\ \E a : /\ acted'[c] = acted[c] \cup {a}
                      /\ ProfileNamed => a.account = env.profile
  BY DEF ActsAsBefore, Act, IInv
<1>4. Sound(n, acted'[c])
  BY <1>1, <1>2, <1>3, Onward
<1> QED
  BY <1>1, <1>3, <1>4, OneMoves

LEMMA Patched ==
    ASSUME NEW m, Rec(m), NEW pc, NEW sent, NEW flag, NEW x, NEW y
    PROVE  /\ Same(m, [m EXCEPT !.pc = pc]) /\ [m EXCEPT !.pc = pc].pc = pc
           /\ Same(m, [m EXCEPT !.sent = sent]) /\ [m EXCEPT !.sent = sent].pc = m.pc
           /\ Same(m, [m EXCEPT !.sent = sent, !.target = x])
           /\ [m EXCEPT !.sent = sent, !.target = x].pc = m.pc
           /\ Same(m, [m EXCEPT !.sent = sent, !.taken = x])
           /\ [m EXCEPT !.sent = sent, !.taken = x].pc = m.pc
           /\ Same(m, [m EXCEPT !.reserved = flag])
           /\ Same(m, [m EXCEPT !.confirmed = flag])
           /\ Same(m, [m EXCEPT !.pc = pc, !.sent = sent, !.reserved = flag])
           /\ [m EXCEPT !.pc = pc, !.sent = sent, !.reserved = flag].pc = pc
           /\ Same(m, [m EXCEPT !.pc = pc, !.sent = sent, !.uploaded = flag])
           /\ [m EXCEPT !.pc = pc, !.sent = sent, !.uploaded = flag].pc = pc
           /\ Same(m, SendConfirm(m)) /\ SendConfirm(m).pc = m.pc
           /\ Same(m, Counted(m)) /\ Counted(m).pc = m.pc
  BY DEF Rec, Same, Fields, SendConfirm, Counted

LEMMA SameRememberFailed ==
    ASSUME NEW m, Rec(m)
    PROVE  Same(m, RememberFailed(m)) /\ RememberFailed(m).pc = "done"
<1> DEFINE n == [m EXCEPT !.reserved = TRUE, !.uploaded = TRUE,
                          !.confirmStarted = TRUE, !.confirmed = TRUE]
<1>1. Same(m, n)
  BY DEF Rec, Same, Fields
<1>2. RememberFailed(m) = Break(n)
  BY DEF RememberFailed
<1> HIDE DEF n
<1>3. Same(n, Break(n)) /\ Break(n).pc = "done"
  BY <1>1, SameBreak DEF Same
<1> QED
  BY <1>1, <1>2, <1>3 DEF Same

(* The step to a known record.                                             *)
LEMMA To ==
    ASSUME IInv, NEW c \in Commands, cmd[c].pc \notin {"idle", "done"},
           NEW n, Become(c, n), Same(cmd[c], n),
           \/ n.pc = "done"
           \/ n.pc = cmd[c].pc
           \/ n.pc \notin {"idle", "remember"}
           \/ n.pc = "remember" /\ cmd[c].kind = "remember"
    PROVE  GoesOn(c)
<1>1. cmd[c].pc = "remember" => cmd[c].kind = "remember"
  BY DEF IInv, Sound
<1> QED
  BY <1>1 DEF GoesOn, Same

(* Through the end that a failure or a success brings.                     *)
LEMMA ToTheEnd ==
    ASSUME IInv, NEW c \in Commands, cmd[c].pc \notin {"idle", "done"},
           NEW m, Same(cmd[c], m),
           \/ Become(c, Failed(m)) \/ Become(c, Break(m)) \/ Become(c, RememberFailed(m))
           \/ Become(c, Succeeded(m)) \/ Become(c, Uploaded(m))
           \/ Become(c, Succeeded(Emit(m, "success")))
    PROVE  GoesOn(c)
<1>1. Rec(m) /\ cmd[c].kind = m.kind
  BY DEF Same
<1>2. /\ Same(m, Failed(m)) /\ Failed(m).pc = "done"
      /\ Same(m, Break(m)) /\ Break(m).pc = "done"
      /\ Same(m, RememberFailed(m)) /\ RememberFailed(m).pc = "done"
      /\ Same(m, Succeeded(m)) /\ Succeeded(m).pc = "done"
      /\ Same(m, Uploaded(m))
      /\ Uploaded(m).pc = "done" \/ (Uploaded(m).pc = "remember" /\ m.kind = "remember")
  BY <1>1, SameFailed, SameBreak, SameRememberFailed, SameSucceeded, SameUploaded
<1>3. Same(m, Emit(m, "success"))
  BY <1>1, SameEmit
<1>4. /\ Same(Emit(m, "success"), Succeeded(Emit(m, "success")))
      /\ Succeeded(Emit(m, "success")).pc = "done"
  BY <1>3, SameSucceeded DEF Same
<1>5. Same(m, Succeeded(Emit(m, "success")))
  BY <1>3, <1>4, SameTrans
<1>6. \A n : (Become(c, n) /\ Same(m, n) /\
              (n.pc = "done" \/ (n.pc = "remember" /\ m.kind = "remember"))) => GoesOn(c)
  <2> SUFFICES ASSUME NEW n, Become(c, n), Same(m, n),
                      n.pc = "done" \/ (n.pc = "remember" /\ m.kind = "remember")
               PROVE  GoesOn(c)
    OBVIOUS
  <2>1. Same(cmd[c], n)
    BY SameTrans
  <2> QED
    BY <1>1, <2>1, To
<1> QED
  BY <1>2, <1>4, <1>5, <1>6

LEMMA RecOf ==
    ASSUME IInv, NEW c \in Commands
    PROVE  Rec(cmd[c]) /\ Same(cmd[c], cmd[c])
  BY DEF IInv, Sound, Same

(* The server acts.                                                        *)
LEMMA RequestSteps ==
    ASSUME IInv, NEW c \in Commands,
           \/ Reserve(c) \/ Put(c) \/ Confirm(c) \/ Remember(c) \/ IngestBatch(c) \/ Operate(c)
    PROVE  IInv'
<1> DEFINE me == cmd[c]
<1>1. Rec(me) /\ Same(me, me)
  BY RecOf
<1> HIDE DEF me
<1>2. CASE Reserve(c)
  <2>1. \/ Become(c, [me EXCEPT !.sent = TRUE])
        \/ \E d \in Existing : Become(c, [me EXCEPT !.sent = TRUE, !.target = d])
    BY <1>2 DEF Reserve, Ask, me
  <2>2. cmd[c].pc = "reserve" /\ Act(c) /\ env' = env
    BY <1>2 DEF Reserve, sources
  <2>3. GoesOn(c)
    <3>1. CASE Become(c, [me EXCEPT !.sent = TRUE])
      BY <1>1, <2>2, <3>1, Patched, To DEF me
    <3>2. CASE \E d \in Existing : Become(c, [me EXCEPT !.sent = TRUE, !.target = d])
      <4>1. PICK d \in Existing : Become(c, [me EXCEPT !.sent = TRUE, !.target = d])
        BY <3>2
      <4> DEFINE n == [me EXCEPT !.sent = TRUE, !.target = d]
      <4>2. Same(me, n) /\ n.pc = me.pc
        BY <1>1 DEF Same, Rec, Fields
      <4> HIDE DEF n
      <4>3. Become(c, n)
        BY <4>1 DEF n
      <4> QED
        BY <2>2, <4>2, <4>3, To DEF me
    <3> QED
      BY <2>1, <3>1, <3>2
  <2> QED
    BY <2>2, <2>3, GoingOn DEF ActsAsBefore
<1>3. CASE Put(c)
  <2>1. /\ Become(c, [me EXCEPT !.sent = TRUE]) /\ cmd[c].pc = "put"
        /\ env' = env /\ acted' = acted
    BY <1>3 DEF Put, Ask, sources, me
  <2>2. GoesOn(c)
    BY <1>1, <2>1, Patched, To DEF me
  <2> QED
    BY <2>1, <2>2, GoingOn DEF ActsAsBefore
<1>4. CASE Confirm(c)
  <2>1. Become(c, SendConfirm(me)) /\ cmd[c].pc = "confirm" /\ env' = env /\ Act(c)
    BY <1>4 DEF Confirm, sources, me
  <2>2. GoesOn(c)
    BY <1>1, <2>1, Patched, To DEF me
  <2> QED
    BY <2>1, <2>2, GoingOn DEF ActsAsBefore
<1>5. CASE Remember(c)
  <2>1. cmd[c].pc = "remember" /\ env' = env
    BY <1>5 DEF Remember, sources
  <2>2. CASE /\ ChainAgain.source # "refused"
             /\ acted' = [acted EXCEPT ![c] = @ \cup
                  {[ChainAgain EXCEPT !.workspace = cmd[c].auth.workspace]}]
             /\ Ask(c)
    <3>1. ProfileNamed =>
            [ChainAgain EXCEPT !.workspace = cmd[c].auth.workspace].account = env.profile
      BY <2>2, ChainAgainNamed
    <3>2. ActsAsBefore(c)
      BY <2>1, <2>2, <3>1 DEF ActsAsBefore
    <3>3. Become(c, [me EXCEPT !.sent = TRUE])
      BY <2>2 DEF Ask, me
    <3>4. GoesOn(c)
      BY <1>1, <2>1, <3>3, Patched, To DEF me
    <3> QED
      BY <2>1, <3>2, <3>4, GoingOn
  <2>3. CASE Become(c, RememberFailed(cmd[c])) /\ acted' = acted
    <3>1. GoesOn(c)
      BY <1>1, <2>1, <2>3, ToTheEnd DEF me
    <3> QED
      BY <2>1, <2>3, <3>1, GoingOn DEF ActsAsBefore
  <2> QED
    BY <1>5, <2>2, <2>3 DEF Remember
<1>6. CASE IngestBatch(c)
  <2>1. cmd[c].pc = "batch" /\ env' = env
    BY <1>6 DEF IngestBatch, sources
  <2>2. CASE Become(c, Break(me)) /\ acted' = acted
    <3>1. GoesOn(c)
      BY <1>1, <2>1, <2>2, ToTheEnd DEF me
    <3> QED
      BY <2>1, <2>2, <3>1, GoingOn DEF ActsAsBefore
  <2>3. CASE Act(c) /\ \E taken : Become(c, [me EXCEPT !.sent = TRUE, !.taken = taken])
    <3>1. PICK taken : Become(c, [me EXCEPT !.sent = TRUE, !.taken = taken])
      BY <2>3
    <3> DEFINE n == [me EXCEPT !.sent = TRUE, !.taken = taken]
    <3>2. Same(me, n) /\ n.pc = me.pc
      BY <1>1 DEF Same, Rec, Fields
    <3> HIDE DEF n
    <3>3. Become(c, n)
      BY <3>1 DEF n
    <3>4. GoesOn(c)
      BY <2>1, <3>2, <3>3, To DEF me
    <3> QED
      BY <2>1, <2>3, <3>4, GoingOn DEF ActsAsBefore
  <2> QED
    BY <1>6, <2>2, <2>3 DEF IngestBatch, me
<1>7. CASE Operate(c)
  <2>1. /\ Become(c, [me EXCEPT !.sent = TRUE]) /\ cmd[c].pc = "operate"
        /\ env' = env /\ Act(c)
    BY <1>7 DEF Operate, Ask, sources, me
  <2>2. GoesOn(c)
    BY <1>1, <2>1, Patched, To DEF me
  <2> QED
    BY <2>1, <2>2, GoingOn DEF ActsAsBefore
<1> QED
  BY <1>2, <1>3, <1>4, <1>5, <1>6, <1>7

(* The answers, the prompt and the faults: nobody acts.                    *)
LEMMA AnswerSteps ==
    ASSUME IInv, NEW c \in Commands,
           \/ Answer(c) \/ ReserveAnswered(c) \/ PutAnswered(c) \/ ConfirmAnswered(c)
           \/ RememberAnswered(c) \/ BatchAnswered(c) \/ OperationAnswered(c)
           \/ SourceFails(c) \/ Unanswered(c) \/ BadReservation(c)
    PROVE  IInv'
<1> DEFINE me == cmd[c]
<1>1. Rec(me) /\ Same(me, me)
  BY RecOf
<1> HIDE DEF me
<1>2. env' = env /\ acted' = acted /\ cmd[c].pc \notin {"idle", "done"}
  BY DEF Answer, ReserveAnswered, PutAnswered, ConfirmAnswered, RememberAnswered,
     BatchAnswered, OperationAnswered, SourceFails, Unanswered, BadReservation,
     Answered, sources, service
<1>3. GoesOn(c)
  <2>1. CASE Answer(c)
    <3>1. Become(c, [me EXCEPT !.pc = "operate"]) \/ Become(c, Failed(me))
      BY <2>1 DEF Answer, me
    <3> DEFINE n == [me EXCEPT !.pc = "operate"]
    <3>2. Same(me, n) /\ n.pc = "operate"
      BY <1>1 DEF Same, Rec, Fields
    <3> HIDE DEF n
    <3>3. Become(c, n) \/ Become(c, Failed(me))
      BY <3>1 DEF n
    <3> QED
      BY <1>1, <1>2, <3>2, <3>3, To, ToTheEnd DEF me
  <2>2. CASE ReserveAnswered(c)
    <3>1. \/ Become(c, [me EXCEPT !.pc = "put", !.sent = FALSE, !.reserved = TRUE])
          \/ Become(c, Uploaded(me))
      BY <2>2 DEF ReserveAnswered, me
    <3> DEFINE n == [me EXCEPT !.pc = "put", !.sent = FALSE, !.reserved = TRUE]
    <3>2. Same(me, n) /\ n.pc = "put"
      BY <1>1 DEF Same, Rec, Fields
    <3> HIDE DEF n
    <3>3. Become(c, n) \/ Become(c, Uploaded(me))
      BY <3>1 DEF n
    <3> QED
      BY <1>1, <1>2, <3>2, <3>3, To, ToTheEnd DEF me
  <2>3. CASE PutAnswered(c)
    <3>1. Become(c, [me EXCEPT !.pc = "confirm", !.sent = FALSE, !.uploaded = TRUE])
      BY <2>3 DEF PutAnswered, me
    <3> DEFINE n == [me EXCEPT !.pc = "confirm", !.sent = FALSE, !.uploaded = TRUE]
    <3>2. Same(me, n) /\ n.pc = "confirm"
      BY <1>1 DEF Same, Rec, Fields
    <3> HIDE DEF n
    <3>3. Become(c, n)
      BY <3>1 DEF n
    <3> QED
      BY <1>2, <3>2, <3>3, To DEF me
  <2>4. CASE ConfirmAnswered(c)
    <3>1. Become(c, Uploaded([me EXCEPT !.confirmed = TRUE])) \/ Become(c, Break(me))
      BY <2>4 DEF ConfirmAnswered, me
    <3> QED
      BY <1>1, <1>2, <3>1, Patched, ToTheEnd DEF me
  <2>5. CASE RememberAnswered(c)
    <3>1. Become(c, Succeeded(Emit(me, "success")))
      BY <2>5 DEF RememberAnswered, me
    <3> QED
      BY <1>1, <1>2, <3>1, ToTheEnd DEF me
  <2>6. CASE BatchAnswered(c)
    <3>1. \/ Become(c, Counted(me))
          \/ Become(c, Succeeded(Emit(Counted(me), "success")))
      BY <2>6 DEF BatchAnswered, me
    <3>2. Same(me, Counted(me)) /\ Counted(me).pc = me.pc
      BY <1>1, Patched
    <3> QED
      BY <1>2, <3>1, <3>2, To, ToTheEnd DEF me
  <2>7. CASE OperationAnswered(c)
    <3>1. Become(c, Succeeded(me))
      BY <2>7 DEF OperationAnswered, me
    <3> QED
      BY <1>1, <1>2, <3>1, ToTheEnd DEF me
  <2>8. CASE SourceFails(c)
    <3>1. Become(c, Break(me))
      BY <2>8 DEF SourceFails, me
    <3> QED
      BY <1>1, <1>2, <3>1, ToTheEnd DEF me
  <2>9. CASE Unanswered(c)
    <3>1. \/ Become(c, Failed(me)) \/ Become(c, RememberFailed(me))
          \/ Become(c, Break(SendConfirm(me))) \/ Become(c, Break(me))
      BY <2>9 DEF Unanswered, me
    <3>2. Same(me, SendConfirm(me))
      BY <1>1, Patched
    <3> QED
      BY <1>1, <1>2, <3>1, <3>2, ToTheEnd DEF me
  <2>10. CASE BadReservation(c)
    <3>1. Become(c, Break([me EXCEPT !.reserved = TRUE]))
      BY <2>10 DEF BadReservation, me
    <3> QED
      BY <1>1, <1>2, <3>1, Patched, ToTheEnd DEF me
  <2> QED
    BY <2>1, <2>2, <2>3, <2>4, <2>5, <2>6, <2>7, <2>8, <2>9, <2>10
<1> QED
  BY <1>2, <1>3, GoingOn DEF ActsAsBefore

(* Nothing of a command, of its deeds or of its environment changes.       *)
LEMMA OutsideSteps ==
    ASSUME IInv, DeleteFile \/ Others \/ AllDone \/ UNCHANGED vars
    PROVE  IInv'
<1>1. UNCHANGED <<env, cmd, acted>>
  BY DEF DeleteFile, Others, ChangeSources, AllDone, vars, sources, service
<1> QED
  BY <1>1 DEF IInv, Sound, Bearing, Deeds, ProfileNamed

LEMMA InitIInv == Init => IInv
<1> SUFFICES ASSUME Init
             PROVE  IInv
  OBVIOUS
<1>1. /\ cmd = [c \in Commands |-> Idle(c)]
      /\ acted = [c \in Commands |-> {}]
  BY DEF Init, ServiceInit
<1>2. \A c : Rec(Idle(c)) /\ Idle(c).pc = "idle" /\ Idle(c).kind = "none"
  BY DEF Rec, Idle, Fields
<1>3. ASSUME NEW c \in Commands
      PROVE  Sound(cmd[c], acted[c])
  <2>1. cmd[c] = Idle(c) /\ acted[c] = {}
    BY <1>1
  <2> QED
    BY <1>2, <2>1 DEF Sound, Bearing, Deeds
<1> QED
  BY <1>1, <1>3 DEF IInv

LEMMA NextIInv == IInv /\ [Next]_vars => IInv'
<1> SUFFICES ASSUME IInv, [Next]_vars
             PROVE  IInv'
  OBVIOUS
<1>1. CASE \E c \in Commands : Step(c) \/ SourceFails(c) \/ Unanswered(c) \/ BadReservation(c)
  BY <1>1, StartStep, RequestSteps, AnswerSteps DEF Step
<1>2. CASE DeleteFile \/ Others \/ AllDone \/ UNCHANGED vars
  BY <1>2, OutsideSteps
<1> QED
  BY <1>1, <1>2 DEF Next

LEMMA AlwaysIInv == Spec => []IInv
  BY InitIInv, NextIInv, PTL DEF Spec

-----------------------------------------------------------------------------
(* A workspace command acts only as its prompt said and on the workspace   *)
(* the prompt named (workspace.ts:70-76).                                  *)
THEOREM ActsAsConfirmed == Spec => []ConfirmedTarget
<1>1. IInv => ConfirmedTarget
  BY DEF IInv, Sound, Deeds, ConfirmedTarget
<1> QED
  BY <1>1, AlwaysIInv, PTL

(* No REST command acts with one source's key on another's server or       *)
(* workspace, and a profile that is named is used or nothing is            *)
(* (credentialSource.ts:82-90, resolve.ts:181-193).                        *)
THEOREM OneSourceAtATime == Spec => []RightSource
<1>1. IInv => OneSource
  BY DEF IInv, Sound, Deeds, OneSource, OneOfASource, Owned
<1>2. IInv => NamedProfileUsed
  BY DEF IInv, Sound, Deeds, NamedProfileUsed, ProfileNamed
<1>3. IInv => RightSource
  BY <1>1, <1>2 DEF RightSource
<1> QED
  BY <1>3, AlwaysIInv, PTL

-----------------------------------------------------------------------------
(* What a command reports.                                                 *)

Uploads == {"upload", "remember"}
Final(at) == at \in {"final", "deleted"}
Flags(m, r, u, s, k) ==
    m.reserved = r /\ m.uploaded = u /\ m.confirmStarted = s /\ m.confirmed = k

(* An upload c that is m, in the order of its requests: what its flags say  *)
(* is what the server holds of it, or of the upload it was deduplicated to. *)
Reserving(c, m, files) ==
    /\ m.pc = "reserve" /\ Flags(m, FALSE, FALSE, FALSE, FALSE)
    /\ \/ m.target = c /\ files[c] = (IF m.sent THEN "reserved" ELSE "none")
       \/ m.target # c /\ m.sent /\ files[c] = "none" /\ Final(files[m.target])
Putting(c, m, files) ==
    /\ m.pc = "put" /\ Flags(m, TRUE, FALSE, FALSE, FALSE) /\ m.target = c
    /\ files[c] = (IF m.sent THEN "stored" ELSE "reserved")
Confirming(c, m, files) ==
    /\ m.pc = "confirm" /\ Flags(m, TRUE, TRUE, m.sent, FALSE) /\ m.target = c
    /\ files[c] = "stored" \/ (m.sent /\ Final(files[c]))
Remembering(c, m, files) ==
    /\ m.pc = "remember" /\ Final(files[m.target])
    /\ \/ m.target = c /\ Flags(m, TRUE, TRUE, TRUE, TRUE)
       \/ m.target # c /\ Flags(m, FALSE, FALSE, FALSE, FALSE) /\ files[c] = "none"

(* An import: all batches so far were full, and are accounted for.         *)
Importing(c, m, took) ==
    /\ m.pc = "batch" /\ m.batch \in Nat \ {0} /\ m.total \in Nat
    /\ m.created \in Nat /\ m.failed \in Nat
    /\ m.created + m.failed = BatchBegin(m) /\ BatchBegin(m) < m.total
    /\ IF m.sent THEN m.taken \in 0..Size(m) /\ took = m.created + m.taken
                 ELSE took = m.created

(* What the terminal event says.                                           *)
UploadTold(c, m, end, files) ==
    /\ (end.kind = "success" \/ end.confirmed) => Final(files[m.target])
    /\ ~end.confirmStarted => ~Final(files[c])
    /\ (end.uploaded /\ ~end.confirmed) => files[c] # "reserved"
    /\ end.reserved \/ end.kind = "success" \/ files[c] \in {"none", "reserved"}
ImportTold(m, end, took) ==
    IF end.kind = "success" THEN end.created = took /\ end.created + end.failed = m.total
    ELSE took \in end.created..(end.created + BatchSize)
Told(c, m, files, took) ==
    /\ m.ends = <<m.ends[1]>>
    /\ (m.ends[1].kind = "success") = (m.result = "ok")
    /\ m.kind \in Uploads => UploadTold(c, m, m.ends[1], files)
    /\ m.kind = "import" => ImportTold(m, m.ends[1], took)

Fresh(c, m, files, took) ==
    /\ m.pc = "idle" /\ m.begun = FALSE /\ Flags(m, FALSE, FALSE, FALSE, FALSE)
    /\ m.sent = FALSE /\ m.target = c /\ files[c] = "none"
    /\ m.batch = 1 /\ m.created = 0 /\ m.failed = 0 /\ took = 0

(* Where a command is, what it has begun and what the server holds agree.  *)
Honest(c, m, files, took) ==
    /\ m.target \in Commands /\ m.sent \in BOOLEAN
    /\ m.pc # "done" => m.ends = <<>>
    /\ \/ Fresh(c, m, files, took)
       \/ m.pc \in {"ask", "operate"} /\ m.begun = FALSE
       \/ /\ m.begun = TRUE /\ m.kind \in Uploads
          /\ \/ Reserving(c, m, files) \/ Putting(c, m, files)
             \/ Confirming(c, m, files) \/ Remembering(c, m, files)
       \/ m.begun = TRUE /\ m.kind = "import" /\ Importing(c, m, took)
       \/ m.pc = "done" /\ m.begun = FALSE /\ m.ends = <<>>
       \/ m.pc = "done" /\ m.begun = TRUE /\ Told(c, m, files, took)


RInv ==
    /\ file = [c \in Commands |-> file[c]]
    /\ stored = [c \in Commands |-> stored[c]]
    /\ \A c \in Commands : Honest(c, cmd[c], file, stored[c])

(* n is the command m after its terminal event.                            *)
Closes(m, n, kind) ==
    /\ n.pc = "done" /\ n.sent = FALSE /\ n.begun = m.begun /\ n.kind = m.kind
    /\ n.target = m.target /\ n.total = m.total
    /\ n.result = (IF kind = "success" THEN "ok" ELSE "failed")
    /\ n.ends = <<Report(m, kind)>>

LEMMA EmitFields ==
    ASSUME NEW m, Rec(m), m.ends = <<>>, NEW kind
    PROVE  LET n == Emit(m, kind)
           IN  /\ Rec(n) /\ n.begun = m.begun /\ n.kind = m.kind /\ n.target = m.target
               /\ n.total = m.total /\ n.ends = <<Report(m, kind)>>
<1> DEFINE report == Report(m, kind)
           n == [m EXCEPT !.ends = <<report>>]
<1>1. Emit(m, kind) = n
  <2>1. Append(m.ends, report) = <<report>>
    OBVIOUS
  <2> QED
    BY <2>1 DEF Emit
<1> HIDE DEF report
<1>2. /\ Rec(n) /\ n.begun = m.begun /\ n.kind = m.kind /\ n.target = m.target
      /\ n.total = m.total /\ n.ends = <<report>>
  BY DEF Rec, Fields
<1> QED
  BY <1>1, <1>2 DEF report

LEMMA BreakCloses ==
    ASSUME NEW m, Rec(m), m.ends = <<>>
    PROVE  Closes(m, Break(m), "error")
<1> DEFINE e == Emit(m, "error")
<1>1. /\ Rec(e) /\ e.begun = m.begun /\ e.kind = m.kind /\ e.target = m.target
      /\ e.total = m.total /\ e.ends = <<Report(m, "error")>>
  BY EmitFields
<1>2. Break(m) = Failed(e)
  BY DEF Break
<1> HIDE DEF e
<1>3. LET n == Failed(e)
      IN  /\ n.pc = "done" /\ n.sent = FALSE /\ n.result = "failed" /\ n.begun = e.begun
          /\ n.kind = e.kind /\ n.target = e.target /\ n.total = e.total /\ n.ends = e.ends
  BY <1>1 DEF Rec, Fields, Failed
<1> QED
  BY <1>1, <1>2, <1>3 DEF Closes

LEMMA SuccessCloses ==
    ASSUME NEW m, Rec(m), m.ends = <<>>
    PROVE  Closes(m, Succeeded(Emit(m, "success")), "success")
<1> DEFINE e == Emit(m, "success")
<1>1. /\ Rec(e) /\ e.begun = m.begun /\ e.kind = m.kind /\ e.target = m.target
      /\ e.total = m.total /\ e.ends = <<Report(m, "success")>>
  BY EmitFields
<1> HIDE DEF e
<1>2. LET n == Succeeded(e)
      IN  /\ n.pc = "done" /\ n.sent = FALSE /\ n.result = "ok" /\ n.begun = e.begun
          /\ n.kind = e.kind /\ n.target = e.target /\ n.total = e.total /\ n.ends = e.ends
  BY <1>1 DEF Rec, Fields, Succeeded
<1>3. Closes(m, Succeeded(e), "success")
  BY <1>1, <1>2 DEF Closes
<1> QED
  BY <1>3 DEF e

LEMMA HonestlyClosed ==
    ASSUME NEW c, NEW m, NEW n, NEW kind \in {"success", "error"}, NEW files, NEW took,
           Closes(m, n, kind), m.begun = TRUE, m.target \in Commands,
           m.kind \in Uploads => UploadTold(c, m, Report(m, kind), files),
           m.kind = "import" => ImportTold(m, Report(m, kind), took)
    PROVE  Honest(c, n, files, took)
<1> DEFINE report == Report(m, kind)
<1>1. report.kind = kind
  BY DEF Report
<1>2. m.kind \in Uploads => UploadTold(c, n, report, files)
  BY DEF UploadTold, Closes
<1>3. m.kind = "import" => ImportTold(n, report, took)
  BY DEF ImportTold, Closes
<1>4. n.ends = <<report>>
  BY DEF Closes
<1> HIDE DEF report
<1>5. n.ends[1] = report /\ n.ends = <<n.ends[1]>>
  BY <1>4
<1>6. (report.kind = "success") = (n.result = "ok")
  BY <1>1 DEF Closes
<1>7. Told(c, n, files, took)
  BY <1>2, <1>3, <1>5, <1>6 DEF Told, Closes
<1> QED
  BY <1>7 DEF Honest, Closes

(* A command that emitted nothing ends with no event.                      *)
LEMMA SilentlyClosed ==
    ASSUME NEW c, NEW m, Rec(m), m.ends = <<>>, m.begun = FALSE, m.target \in Commands,
           NEW n, n = Failed(m) \/ n = Succeeded(m), NEW files, NEW took
    PROVE  Honest(c, n, files, took)
<1>1. /\ n.pc = "done" /\ n.sent = FALSE /\ n.begun = FALSE /\ n.ends = <<>>
      /\ n.target = m.target
  BY DEF Rec, Fields, Failed, Succeeded
<1> QED
  BY <1>1 DEF Honest

(* What others do to the files.                                            *)
LEMMA StaysHonest ==
    ASSUME NEW c \in Commands, NEW m, NEW files, NEW new, NEW took,
           Honest(c, m, files, took),
           new[c] = files[c] \/ (files[c] = "final" /\ new[c] = "deleted"),
           \A d \in Commands : Final(files[d]) => Final(new[d])
    PROVE  Honest(c, m, new, took)
<1>1. m.target \in Commands
  BY DEF Honest
<1>2. Fresh(c, m, files, took) => Fresh(c, m, new, took)
  BY DEF Fresh
<1>3. Reserving(c, m, files) => Reserving(c, m, new)
  BY <1>1 DEF Reserving
<1>4. Putting(c, m, files) => Putting(c, m, new)
  BY DEF Putting
<1>5. Confirming(c, m, files) => Confirming(c, m, new)
  BY DEF Confirming, Final
<1>6. Remembering(c, m, files) => Remembering(c, m, new)
  BY <1>1 DEF Remembering
<1>7. Told(c, m, files, took) => Told(c, m, new, took)
  BY <1>1 DEF Told, UploadTold, Final
<1> QED
  BY <1>2, <1>3, <1>4, <1>5, <1>6, <1>7 DEF Honest

(* The step of one command.                                                *)
LEMMA OneMovesHonestly ==
    ASSUME IInv, RInv, NEW c \in Commands, NEW n, Become(c, n),
           file' = file \/ (~Final(file[c]) /\ \E at : file' = [file EXCEPT ![c] = at]),
           stored' = stored \/ \E count : stored' = [stored EXCEPT ![c] = count],
           Honest(c, n, file', stored'[c])
    PROVE  RInv'
<1>1. cmd'[c] = n /\ \A d \in Commands \ {c} : cmd'[d] = cmd[d]
  BY DEF IInv, Become
<1>2. /\ file' = [d \in Commands |-> file'[d]]
      /\ \A d \in Commands \ {c} : file'[d] = file[d]
      /\ \A d \in Commands : Final(file[d]) => Final(file'[d])
  BY DEF RInv
<1>3. /\ stored' = [d \in Commands |-> stored'[d]]
      /\ \A d \in Commands \ {c} : stored'[d] = stored[d]
  BY DEF RInv
<1>4. ASSUME NEW d \in Commands \ {c}
      PROVE  Honest(d, cmd'[d], file', stored'[d])
  <2>1. Honest(d, cmd[d], file, stored[d])
    BY DEF RInv
  <2>2. Honest(d, cmd[d], file', stored[d])
    BY <1>2, <2>1, StaysHonest
  <2> QED
    BY <1>1, <1>3, <2>2
<1>5. \A d \in Commands : Honest(d, cmd'[d], file', stored'[d])
  BY <1>1, <1>4
<1> QED
  BY <1>2, <1>3, <1>5 DEF RInv

LEMMA HonestOf ==
    ASSUME IInv, RInv, NEW c \in Commands
    PROVE  /\ Rec(cmd[c]) /\ Honest(c, cmd[c], file, stored[c])
           /\ cmd[c].target \in Commands /\ cmd[c].sent \in BOOLEAN
           /\ cmd[c].pc # "done" => cmd[c].ends = <<>>
  BY DEF IInv, Sound, RInv, Honest

(* Where a command is says what it is.                                     *)
LEMMA Where ==
    ASSUME IInv, RInv, NEW c \in Commands
    PROVE  LET m == cmd[c] IN
           /\ m.pc = "idle" => Fresh(c, m, file, stored[c])
           /\ m.pc \in {"ask", "operate"} => m.begun = FALSE
           /\ m.pc \in {"reserve", "put", "confirm", "remember"} =>
                  m.begun = TRUE /\ m.kind \in Uploads
           /\ m.pc = "reserve" => Reserving(c, m, file)
           /\ m.pc = "put" => Putting(c, m, file)
           /\ m.pc = "confirm" => Confirming(c, m, file)
           /\ m.pc = "remember" => Remembering(c, m, file)
           /\ m.pc = "batch" =>
                  m.begun = TRUE /\ m.kind = "import" /\ Importing(c, m, stored[c])
<1>1. Honest(c, cmd[c], file, stored[c])
  BY HonestOf
<1> QED
  BY <1>1 DEF Honest, Fresh, Reserving, Putting, Confirming, Remembering, Importing

LEMMA MinOfTwo ==
    ASSUME NEW i \in Int, NEW j \in Int
    PROVE  Min({i, j}) = IF i <= j THEN i ELSE j
  BY DEF Min

-----------------------------------------------------------------------------
(* The terminal events of a command that fails.                            *)
LEMMA RememberFailedHonest ==
    ASSUME NEW c \in Commands, NEW m, Rec(m), m.ends = <<>>, m.begun = TRUE,
           m.target \in Commands, m.kind \in Uploads,
           NEW files, NEW took, Remembering(c, m, files)
    PROVE  Honest(c, RememberFailed(m), files, took)
<1> DEFINE n == [m EXCEPT !.reserved = TRUE, !.uploaded = TRUE,
                          !.confirmStarted = TRUE, !.confirmed = TRUE]
<1>1. /\ Rec(n) /\ n.ends = <<>> /\ n.begun = TRUE /\ n.target = m.target
      /\ n.kind = m.kind /\ Flags(n, TRUE, TRUE, TRUE, TRUE)
  BY DEF Rec, Fields, Flags
<1>2. RememberFailed(m) = Break(n)
  BY DEF RememberFailed
<1> HIDE DEF n
<1>3. UploadTold(c, n, Report(n, "error"), files)
  BY <1>1 DEF UploadTold, Report, Flags, Remembering
<1>4. n.kind # "import"
  BY <1>1 DEF Uploads
<1> QED
  BY <1>1, <1>2, <1>3, <1>4, BreakCloses, HonestlyClosed

LEMMA SizeOfBatch ==
    ASSUME NEW m, m.batch \in Nat \ {0}, m.total \in Nat, BatchBegin(m) < m.total
    PROVE  /\ BatchBegin(m) \in Nat
           /\ Size(m) \in Nat /\ Size(m) <= BatchSize
           /\ Size(m) = BatchSize \/ BatchBegin(m) + Size(m) = m.total
           /\ BatchBegin(m) + Size(m) <= m.total
<1>1. BatchSize \in Nat \ {0}
  BY FileCommandsAssumption
<1>2. BatchBegin(m) \in Nat
  <2> DEFINE k == m.batch - 1
  <2>1. k \in Nat
    OBVIOUS
  <2> HIDE DEF k
  <2>2. k * BatchSize \in Nat
    BY <1>1, <2>1
  <2> QED
    BY <2>2 DEF BatchBegin, k
<1>3. Size(m) = IF BatchSize <= m.total - BatchBegin(m) THEN BatchSize
                ELSE m.total - BatchBegin(m)
  BY <1>1, <1>2, MinOfTwo DEF Size
<1> QED
  BY <1>1, <1>2, <1>3

LEMMA ImportBreaks ==
    ASSUME NEW c \in Commands, NEW m, Rec(m), m.ends = <<>>, m.begun = TRUE,
           m.target \in Commands, m.kind = "import", m.sent \in BOOLEAN,
           NEW files, NEW took, Importing(c, m, took)
    PROVE  Honest(c, Break(m), files, took)
<1>1. Size(m) \in Nat /\ Size(m) <= BatchSize
  BY SizeOfBatch DEF Importing
<1>2. BatchSize \in Nat
  BY FileCommandsAssumption
<1>3. took \in m.created..(m.created + BatchSize)
  BY <1>1, <1>2 DEF Importing
<1>4. ImportTold(m, Report(m, "error"), took)
  BY <1>3 DEF ImportTold, Report
<1>5. m.kind \notin Uploads
  BY DEF Uploads
<1> QED
  BY <1>4, <1>5, BreakCloses, HonestlyClosed

-----------------------------------------------------------------------------
LEMMA StartHonest ==
    ASSUME IInv, RInv, NEW c \in Commands, Start(c)
    PROVE  RInv'
<1>1. PICK kind \in Kinds[c], flag \in {"flag", "auto", "none"} :
          LET auth == Resolved(kind, flag)
              me == [cmd[c] EXCEPT !.kind = kind, !.flag = flag, !.auth = auth]
          IN  \/ Become(c, Failed(me))
              \/ /\ kind \in Uploads
                 /\ Become(c, [me EXCEPT !.pc = "reserve", !.begun = TRUE])
              \/ Become(c, [me EXCEPT !.pc = "ask", !.asked = auth])
              \/ Become(c, [me EXCEPT !.pc = "operate"])
              \/ /\ kind = "import"
                 /\ \E total \in 1..MaxEvents, bad \in 0..MaxEvents :
                       Become(c, [me EXCEPT !.pc = "batch", !.begun = TRUE,
                                            !.total = total, !.bad = bad])
  BY DEF Start, Uploads
<1> DEFINE auth == Resolved(kind, flag)
           me == [cmd[c] EXCEPT !.kind = kind, !.flag = flag, !.auth = auth]
<1>2. /\ Rec(cmd[c]) /\ cmd[c].ends = <<>> /\ Fresh(c, cmd[c], file, stored[c])
      /\ file' = file /\ stored' = stored
  BY HonestOf, Where DEF Start, service
<1>3. Rec(me) /\ me.kind = kind /\ me.ends = <<>> /\ Fresh(c, me, file, stored[c])
  BY <1>2 DEF Rec, Fields, Fresh, Flags
<1>4. me.target \in Commands
  BY <1>3 DEF Fresh
<1> HIDE DEF auth, me
<1>5. SUFFICES ASSUME NEW n, Become(c, n), n.target = me.target, n.sent = FALSE,
                      n.ends = <<>>, n.pc # "idle",
                      \/ n.pc \in {"ask", "operate", "done"} /\ n.begun = FALSE
                      \/ /\ n.begun = TRUE /\ n.kind \in Uploads
                         /\ Reserving(c, n, file)
                      \/ n.begun = TRUE /\ n.kind = "import" /\ Importing(c, n, stored[c])
               PROVE  RInv'
  <2>1. CASE Become(c, Failed(me))
    <3>1. LET n == Failed(me)
          IN  /\ n.target = me.target /\ n.sent = FALSE /\ n.ends = <<>> /\ n.pc = "done"
              /\ n.begun = FALSE
      BY <1>3 DEF Rec, Fields, Failed, Fresh
    <3> QED
      BY <1>5, <2>1, <3>1
  <2>2. CASE /\ kind \in Uploads
             /\ Become(c, [me EXCEPT !.pc = "reserve", !.begun = TRUE])
    <3> DEFINE n == [me EXCEPT !.pc = "reserve", !.begun = TRUE]
    <3>1. /\ n.target = me.target /\ n.sent = FALSE /\ n.ends = <<>> /\ n.pc = "reserve"
          /\ n.begun = TRUE /\ n.kind = kind /\ Reserving(c, n, file)
      BY <1>3 DEF Rec, Fields, Fresh, Flags, Reserving
    <3> HIDE DEF n
    <3>2. Become(c, n)
      BY <2>2 DEF n
    <3> QED
      BY <1>5, <2>2, <3>1, <3>2
  <2>3. CASE Become(c, [me EXCEPT !.pc = "ask", !.asked = auth])
    <3> DEFINE n == [me EXCEPT !.pc = "ask", !.asked = auth]
    <3>1. /\ n.target = me.target /\ n.sent = FALSE /\ n.ends = <<>> /\ n.pc = "ask"
          /\ n.begun = FALSE
      BY <1>3 DEF Rec, Fields, Fresh
    <3> HIDE DEF n
    <3>2. Become(c, n)
      BY <2>3 DEF n
    <3> QED
      BY <1>5, <3>1, <3>2
  <2>4. CASE Become(c, [me EXCEPT !.pc = "operate"])
    <3> DEFINE n == [me EXCEPT !.pc = "operate"]
    <3>1. /\ n.target = me.target /\ n.sent = FALSE /\ n.ends = <<>> /\ n.pc = "operate"
          /\ n.begun = FALSE
      BY <1>3 DEF Rec, Fields, Fresh
    <3> HIDE DEF n
    <3>2. Become(c, n)
      BY <2>4 DEF n
    <3> QED
      BY <1>5, <3>1, <3>2
  <2>5. CASE /\ kind = "import"
             /\ \E total \in 1..MaxEvents, bad \in 0..MaxEvents :
                   Become(c, [me EXCEPT !.pc = "batch", !.begun = TRUE,
                                        !.total = total, !.bad = bad])
    <3>1. PICK total \in 1..MaxEvents, bad \in 0..MaxEvents :
                   Become(c, [me EXCEPT !.pc = "batch", !.begun = TRUE,
                                        !.total = total, !.bad = bad])
      BY <2>5
    <3> DEFINE n == [me EXCEPT !.pc = "batch", !.begun = TRUE, !.total = total, !.bad = bad]
    <3>2. /\ n.target = me.target /\ n.sent = FALSE /\ n.ends = <<>> /\ n.pc = "batch"
          /\ n.begun = TRUE /\ n.kind = kind /\ n.total = total /\ n.batch = 1
          /\ n.created = 0 /\ n.failed = 0
      BY <1>3 DEF Rec, Fields, Fresh
    <3> HIDE DEF n
    <3>3. Become(c, n)
      BY <3>1 DEF n
    <3>4. BatchBegin(n) = 0
      BY <3>2, FileCommandsAssumption DEF BatchBegin
    <3>5. Importing(c, n, stored[c])
      BY <1>2, <3>2, <3>4, FileCommandsAssumption DEF Importing, Fresh
    <3> QED
      BY <1>5, <2>5, <3>2, <3>3, <3>5
  <2> QED
    BY <1>1, <2>1, <2>2, <2>3, <2>4, <2>5 DEF auth, me
<1>6. Honest(c, n, file, stored[c])
  BY <1>4, <1>5 DEF Honest
<1> QED
  BY <1>2, <1>5, <1>6, OneMovesHonestly

(* A step that neither the files nor the counts of the service see.        *)
LEMMA OnlyMoves ==
    ASSUME IInv, RInv, NEW c \in Commands, NEW n, Become(c, n),
           file' = file, stored' = stored, Honest(c, n, file, stored[c])
    PROVE  RInv'
  BY OneMovesHonestly

LEMMA RequestsHonest ==
    ASSUME IInv, RInv, NEW c \in Commands,
           \/ Reserve(c) \/ Put(c) \/ Confirm(c) \/ Remember(c) \/ IngestBatch(c) \/ Operate(c)
    PROVE  RInv'
<1> DEFINE me == cmd[c]
           sent == [me EXCEPT !.sent = TRUE]
<1>1. /\ Rec(me) /\ me.target \in Commands /\ me.sent \in BOOLEAN
      /\ me.pc # "done" => me.ends = <<>>
  BY HonestOf
<1>2. /\ sent.pc = me.pc /\ sent.sent = TRUE /\ sent.target = me.target
      /\ sent.ends = me.ends /\ sent.begun = me.begun /\ sent.kind = me.kind
      /\ sent.reserved = me.reserved /\ sent.uploaded = me.uploaded
      /\ sent.confirmStarted = me.confirmStarted /\ sent.confirmed = me.confirmed
  BY <1>1 DEF Rec, Fields
<1>3. /\ me.pc \in {"ask", "operate"} => me.begun = FALSE
      /\ me.pc \in {"reserve", "put", "confirm", "remember"} =>
             me.begun = TRUE /\ me.kind \in Uploads
      /\ me.pc = "reserve" => Reserving(c, me, file)
      /\ me.pc = "put" => Putting(c, me, file)
      /\ me.pc = "confirm" => Confirming(c, me, file)
      /\ me.pc = "remember" => Remembering(c, me, file)
      /\ me.pc = "batch" =>
             me.begun = TRUE /\ me.kind = "import" /\ Importing(c, me, stored[c])
  BY Where
<1>4. c \in DOMAIN file /\ c \in DOMAIN stored
  BY DEF RInv
<1>5. \A n : Ask(c) => Become(c, sent)
  BY DEF Ask
<1> HIDE DEF me, sent
<1>6. CASE Reserve(c)
  <2>1. me.pc = "reserve" /\ me.sent = FALSE /\ stored' = stored
    BY <1>1, <1>6 DEF Reserve, me
  <2>2. me.target = c /\ file[c] = "none" /\ Flags(me, FALSE, FALSE, FALSE, FALSE)
    BY <1>3, <2>1 DEF Reserving
  <2>3. CASE file' = [file EXCEPT ![c] = "reserved"] /\ Ask(c)
    <3>1. Reserving(c, sent, file')
      BY <1>2, <1>4, <2>1, <2>2, <2>3 DEF Reserving, Flags
    <3>2. Honest(c, sent, file', stored'[c])
      BY <1>1, <1>2, <1>3, <2>1, <3>1 DEF Honest
    <3> QED
      BY <1>5, <2>1, <2>2, <2>3, <3>2, OneMovesHonestly DEF Final
  <2>4. ASSUME NEW d \in Existing, Become(c, [me EXCEPT !.sent = TRUE, !.target = d]),
               file' = file
        PROVE  RInv'
    <3> DEFINE n == [me EXCEPT !.sent = TRUE, !.target = d]
    <3>1. /\ n.pc = "reserve" /\ n.sent = TRUE /\ n.target = d /\ n.ends = <<>>
          /\ n.begun = TRUE /\ n.kind = me.kind /\ Flags(n, FALSE, FALSE, FALSE, FALSE)
      BY <1>1, <1>3, <2>1, <2>2 DEF Rec, Fields, Flags
    <3> HIDE DEF n
    <3>2. Become(c, n)
      BY <2>4 DEF n
    <3>3. d \in Commands /\ file[d] = "final"
      BY DEF Existing
    <3>4. Reserving(c, n, file)
      BY <2>2, <3>1, <3>3 DEF Reserving, Final
    <3>5. Honest(c, n, file, stored[c])
      BY <1>3, <2>1, <3>1, <3>3, <3>4 DEF Honest
    <3> QED
      BY <2>1, <2>4, <3>2, <3>5, OnlyMoves
  <2> QED
    BY <1>6, <2>3, <2>4 DEF Reserve, me
<1>7. CASE Put(c)
  <2>1. /\ me.pc = "put" /\ me.sent = FALSE /\ stored' = stored
        /\ file' = [file EXCEPT ![c] = "stored"] /\ Become(c, sent)
    BY <1>1, <1>5, <1>7 DEF Put, me
  <2>2. Putting(c, sent, file')
    BY <1>2, <1>3, <1>4, <2>1 DEF Putting, Flags
  <2>3. Honest(c, sent, file', stored'[c])
    BY <1>1, <1>2, <1>3, <2>1, <2>2 DEF Honest
  <2>4. ~Final(file[c])
    BY <1>3, <2>1 DEF Putting, Final
  <2> QED
    BY <2>1, <2>3, <2>4, OneMovesHonestly
<1>8. CASE Confirm(c)
  <2>1. /\ me.pc = "confirm" /\ me.sent = FALSE /\ stored' = stored
        /\ file' = [file EXCEPT ![c] = "final"] \/ file' = file
        /\ Become(c, SendConfirm(me))
    BY <1>1, <1>8 DEF Confirm, me
  <2>2. /\ Flags(me, TRUE, TRUE, FALSE, FALSE) /\ me.target = c /\ file[c] = "stored"
    BY <1>3, <2>1 DEF Confirming
  <2> DEFINE n == SendConfirm(me)
  <2>3. /\ n.pc = "confirm" /\ n.sent = TRUE /\ n.target = c /\ n.ends = <<>>
        /\ n.begun = TRUE /\ n.kind = me.kind /\ Flags(n, TRUE, TRUE, TRUE, FALSE)
    BY <1>1, <1>3, <2>1, <2>2 DEF Rec, Fields, Flags, SendConfirm
  <2> HIDE DEF n
  <2>4. file'[c] \in {"final", "stored"}
    BY <1>4, <2>1, <2>2
  <2>5. Confirming(c, n, file')
    BY <2>3, <2>4 DEF Confirming, Final
  <2>6. Honest(c, n, file', stored'[c])
    BY <1>3, <2>1, <2>3, <2>5 DEF Honest
  <2>7. Become(c, n) /\ ~Final(file[c])
    BY <2>1, <2>2 DEF n, Final
  <2> QED
    BY <2>1, <2>6, <2>7, OneMovesHonestly
<1>9. CASE Remember(c)
  <2>1. /\ me.pc = "remember" /\ me.sent = FALSE /\ stored' = stored /\ file' = file
        /\ Become(c, sent) \/ Become(c, RememberFailed(me))
    BY <1>1, <1>5, <1>9 DEF Remember, me
  <2>2. CASE Become(c, sent)
    <3>1. Remembering(c, sent, file)
      BY <1>2, <1>3, <2>1 DEF Remembering, Flags
    <3>2. Honest(c, sent, file, stored[c])
      BY <1>1, <1>2, <1>3, <2>1, <3>1 DEF Honest
    <3> QED
      BY <2>1, <2>2, <3>2, OnlyMoves
  <2>3. CASE Become(c, RememberFailed(me))
    <3>1. Honest(c, RememberFailed(me), file, stored[c])
      BY <1>1, <1>3, <2>1, RememberFailedHonest
    <3> QED
      BY <2>1, <2>3, <3>1, OnlyMoves
  <2> QED
    BY <2>1, <2>2, <2>3
<1>10. CASE IngestBatch(c)
  <2>1. me.pc = "batch" /\ me.sent = FALSE /\ file' = file
    BY <1>1, <1>10 DEF IngestBatch, me
  <2>2. Importing(c, me, stored[c]) /\ stored[c] = me.created
    BY <1>3, <2>1 DEF Importing
  <2>3. CASE Become(c, Break(me)) /\ stored' = stored
    <3>1. Honest(c, Break(me), file, stored[c])
      BY <1>1, <1>3, <2>1, <2>2, ImportBreaks
    <3> QED
      BY <2>1, <2>3, <3>1, OnlyMoves
  <2>4. ASSUME NEW taken \in 0..Size(me), stored' = [stored EXCEPT ![c] = @ + taken],
               Become(c, [me EXCEPT !.sent = TRUE, !.taken = taken])
        PROVE  RInv'
    <3> DEFINE n == [me EXCEPT !.sent = TRUE, !.taken = taken]
    <3>1. /\ n.pc = "batch" /\ n.sent = TRUE /\ n.target = me.target /\ n.ends = <<>>
          /\ n.begun = TRUE /\ n.kind = "import" /\ n.batch = me.batch
          /\ n.total = me.total /\ n.created = me.created /\ n.failed = me.failed
          /\ n.taken = taken
      BY <1>1, <1>3, <2>1 DEF Rec, Fields
    <3> HIDE DEF n
    <3>2. BatchBegin(n) = BatchBegin(me)
      BY <3>1 DEF BatchBegin
    <3>3. Size(n) = Size(me)
      BY <3>1, <3>2 DEF Size
    <3>4. stored'[c] = me.created + taken
      BY <1>4, <2>2, <2>4
    <3>5. Importing(c, n, stored'[c])
      BY <2>2, <3>1, <3>2, <3>3, <3>4 DEF Importing
    <3>6. Honest(c, n, file', stored'[c])
      BY <1>1, <3>1, <3>5 DEF Honest
    <3>7. Become(c, n)
      BY <2>4 DEF n
    <3> QED
      BY <2>1, <2>4, <3>6, <3>7, OneMovesHonestly
  <2> QED
    BY <1>10, <2>3, <2>4 DEF IngestBatch, me
<1>11. CASE Operate(c)
  <2>1. /\ me.pc = "operate" /\ me.sent = FALSE /\ stored' = stored /\ file' = file
        /\ Become(c, sent)
    BY <1>1, <1>5, <1>11 DEF Operate, me
  <2>2. Honest(c, sent, file, stored[c])
    BY <1>1, <1>2, <1>3, <2>1 DEF Honest
  <2> QED
    BY <2>1, <2>2, OnlyMoves
<1> QED
  BY <1>6, <1>7, <1>8, <1>9, <1>10, <1>11

LEMMA UploadedHonest ==
    ASSUME NEW c \in Commands, NEW m, Rec(m), m.ends = <<>>, m.begun = TRUE,
           m.target \in Commands, m.kind \in Uploads,
           NEW files, NEW took, Final(files[m.target]),
           \/ m.target = c /\ Flags(m, TRUE, TRUE, TRUE, TRUE)
           \/ m.target # c /\ Flags(m, FALSE, FALSE, FALSE, FALSE) /\ files[c] = "none"
    PROVE  Honest(c, Uploaded(m), files, took)
<1>1. CASE m.kind = "remember"
  <2> DEFINE n == [m EXCEPT !.pc = "remember", !.sent = FALSE]
  <2>1. Uploaded(m) = n
    BY <1>1 DEF Uploaded, EmitSuccess
  <2>2. /\ n.pc = "remember" /\ n.sent = FALSE /\ n.ends = <<>> /\ n.begun = TRUE
        /\ n.target = m.target /\ n.kind = m.kind
        /\ n.reserved = m.reserved /\ n.uploaded = m.uploaded
        /\ n.confirmStarted = m.confirmStarted /\ n.confirmed = m.confirmed
    BY DEF Rec, Fields
  <2> HIDE DEF n
  <2>3. Remembering(c, n, files)
    BY <2>2 DEF Remembering, Flags
  <2> QED
    BY <2>1, <2>2, <2>3 DEF Honest
<1>2. CASE m.kind # "remember"
  <2>1. Uploaded(m) = Succeeded(Emit(m, "success"))
    BY <1>2 DEF Uploaded, EmitSuccess
  <2>2. UploadTold(c, m, Report(m, "success"), files)
    BY DEF UploadTold, Report, Flags, Final
  <2>3. m.kind # "import"
    BY DEF Uploads
  <2> QED
    BY <2>1, <2>2, <2>3, SuccessCloses, HonestlyClosed
<1> QED
  BY <1>1, <1>2

(* The failures of an upload, wherever it was.                             *)
LEMMA UploadBreaks ==
    ASSUME NEW c \in Commands, NEW m, Rec(m), m.ends = <<>>, m.begun = TRUE,
           m.target \in Commands, m.kind \in Uploads, NEW files, NEW took,
           \/ Flags(m, FALSE, FALSE, FALSE, FALSE) /\ files[c] \in {"none", "reserved"}
           \/ Flags(m, TRUE, FALSE, FALSE, FALSE) /\ ~Final(files[c])
           \/ Flags(m, TRUE, TRUE, TRUE, FALSE) /\ files[c] # "reserved"
    PROVE  Honest(c, Break(m), files, took)
<1>1. UploadTold(c, m, Report(m, "error"), files)
  BY DEF UploadTold, Report, Flags, Final
<1>2. m.kind # "import"
  BY DEF Uploads
<1> QED
  BY <1>1, <1>2, BreakCloses, HonestlyClosed

LEMMA AnswersHonest ==
    ASSUME IInv, RInv, NEW c \in Commands,
           \/ Answer(c) \/ ReserveAnswered(c) \/ PutAnswered(c) \/ ConfirmAnswered(c)
           \/ RememberAnswered(c) \/ BatchAnswered(c) \/ OperationAnswered(c)
           \/ SourceFails(c) \/ Unanswered(c) \/ BadReservation(c)
    PROVE  RInv'
<1> DEFINE me == cmd[c]
<1>1. /\ Rec(me) /\ me.target \in Commands /\ me.sent \in BOOLEAN
      /\ me.pc # "done" => me.ends = <<>>
  BY HonestOf
<1>2. /\ me.pc \in {"ask", "operate"} => me.begun = FALSE
      /\ me.pc \in {"reserve", "put", "confirm", "remember"} =>
             me.begun = TRUE /\ me.kind \in Uploads
      /\ me.pc = "reserve" => Reserving(c, me, file)
      /\ me.pc = "put" => Putting(c, me, file)
      /\ me.pc = "confirm" => Confirming(c, me, file)
      /\ me.pc = "remember" => Remembering(c, me, file)
      /\ me.pc = "batch" =>
             me.begun = TRUE /\ me.kind = "import" /\ Importing(c, me, stored[c])
  BY Where
<1>3. file' = file /\ stored' = stored
  BY DEF Answer, ReserveAnswered, PutAnswered, ConfirmAnswered, RememberAnswered,
     BatchAnswered, OperationAnswered, SourceFails, Unanswered, BadReservation,
     Answered, service
<1> HIDE DEF me
<1>4. SUFFICES \E n : Become(c, n) /\ Honest(c, n, file, stored[c])
  BY <1>3, OnlyMoves
<1>5. CASE Answer(c)
  <2> DEFINE n == [me EXCEPT !.pc = "operate"]
  <2>1. me.pc = "ask" /\ (Become(c, n) \/ Become(c, Failed(me)))
    BY <1>5 DEF Answer, me
  <2>2. /\ n.pc = "operate" /\ n.begun = FALSE /\ n.ends = <<>> /\ n.target = me.target
        /\ n.sent = me.sent
    BY <1>1, <1>2, <2>1 DEF Rec, Fields
  <2> HIDE DEF n
  <2>3. Honest(c, n, file, stored[c])
    BY <1>1, <2>2 DEF Honest
  <2>4. Honest(c, Failed(me), file, stored[c])
    BY <1>1, <1>2, <2>1, SilentlyClosed
  <2> QED
    BY <2>1, <2>3, <2>4
<1>6. CASE ReserveAnswered(c)
  <2>1. /\ me.pc = "reserve" /\ me.sent = TRUE
        /\ \/ /\ me.target = c
              /\ Become(c, [me EXCEPT !.pc = "put", !.sent = FALSE, !.reserved = TRUE])
           \/ me.target # c /\ Become(c, Uploaded(me))
    BY <1>1, <1>6 DEF ReserveAnswered, me
  <2>2. Reserving(c, me, file)
    BY <1>2, <2>1
  <2>3. CASE /\ me.target = c
             /\ Become(c, [me EXCEPT !.pc = "put", !.sent = FALSE, !.reserved = TRUE])
    <3> DEFINE n == [me EXCEPT !.pc = "put", !.sent = FALSE, !.reserved = TRUE]
    <3>1. /\ n.pc = "put" /\ n.sent = FALSE /\ n.target = c /\ n.ends = <<>>
          /\ n.begun = TRUE /\ n.kind = me.kind /\ Flags(n, TRUE, FALSE, FALSE, FALSE)
      BY <1>1, <1>2, <2>1, <2>2, <2>3 DEF Rec, Fields, Flags, Reserving
    <3> HIDE DEF n
    <3>2. Putting(c, n, file)
      BY <2>1, <2>2, <2>3, <3>1 DEF Reserving, Putting
    <3>3. Honest(c, n, file, stored[c])
      BY <1>2, <2>1, <3>1, <3>2 DEF Honest
    <3> QED
      BY <2>3, <3>3 DEF n
  <2>4. CASE me.target # c /\ Become(c, Uploaded(me))
    <3>1. /\ Flags(me, FALSE, FALSE, FALSE, FALSE) /\ file[c] = "none"
          /\ Final(file[me.target])
      BY <2>2, <2>4 DEF Reserving
    <3>2. Honest(c, Uploaded(me), file, stored[c])
      BY <1>1, <1>2, <2>1, <2>4, <3>1, UploadedHonest
    <3> QED
      BY <2>4, <3>2
  <2> QED
    BY <2>1, <2>3, <2>4
<1>7. CASE PutAnswered(c)
  <2> DEFINE n == [me EXCEPT !.pc = "confirm", !.sent = FALSE, !.uploaded = TRUE]
  <2>1. me.pc = "put" /\ me.sent = TRUE /\ Become(c, n)
    BY <1>1, <1>7 DEF PutAnswered, me
  <2>2. Putting(c, me, file)
    BY <1>2, <2>1
  <2>3. /\ n.pc = "confirm" /\ n.sent = FALSE /\ n.target = c /\ n.ends = <<>>
        /\ n.begun = TRUE /\ n.kind = me.kind /\ Flags(n, TRUE, TRUE, FALSE, FALSE)
    BY <1>1, <1>2, <2>1, <2>2 DEF Rec, Fields, Flags, Putting
  <2> HIDE DEF n
  <2>4. Confirming(c, n, file)
    BY <2>1, <2>2, <2>3 DEF Confirming, Putting
  <2>5. Honest(c, n, file, stored[c])
    BY <1>2, <2>1, <2>3, <2>4 DEF Honest
  <2> QED
    BY <2>1, <2>5
<1>8. CASE ConfirmAnswered(c)
  <2>1. /\ me.pc = "confirm" /\ me.sent = TRUE
        /\ \/ /\ file[c] # "stored"
              /\ Become(c, Uploaded([me EXCEPT !.confirmed = TRUE]))
           \/ Become(c, Break(me))
    BY <1>1, <1>8 DEF ConfirmAnswered, me
  <2>2. /\ Flags(me, TRUE, TRUE, TRUE, FALSE) /\ me.target = c
        /\ file[c] = "stored" \/ Final(file[c])
    BY <1>2, <2>1 DEF Confirming
  <2>3. CASE /\ file[c] # "stored"
             /\ Become(c, Uploaded([me EXCEPT !.confirmed = TRUE]))
    <3> DEFINE n == [me EXCEPT !.confirmed = TRUE]
    <3>1. /\ Rec(n) /\ n.target = c /\ n.ends = <<>> /\ n.begun = TRUE
          /\ n.kind = me.kind /\ Flags(n, TRUE, TRUE, TRUE, TRUE)
      BY <1>1, <1>2, <2>1, <2>2 DEF Rec, Fields, Flags
    <3> HIDE DEF n
    <3>2. Honest(c, Uploaded(n), file, stored[c])
      BY <1>2, <2>1, <2>2, <2>3, <3>1, UploadedHonest
    <3> QED
      BY <2>3, <3>2 DEF n
  <2>4. Honest(c, Break(me), file, stored[c])
    BY <1>1, <1>2, <2>1, <2>2, UploadBreaks DEF Final
  <2> QED
    BY <2>1, <2>3, <2>4
<1>9. CASE RememberAnswered(c)
  <2>1. me.pc = "remember" /\ Become(c, Succeeded(Emit(me, "success")))
    BY <1>9 DEF RememberAnswered, me
  <2>2. UploadTold(c, me, Report(me, "success"), file)
    BY <1>2, <2>1 DEF UploadTold, Report, Flags, Final, Remembering
  <2>3. me.kind # "import"
    BY <1>2, <2>1 DEF Uploads
  <2>4. Honest(c, Succeeded(Emit(me, "success")), file, stored[c])
    BY <1>1, <1>2, <2>1, <2>2, <2>3, SuccessCloses, HonestlyClosed
  <2> QED
    BY <2>1, <2>4
<1>10. CASE BatchAnswered(c)
  <2> DEFINE n == Counted(me)
  <2>1. /\ me.pc = "batch" /\ me.sent = TRUE
        /\ \/ BatchBegin(n) < n.total /\ Become(c, n)
           \/ ~(BatchBegin(n) < n.total) /\ Become(c, Succeeded(Emit(n, "success")))
    BY <1>1, <1>10 DEF BatchAnswered, me
  <2>2. Importing(c, me, stored[c])
    BY <1>2, <2>1
  <2>3. /\ Rec(n) /\ n.pc = "batch" /\ n.sent = FALSE /\ n.target = me.target
        /\ n.ends = <<>> /\ n.begun = TRUE /\ n.kind = "import" /\ n.total = me.total
        /\ n.batch = me.batch + 1 /\ n.created = me.created + me.taken
        /\ n.failed = me.failed + Size(me) - me.taken
    BY <1>1, <1>2, <2>1 DEF Rec, Fields, Counted
  <2> HIDE DEF n
  <2>4. /\ BatchBegin(me) \in Nat /\ Size(me) \in Nat
        /\ Size(me) = BatchSize \/ BatchBegin(me) + Size(me) = me.total
        /\ Size(me) <= BatchSize
    BY <2>2, SizeOfBatch DEF Importing
  <2>5. BatchBegin(n) = BatchBegin(me) + BatchSize
    BY <2>2, <2>3, FileCommandsAssumption DEF BatchBegin, Importing
  <2>6. /\ n.created \in Nat /\ n.failed \in Nat /\ n.batch \in Nat \ {0}
        /\ n.created + n.failed = BatchBegin(me) + Size(me)
        /\ stored[c] = n.created
    BY <2>1, <2>2, <2>3, <2>4 DEF Importing
  <2>7. CASE BatchBegin(n) < n.total /\ Become(c, n)
    <3>1. Size(me) = BatchSize
      BY <2>2, <2>3, <2>4, <2>5, <2>7, FileCommandsAssumption DEF Importing
    <3>2. Importing(c, n, stored[c])
      BY <2>2, <2>3, <2>5, <2>6, <2>7, <3>1 DEF Importing
    <3>3. Honest(c, n, file, stored[c])
      BY <1>1, <2>3, <3>2 DEF Honest
    <3> QED
      BY <2>7, <3>3
  <2>8. CASE ~(BatchBegin(n) < n.total) /\ Become(c, Succeeded(Emit(n, "success")))
    <3>1. BatchBegin(me) + Size(me) = n.total
      <4>1. n.total \in Nat /\ BatchSize \in Nat /\ BatchBegin(me) < n.total
        BY <2>2, <2>3, FileCommandsAssumption DEF Importing
      <4>2. BatchBegin(me) + Size(me) <= n.total
        BY <2>2, <2>3, SizeOfBatch DEF Importing
      <4> QED
        BY <2>3, <2>4, <2>5, <2>8, <4>1, <4>2
    <3>2. ImportTold(n, Report(n, "success"), stored[c])
      BY <2>6, <3>1 DEF ImportTold, Report
    <3>3. n.kind \notin Uploads
      BY <2>3 DEF Uploads
    <3>4. Honest(c, Succeeded(Emit(n, "success")), file, stored[c])
      BY <1>1, <2>3, <3>2, <3>3, SuccessCloses, HonestlyClosed
    <3> QED
      BY <2>8, <3>4
  <2> QED
    BY <2>1, <2>7, <2>8
<1>11. CASE OperationAnswered(c)
  <2>1. me.pc = "operate" /\ Become(c, Succeeded(me))
    BY <1>11 DEF OperationAnswered, me
  <2>2. Honest(c, Succeeded(me), file, stored[c])
    BY <1>1, <1>2, <2>1, SilentlyClosed
  <2> QED
    BY <2>1, <2>2
<1>12. CASE SourceFails(c)
  <2>1. me.pc = "reserve" /\ me.sent = FALSE /\ Become(c, Break(me))
    BY <1>1, <1>12 DEF SourceFails, me
  <2>2. Flags(me, FALSE, FALSE, FALSE, FALSE) /\ file[c] \in {"none", "reserved"}
    BY <1>2, <2>1 DEF Reserving
  <2>3. Honest(c, Break(me), file, stored[c])
    BY <1>1, <1>2, <2>1, <2>2, UploadBreaks
  <2> QED
    BY <2>1, <2>3
<1>13. CASE Unanswered(c)
  <2>1. /\ me.pc \in {"reserve", "put", "confirm", "remember", "batch", "operate"}
        /\ me.pc = "operate" => Become(c, Failed(me))
        /\ me.pc = "remember" => Become(c, RememberFailed(me))
        /\ me.pc = "confirm" => Become(c, Break(SendConfirm(me)))
        /\ me.pc \in {"reserve", "put", "batch"} => Become(c, Break(me))
    BY <1>13 DEF Unanswered, me
  <2>2. CASE me.pc = "operate"
    BY <1>1, <1>2, <2>1, <2>2, SilentlyClosed
  <2>3. CASE me.pc = "remember"
    BY <1>1, <1>2, <2>1, <2>3, RememberFailedHonest
  <2>4. CASE me.pc = "batch"
    BY <1>1, <1>2, <2>1, <2>4, ImportBreaks
  <2>5. CASE me.pc = "reserve"
    <3>1. Flags(me, FALSE, FALSE, FALSE, FALSE) /\ file[c] \in {"none", "reserved"}
      BY <1>1, <1>2, <2>5 DEF Reserving
    <3> QED
      BY <1>1, <1>2, <2>1, <2>5, <3>1, UploadBreaks
  <2>6. CASE me.pc = "put"
    <3>1. Flags(me, TRUE, FALSE, FALSE, FALSE) /\ ~Final(file[c])
      BY <1>1, <1>2, <2>6 DEF Putting, Final
    <3> QED
      BY <1>1, <1>2, <2>1, <2>6, <3>1, UploadBreaks
  <2>7. CASE me.pc = "confirm"
    <3> DEFINE n == SendConfirm(me)
    <3>1. Flags(me, TRUE, TRUE, me.sent, FALSE) /\ file[c] # "reserved"
      BY <1>1, <1>2, <2>7 DEF Confirming, Final
    <3>2. /\ Rec(n) /\ n.target = me.target /\ n.ends = <<>> /\ n.begun = TRUE
          /\ n.kind = me.kind /\ Flags(n, TRUE, TRUE, TRUE, FALSE)
      BY <1>1, <1>2, <2>7, <3>1 DEF Rec, Fields, Flags, SendConfirm
    <3> HIDE DEF n
    <3>3. Honest(c, Break(n), file, stored[c])
      BY <1>1, <1>2, <2>7, <3>1, <3>2, UploadBreaks
    <3> QED
      BY <2>1, <2>7, <3>3 DEF n
  <2> QED
    BY <2>1, <2>2, <2>3, <2>4, <2>5, <2>6, <2>7
<1>14. CASE BadReservation(c)
  <2> DEFINE n == [me EXCEPT !.reserved = TRUE]
  <2>1. /\ me.pc = "reserve" /\ me.sent = TRUE /\ me.target = c
        /\ Become(c, Break(n))
    BY <1>1, <1>14 DEF BadReservation, me
  <2>2. Flags(me, FALSE, FALSE, FALSE, FALSE) /\ file[c] = "reserved"
    BY <1>2, <2>1 DEF Reserving
  <2>3. /\ Rec(n) /\ n.target = c /\ n.ends = <<>> /\ n.begun = TRUE
        /\ n.kind = me.kind /\ Flags(n, TRUE, FALSE, FALSE, FALSE)
    BY <1>1, <1>2, <2>1, <2>2 DEF Rec, Fields, Flags
  <2> HIDE DEF n
  <2>4. Honest(c, Break(n), file, stored[c])
    BY <1>2, <2>1, <2>2, <2>3, UploadBreaks DEF Final
  <2> QED
    BY <2>1, <2>4
<1> QED
  BY <1>5, <1>6, <1>7, <1>8, <1>9, <1>10, <1>11, <1>12, <1>13, <1>14

(* A file is deleted by others, or nothing of the service changes.         *)
LEMMA OutsideHonest ==
    ASSUME IInv, RInv, DeleteFile \/ Others \/ AllDone \/ UNCHANGED vars
    PROVE  RInv'
<1>1. cmd' = cmd /\ stored' = stored
  BY DEF DeleteFile, Others, AllDone, vars, service
<1>2. file' = file \/ \E d \in Existing : file' = [file EXCEPT ![d] = "deleted"]
  BY DEF DeleteFile, Others, AllDone, vars, service
<1>3. /\ file' = [c \in Commands |-> file'[c]]
      /\ \A c \in Commands :
            file'[c] = file[c] \/ (file[c] = "final" /\ file'[c] = "deleted")
  BY <1>2 DEF RInv, Existing
<1>4. \A c \in Commands : Final(file[c]) => Final(file'[c])
  BY <1>3 DEF Final
<1>5. \A c \in Commands : Honest(c, cmd[c], file', stored[c])
  BY <1>3, <1>4, StaysHonest DEF RInv
<1> QED
  BY <1>1, <1>3, <1>5 DEF RInv

LEMMA InitRInv == Init => RInv
<1> SUFFICES ASSUME Init
             PROVE  RInv
  OBVIOUS
<1>1. /\ cmd = [c \in Commands |-> Idle(c)] /\ file = [c \in Commands |-> "none"]
      /\ stored = [c \in Commands |-> 0]
  BY DEF Init, ServiceInit
<1>2. \A c \in Commands : /\ Idle(c).target = c /\ Idle(c).sent = FALSE
                          /\ Idle(c).ends = <<>>
                          /\ Fresh(c, Idle(c), file, stored[c])
  BY <1>1 DEF Idle, Fresh, Flags
<1>3. \A c \in Commands : Honest(c, cmd[c], file, stored[c])
  BY <1>1, <1>2 DEF Honest
<1> QED
  BY <1>1, <1>3 DEF RInv

LEMMA NextRInv == IInv /\ RInv /\ [Next]_vars => RInv'
<1> SUFFICES ASSUME IInv, RInv, [Next]_vars
             PROVE  RInv'
  OBVIOUS
<1>1. CASE \E c \in Commands : Step(c) \/ SourceFails(c) \/ Unanswered(c) \/ BadReservation(c)
  BY <1>1, StartHonest, RequestsHonest, AnswersHonest DEF Step
<1>2. CASE DeleteFile \/ Others \/ AllDone \/ UNCHANGED vars
  BY <1>2, OutsideHonest
<1> QED
  BY <1>1, <1>2 DEF Next

(* A stream of events ends once, as the exit code says; what its end says  *)
(* of the file is so, and the counts of an import are the server's up to   *)
(* the batch whose answer never came (filesClient.ts:243-265,              *)
(* files.ts:240-250, resource.ts:745-800).                                 *)
THEOREM ReportsAreTruthful == Spec => []ReportsTruthful
<1>1. IInv /\ RInv => ReportsTruthful
  <2> SUFFICES ASSUME IInv, RInv, NEW c \in Commands
               PROVE  /\ OneEnding!(c)
                      /\ TerminalTruthful!(c)
                      /\ ImportCounts!(c)
    BY DEF ReportsTruthful, OneEnding, TerminalTruthful, ImportCounts
  <2>1. Honest(c, cmd[c], file, stored[c])
    BY HonestOf
  <2>2. CASE /\ cmd[c].ends = <<>>
             /\ cmd[c].pc # "done" \/ cmd[c].begun = FALSE
    <3>1. Len(cmd[c].ends) = 0
      BY <2>2
    <3> QED
      BY <2>2, <3>1
  <2>3. CASE cmd[c].pc = "done" /\ cmd[c].begun = TRUE /\ Told(c, cmd[c], file, stored[c])
    <3>1. Len(cmd[c].ends) = 1
      BY <2>3 DEF Told
    <3> QED
      BY <2>3, <3>1 DEF Told, Terminal, UploadTold, ImportTold, Final, Uploads
  <2> QED
    BY <2>1, <2>2, <2>3 DEF Honest, Fresh, Reserving, Putting, Confirming,
       Remembering, Importing
<1>2. Init => IInv /\ RInv
  BY InitIInv, InitRInv
<1>3. IInv /\ RInv /\ [Next]_vars => IInv' /\ RInv'
  BY NextIInv, NextRInv
<1> QED
  BY <1>1, <1>2, <1>3, PTL DEF Spec
=============================================================================
