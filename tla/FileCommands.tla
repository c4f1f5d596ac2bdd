---------------------------- MODULE FileCommands ----------------------------
(***************************************************************************)
(* The commands of the CLI that take several requests: `files upload`, with *)
(* and without --remember (cli/commands/files.ts over filesClient.ts),     *)
(* `resource import` (cli/commands/resource.ts over resourceClient.ts), and *)
(* the confirmed commands of cli/commands/workspace.ts; the credential each *)
(* resolves once (module CommandCredentials); the events it reports        *)
(* (progress.ts); and the service, which is external.                      *)
(*                                                                         *)
(* All uploads carry the same bytes, so that the server's deduplication    *)
(* has something to find.  A request takes two steps: the server acts, the *)
(* answer arrives; in between the connection may break.                    *)
(***************************************************************************)
EXTENDS CommandCredentials, Sequences, FiniteSetsExt

CONSTANTS
    Commands,
    Kinds,              \* the kinds each command may be of
    Environments,       \* what the environment and the files may be at first
    ConfigFiles,
    MaxEvents,          \* bound: rows of an import
    BatchSize,          \* BATCH_SIZE: rows per request
    MaxFaults           \* bound: answers other than the one hoped for

ASSUME FileCommandsAssumption ==
    /\ Kinds \in [Commands -> SUBSET {"upload", "remember", "import", "workspace", "data"}]
    /\ Environments \subseteq Environment /\ ConfigFiles \subseteq ConfigFile
    /\ MaxEvents \in Nat \ {0} /\ BatchSize \in Nat \ {0} /\ MaxFaults \in Nat

VARIABLES
    cmd,        \* per command: where it is, and its locals
    file,       \* the server's file for the upload of each command
    stored,     \* events the server took from each import
    acted,      \* per command: what a request acted as, and on
    faults

service == <<file, stored, acted>>
vars == <<sources, cmd, service, faults>>

Credential == [source : {"refused", "explicit", "env", "oauth", "config"},
               account : Named \cup {"env", "file"},
               server : Named \cup {"env", "file", "default"},
               workspace : Named \cup {"env", "file", "flag", "auto"}]
Ending == [kind : {"success", "error"}, reserved : BOOLEAN, uploaded : BOOLEAN,
           confirmStarted : BOOLEAN, confirmed : BOOLEAN, created : Nat, failed : Nat]
Command == [kind : {"none", "upload", "remember", "import", "workspace", "data"}, 
            flag : {"flag", "auto", "none"},
            pc : {"idle", "ask", "reserve", "put", "confirm", "remember", "batch",
                  "operate", "done"},
            sent : BOOLEAN,             \* the server has the request
            auth : Credential,
            asked : Credential,         \* what the prompt named
            target : Commands,          \* whose upload its file_id names
            reserved : BOOLEAN, uploaded : BOOLEAN,
            confirmStarted : BOOLEAN, confirmed : BOOLEAN,
            total : Nat, bad : Nat,     \* rows; the batch refuseNonFinite refuses
            batch : Nat, taken : Nat,   \* rows the server took from this batch
            created : Nat, failed : Nat,
            begun : BOOLEAN,            \* an event was emitted
            ends : Seq(Ending),         \* the terminal events
            result : {"none", "ok", "failed"}]

TypeOK ==
    /\ SourcesTypeOK
    /\ cmd \in [Commands -> Command]
    /\ file \in [Commands -> {"none", "reserved", "stored", "final", "deleted"}]
    /\ stored \in [Commands -> Nat]
    /\ acted \in [Commands -> SUBSET Credential]
    /\ faults \in Nat

Idle(c) ==
    [kind |-> "none", flag |-> "none", pc |-> "idle", sent |-> FALSE, auth |-> Refused,
     asked |-> Refused, target |-> c, reserved |-> FALSE, uploaded |-> FALSE,
     confirmStarted |-> FALSE, confirmed |-> FALSE, total |-> 0, bad |-> 0, batch |-> 1,
     taken |-> 0, created |-> 0, failed |-> 0, begun |-> FALSE, ends |-> <<>>, result |-> "none"]

SourcesInit ==
    /\ env \in Environments
    /\ config \in {{}} \cup {{f} : f \in ConfigFiles}
    /\ \E default \in Profiles, kept \in SUBSET Profiles, bound \in SUBSET Profiles :
          /\ bound \subseteq kept
          /\ default \in kept \/ kept = {}
          /\ creds = [default |-> default, stored |-> kept, bound |-> bound]
    /\ outside = 0
ServiceInit ==
    /\ file = [c \in Commands |-> "none"]
    /\ stored = [c \in Commands |-> 0]
    /\ acted = [c \in Commands |-> {}]
    /\ faults = 0
Init == SourcesInit /\ ServiceInit /\ cmd = [c \in Commands |-> Idle(c)]

-----------------------------------------------------------------------------
(* Ends of a command.                                                      *)
Become(c, new) == cmd' = [cmd EXCEPT ![c] = new]
Failed(me) == [me EXCEPT !.pc = "done", !.sent = FALSE, !.result = "failed"]
Succeeded(me) == [me EXCEPT !.pc = "done", !.sent = FALSE, !.result = "ok"]

Report(me, kind) ==
    [kind |-> kind, reserved |-> me.reserved, uploaded |-> me.uploaded,
     confirmStarted |-> me.confirmStarted, confirmed |-> me.confirmed,
     created |-> me.created, failed |-> me.failed]
Emit(me, kind) == [me EXCEPT !.ends = Append(@, Report(me, kind))]

(* The catch of upload() and of importRows.                                *)
Break(me) == Failed(Emit(me, "error"))

(* The sink of `files upload`: with --remember the success is held until   *)
(* the memory is written.                                                  *)
EmitSuccess(me) == IF me.kind = "remember" THEN me ELSE Emit(me, "success")

(* upload() returned: the command prints, or goes on to the memory.        *)
Uploaded(me) ==
    LET told == EmitSuccess(me)
    IN  IF me.kind = "remember" THEN [told EXCEPT !.pc = "remember", !.sent = FALSE]
        ELSE Succeeded(told)

RememberRetried(me) == [me EXCEPT !.sent = FALSE]
(* The upload stands, the memory does not: the event names the file.       *)
RememberFailed(me) ==
    Break([me EXCEPT !.reserved = TRUE, !.uploaded = TRUE,
                     !.confirmStarted = TRUE, !.confirmed = TRUE])

-----------------------------------------------------------------------------
(* The options are checked and the credential is resolved: one synchronous *)
(* step.  Before the first event a failure is a plain error.  A --workspace *)
(* that is blank or `auto` is refused, a --context-id is passed over.      *)
Resolved(kind, flag) ==
    CASE kind = "import" -> CliAuth
      [] kind = "data" -> DataCredential(flag)
      [] kind = "workspace" /\ flag = "auto" -> Refused
      [] OTHER -> PairWorkspaceCredential(flag)

Start(c) ==
    /\ cmd[c].pc = "idle"
    /\ \E kind \in Kinds[c], flag \in {"flag", "auto", "none"} :
          LET auth == Resolved(kind, flag)
              me == [cmd[c] EXCEPT !.kind = kind, !.flag = flag, !.auth = auth]
          IN  \/ auth.source = "refused" /\ Become(c, Failed(me))
              \/ /\ auth.source # "refused" /\ kind \in {"upload", "remember"}
                 /\ Become(c, [me EXCEPT !.pc = "reserve", !.begun = TRUE])
              \/ /\ auth.source # "refused" /\ kind = "workspace"
                 /\ Become(c, [me EXCEPT !.pc = "ask", !.asked = auth])
              \/ /\ auth.source # "refused" /\ kind = "data"
                 /\ Become(c, [me EXCEPT !.pc = "operate"])
              \/ /\ auth.source # "refused" /\ kind = "import"
                 /\ \E total \in 1..MaxEvents, bad \in 0..MaxEvents :
                       Become(c, [me EXCEPT !.pc = "batch", !.begun = TRUE,
                                            !.total = total, !.bad = bad])
    /\ UNCHANGED <<sources, service, faults>>

(* A credential that is paired once the prompt is answered.                *)
AnswerThenPair(c) ==
    /\ cmd[c].pc = "ask"
    /\ \/ /\ PairWorkspaceCredential(cmd[c].flag).source # "refused"
          /\ Become(c, [cmd[c] EXCEPT !.pc = "operate",
                                      !.auth = PairWorkspaceCredential(cmd[c].flag)])
       \/ Become(c, Failed(cmd[c]))
    /\ UNCHANGED <<sources, service, faults>>

(* deps.confirm, and then the client from the credential that was paired.  *)
Answer(c) ==
    /\ cmd[c].pc = "ask"
    /\ \/ Become(c, [cmd[c] EXCEPT !.pc = "operate"])
       \/ Become(c, Failed(cmd[c]))
    /\ UNCHANGED <<sources, service, faults>>

(* A file or a bytes source that cannot be read fails inside the try.      *)
SourceFails(c) ==
    /\ cmd[c].pc = "reserve" /\ ~cmd[c].sent /\ faults < MaxFaults
    /\ Become(c, Break(cmd[c]))
    /\ faults' = faults + 1
    /\ UNCHANGED <<sources, service>>

-----------------------------------------------------------------------------
(* A request reaches the server; the server acts, or refuses, which is the *)
(* answer it then sends.                                                   *)
Act(c) == acted' = [acted EXCEPT ![c] = @ \cup {cmd[c].auth}]
Ask(c) == Become(c, [cmd[c] EXCEPT !.sent = TRUE])
Existing == {d \in Commands : file[d] = "final"}

(* The reservation, or the file the same bytes are already in.             *)
Reserve(c) ==
    /\ cmd[c].pc = "reserve" /\ ~cmd[c].sent
    /\ Act(c)
    /\ \/ /\ Existing = {}
          /\ file' = [file EXCEPT ![c] = "reserved"]
          /\ Ask(c)
       \/ \E d \in Existing :
             /\ Become(c, [cmd[c] EXCEPT !.sent = TRUE, !.target = d])
             /\ UNCHANGED file
    /\ UNCHANGED <<sources, stored, faults>>

(* The object store knows no credential: the URL is signed.                *)
Put(c) ==
    /\ cmd[c].pc = "put" /\ ~cmd[c].sent
    /\ Ask(c)
    /\ file' = [file EXCEPT ![c] = "stored"]
    /\ UNCHANGED <<sources, stored, acted, faults>>

SendUnannounced(me) == [me EXCEPT !.sent = TRUE]
SendConfirm(me) == [me EXCEPT !.confirmStarted = TRUE, !.sent = TRUE]
Confirm(c) ==
    /\ cmd[c].pc = "confirm" /\ ~cmd[c].sent
    /\ Act(c)
    /\ Become(c, SendConfirm(cmd[c]))
    /\ \/ file' = [file EXCEPT ![c] = "final"]
       \/ Existing # {} /\ UNCHANGED file     \* the same bytes were confirmed first
    /\ UNCHANGED <<sources, stored, faults>>

(* rememberFileObject: a client of its own, and the chain run again.       *)
Remember(c) ==
    /\ cmd[c].pc = "remember" /\ ~cmd[c].sent
    /\ \/ /\ ChainAgain.source # "refused"
          /\ acted' = [acted EXCEPT ![c] = @ \cup
                {[ChainAgain EXCEPT !.workspace = cmd[c].auth.workspace]}]
          /\ Ask(c)
       \/ /\ ChainAgain.source = "refused"
          /\ Become(c, RememberFailed(cmd[c]))
          /\ UNCHANGED acted
    /\ UNCHANGED <<sources, file, stored, faults>>

(* One batch of an import: the server takes some of its rows.  A payload   *)
(* that holds no finite number is refused when its batch comes.            *)
BatchBegin(me) == (me.batch - 1) * BatchSize
Size(me) == Min({BatchSize, me.total - BatchBegin(me)})

IngestBatch(c) ==
    /\ cmd[c].pc = "batch" /\ ~cmd[c].sent
    /\ \/ /\ cmd[c].batch = cmd[c].bad
          /\ Become(c, Break(cmd[c]))
          /\ UNCHANGED <<stored, acted>>
       \/ /\ cmd[c].batch # cmd[c].bad
          /\ Act(c)
          /\ \E taken \in 0..Size(cmd[c]) :
                /\ stored' = [stored EXCEPT ![c] = @ + taken]
                /\ Become(c, [cmd[c] EXCEPT !.sent = TRUE, !.taken = taken])
    /\ UNCHANGED <<sources, file, faults>>

(* The one request of a workspace or a data command.                       *)
Operate(c) ==
    /\ cmd[c].pc = "operate" /\ ~cmd[c].sent
    /\ Act(c) /\ Ask(c)
    /\ UNCHANGED <<sources, file, stored, faults>>

-----------------------------------------------------------------------------
(* The answers.                                                            *)
Answered(c) == UNCHANGED <<sources, service, faults>>

(* 2xx, or 409 with the existing file.                                     *)
ReserveAnswered(c) ==
    /\ cmd[c].pc = "reserve" /\ cmd[c].sent
    /\ \/ /\ cmd[c].target = c
          /\ Become(c, [cmd[c] EXCEPT !.pc = "put", !.sent = FALSE, !.reserved = TRUE])
       \/ /\ cmd[c].target # c
          /\ Become(c, Uploaded(cmd[c]))
    /\ Answered(c)

PutAnswered(c) ==
    /\ cmd[c].pc = "put" /\ cmd[c].sent
    /\ Become(c, [cmd[c] EXCEPT !.pc = "confirm", !.sent = FALSE, !.uploaded = TRUE])
    /\ Answered(c)

(* Only a body that reads as a FileObject confirms.                        *)
ConfirmAnswered(c) ==
    /\ cmd[c].pc = "confirm" /\ cmd[c].sent
    /\ \/ /\ file[c] # "stored"
          /\ Become(c, Uploaded([cmd[c] EXCEPT !.confirmed = TRUE]))
       \/ /\ file[c] = "stored"
          /\ Become(c, Break(cmd[c]))
    /\ Answered(c)

(* The held success comes out.                                             *)
RememberAnswered(c) ==
    /\ cmd[c].pc = "remember" /\ cmd[c].sent
    /\ Become(c, Succeeded(Emit(cmd[c], "success")))
    /\ Answered(c)

(* The counts of a batch are added when its answer is read.                *)
Counted(me) ==
    [me EXCEPT !.sent = FALSE, !.batch = @ + 1, !.taken = 0,
               !.created = @ + me.taken, !.failed = @ + Size(me) - me.taken]

BatchAnswered(c) ==
    /\ cmd[c].pc = "batch" /\ cmd[c].sent
    /\ LET me == Counted(cmd[c])
       IN  Become(c, IF BatchBegin(me) < me.total THEN me
                     ELSE Succeeded(Emit(me, "success")))
    /\ Answered(c)

OperationAnswered(c) ==
    /\ cmd[c].pc = "operate" /\ cmd[c].sent
    /\ Become(c, Succeeded(cmd[c]))
    /\ Answered(c)

(* The request is refused or does not arrive, or its answer does not, or   *)
(* is a body the model refuses; a request ends with its timeout.           *)
Unanswered(c) ==
    /\ cmd[c].pc \in {"reserve", "put", "confirm", "remember", "batch", "operate"}
    /\ faults < MaxFaults
    /\ faults' = faults + 1
    /\ LET me == cmd[c]
       IN  Become(c, CASE me.pc = "operate" -> Failed(me)
                       [] me.pc = "remember" -> RememberFailed(me)
                       [] me.pc = "confirm" -> Break(SendConfirm(me))
                       [] OTHER -> Break(me))
    /\ UNCHANGED <<sources, service>>

(* A reservation whose file_id no path can carry is refused before the PUT. *)
BadReservation(c) ==
    /\ cmd[c].pc = "reserve" /\ cmd[c].sent /\ cmd[c].target = c
    /\ faults < MaxFaults
    /\ faults' = faults + 1
    /\ Become(c, Break([cmd[c] EXCEPT !.reserved = TRUE]))
    /\ UNCHANGED <<sources, service>>

-----------------------------------------------------------------------------
(* `files delete` by another process.                                      *)
DeleteFile ==
    /\ outside < MaxOutside
    /\ outside' = outside + 1
    /\ \E c \in Existing : file' = [file EXCEPT ![c] = "deleted"]
    /\ UNCHANGED <<env, config, creds, cmd, stored, acted, faults>>

Others == ChangeSources /\ UNCHANGED <<cmd, service, faults>>

Step(c) ==
    \/ Start(c) \/ Answer(c)
    \/ Reserve(c) \/ Put(c) \/ Confirm(c) \/ Remember(c) \/ IngestBatch(c) \/ Operate(c)
    \/ ReserveAnswered(c) \/ PutAnswered(c) \/ ConfirmAnswered(c)
    \/ RememberAnswered(c) \/ BatchAnswered(c) \/ OperationAnswered(c)

AllDone == (\A c \in Commands : cmd[c].pc = "done") /\ UNCHANGED vars

Next ==
    \/ \E c \in Commands : Step(c) \/ SourceFails(c) \/ Unanswered(c) \/ BadReservation(c)
    \/ DeleteFile \/ Others \/ AllDone

Spec == Init /\ [][Next]_vars
FairSpec == Spec /\ \A c \in Commands : WF_vars(Step(c))

-----------------------------------------------------------------------------
Terminal(c) == cmd[c].ends[1]

(* A command that began its stream of events ends it with one terminal     *)
(* event, which says what the exit code says; none that never began one    *)
(* emits any (filesClient.ts:249-265, files.ts:240-250, resource.ts:745-750). *)
OneEnding ==
    \A c \in Commands :
        /\ Len(cmd[c].ends) = (IF cmd[c].begun /\ cmd[c].pc = "done" THEN 1 ELSE 0)
        /\ cmd[c].ends # <<>> =>
              (Terminal(c).kind = "success") = (cmd[c].result = "ok")

(* What the last event of an upload says of the file is so at the server:  *)
(* a success names a finalized file (or one deleted since), and without    *)
(* confirm_started or with uploaded FALSE nothing can have been finalized  *)
(* (filesClient.ts:154-160 and 243-263).                                   *)
TerminalTruthful ==
    \A c \in Commands :
        (cmd[c].kind \in {"upload", "remember"} /\ cmd[c].ends # <<>>) =>
            LET end == Terminal(c)
                target == file[cmd[c].target]
            IN  /\ (end.kind = "success" \/ end.confirmed) => target \in {"final", "deleted"}
                /\ ~end.confirmStarted => file[c] \notin {"final", "deleted"}
                /\ (end.uploaded /\ ~end.confirmed) => file[c] # "reserved"
                /\ end.reserved \/ end.kind = "success" \/ file[c] \in {"none", "reserved"}

(* The counts an import ends with: on success every row is accounted for   *)
(* and the created ones are the server's; on an error the count lags by at *)
(* most the batch whose answer never came (resource.ts:757-800).           *)
ImportCounts ==
    \A c \in Commands :
        (cmd[c].kind = "import" /\ cmd[c].ends # <<>>) =>
            LET end == Terminal(c)
            IN  IF end.kind = "success"
                THEN end.created = stored[c] /\ end.created + end.failed = cmd[c].total
                ELSE stored[c] \in end.created..(end.created + BatchSize)

(* No REST command acts with one source's key on another's server or       *)
(* workspace: the workspace is the key's own or the one the flag names     *)
(* (credentialSource.ts:6-12 and 82-90).                                   *)
OneSource ==
    \A c \in Commands :
        cmd[c].kind \in {"upload", "import", "workspace"} =>
            \A a \in acted[c] :
                /\ a.account = cmd[c].auth.account
                /\ a.server \in {a.account, "default"}
                /\ a.workspace \in {a.account, "flag"} \/ cmd[c].kind = "import"

(* A workspace command acts, if at all, as the prompt said, whatever has   *)
(* become of the profiles while it waited for the answer                   *)
(* (workspace.ts:70-76); a --workspace that is blank acts on nothing.      *)
ConfirmedTarget ==
    \A c \in Commands :
        cmd[c].kind = "workspace" =>
            acted[c] \subseteq (IF cmd[c].flag = "auto" THEN {} ELSE {cmd[c].asked})

(* A profile named by KAGURA_PROFILE is used by a REST command or nothing  *)
(* is, a key in the environment apart (resolve.ts:181-193).                *)
NamedProfileUsed ==
    \A c \in Commands :
        (cmd[c].kind # "data" /\ env.profile # "none" /\ ~env.key) =>
            \A a \in acted[c] : a.account = env.profile

(* The user, and a program that reads the events, can tell from what a     *)
(* command reports what it did, also when it failed half way.              *)
ReportsTruthful == OneEnding /\ TerminalTruthful /\ ImportCounts

(* A command acts under one identity, the one its sources name.            *)
RightSource == OneSource /\ NamedProfileUsed

(* Every command ends, whatever is not answered.                           *)
EveryCommandEnds == \A c \in Commands : <>(cmd[c].pc = "done")

(* files.ts:138-141: the memory of --remember is written by "the same      *)
(* credential chain the upload used", the identity that owns the           *)
(* workspace.                                                              *)
RememberAsUploader ==
    \A c \in Commands :
        cmd[c].kind = "remember" =>
            \A a, b \in acted[c] : a.account = b.account
=============================================================================
