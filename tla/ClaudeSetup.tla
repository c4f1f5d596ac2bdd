------------------------------ MODULE ClaudeSetup ------------------------------
(***************************************************************************)
(* `kagura-memory setup claude` (cli/commands/setup.ts): one invocation    *)
(* after another over the files it shares with Claude Code, the user and   *)
(* earlier invocations.                                                    *)
(*                                                                         *)
(* Claude Code takes the kagura-memory entry of the strongest scope: local *)
(* and user scope live in its own state file, which only the `claude` CLI  *)
(* writes; project scope is the closest .mcp.json.  A setup writes one of  *)
(* the last two, then .kagura.json and .gitignore.  Anything may stop it   *)
(* half way: the context lookup, the CLI (which may also be killed at its  *)
(* timeout having done what it was asked), a write that fails, a crash.    *)
(***************************************************************************)
EXTENDS Integers, FiniteSets

CONSTANTS Keys,       \* API keys
          Urls,       \* MCP URLs, with their query
          Ref,        \* ${KAGURA_MCP_API_KEY}, what a user-scope entry carries for a key
          None,
          MaxRuns, MaxFaults, MaxOutside    \* bounds of the instance

Scopes == {"project", "user"}
Entries == [url: Urls, auth: Keys \cup {Ref}]
Files == {"kagura", "mcp"}

ASSUME SetupAssumption ==
  /\ Ref \notin Keys /\ None \notin Keys \cup Urls \cup Entries \cup {Ref} /\ Urls # {}
  /\ MaxRuns \in Nat /\ MaxFaults \in Nat /\ MaxOutside \in Nat

VARIABLES
  kagura,      \* .kagura.json: [state, key, url]
  mcp,         \* .mcp.json of the project: [state, entry]
  claude,      \* the entries elsewhere: [local, user, parent], parent the one of a parent's .mcp.json
  ignored,     \* the files .gitignore lists
  run,         \* the invocation that runs, or the last one
  argv,        \* what the entries put on a command line carried for a key
  before,      \* the files and the user-scope entry when the invocation began
  touched,     \* somebody else changed something since then
  runs, faults, outside    \* counters of the bounds

vars == <<kagura, mcp, claude, ignored, run, argv, before, touched, runs, faults, outside>>
files == <<kagura, mcp, ignored>>

Absent == [state |-> "absent", key |-> None, url |-> None]
NoMcp == [state |-> "absent", entry |-> None]

\* A file nobody can parse; half written, its text may hold a key all the same.
BadJson(key) == [state |-> "bad", key |-> key, url |-> None]
BadMcp(entry) == [state |-> "bad", entry |-> entry]

Phases == {"idle", "lookup", "remove", "add", "restore", "kagura", "mcp", "ignore"}
Results == {"none", "refused", "failed", "stopped", "success"}
\* What a failed write at user scope says of the entry that was there.
Notes == {"none", "removeFailed", "putBack", "told"}

TypeOK ==
  /\ kagura \in [state: {"absent", "ok", "bad"}, key: Keys \cup {None}, url: Urls \cup {None}]
  /\ mcp \in [state: {"absent", "ok", "bad"}, entry: Entries \cup {None}]
  /\ claude \in [local: Entries \cup {None}, user: Entries \cup {None}, parent: Entries \cup {None}]
  /\ ignored \subseteq Files
  /\ run \in [phase: Phases, scope: Scopes, key: Keys \cup {None}, url: Urls \cup {None},
              wanted: Entries \cup {None}, replaces: Entries \cup {None},
              result: Results, note: Notes]
  /\ argv \subseteq Keys \cup {Ref}
  /\ DOMAIN before = {"files", "user"} /\ before.user \in Entries \cup {None}
  /\ touched \in {"yes", "no"}
  /\ runs \in 0..MaxRuns /\ faults \in 0..MaxFaults /\ outside \in 0..MaxOutside

-----------------------------------------------------------------------------
(* Reading what is configured.                                             *)

\* closestMcpJson: a file nobody can parse defines nothing.
ProjectEntry ==
  IF mcp.state = "ok" /\ mcp.entry # None THEN mcp.entry ELSE claude.parent

\* Claude Code's own order, strongest first.
Effective ==
  IF claude.local # None THEN claude.local
  ELSE IF ProjectEntry # None THEN ProjectEntry ELSE claude.user

\* A check that looks only in Claude Code's own state file.
ShadowedByLocal(scope) == claude.local # None

Shadowed(scope) ==
  \/ claude.local # None
  \/ scope = "user" /\ ProjectEntry # None

HoldsCredential(entry) == entry.auth # Ref

ClaudeEntry(scope, key, url) ==
  [url |-> url, auth |-> IF scope = "user" THEN Ref ELSE key]

-----------------------------------------------------------------------------
(* One invocation.                                                         *)

\* How an invocation ends: its result, and what it says of the old entry.
End(result, note) ==
  run' = [run EXCEPT !.phase = "idle", !.result = result, !.note = note]

Goto(phase) == run' = [run EXCEPT !.phase = phase]

Fault == faults < MaxFaults /\ faults' = faults + 1

\* runClaude up to its first await, all read before anything is run or
\* written: resolveInput falls back to the project's own key and URL, then to
\* the environment's; a .kagura.json it cannot parse, no key, a stronger scope,
\* an .mcp.json it cannot extend and a missing `claude` each refuse.
Begin(scope, keyFlag, urlFlag, envKey, hasClaude) ==
  LET key == IF keyFlag # None THEN keyFlag ELSE IF kagura.key # None THEN kagura.key ELSE envKey
      url == IF urlFlag # None THEN urlFlag ELSE IF kagura.url # None THEN kagura.url
             ELSE CHOOSE u \in Urls : TRUE
      wanted == ClaudeEntry(scope, key, url)
      changed == scope = "user" /\ claude.user # wanted
      refused == \/ kagura.state = "bad"
                 \/ key = None
                 \/ Shadowed(scope)
                 \/ scope = "project" /\ mcp.state = "bad"
                 \/ changed /\ ~hasClaude
  IN /\ run.phase = "idle" /\ runs < MaxRuns
     /\ runs' = runs + 1
     /\ before' = [files |-> files, user |-> claude.user]
     /\ touched' = "no"
     /\ run' = [phase |-> IF refused THEN "idle" ELSE "lookup",
                scope |-> scope, key |-> key, url |-> url,
                wanted |-> IF key = None THEN None ELSE wanted,
                replaces |-> IF changed THEN claude.user ELSE None,
                result |-> IF refused THEN "refused" ELSE "none", note |-> "none"]
     /\ UNCHANGED <<files, claude, argv, faults, outside>>

\* resolveClaudeContext and detectClaudePlugin: requests and a CLI that write
\* nothing.  At user scope an entry that is up to date is not written again;
\* whether it was is what the plan read, not what is there now.
NextPhase ==
  IF run.scope = "user" /\ before.user # run.wanted
    THEN IF run.replaces # None THEN "remove" ELSE "add"
    ELSE "kagura"

LookedUp ==
  /\ run.phase = "lookup"
  /\ Goto(NextPhase)
  /\ UNCHANGED <<files, claude, argv, before, touched, runs, faults, outside>>

LookupFails ==
  /\ run.phase = "lookup" /\ Fault
  /\ End("failed", "none")
  /\ UNCHANGED <<files, claude, argv, before, touched, runs, outside>>

-----------------------------------------------------------------------------
(* The CLI.  It exits 0 having done what it was asked, or exits otherwise: *)
(* having refused, or killed at the timeout with the change made or not.   *)

\* `claude mcp remove --scope user`.
Removed == claude' = [claude EXCEPT !.user = None]

Remove ==
  /\ run.phase = "remove"
  /\ \/ claude.user # None /\ Removed /\ Goto("add") /\ UNCHANGED faults
     \/ claude.user = None /\ UNCHANGED claude /\ End("failed", "removeFailed") /\ UNCHANGED faults
     \/ (Removed \/ UNCHANGED claude) /\ Fault /\ End("failed", "removeFailed")
  /\ UNCHANGED <<files, argv, before, touched, runs, outside>>

\* `claude mcp add-json --scope user`, which refuses a name that is taken.
Added(entry) == claude.user = None /\ claude' = [claude EXCEPT !.user = entry]

AddFailed == IF run.replaces = None THEN End("failed", "none") ELSE Goto("restore")

Add ==
  /\ run.phase = "add"
  /\ argv' = argv \cup {run.wanted.auth}
  /\ \/ Added(run.wanted) /\ Goto("kagura") /\ UNCHANGED faults
     \/ claude.user # None /\ UNCHANGED claude /\ AddFailed /\ UNCHANGED faults
     \/ (Added(run.wanted) \/ UNCHANGED claude) /\ Fault /\ AddFailed
  /\ UNCHANGED <<files, before, touched, runs, outside>>

\* A restore whose failure is not reported as one.
RestoreUnchecked ==
  /\ run.phase = "restore"
  /\ argv' = argv \cup {run.replaces.auth}
  /\ End("failed", "putBack")
  /\ (Added(run.replaces) \/ UNCHANGED claude)
  /\ UNCHANGED <<files, before, touched, runs, faults, outside>>

\* The old entry, put back after a failed add; one that holds a key never goes
\* on a command line, and is left to the user, with the command.
Restore ==
  /\ run.phase = "restore"
  /\ \/ /\ HoldsCredential(run.replaces)
        /\ End("failed", "told")
        /\ UNCHANGED <<claude, argv, faults>>
     \/ /\ ~HoldsCredential(run.replaces)
        /\ argv' = argv \cup {run.replaces.auth}
        /\ \/ Added(run.replaces) /\ End("failed", "putBack") /\ UNCHANGED faults
           \/ claude.user # None /\ UNCHANGED claude /\ End("failed", "told") /\ UNCHANGED faults
           \/ (Added(run.replaces) \/ UNCHANGED claude) /\ Fault /\ End("failed", "told")
  /\ UNCHANGED <<files, before, touched, runs, outside>>

-----------------------------------------------------------------------------
(* The project's files.  writeFileSync truncates before it writes, so a    *)
(* write that fails or a crash may leave a file empty or half written,     *)
(* before the key or after it.                                             *)

WriteKagura ==
  /\ run.phase = "kagura"
  /\ kagura' = [state |-> "ok", key |-> run.key, url |-> run.url]
  /\ Goto(IF run.scope = "project" THEN "mcp" ELSE "ignore")
  /\ UNCHANGED <<mcp, claude, ignored, argv, before, touched, runs, faults, outside>>

\* The whole entry is replaced; the other servers the file has are kept.
WriteMcp ==
  /\ run.phase = "mcp"
  /\ mcp' = [state |-> "ok", entry |-> run.wanted]
  /\ Goto("ignore")
  /\ UNCHANGED <<kagura, claude, ignored, argv, before, touched, runs, faults, outside>>

\* Only the file both scopes write.
ProtectKagura ==
  /\ run.phase = "ignore"
  /\ ignored' = ignored \cup {"kagura"}
  /\ End("success", "none")
  /\ UNCHANGED <<kagura, mcp, claude, argv, before, touched, runs, faults, outside>>

ProtectSecrets ==
  /\ run.phase = "ignore"
  /\ ignored' = ignored \cup (IF run.scope = "project" THEN Files ELSE {"kagura"})
  /\ End("success", "none")
  /\ UNCHANGED <<kagura, mcp, claude, argv, before, touched, runs, faults, outside>>

\* A write fails, or the process dies while it writes.
WriteFails ==
  /\ run.phase \in {"kagura", "mcp", "ignore"} /\ Fault
  /\ kagura' \in IF run.phase = "kagura" THEN {kagura, Absent, BadJson(None), BadJson(run.key)}
               ELSE {kagura}
  /\ mcp' \in IF run.phase = "mcp" THEN {mcp, NoMcp, BadMcp(None), BadMcp(run.wanted)}
            ELSE {mcp}
  /\ End("stopped", "none")
  /\ UNCHANGED <<ignored, claude, argv, before, touched, runs, outside>>

\* The process dies between two steps; Claude Code keeps what it was told.
Crash ==
  /\ run.phase \notin {"idle", "kagura", "mcp", "ignore"} /\ Fault
  /\ End("stopped", "none")
  /\ UNCHANGED <<files, claude, argv, before, touched, runs, outside>>

-----------------------------------------------------------------------------
(* Everybody else: the user, an editor, another tool.                      *)

Outside ==
  /\ outside < MaxOutside /\ outside' = outside + 1
  /\ touched' = "yes"
  /\ \/ \E scope \in {"local", "user", "parent"}, e \in Entries \cup {None} :
          /\ claude' = [claude EXCEPT ![scope] = e]
          /\ UNCHANGED files
     \/ /\ mcp' \in {NoMcp} \cup [state: {"ok", "bad"}, entry: Entries \cup {None}]
        /\ UNCHANGED <<kagura, ignored, claude>>
     \/ /\ kagura' \in {Absent, BadJson(None)}
        /\ UNCHANGED <<mcp, ignored, claude>>
  /\ UNCHANGED <<run, argv, before, runs, faults>>

Init ==
  /\ kagura = Absent /\ mcp = NoMcp /\ ignored = {}
  /\ claude \in [local: {None}, user: Entries \cup {None}, parent: {None}]
  /\ run = [phase |-> "idle", scope |-> "project", key |-> None, url |-> None,
            wanted |-> None, replaces |-> None, result |-> "none", note |-> "none"]
  /\ argv = {}
  /\ before = [files |-> files, user |-> claude.user]
  /\ touched = "no"
  /\ runs = 0 /\ faults = 0 /\ outside = 0

Next ==
  \/ \E scope \in Scopes, key, env \in Keys \cup {None}, url \in Urls \cup {None}, has \in BOOLEAN :
       Begin(scope, key, url, env, has)
  \/ LookedUp \/ LookupFails
  \/ Remove \/ Add \/ Restore
  \/ WriteKagura \/ WriteMcp \/ ProtectSecrets
  \/ WriteFails \/ Crash
  \/ Outside

Spec == Init /\ [][Next]_vars

-----------------------------------------------------------------------------
Ended(result) == run.phase = "idle" /\ run.result = result /\ touched = "no"

\* A setup that reports success took effect: the entry Claude Code uses in this
\* project is the one it wrote, and this bin reads the same key and URL from
\* .kagura.json, whatever earlier setups left behind and wherever they stopped
\* (refuseShadowedEntry: "the command would otherwise report a success that
\* never takes effect").
SuccessIsEffective ==
  Ended("success") =>
    /\ Effective = run.wanted
    /\ kagura.key = run.key /\ kagura.url = run.url

\* A failed setup never loses a user-scope entry in silence: the entry it meant
\* to replace is still there, or the error says that it is gone and how to add
\* it again, or what failed was its removal; and an entry it says it put back
\* is back (writeUserEntry).
EntryAccounted ==
  Ended("failed") =>
    /\ run.note = "putBack" => claude.user = before.user
    /\ before.user # None /\ claude.user # before.user => run.note \in {"told", "removeFailed"}

\* A setup that was refused, or stopped by the lookup or by `claude`, left every
\* file of the project as it was, and one that was refused the user-scope entry
\* too (runClaude: "`claude` first, so one that refuses the entry leaves every
\* file as it was").
FilesUntouched ==
  /\ Ended("refused") \/ Ended("failed") => files = before.files
  /\ Ended("refused") => claude.user = before.user

\* Whatever stops a setup, what it found is accounted for: kept, replaced by what
\* it reports, or said to be lost (writeUserEntry, runClaude).
SetupAccounted == EntryAccounted /\ FilesUntouched

\* No key ever goes on the `claude` command line, the new entry's or that of an
\* old one put back (writeUserEntry: "one that holds a credential is never
\* passed").
KeyOffArgv == argv \subseteq {Ref}

\* After a success every file of the project that holds a key is listed in
\* .gitignore, also one that an earlier setup wrote before it was interrupted
\* (protectSecrets: "committing either publishes it").  One file is not: an
\* .mcp.json left half written is no entry to closestMcpJson, so a setup of user
\* scope goes on past it and lists .kagura.json alone.
OverlookedMcp == mcp.state # "ok" /\ run.scope = "user"

KeysIgnored ==
  Ended("success") =>
    /\ kagura.key # None => "kagura" \in ignored
    /\ mcp.entry # None /\ HoldsCredential(mcp.entry) =>
         "mcp" \in ignored \/ OverlookedMcp

\* A key stays where it belongs: in a file that is not committed, and out of the
\* list of processes (writeUserEntry, protectSecrets).
KeysKept == KeyOffArgv /\ KeysIgnored
=============================================================================
