----------------------------- MODULE HarnessSetup -----------------------------
(***************************************************************************)
(* `kagura-memory setup codex | hermes | openclaw` (cli/commands/setup.ts, *)
(* applyPlan and the three runners): the entry goes into the harness's own *)
(* configuration through the harness's CLI, or is printed for the user to  *)
(* add; then, when asked, the guardrail block goes into AGENTS.md.         *)
(*                                                                         *)
(* What setup knows of the configuration it learns from a scan that may    *)
(* miss an entry (Hermes, OpenClaw), from exit codes that may say nothing  *)
(* (Hermes exits 0 when the user cancels) and from reading back.           *)
(***************************************************************************)
EXTENDS Naturals

CONSTANT MaxHarnessFaults   \* bound of the instance

ASSUME HarnessAssumption == MaxHarnessFaults \in Nat

Harnesses == {"codex", "hermes", "openclaw"}

\* The command line (--force, --dry-run, --oauth, --agents-md), and whether there
\* is a terminal and the harness's CLI on PATH.
HarnessFlags == {"force", "dryRun", "oauth", "agentsMd", "terminal", "cli"}

\* The harness's entry of this name: none, another one, the one setup asks for,
\* or what Hermes saves when its sign-in fails: one without OAuth, or disabled.
HarnessEntries == {"none", "other", "wanted", "plain", "disabled"}

\* The file of the export: as it was, with this block, or without its earlier one.
Exports == {"asBefore", "block", "removed"}

\* Those whose limit on the file setup checks after the write (AGENTS_MD_CAP).
Capped == {"codex", "openclaw"}

VARIABLES
  entry,       \* what the harness has
  export,      \* the AGENTS.md file
  plan,        \* the invocation: its flags and what it found out
  was,         \* the entry when the invocation began
  agreed,      \* the user accepted the harness's own overwrite prompt
  harnessFaults

harnessVars == <<entry, export, plan, was, agreed, harnessFaults>>

PlanPhases == {"begin", "server", "settle", "apply", "readBack", "export", "end"}
PlanResults == {"none", "refused", "dryRun", "failed", "success", "exportFailed"}

HarnessTypeOK ==
  /\ entry \in HarnessEntries /\ was \in HarnessEntries
  /\ export \in Exports
  /\ plan \in [phase: PlanPhases, harness: Harnesses, flags: SUBSET HarnessFlags,
               found: {"yes", "no"}, applied: {"yes", "no"}, result: PlanResults]
  /\ agreed \in {"yes", "no"} /\ harnessFaults \in 0..MaxHarnessFaults

HarnessFault == harnessFaults < MaxHarnessFaults /\ harnessFaults' = harnessFaults + 1

Proceed(phase) == plan' = [plan EXCEPT !.phase = phase]
Finish(result) == plan' = [plan EXCEPT !.phase = "end", !.result = result]

-----------------------------------------------------------------------------
DryRun == "dryRun" \in plan.flags

\* resolveHarnessInput: the flags and the configuration, read before anything.
HarnessBegin(harness, flags) ==
  /\ plan.phase = "begin"
  /\ plan' = [plan EXCEPT !.phase = "server", !.harness = harness, !.flags = flags]
  /\ UNCHANGED <<entry, export, was, agreed, harnessFaults>>

\* checkOauthServerFirst, then the scan of the harness's file: exact for Codex,
\* whose file stops setup when it cannot be read; the other two's may miss an
\* entry, or not be readable at all.
Scanned ==
  LET there == IF entry = "none" THEN "no" ELSE "yes"
  IN  IF plan.harness = "codex" THEN {there} ELSE {there, "no"}

CheckServer ==
  /\ plan.phase = "server"
  /\ \/ /\ ("oauth" \in plan.flags /\ ~DryRun) \/ plan.harness = "codex"
        /\ HarnessFault /\ Finish("refused")
     \/ /\ \E found \in Scanned :
             plan' = [plan EXCEPT !.phase = "settle", !.found = found]
        /\ UNCHANGED harnessFaults
  /\ UNCHANGED <<entry, export, was, agreed>>

\* Whether an entry the scan found stops a run without --force: Codex's always,
\* the others' only where their CLI is on PATH.
Stops ==
  /\ plan.found = "yes" /\ "force" \notin plan.flags
  /\ plan.harness = "codex" \/ "cli" \in plan.flags

\* Whether the harness's CLI applies the entry.  The --oauth add of Codex and
\* Hermes needs a terminal, and Hermes's prompts without --oauth too.
Applies ==
  /\ "cli" \in plan.flags
  /\ \/ plan.harness = "openclaw"
     \/ plan.harness = "codex" /\ "oauth" \notin plan.flags
     \/ {"oauth", "terminal"} \subseteq plan.flags

\* applyPlan up to what it runs: the entry found, then the export's file and
\* credential, which must exist and be for the entry's own server.
Settle ==
  /\ plan.phase = "settle"
  /\ \/ Stops /\ ~DryRun /\ Finish("refused") /\ UNCHANGED harnessFaults
     \/ "agentsMd" \in plan.flags /\ (Stops => DryRun) /\ HarnessFault /\ Finish("refused")
     \/ /\ Stops => DryRun
        /\ IF DryRun THEN Finish("dryRun")
           ELSE IF Applies THEN Proceed("apply") ELSE Proceed("export")
        /\ UNCHANGED harnessFaults
  /\ UNCHANGED <<entry, export, was, agreed>>

-----------------------------------------------------------------------------
(* The harness CLIs, by what setup relies on.                              *)

\* codex mcp add overwrites an entry of that name, and saves an --oauth one
\* before it signs in: a failure or a timeout leaves either.
CodexAdd ==
  /\ plan.harness = "codex"
  /\ \/ entry' = "wanted" /\ Proceed("readBack") /\ UNCHANGED harnessFaults
     \/ entry' \in {entry, "wanted"} /\ HarnessFault /\ Finish("failed")
  /\ UNCHANGED agreed

\* openclaw mcp add refuses a name that exists; `set` replaces it.
OpenclawAdd ==
  /\ plan.harness = "openclaw"
  /\ LET replace == plan.found = "yes" \/ "force" \in plan.flags
         takes == replace \/ entry = "none"
     IN \/ takes /\ entry' = "wanted" /\ Proceed("readBack") /\ UNCHANGED harnessFaults
        \/ ~takes /\ UNCHANGED entry /\ Finish("failed") /\ UNCHANGED harnessFaults
        \/ /\ entry' \in IF takes THEN {entry, "wanted"} ELSE {entry}
           /\ HarnessFault /\ Finish("failed")
  /\ UNCHANGED agreed

\* hermes mcp add asks before it overwrites, and exits 0 also when the user
\* declines, cancels, goes on without authentication or saves a failed probe.
HermesAdd ==
  /\ plan.harness = "hermes"
  /\ \/ UNCHANGED <<entry, agreed>>
     \/ entry' \in {"wanted", "plain", "disabled"} /\ agreed' = "yes"
  /\ \/ Proceed("readBack") /\ UNCHANGED harnessFaults
     \/ HarnessFault /\ Finish("failed")

Apply ==
  /\ plan.phase = "apply"
  /\ CodexAdd \/ OpenclawAdd \/ HermesAdd
  /\ UNCHANGED <<export, was>>

\* What reading the entry back tells: the entry, or that it cannot be read.  An
\* answer other than the entry asked for ends setup, without the export.
Saved == [plan EXCEPT !.phase = "export", !.applied = "yes"]

TrustExitCode ==
  /\ plan.phase = "readBack"
  /\ plan' = Saved
  /\ UNCHANGED <<entry, export, was, agreed, harnessFaults>>

NotSaved ==
  /\ plan.phase = "readBack"
  /\ \/ /\ plan.harness = "hermes" => entry = "wanted"
        /\ plan' = Saved /\ UNCHANGED harnessFaults
     \/ /\ plan.harness = "hermes" /\ entry # "wanted"
        /\ Finish("failed") /\ UNCHANGED harnessFaults
     \/ plan.harness = "hermes" /\ HarnessFault /\ Finish("failed")
  /\ UNCHANGED <<entry, export, was, agreed>>

\* writeExport: fetched, then spliced in by an atomic replace; an empty digest
\* takes an earlier block out, and a block that is there already is not written.
\* Its failure comes after the report, with exit 1: the entry is in place.  The
\* file read again for its size may fail when the block is written.
WriteExport ==
  /\ plan.phase = "export"
  /\ \/ "agentsMd" \notin plan.flags /\ Finish("success") /\ UNCHANGED <<export, harnessFaults>>
     \/ "agentsMd" \in plan.flags /\ export' \in Exports /\ Finish("success") /\ UNCHANGED harnessFaults
     \/ /\ "agentsMd" \in plan.flags
        /\ export' \in {"asBefore"} \cup (IF plan.harness \in Capped THEN {"block"} ELSE {})
        /\ HarnessFault /\ Finish("exportFailed")
  /\ UNCHANGED <<entry, was, agreed>>

-----------------------------------------------------------------------------
HarnessInit ==
  /\ entry \in HarnessEntries /\ was = entry
  /\ export = "asBefore"
  /\ plan = [phase |-> "begin", harness |-> "codex", flags |-> {},
             found |-> "no", applied |-> "no", result |-> "none"]
  /\ agreed = "no" /\ harnessFaults = 0

HarnessNext ==
  \/ \E harness \in Harnesses, flags \in SUBSET HarnessFlags : HarnessBegin(harness, flags)
  \/ CheckServer \/ Settle \/ Apply \/ NotSaved \/ WriteExport

HarnessSpec == HarnessInit /\ [][HarnessNext]_harnessVars

-----------------------------------------------------------------------------
\* What the report says is what the harness has: "Done: … wrote …" only over the
\* entry asked for, also where the CLI's exit code says nothing; a refusal and a
\* dry run changed nothing, a printed entry left the harness's as it was, and the
\* export's file changes only after one of the two (applyPlan: "the entry is in
\* place, and a script should see that").
ReportTruthful ==
  plan.phase = "end" =>
    /\ plan.result \in {"refused", "dryRun"} => entry = was
    /\ plan.result \in {"success", "exportFailed"} =>
         entry = IF plan.applied = "yes" THEN "wanted" ELSE was
    /\ export # "asBefore" => plan.result \in {"success", "exportFailed"}

\* An entry the harness already had is replaced only under --force or because
\* the user said so at the harness's own prompt, whatever the scan missed
\* (runCodex: "the existence check is what makes that overwrite opt-in").
NothingReplacedUnasked ==
  was # "none" /\ entry # was => "force" \in plan.flags \/ agreed = "yes"

\* A setup says what it did, and does what it was allowed to (applyPlan).
HarnessTruthful == ReportTruthful /\ NothingReplacedUnasked
=============================================================================
