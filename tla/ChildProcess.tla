----------------------------- MODULE ChildProcess -----------------------------
(***************************************************************************)
(* execFile (cli/exec.ts): one run of a harness's CLI by `setup`.  The     *)
(* program may start a helper, in its process group or out of it, that     *)
(* holds its pipes; the exit, the close of the pipes, the timeout and a    *)
(* signal that ends this process come in any order.                        *)
(***************************************************************************)
EXTENDS Naturals

VARIABLES
  spawned,     \* "no", "group" (POSIX: the child leads a group), "single" (Windows)
  program,     \* "none", "running", or how it ended: "ok", "error", "killed"
  helper,      \* "none", "inGroup", "escaped", "gone"
  listening,   \* the handlers of FORWARDED_SIGNALS are installed
  settled,     \* what the run resolved to: "no", "ok", "error", "timedOut", "127"
  self         \* "running", or "ended" by a signal

execVars == <<spawned, program, helper, listening, settled, self>>

ExecTypeOK ==
  /\ spawned \in {"no", "group", "single"}
  /\ program \in {"none", "running", "ok", "error", "killed"}
  /\ helper \in {"none", "inGroup", "escaped", "gone"}
  /\ listening \in BOOLEAN
  /\ settled \in {"no", "ok", "error", "timedOut", "127"}
  /\ self \in {"running", "ended"}

ExecInit ==
  /\ spawned = "no" /\ program = "none" /\ helper = "none"
  /\ listening = FALSE /\ settled = "no" /\ self = "running"

Alive == self = "running"

\* settle: the first event decides, and takes the handlers away.
SettleAs(result) ==
  IF settled = "no" THEN settled' = result /\ listening' = FALSE
  ELSE UNCHANGED <<settled, listening>>

KillProgram ==
  /\ program' = IF program = "running" THEN "killed" ELSE program
  /\ UNCHANGED helper

\* killAll: SIGKILL to the group, which reaches what the program started.
KillAll ==
  /\ program' = IF program = "running" THEN "killed" ELSE program
  /\ helper' = IF spawned = "group" /\ helper = "inGroup" THEN "gone" ELSE helper

\* The spawn, which may throw or report its failure later.
Spawn ==
  /\ Alive /\ spawned = "no"
  /\ spawned' \in {"group", "single"}
  /\ \/ program' = "running" /\ listening' = (spawned' = "group") /\ UNCHANGED settled
     \/ program' = "error" /\ settled' = "127" /\ UNCHANGED listening
  /\ UNCHANGED <<helper, self>>

\* The program starts a helper, and ends; so does the helper.
StartHelper ==
  /\ program = "running" /\ helper = "none"
  /\ helper' \in {"inGroup", "escaped"}
  /\ UNCHANGED <<spawned, program, listening, settled, self>>

ProgramEnds ==
  /\ program = "running"
  /\ program' \in {"ok", "error"}
  /\ UNCHANGED <<spawned, helper, listening, settled, self>>

HelperEnds ==
  /\ helper \in {"inGroup", "escaped"} /\ helper' = "gone"
  /\ UNCHANGED <<spawned, program, listening, settled, self>>

\* 'close': the program is gone and nobody holds its pipes.
Closed ==
  /\ Alive /\ program \in {"ok", "error", "killed"} /\ helper \in {"none", "gone"}
  /\ settled = "no" /\ spawned # "no"
  /\ SettleAs(IF program = "ok" THEN "ok" ELSE "error")
  /\ UNCHANGED <<spawned, program, helper, self>>

\* The timeout, which waits for no 'close'.
TimesOut ==
  /\ Alive /\ spawned # "no" /\ settled = "no"
  /\ KillAll /\ SettleAs("timedOut")
  /\ UNCHANGED <<spawned, self>>

\* SIGINT, SIGTERM or SIGHUP: through the handler, or by the default action; a
\* handler of the host that outlives ours lets the process go on.
Signal ==
  /\ Alive
  /\ IF listening THEN KillAll /\ listening' = FALSE /\ self' \in {"running", "ended"}
     ELSE self' = "ended" /\ UNCHANGED <<program, helper, listening>>
  /\ UNCHANGED <<spawned, settled>>

ExecNext ==
  \/ Spawn \/ StartHelper \/ ProgramEnds \/ HelperEnds
  \/ Closed \/ TimesOut \/ Signal

ExecSpec == ExecInit /\ [][ExecNext]_execVars

-----------------------------------------------------------------------------
\* However the exit, the close, the timeout and a signal interleave, a run that
\* timed out, or that this process did not outlive, left none of the child's
\* process group behind (POSIX); a run reports success only if the program
\* exited 0 with nobody left on its pipes, and no handler outlives its run
\* (execFile: "dies together with what it started").
NothingLeftRunning ==
  /\ spawned = "group" /\ (settled = "timedOut" \/ (self = "ended" /\ settled = "no")) =>
       program # "running" /\ helper # "inGroup"
  /\ settled = "ok" => program = "ok" /\ helper \in {"none", "gone"}
  /\ settled # "no" => ~listening
=============================================================================
