------------------------------ MODULE MCCommands ------------------------------
(***************************************************************************)
(* What the commands do beside others, on small instances.  They share no  *)
(* state, so one of them runs at a time: `setup claude` again and again,   *)
(* `setup` of another harness once, one `update-memory`, one run of a      *)
(* harness's CLI, one list of every agent, or one stream that the proxy    *)
(* reads.                                                                  *)
(***************************************************************************)
EXTENDS ClaudeSetup, HarnessSetup, MemoryUpdate, ChildProcess, Paging, MessageFraming, TLC

\* Nothing tells one key from another.
KeySymmetry == Permutations(Keys)

\* The initial values under which each leaves the others' variables.
ClaudeUnused == claude.user = None /\ runs = 0 /\ outside = 0
HarnessUnused == plan.phase = "begin" /\ entry = "none"
UpdateUnused == command.phase = "patch" /\ command.asked = {} /\ wrote = {} /\ edits = 0 /\ era = 4
ExecUnused == spawned = "no" /\ self = "running"
PagingUnused == registered = 0 /\ listing.phase = "paging"
FramingUnused == feed = "none"

MCInit == Init /\ HarnessInit /\ UpdateInit /\ ExecInit /\ PagingInit /\ FramingInit

Setup ==
  /\ UpdateUnused /\ ExecUnused /\ PagingUnused /\ FramingUnused
  /\ \/ HarnessUnused /\ Next /\ UNCHANGED harnessVars
     \/ ClaudeUnused /\ HarnessNext /\ UNCHANGED vars
  /\ UNCHANGED <<updateVars, execVars, pagingVars, framingVars>>

Others ==
  /\ ClaudeUnused /\ HarnessUnused /\ UNCHANGED <<vars, harnessVars>>
  /\ \/ /\ FramingUnused /\ UNCHANGED framingVars
        /\ \/ ExecUnused /\ PagingUnused /\ UpdateNext /\ UNCHANGED <<execVars, pagingVars>>
           \/ UpdateUnused /\ PagingUnused /\ ExecNext /\ UNCHANGED <<updateVars, pagingVars>>
           \/ UpdateUnused /\ ExecUnused /\ PagingNext /\ UNCHANGED <<updateVars, execVars>>
     \/ /\ UpdateUnused /\ ExecUnused /\ PagingUnused /\ FramingNext
        /\ UNCHANGED <<updateVars, execVars, pagingVars>>

MCNext == Setup \/ Others

MCSpec == MCInit /\ [][MCNext]_<<vars, harnessVars, updateVars, execVars, pagingVars, framingVars>>
=============================================================================
