\* Three setups of Claude Code with two failures and two changes by somebody
\* else, or one setup of another harness with one failure, or one update of a
\* memory with two edits by others and two failed or odd answers, or
\* five agents on pages of two, at most three of them, or any stream of
\* six bytes in any chunks, with messages of up to two.
CONSTANTS
  Keys = {k1, k2}
  Urls = {u1}
  Ref = Ref
  None = None
  MaxRuns = 3
  MaxFaults = 2
  MaxOutside = 2
  MaxHarnessFaults = 1
  MaxEdits = 2
  MaxUpdateFaults = 2
  PageSize = 2
  MaxPages = 3
  MaxAgents = 5
  MaxMessage = 2
  MaxInput = 6
SPECIFICATION MCSpec
SYMMETRY KeySymmetry
INVARIANTS SuccessIsEffective SetupAccounted KeysKept HarnessTruthful UpdateTruthful NothingLeftRunning ListedOnce FramesAsSent
CHECK_DEADLOCK FALSE
