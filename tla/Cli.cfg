SPECIFICATION Spec
CONSTANTS
  Calls = {1, 2}
  Programs <- MCPrograms
  Files = {"big", "small", "empty"}
  Dirs = {"top", "sub"}
  Texts = {"big"}
  Roots = {"top", "big"}
  Entries <- MCEntries
  Size <- MCSize
INVARIANTS StartedTogether NothingOutlivesExecutor SilentSuccessIsWhole
PROPERTIES CommandsEnd
CHECK_DEADLOCK FALSE
