SPECIFICATION GraphSpec

CONSTANTS
  Files = {f1, f2, f3}

INVARIANT ImportedFilesAreNoEntries

CHECK_DEADLOCK FALSE
