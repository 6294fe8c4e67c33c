SPECIFICATION Spec
CONSTANT Starts <- MCStarts
CHECK_DEADLOCK FALSE
INVARIANTS FirstFileWins LoadedAsWritten ElementsFit ExecFaithful ScanFits MatchFaithful
