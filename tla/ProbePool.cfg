SPECIFICATION FairSpec
CONSTANTS
  host1 = host1
  host2 = host2
  Entries <- MCEntries
  Key <- MCKey
  Workers = 2
  Count = 1
  MaxCount = 2
  MaxRuns = 2
INVARIANTS TableShowsOutcome NoOldRow
PROPERTIES RunEnds
CHECK_DEADLOCK FALSE
