SPECIFICATION FairSpec
CONSTANTS
  j1 = j1
  j2 = j2
  None = None
  Slots <- MCSlots
  Releases <- MCReleases
  Current <- MCCurrent
INVARIANTS OnlyVerifiedUpdatesRun QuestionsAreAboutUpdates NothingNewerMissed OneUpdateAtATime
PROPERTIES BusyClears
CHECK_DEADLOCK FALSE
