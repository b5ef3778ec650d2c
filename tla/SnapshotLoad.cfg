SPECIFICATION FairSpec
CONSTANTS
  Old = Old
  LoaderCode = LoaderCode
  Torn = Torn
  CardMayFail = TRUE
INVARIANTS TypeOK
PROPERTIES ExecutesWhatWasLoaded PcForcedAtRest OpenedSnapshotRuns
