SPECIFICATION Spec
CONSTANTS
  Old = Old
  LoaderCode = LoaderCode
  Torn = Torn
  CardMayFail = TRUE
INVARIANTS BootReleasesReset
