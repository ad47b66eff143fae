\* Three connections to one character, the third of another version.
CONSTANTS
  MaxClients = 3
  MaxKeys = 2
  Version <- TwoVersions
SPECIFICATION FairSpec
INVARIANTS FoundIsLive PlayingIsFound BlankIsNeverSaved
  KeyAdmitsOnce
PROPERTIES LinkdeadEnds
CHECK_DEADLOCK FALSE
