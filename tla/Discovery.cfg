SPECIFICATION FairSpec
CONSTANTS
  Ports = {1, 2}
  Handsets <- MCHandsets
  Uniq <- MCUniq
  ModelFile <- MCModelFile
  NoFile = NoFile
  Ids = {"id1"}
  Nobody = Nobody
  MaxPlugs = 3
INVARIANTS TypeOK FoundIsWhole FoundIsOne NotMissed
PROPERTY FoundInTheEnd
CHECK_DEADLOCK FALSE
