SPECIFICATION FairSpec
CONSTANT Loads = {l1, l2}
INVARIANT NoOutage
PROPERTIES
  NoStaleMaterial
  RolloverCompletes
