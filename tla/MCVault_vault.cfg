CONSTANTS
  p1 = p1
  p2 = p2
  Paths = {p1, p2}
  Configs <- ThreeConfigs
  MaxEvents = 2
SPECIFICATION FairSpec
CHECK_DEADLOCK FALSE
INVARIANTS TypeOK CopiesFollow StatusHonest MetricsRemoved
PROPERTIES Converges DeletionCompletes NoOrphan
