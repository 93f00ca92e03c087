SPECIFICATION Spec
CHECK_DEADLOCK FALSE
INVARIANTS
  CatalogueRules
  HardwareRules
  FigureRules
  BenchRules
  TableRules
  PublicRules
