SPECIFICATION Spec
CONSTANT Ids = {c1, c2}
INVARIANTS
  TypeOK
  IdsDescribeConfig
  LockIsOfLoadedConfig
  RestartReachesCallback
PROPERTIES
  ImplementsRunControl
  LoadIsReported
