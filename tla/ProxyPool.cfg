CONSTANT PoolSize = 4
SPECIFICATION PoolSpec
INVARIANTS
  CountExact
  PingFollowsLink
  StatusSound
PROPERTY LinkSpec
CHECK_DEADLOCK FALSE
