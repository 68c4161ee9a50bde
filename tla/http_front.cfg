SPECIFICATION Spec
INVARIANTS
  HealthIsHonest
  RedisIsOptional
