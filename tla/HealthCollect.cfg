SPECIFICATION OrderedSpec
CONSTANTS
  Replicas = {a, b}
  Owners = {a, b}
  Observations = {o1, o2}
  Retention = 2
  MaxBuckets = 1
  MaxSnapshots = 2
  MaxTries = 2
  FirstMinute = 2
  LastMinute = 3
  MaxEvents = 1
INVARIANTS TypeOK Accounted
PROPERTIES CollectionGoesOn
