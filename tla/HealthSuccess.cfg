SPECIFICATION Spec
CONSTANTS
  Replicas = {a}
  Owners = {a}
  Observations = {o1}
  Retention = 1
  MaxBuckets = 1
  MaxSnapshots = 2
  MaxTries = 2
  FirstMinute = 1
  LastMinute = 2
  MaxEvents = 2
PROPERTIES SuccessRemembered
