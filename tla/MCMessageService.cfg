CONSTANTS
  t1 = t1
  t2 = t2
  t3 = t3
  q1 = q1
  q2 = q2
  q3 = q3
  q4 = q4
  NoQueue = NoQueue
  NoMessage = NoMessage
  Tasks <- MCTasks
  Queues <- MCQueues
  Capacity <- MCCapacity
  Workloads <- MCWorkloads
  Priorities = {0, 1, 2, 3}
  MAX_QUEUES = 2
  MAX_TASK_QUEUES = 2
  MAX_REGISTERED_TASKS = 2
  MESSAGE_FLAG_BLOCKING = 32
SPECIFICATION Spec
INVARIANTS
  TypeOK
  RingIsWhole
  PlacesAccountedFor
  RegistryMatchesCalls
PROPERTIES
  RepliesAreNotRedirected
  BehavesAsLists
