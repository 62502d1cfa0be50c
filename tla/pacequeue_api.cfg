SPECIFICATION Spec
CONSTANTS
  Kinds <- AllKinds
  MaxPush = 5
INVARIANTS TypeOK PushOrder NothingLost QueueBacked
PROPERTY EventLeaves
