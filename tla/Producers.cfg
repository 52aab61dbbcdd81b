SPECIFICATION Spec
CONSTANTS
  SyncProducers = {s}
  AsyncProducers = {a}
  ModuleProducer = k
  Prefixes = {x}
  Messages = {m1, m2}
CHECK_DEADLOCK FALSE
INVARIANT PrefixOwned
PROPERTIES
  MessagesAnswered
  ImplementsModule
