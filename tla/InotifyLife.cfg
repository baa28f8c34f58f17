CONSTANTS
  Callers = {c1, c2}
  Capacity = 1
  MaxCalls = 3
  MaxEvents = 1
SPECIFICATION Spec
INVARIANTS DescriptorNotReused
PROPERTIES KeepsPromise CallsReturn
CHECK_DEADLOCK FALSE
