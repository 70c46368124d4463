\* A webhook is deleted, or a connection closed, while an event is sent.
CONSTANTS
  Conns = {c1}
  Sns = {0}
  Hooks = {u1}
  Capacity = 2
  ClientOps = {"identify"}
  Faulty = {}
  MayShutdown = TRUE
SPECIFICATION Spec
PROPERTY OnlyRegistrationAdds
CHECK_DEADLOCK FALSE
