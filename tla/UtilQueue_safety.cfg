\* Two senders, one receiver and two threads that may both delete the queue.
CONSTANTS
  Senders = {s1, s2}
  Receivers = {r}
  Deleters = {d1, d2}
  Calls <- TwoCalls
  MaxItems = 2
  MaxSends = 4
  MaxOpens = 2
  NoMessage = NoMessage
SPECIFICATION Spec
INVARIANTS
  TypeOK
  RefcountExact
  NoUseAfterFree
  UniqueEvents
  ReceiveWakeup
PROPERTY Promise
CHECK_DEADLOCK FALSE
