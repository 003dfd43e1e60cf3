\* Two senders share a queue of two items.
CONSTANTS
  Senders = {s1, s2}
  Receivers = {r}
  Deleters = {d}
  Calls <- TwoCalls
  MaxItems = 2
  MaxSends = 4
  MaxOpens = 1
  NoMessage = NoMessage
SPECIFICATION Spec
INVARIANT SendWakeup
CHECK_DEADLOCK FALSE
