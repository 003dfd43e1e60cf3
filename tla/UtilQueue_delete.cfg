\* One deleter against sleeping senders and receivers, with fairness.
CONSTANTS
  Senders = {s1, s2}
  Receivers = {r1, r2}
  Deleters = {d}
  Calls <- TwoCalls
  MaxItems = 1
  MaxSends = 3
  MaxOpens = 1
  NoMessage = NoMessage
SPECIFICATION FairSpec
PROPERTY DeleteTerminates
CHECK_DEADLOCK FALSE
