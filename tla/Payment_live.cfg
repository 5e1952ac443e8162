\* Xendit notifies everything but PENDING and need not expire an invoice; two
\* failures anywhere.
SPECIFICATION FairSpec
CONSTANTS
  Shipments = {s1}
  NoShipment = NoShipment
  Handlers = {h1}
  Notified <- NoPending
  MaxFaults = 2
  MaxAttempts = 2
PROPERTIES
  ExpiryHappens
  JobSettles
  PaidIsHonoured
CHECK_DEADLOCK FALSE
