\* One shipment, two concurrent webhook requests, every notification, and the
\* job, with one failure anywhere.
SPECIFICATION Spec
CONSTANTS
  Shipments = {s1}
  NoShipment = NoShipment
  Handlers = {h1, h2}
  Notified <- AllStatuses
  MaxFaults = 1
  MaxAttempts = 2
SYMMETRY HandlerSymmetry
INVARIANTS
  ReadyIsPaid
  AckedIsReady
  MirrorsAgree
  AuditTrail
  PaidOnce
  MailIsTrue
  TakenBackByJob
PROPERTY ImplementsLedger
CHECK_DEADLOCK FALSE
