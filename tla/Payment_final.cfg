\* The race of the expiry job with the webhook, nothing failing.
SPECIFICATION Spec
CONSTANTS
  Shipments = {s1}
  NoShipment = NoShipment
  Handlers = {h1}
  Notified <- PaidAndExpired
  MaxFaults = 0
  MaxAttempts = 2
PROPERTY PaidIsFinal
CHECK_DEADLOCK FALSE
