CONSTANTS
  Endpoints = {1}
  Runs = {1, 2}
  Wants <- MCWants
  Stamps = {0, 1}
  MaxAttempts = 2
  MaxEvents = 2
  MaxFaults = 1
  MaxRedeliveries = 1
  MaxRotations = 1
SPECIFICATION Spec
INVARIANTS InRunOrder DeliveringIsPosted AttemptsBounded SignatureVerifiable
CHECK_DEADLOCK FALSE
PROPERTIES DeliveriesSettle
