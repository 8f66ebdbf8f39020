CONSTANTS
  e1 = e1
  e2 = e2
  e3 = e3
  Workers = {w1, w2}
  Events = {e1, e2, e3}
  ViaBus = {e3}
  Consumers = 2
  Poison <- TwoArePoison
  BatchSize = 2
  Clock = {1, 2}
  MaxFaults = 1
SPECIFICATION FairSpec
INVARIANTS TypeOK FactsAreCommitted
PROPERTIES ImplementsDelivery HealthyIsDelivered
CHECK_DEADLOCK FALSE
