SPECIFICATION Spec
CONSTANTS
  Mote = {1, 2, 3}
  Root = 2
  RoutingTable <- ShortTable
  Car = {4}
  Voltage = {0, 409}
  BE_NORMALIZE = 5
  CAR_NORMALIZE = 2
  BV_NORMALIZE = 409
  NoMessage = NoMessage
  MaxBeacons = 0
  MaxIter <- TwiceMote3
  MaxInFlight = 2
INVARIANTS
  SinkNoWorse
