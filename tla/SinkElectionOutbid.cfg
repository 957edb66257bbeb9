SPECIFICATION Spec
CONSTANTS
  Mote = {1, 2}
  Root = 2
  RoutingTable <- ShortTable
  Car = {4}
  Voltage = {0, 409}
  BE_NORMALIZE = 5
  CAR_NORMALIZE = 2
  BV_NORMALIZE = 409
  NoMessage = NoMessage
  MaxBeacons = 0
  MaxIter <- Thrice
  MaxInFlight = 2
INVARIANT OutbidderIsSink
