SPECIFICATION Spec
CONSTANTS
  Mote = {1, 2, 3}
  Root = 2
  RoutingTable <- LongTable
  Car = {4}
  Voltage = {0}
  BE_NORMALIZE = 5
  CAR_NORMALIZE = 2
  BV_NORMALIZE = 409
  NoMessage = NoMessage
  MaxBeacons = 1
  MaxIter <- Once
  MaxInFlight = 2
INVARIANT BroadcastComplete
