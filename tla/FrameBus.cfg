SPECIFICATION BusSpec
CONSTANTS
  WordMod = 6
  Header = 5
  MaxPayload = 4
  Words = {0, 4, 5}
INVARIANTS
  PayloadFits
  DeliveredWasHeard
  FrameIsDelivered
