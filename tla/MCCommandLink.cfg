SPECIFICATION Spec
CONSTANTS
  WordMod = 11
  Header = 10
  MaxPayload = 6
  Words = {}
  Commands <- MCCommands
PROPERTIES
  ImplementsLossyLink
  FrameArrives
