SPECIFICATION Spec
CONSTANTS
  Day = 6
  MaxRamp = 2
  MaxLevel = 1
  Width = 2
  MinPoints <- MCMin
  MaxPoints <- MCMax
  None = None
  Kinds = {"plant_pro"}
  Channels = 1
  Autos <- MCAutos
  Pros <- MCPros
  Polls = 2
  Target = "automatic"
PROPERTIES
  ConfirmedWhenHeld
