CONSTANTS
  nb_bits = 4
  Operands <- MCOperands
  PowerUp <- MCPowerUp
  BusPowerUp <- MCPowerUp
  CascadeOperands = {0, 16, 255}
  StreamOperands = {0, 15, 16, 170, 255}
SPECIFICATION BoundSpec
INVARIANTS
  DigitsKnown
  RootCorrect
  CascadeCorrect
  StreamCorrect
  SwapAlone
PROPERTIES
  ImplementsService
  Archi4Settles
