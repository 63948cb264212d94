CONSTANTS
  nb_bits = 4
  Operands <- MCOperands
  PowerUp <- MCPowerUp
  Latch = "event"
SPECIFICATION BoundSpec
INVARIANTS
  RootBracketed
  RootCorrect
  Archi6Bracketed
  CountExact
PROPERTIES
  ImplementsService
  Archi6ImplementsService
