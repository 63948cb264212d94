CONSTANTS
  nb_bits = 4
  Operands <- MCAll
  PowerUp <- MCPowerUp
  DivByZero <- MCDivByZero
SPECIFICATION HeldSpec
INVARIANTS
  RootCorrect
