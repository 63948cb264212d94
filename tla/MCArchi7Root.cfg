CONSTANTS
  nb_bits = 4
  Operands <- MCOperands
  PowerUp <- MCPowerUp
SPECIFICATION Spec7
INVARIANTS
  RootCorrect7
