CONSTANTS
  nb_bits = 4
  Operands <- MCOperands
  PowerUp <- MCPowerUp
  Latch = "transparent"
SPECIFICATION HandshakeSpec
INVARIANTS
  RootCorrect6
