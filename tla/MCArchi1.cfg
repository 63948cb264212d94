CONSTANTS
  nb_bits = 4
  Operands <- MCOperands
  PowerUp <- MCPowerUp
  DivByZero <- MCDivByZero
SPECIFICATION FairHeldSpec
INVARIANTS
  NeverBelowRoot
  WithinBudget
PROPERTIES
  Descends
  ImplementsService
