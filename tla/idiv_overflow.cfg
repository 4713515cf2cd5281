SPECIFICATION AluSpec
CONSTANTS
  RegisterBits = 8
  Limbs = {0, 9, 10, 127, 128, 255}
  Programs <- Idioms
INVARIANT DivideErrors
