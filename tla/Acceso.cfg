SPECIFICATION Spec
CONSTANTS
  Clientes = {c1, c2, c3}
  Limite = 3
  MaxHilos = 2
  MaxVidas = 2
PROPERTIES
  CaidaConCausa
  ClienteSuelto
CHECK_DEADLOCK FALSE
