SPECIFICATION DHSpec
CONSTANTS
  Partes = {alice, bob}
  Parametros <- MCParametros
INVARIANT SecretosIguales
CHECK_DEADLOCK FALSE
