SPECIFICATION Spec
CONSTANTS
  conejo = conejo
  texto = texto
  viejo = viejo
  f1 = f1
  f2 = f2
  Nadie = Nadie
  Forks = {f1, f2}
  Comandos <- MCComandos
  Iniciales <- MCIniciales
  Otros <- MCOtros
  Grandes = {viejo}
  EnUnaLista = 2
  MaxComandos = 3
  MaxNumero = 8
  MaxSesiones = 3
  MaxMuertes = 1
  Limite = 4
INVARIANTS
  RespuestaPropia
  SesionesPosibles
PROPERTIES
  NuncaSobrescribe
  ForkContestado
CHECK_DEADLOCK FALSE
