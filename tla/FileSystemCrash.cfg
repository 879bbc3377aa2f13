SPECIFICATION CrashSpec
CONSTANTS
  fa = fa
  fb = fb
  fc = fc
  bx = bx
  Vacio = Vacio
  ByteMeta = ByteMeta
  Nombres <- MCNombres
  NombresLargos = {}
  Recortar <- MCRecortar
  Bytes <- MCBytes
  Textos <- MCTextos
  TBLOQUE = 2
  TDIRECTORIO = 2
  CANTIDADBLOQUES = 5
  firstDataBlock = 1
  EntradasGuardadas = 5
  Directos = 1
  Indirectos = 1
  PalabrasMeta = 12
  MaxFile = 2
  MaxCortes = 1
INVARIANTS
  DirectorioTrasCorte
PROPERTIES
  OtrosIntactos
  NombradoLegible
  MarcadosGuardados
  ImplementaLlamadas
CHECK_DEADLOCK FALSE
SYMMETRY Simetria
