SPECIFICATION UsoSpec
CONSTANTS
  fa = fa
  fb = fb
  largo = largo
  bx = bx
  Vacio = Vacio
  ByteMeta = ByteMeta
  Nombres <- MCNombres
  NombresLargos <- MCLargos
  Recortar <- MCRecortar
  Bytes <- MCBytes
  Textos <- MCTextos
  TBLOQUE = 2
  TDIRECTORIO = 2
  CANTIDADBLOQUES = 32
  firstDataBlock <- MCFirstDataBlock
  EntradasGuardadas <- MCEntradasGuardadas
  Directos = 4
  Indirectos = 1
  PalabrasMeta = 16
  MaxFile = 3
INVARIANT
  BloquesMarcados
