SPECIFICATION UsoSpec
CONSTANTS
  fa = fa
  fb = fb
  fc = fc
  largo = largo
  bx = bx
  Vacio = Vacio
  ByteMeta = ByteMeta
  Nombres <- MCNombres
  NombresLargos <- MCLargos
  Recortar <- MCRecortar
  Bytes <- MCBytes
  Textos <- MCTextos
  TBLOQUE = 2
  TDIRECTORIO = 3
  CANTIDADBLOQUES = 5
  firstDataBlock = 1
  EntradasGuardadas = 5
  Directos = 1
  Indirectos = 1
  PalabrasMeta = 12
  MaxFile = 2
INVARIANTS
  TypeOK
  SinEnlacesCruzados
  BitmapExacto
  DirectorioCompacto
  SinHuecos
  RecargaFiel
PROPERTIES
  ImplementaAlmacen
SYMMETRY Simetria
