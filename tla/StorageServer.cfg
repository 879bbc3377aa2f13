SPECIFICATION ServerSpec
CONSTANTS
  gato = gato
  pato = pato
  oso = oso
  bx = bx
  by = by
  h1 = h1
  h2 = h2
  Vacio = Vacio
  ByteMeta = ByteMeta
  Nombres <- MCFiguras
  NombresLargos = {}
  Recortar <- MCRecortar
  Bytes = {bx, by}
  Textos <- MCTextos
  TBLOQUE = 2
  TDIRECTORIO = 2
  CANTIDADBLOQUES = 5
  firstDataBlock = 1
  EntradasGuardadas = 5
  Directos = 1
  Indirectos = 1
  PalabrasMeta = 12
  MaxFile = 1
  Objetos <- MCObjetos
  Descriptores = {3, 4, 5, 6}
  Hilos <- MCHilos
  Pedidos <- MCPedidos
  MaxPedidos = 2
  MAXBUF = 1
  Gato = gato
  GatoTexto <- MCGatoTexto
  Anteriores <- MCAnteriores
  Falta = Falta
INVARIANTS
  DescriptoresJustos
  SanoSalvoEntremedio
PROPERTIES
  RespuestaFechada
  Contestados
CHECK_DEADLOCK FALSE
