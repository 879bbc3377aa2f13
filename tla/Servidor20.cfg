SPECIFICATION Spec
CONSTANTS
  gato = gato
  pato = pato
  oso = oso
  bx = bx
  by = by
  Basura = basura
  Figuras = {gato, pato, oso}
  Bytes = {bx, by, basura}
  Clientes = {c1, c2}
  Pedidos <- MCPedidos
  Gato = gato
  cat <- MCcat
  Trozos <- MCTrozos
  Vacio = vacio
  TBLOQUE = 2
  TUNIDAD = 3
  TDIRECTORIO = 2
  Directos = 2
  Cabe = 3
  MaxConexiones = 3
  MaxVidas = 2
INVARIANT UnidadSana
PROPERTIES
  SoloCrece
  ClienteSuelto
CHECK_DEADLOCK FALSE
