SPECIFICATION Spec
CONSTANTS
  c1 = c1
  c2 = c2
  c3 = c3
  triangle = triangle
  duck = duck
  dibujo = dibujo
  pato = pato
  vacio = vacio
  Clientes <- MCClientes
  Figuras <- MCFiguras
  Cuerpos <- MCCuerpos
  Vacio = vacio
  Precargada = triangle
  Dibujo = dibujo
  Programas <- MCProgramas
  MaxLlamadas = 10
INVARIANTS
  TypeOK
  RespuestasEnOrden
  CierreSinPerdidas
PROPERTIES
  TodasEntregadas
  FinDeMain
  ColasBloqueantes
CHECK_DEADLOCK FALSE
