SPECIFICATION Spec
CONSTANTS
  Servidores = {1, 2}
  Conformes = {1}
  f1 = f1
  f2 = f2
  h1 = h1
  h2 = h2
  Figuras = {f1, f2}
  Hilos = {h1, h2}
  MaxPedidos = 2
  MaxArranques = 2
  Anomalias <- Todas
  MaxAnomalias = 1
  Nadie = nadie
  Ninguno = 0
INVARIANTS
  TypeOK
  IndiceExacto
  Reparto
PROPERTIES
  ImplementaIndice
  TodosRespondidos
CHECK_DEADLOCK FALSE
