SPECIFICATION TSQSpec
CONSTANTS
  Productores = {p1, p2}
  Consumidores = {c1, c2}
  Sondeadores = {s1}
  Elementos = {e1, e2}
  Tope = 5
INVARIANTS
  TSQTypeOK
  PermisosCubren
CHECK_DEADLOCK FALSE
