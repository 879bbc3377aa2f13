SPECIFICATION SubSpec
CONSTANTS
  Ancho = 8
  Bases = {64, 240, 40}
  Pedidas = {0, 2, 3, 6, 13, 14}
  MaxSubredes = 4
INVARIANT SubredesBien
