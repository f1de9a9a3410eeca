SPECIFICATION Spec
CONSTANTS
  Producer = {p1, p2, p3}
  Consumer = {c1, c2, c3}
  sz = 2
INVARIANTS TypeOK WakeupsSuffice
PROPERTY IsStack
