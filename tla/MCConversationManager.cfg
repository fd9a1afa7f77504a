SPECIFICATION Spec
CONSTANTS
  Convs = {c1, c2}
  Deliverers = {d1}
  Arrays = {a1, a2, a3}
  NoArray = NoArray
  NoConv = NoConv
  MaxLen = 3
VIEW Read
SYMMETRY Symmetry
INVARIANTS TypeOK NoGhostDelivery ExactWhileQuiet
PROPERTY ImplementsRegistry
