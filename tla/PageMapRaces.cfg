CONSTANTS
  Thread = {t1, t2, t3}
  Slot = {1, 2}
  Key <- ThreePages
  Element = {c1}
  Node = {n1, n2, n3, n4, n5}
  Root = root
  Null = null
SPECIFICATION Spec
SYMMETRY Symmetry
INVARIANTS
  NodesAccounted
PROPERTIES
  LookUpSees
  ImplementsPageMap
