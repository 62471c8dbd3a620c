SPECIFICATION FuturesSpec
CONSTANTS
  Promise = {p1,p2,p3}
  Future = {f1,f2,f3}
  Null = Null
SYMMETRY Symmetry
INVARIANTS NoDangling
PROPERTY ImplementsPromises
