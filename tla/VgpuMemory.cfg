SPECIFICATION Spec
CONSTANTS
    Owners = {o1, o2, o3}
    N = 8
    Requests = {0, 1, 3, 4, 8, 9}
SYMMETRY Sym
INVARIANTS TypeOK Disjoint BitmapExact InBlock AvailExact
PROPERTIES RefusedOnlyWhenFull PoolSpec
