SPECIFICATION Spec
CONSTANTS
    Types = {"resource", "fence"}
    Holders = {h1, h2, h3}
    Width <- SmallWidths
    MaxCount = 5
SYMMETRY Sym
INVARIANTS TypeOK UniqueIds
