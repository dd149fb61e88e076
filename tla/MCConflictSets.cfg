SPECIFICATION Spec
CONSTANTS
    Outpoints = {o1, o2, o3, o4}
    TemplateTxs = {t1, t2, t3}
    BlockTxs = {b1, b2, b3}
    Unbuildable = {t1, b1}
    None = None
SYMMETRY Symmetry
INVARIANTS ConflictsDisjoint ConflictsAreComponents TaggedExactly
CHECK_DEADLOCK FALSE
