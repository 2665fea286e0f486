CONSTANTS
    Heads = {h1, h2}
    Entries = {e1, e2, e3}
    class = h1
    other = h2
    Listed = 3
    NULL = NULL
    LIST_POISON1 = LIST_POISON1
    LIST_POISON2 = LIST_POISON2
    Buckets = {b1, b2}
    Nodes = {n1, n2, n3}
    HNULL = HNULL
    HPOISON = HPOISON
    head = head
    Items = {i1, i2, i3, i4}
    NIL = NIL
    JUNK = JUNK
SPECIFICATION Spec
SYMMETRY Symmetry
INVARIANTS
    DoublyLinked
    WalkSeesEach
    CarefulMeansDone
    HashLinked
PROPERTIES
    KeepsSequences
    ChainsKeepSequences
\* The loops end, and the memory for nodes runs out.
CHECK_DEADLOCK FALSE
