CONSTANTS
    Blocks = {b1, b2}
    Commands = {c1, c2}
    MaxID = 2
    Zero = Zero
    Half = Half
    NoFile = NoFile
SPECIFICATION Spec
SYMMETRY Symmetry
INVARIANTS
    TypeOK
    OneBlockPerID
    BlockIsListed
    SignalsHitBlocks
\* When all blocks are gone, nothing is left to happen.
CHECK_DEADLOCK FALSE
