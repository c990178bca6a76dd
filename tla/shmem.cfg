CONSTANTS
    Proc = {p1, p2}
    PageCount = 2
    LevelCount = 3
    Width <- MCWidth
    BlockSize = 8
    HdrSize = 3
    Size = {5, 6, 29, 30}
    MaxHeld = 2
SYMMETRY Symmetry
SPECIFICATION Spec
INVARIANTS BlocksDisjoint BitmapExact RefusedOnlyWhenFull FoldingCorrect
