SPECIFICATION Spec
CONSTANTS
    Workers = {w1}
    Clients = {c1, c2}
    Boxes = {x, y}
    LongNames = {c1, y}
    Sizes = {5}
    MaxListed = 2
    Message = Message
    Nul = Nul
    Bar = Bar
    Stray = Stray
    None = None
CHECK_DEADLOCK FALSE
INVARIANTS
    CountsInTheirColumns
