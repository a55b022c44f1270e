CONSTANTS
    p1 = p1
    p2 = p2
    x = x
    y = y
    NoPlay = NoPlay
    Plays = {p1, p2}
    Ctids = {x, y}
SPECIFICATION WarehouseSpec
INVARIANTS
    PlaybackCleanable
