SPECIFICATION Spec
CONSTANTS
    Keys <- ItemKeys
    Contents = {ship, fuel, blank, torn}
    Drawable = {ship, fuel}
    Unreadable = {torn}
    Banner = ship
    Addrs = {a1, a2, a3, a4}
    XIds = {x1, x2, x3, x4, x5}
    Free = Free
    NoAddr = NoAddr
    None = None
    Nothing = Nothing
    Unfilled = Unfilled
    View = View
INVARIANTS OneOwner CapturesItself FrameShowsStore ClosesEmptyHanded
CHECK_DEADLOCK FALSE
