CONSTANTS
    games = games
    chat = chat
    d1 = d1
    d2 = d2
    d3 = d3
    all = all
    flat = flat
    w1 = w1
    sweep = sweep
    Service = {games, chat}
    Device = {d1, d2, d3}
    Allowed <- MCAllowed
    Known = {d1, d3}
    Reader = {all, flat}
    Writer = {w1, sweep}
    Depth <- MCDepth
    Cleaner = sweep
    TTL = 1
    Gone = Gone
    None = None
SPECIFICATION Spec
INVARIANT NoWaitCycle
CHECK_DEADLOCK FALSE
