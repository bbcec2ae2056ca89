SPECIFICATION Safety
CONSTANTS
    c1 = c1
    c2 = c2
    c3 = c3
    Calls = {c1, c2, c3}
    None = None
    Capacity = 1
    Mode = "Wired"
    MaxUnasked = 0
    Command <- MCCommand
    Address <- MCAddress
INVARIANTS
    ReadsItsAddress
