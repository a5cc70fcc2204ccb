SPECIFICATION FairSpec
CONSTANTS
    Sensor = {s1, s2}
    Everywhere = everywhere
    Listener = {l1, l2}
    Producer = {p1, p2}
    Worker = {w1, w2}
    None = None
    Capacity = 1
    MaxEvents = 2
INVARIANTS TypeOK OneThread Conserved HeardInFull
PROPERTIES RunningDelivers ImplementsChannel
