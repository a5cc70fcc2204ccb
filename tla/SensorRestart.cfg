SPECIFICATION FairSpec
CONSTANTS
    Sensor = {s1}
    Everywhere = everywhere
    Listener = {l1}
    Producer = {p1}
    Worker = {w1, w2}
    None = None
    Capacity = 1
    MaxEvents = 4
PROPERTY PollingGoesOn
