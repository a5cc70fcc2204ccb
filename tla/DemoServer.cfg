SPECIFICATION FairSpec
CONSTANTS
    Ping = ping
    Health = health
    Echo = echo
    custom = custom
    Custom = {custom}
    Priority <- MCPriority
    Serves <- MCServes
    None = None
    MaxHandlers = 4
    Changing = {custom}
    Conn = {c1, c2, c3}
    Sender = {c1, c2}
INVARIANTS TypeOK  ListedOnce ToldOnce
PROPERTIES MissedForGone ProcessingEnds
