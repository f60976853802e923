CONSTANTS
    a = a
    b = b
    p = p
    ch = ch
    pat1 = pat1
    pat2 = pat2
    message = message
    pmessage = pmessage
    None = None
    Clients <- MCClients
    Publishers = {a, p}
    Mortal = {b, p}
    Pollers = {a}
    Waits = {"forever", "reply"}
    TopicsOf <- MCTopics
    Channels <- OneChannel
    Patterns <- OnePattern
    Matching <- MatchAll
    MaxMessages = 1
SPECIFICATION LiveSpec
PROPERTY KeepsOthers
CHECK_DEADLOCK FALSE
