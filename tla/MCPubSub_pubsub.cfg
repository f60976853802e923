CONSTANTS
    a = a
    b = b
    p = p
    ch = ch
    pat1 = pat1
    pat2 = pat2
    message = message
    pmessage = pmessage
    None = None
    Clients <- MCClients
    Publishers = {p}
    Mortal = {b, p}
    Pollers = {a}
    Waits = {"reply"}
    TopicsOf <- MCTopics
    Channels <- OneChannel
    Patterns <- OnePattern
    Matching <- MatchAll
    MaxMessages = 2
SPECIFICATION LiveSpec
INVARIANTS SubscriptionsAgree SleepsOnlyInRace FreshCommits
PROPERTIES Delivers Served CallsEnd
CHECK_DEADLOCK FALSE
