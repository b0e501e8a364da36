CONSTANTS
    NoDoc = NoDoc
    NoId = NoId
    Collection = {c1}
    Id = {1, 2, 3}
    Value = {1, 2, 3}
    Subscriber = {}
    MaxOps = 2
    MaxCommits = 2
    Watched = c1
    Matching = {1, 2}
    Limit = 2
    Having = 2
    Watch = {"matching", "window", "rows"}
    AtOnce = 1
SPECIFICATION StartSpec
INVARIANTS
    EventsFit
    ViewsFollow
