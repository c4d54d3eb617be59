\* Five calls on a barrier for three, two more than it is built for; three forms
\* on one thread; a response sent twice; three routes by two
\* methods of one rank; three regular expressions; three callers with a look-up
\* each.
CONSTANTS
    r1 = r1
    r2 = r2
    r3 = r3
    t1 = t1
    Requests = {r1, r2, r3}
    Threads = {t1}
    ThreadOf <- OneThread
    Keys = {k}
    Files = {f}
    NoOne = none
    Responses = {p1}
    Sends = {q1, q2}
    Blocks = {b1, b2}
    Contents = {x, y}
    type = type
    server = server
    serve = serve
    FieldNames = {type, server, serve}
    PrefixOf <- PrefixPairs
    TypeName = type
    ServerName = server
    Nothing = nothing
    Controllers = {c1, c2, c3}
    Methods = {"HEAD", "PATCH"}
    Rank <- Ranks
    Words = {"HEAD", "HEADX", "PATCH", "BREW"}
    Begins <- Began
    Paths = {"/a"}
    Prefixes = {"/p", "/p/"}
    Good = {"/p"}
    Absent = absent
    MaxRoutes = 3
    Objects = {o1, o2, o3}
    Cells = {m1, m2, m3, m4}
    Null = null
    Callers = {n1, n2, n3}
    MaxLookups = 1
    Calls = {w1, w2, w3, w4, w5}
    Total = 3
    WordMax = 15
SPECIFICATION PartsSpec
INVARIANTS TypeOK NoEarlyExit WrapsOnlyWhenOversubscribed
           PieceOfItsRequest NamesOfOwnBody
           SentIsWanted BlocksOwned KeysApart
           ControllersAlive RoutesServed AnswersRegistered
           NothingLeaks CodeOwnsBlocks
           AskedWhenReady
PROPERTIES AllPass LookupsReturn LibraryReleased
CHECK_DEADLOCK FALSE
