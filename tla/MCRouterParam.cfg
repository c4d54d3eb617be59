\* Two routes of eighteen, and every URL of up to four characters.
CONSTANTS
    Letters = {"a", "b"}
    Names = {"x", "y"}
    Routes <- AllRoutes
    Requests <- Urls
    MaxRoutes = 2
    MaxLength = 4
    MaxRedirects = 1
    Asserts = TRUE
SPECIFICATION Spec
INVARIANTS EveryParamBound
CHECK_DEADLOCK FALSE
