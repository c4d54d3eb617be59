\* Three routes of eighteen, and every URL of up to six characters.
CONSTANTS
    Letters = {"a", "b"}
    Names = {"x", "y"}
    Routes <- AllRoutes
    Requests <- Urls
    MaxRoutes = 3
    MaxLength = 6
    MaxRedirects = 1
    Asserts = TRUE
SPECIFICATION Spec
INVARIANTS TypeOK TreeIsSound AnswersAreRight MatchIsFound SlashIsHinted
CHECK_DEADLOCK FALSE
