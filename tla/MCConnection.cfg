\* Bodies of up to four bytes, in any number of parts.
CONSTANTS
    MaxBody = 4
    WordMax = 15
SPECIFICATION FairSpec
INVARIANTS TypeOK AssertionsHold EveryByteOnce ControllerAnswersLast
PROPERTIES QueuedWhenAllowed ExchangeRefined EveryRequestEnds
