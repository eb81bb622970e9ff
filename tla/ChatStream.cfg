SPECIFICATION Spec
CONSTANT
    Answer = 3
INVARIANTS
    HandlerLeavesNothingBehind
PROPERTIES
    DeliversAnswer
    AbandonedRequestEnds
    AnswerSettles
CHECK_DEADLOCK FALSE
