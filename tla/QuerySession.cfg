CONSTANTS
    Documents = {d1}
    Mails = {m1}
    Questions = 2
    Attempts = 2
    MaxCancels = 1
SPECIFICATION FairSpec
INVARIANTS OneAnswerEach CancelReaches
PROPERTIES AnswersRespectPolicy QuestionEnds
CHECK_DEADLOCK FALSE
