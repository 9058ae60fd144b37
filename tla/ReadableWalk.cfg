SPECIFICATION WalkSpec
CONSTANT Top = 6
INVARIANTS AnswerIsRight
CHECK_DEADLOCK FALSE
