SPECIFICATION FairSpec
CONSTANTS
  Calls <- AllCalls
  RetryOn = {"listed", "busy"}
  Answers = 1
  MaxAttempts = 3
  MaxAsks = 3
INVARIANTS
  TypeOK
  LastAttemptAnswers
  QuestionsEndTheCall
  OneAttemptAtATime
PROPERTIES
  CallEnds
