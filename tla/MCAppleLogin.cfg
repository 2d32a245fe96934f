SPECIFICATION Spec
CONSTANTS
  Posters <- MCPosters
  MaxPrompts = 6
  MaxAttempts = 5
  Trusted <- MCTrusted
  FirstNumber = 1
INVARIANTS
  TypeOK
  AnsweredOnce
  AskingIsAnswerable
  ResendIsSent
  ReasonIsOfTheAnswerBefore
PROPERTIES
  PromptEnds
  ImplementsOneAnswer
  SignInEnds
CHECK_DEADLOCK FALSE
