SPECIFICATION Spec
CONSTANTS
  Writers = {w1, w2}
  None = None
  Solo = Solo
  MaxCalls = 2
INVARIANTS
  AnswerIsTrue
  
PROPERTIES
  ImplementsPromise
