SPECIFICATION Spec
CONSTANTS
  Scripts <- MCScripts
  Requests <- MCRequests
  Names <- MCNames
  Addresses = {30, 60}
  Messages <- MCMessages
  Counters <- MCCounters
  MaxInt = 99
  Precision = 2
  CoremaskValues = 32
  MAX_KEY_VALUE_PAIRS_COUNT = 3
\* A program ended by an exception at its start, or by a pointer that is
\* none, stays so.
CHECK_DEADLOCK FALSE
INVARIANTS DispatchFollowsRules
           DocumentsAreJson FieldsAreTheBodys AnswersSurvive QueryIsFound
