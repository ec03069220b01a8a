CONSTANTS
  e1 = e1
  e2 = e2
  e3 = e3
  e4 = e4
  n1 = n1
  n2 = n2
  n3 = n3
  me = me
  t1 = t1
  t2 = t2
  Evidence = {e1, e2, e3, e4}
  Names = {n1, n2, n3}
  Owner = me
  NoOne = NoOne
  NoItem = NoItem
  NoAnswer = NoAnswer
  Answers <- MCAnswers
  MaxWaiting = 2
  MaxLost = 1
SYMMETRY Symmetry
CHECK_DEADLOCK FALSE
SPECIFICATION Spec
INVARIANTS WorldIsWhole
PROPERTIES AnswersHold
