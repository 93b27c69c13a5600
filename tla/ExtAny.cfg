SPECIFICATION FairSpec
CONSTANTS
  Users = {u1, u2}
  Calls = {c1, c2, c3}
  Nil = Nil
  Null = Null
  Requests <- AnyRequest
INVARIANT Aligned
PROPERTIES ScoreBelongs AnswerIsComplete AnsweredOnce AnsweredUnlessReplaced ImplementsScoring
