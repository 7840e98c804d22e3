SPECIFICATION FairSpec
CONSTANT
  Words <- MCWords
  Delimiters <- MCDelimiters
  Confs <- MCConfs
INVARIANTS
  TypeOK
  AnswerableSucceeds
  HeardMeansSaid
PROPERTY
  BothEnd
CHECK_DEADLOCK FALSE
