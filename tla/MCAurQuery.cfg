SPECIFICATION FairSpec
CONSTANTS
  Names = {1, 2, 3}
  Junk = junk
  Hash <- MCHash
  GitNames = {2}
  NoText = null
  Garbage = garbage
  Absent = absent
  Versions = {1, 2, 3}
  Bases = {11, 12, 13}
  Requests <- MCRequests
  Answers <- MCAnswers
  MaxOptions = 0
INVARIANTS
  TypeOK
  TableSound
  NothingDropped
  AnswerApplied
  BaseBeforeUse
  DiesOfMisreading
PROPERTIES
  QueryEnds
  KeepsDictionary
CHECK_DEADLOCK FALSE
