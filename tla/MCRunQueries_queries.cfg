CONSTANTS
  Runs = {1, 2, 3, 4}
  Records <- MCRecords
  Worlds <- MCWorlds
  Queries <- MCQueries
  Configs <- MCConfigs
  BatchSize = 2
  DefaultLimit = 2
  MaxChanges = 2
  None = None
SPECIFICATION Spec
INVARIANTS TypeOK AnswersAreThePage AnswersComeFromThePlan UnlimitedAnswersMissNothing WalksAreComplete CancelledQueriesGiveNoAnswer
PROPERTY EveryWalkEnds
