CONSTANTS
  t1 = t1
  t2 = t2
  f1 = f1
  f2 = f2
  NoTopic = NoTopic
  None = None
  Topics <- MCTopics
  Futures <- MCFutures
  TransferIdMask <- MCMaskCan
  TidStarts <- MCTidStartsCan
  MaxPublish <- MCMaxPublish
  MaxTime = 2
SPECIFICATION LiveSpec
INVARIANT TypeOK
INVARIANT IndicesAgree
PROPERTY SweepComplete
PROPERTY FutureContract
PROPERTY FuturesComplete
