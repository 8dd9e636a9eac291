CONSTANTS
  TopicSubjectCount <- MCTopicSubjectCount
  TotalSubjectCount <- MCTotalSubjectCount
  Hashes <- MCHashes
  HeartbeatHash <- MCHeartbeatHash
  MaxEvictions <- MCMaxEvictions
  MaxAge <- MCMaxAge
  NodeIdMax <- MCNodeIdMax
  SubjectIdInvalid <- MCSubjectIdInvalid
  Hints <- MCHintsOutside
SPECIFICATION Spec
INVARIANT TopicNewReturns
