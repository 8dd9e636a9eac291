CONSTANTS
  TopicSubjectCount <- MCTopicSubjectCount
  TotalSubjectCount <- MCTotalSubjectCount
  Hashes <- MCHashes
  HeartbeatHash <- MCHeartbeatHash
  MaxEvictions <- MCMaxEvictions
  MaxAge <- MCMaxAge
  NodeIdMax <- MCNodeIdMax
  SubjectIdInvalid <- MCSubjectIdInvalid
  Hints <- MCHints
SPECIFICATION Spec
INVARIANT TypeOK
INVARIANT SubjectIdsUnique
INVARIANT AllocatorAssertHolds
INVARIANT SubscriptionsOnCurrentSubjectIds
PROPERTY AllocationAnnounced
PROPERTY AgeMonotone
