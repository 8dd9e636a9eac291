CONSTANTS
  n1 = n1
  n2 = n2
  Node <- MCNode
  Creatable <- MCCreatableLive
  TopicSubjectCount <- MCTopicSubjectCount
  TotalSubjectCount <- MCTotalSubjectCount
  Hashes <- MCHashes
  HeartbeatHash <- MCHeartbeatHash
  MaxEvictions <- MCMaxEvictions
  MaxAge <- MCMaxAge
  NodeIdMax <- MCNodeIdMax
  SubjectIdInvalid <- MCSubjectIdInvalid
  MaxInbox <- MCMaxInbox
SPECIFICATION Spec
PROPERTY Convergence
