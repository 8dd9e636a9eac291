CONSTANTS
  NameMax <- MCNameMax
  TotalSubjectCount <- MCTotalSubjectCount
  TopicSubjectCount <- MCTopicSubjectCount
  SubjectIdInvalid <- MCSubjectIdInvalid
  User <- MCUser
  NamespaceArgs <- MCNamespaceArgs
  RawNames <- MCRawNames
SPECIFICATION Spec
\* Every name is created or refused after finitely many calls.
CHECK_DEADLOCK FALSE
INVARIANT TypeOK
INVARIANT DuplicateOnlyForSameName
INVARIANT PinnedRoundTrip
