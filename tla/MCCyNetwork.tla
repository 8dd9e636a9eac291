---------------------------- MODULE MCCyNetwork ----------------------------
(* Two nodes.  n1 may create topic 8, n2 topics 12 and 1: 8 and 12 prefer *)
(* the same subject-ID 0, and 12 displaced once lands on the pinned       *)
(* topic 1 (subject-ID 1).                                                 *)
EXTENDS CyNetwork

CONSTANTS n1, n2

MCNode == {n1, n2}
\* For the liveness run: only the two colliding topics.
MCCreatableLive == [n \in MCNode |-> IF n = n1 THEN {8} ELSE {12}]
MCTopicSubjectCount == 4
MCTotalSubjectCount == 6
MCHashes == {1, 5, 8, 12}
MCHeartbeatHash == 5
MCMaxEvictions == 2
MCMaxAge == 1
MCMaxInbox == 1
MCNodeIdMax == 5
MCSubjectIdInvalid == 7
=============================================================================
