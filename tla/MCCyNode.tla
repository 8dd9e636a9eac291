----------------------------- MODULE MCCyNode -----------------------------
(* One node with four dynamic subject-IDs and two pinned ones above them.  *)
(* Hashes 8 and 12 both prefer subject-ID 0; 9 prefers 1, where the pinned *)
(* topic 1 sits; 5 is the heartbeat topic, pinned outside the dynamic      *)
(* range.  Three user topics fill three of the four dynamic slots.         *)
EXTENDS CyNode

MCTopicSubjectCount == 4
MCTotalSubjectCount == 6
MCHashes == {1, 5, 8, 12}
MCHeartbeatHash == 5
MCMaxEvictions == 2
MCMaxAge == 1
\* node_id_max above the dynamic range, as on UDP (65534 > 6144).
MCNodeIdMax == 5
MCSubjectIdInvalid == 7
\* cy_topic_new, and a hint of a dynamic subject-ID.
MCHints == {MCSubjectIdInvalid, 2}
\* A hint at most node_id_max but outside the dynamic range.
MCHintsOutside == {4}
=============================================================================
