------------------------------ MODULE CyNode ------------------------------
(***************************************************************************)
(* One Cy node (struct cy_t) and its topics, driven by its application    *)
(* and by an environment that may deliver any heartbeat gossip at all:    *)
(* cy_topic_new, cy_subscribe, the heartbeat part of cy_update,           *)
(* cy_ingest_topic_transfer (heartbeats and user transfers) and           *)
(* cy_notify_discriminator_collision.  The node holds a node-ID and no    *)
(* response futures; CyNodeId and CyFuture model those parts.             *)
(***************************************************************************)
EXTENDS CyTopic

CONSTANT Hints  \* the subject-ID hints the application passes

VARIABLE node   \* struct cy_t and its topics

vars == <<node>>

\* The topics a step creates or moves (their eviction counter changes).
Moved == (node'.topics \ node.topics) \cup
         {t \in node.topics : node'.evictions[t] # node.evictions[t]}

\* A gossip another node may send.  A pinned topic is never evicted, so its
\* eviction counter is 0 everywhere.
MsgSpace ==
  {m \in [hash : Hashes, evictions : 0..MaxEvictions, age : 0..MaxAge] :
     IsPinned(m.hash) => m.evictions = 0}

\* The topics whose topic_subscribe() fails in a step: none, or every one
\* that has subscribers (a transport that is out of resources for the step).
FailSets == {{}, {h \in node.topics : node.hasSubs[h]}}

Step(r) == /\ WithinBounds(r)
           /\ node' = NormalizeGossipTimes(r)

Init == node = InitNode

\* cy_topic_new_hint: a name that is not taken while topic_count < 6144.
CreateTopic(t) ==
  /\ t \notin node.topics
  /\ node.topicCount < TopicSubjectCount
  /\ \E hint \in Hints, fails \in FailSets :
       Step(TopicNewHint(node, t, hint, fails))

SubscribeTopic(t) ==
  /\ t \in node.topics
  /\ \E grow, ok \in BOOLEAN : Step(Subscribe(node, t, grow, ok))

\* cy_update when the heartbeat is due.
Heartbeat ==
  /\ \E bump \in BOOLEAN : Step(PublishHeartbeat(node, bump))

\* cy_ingest_topic_transfer on the heartbeat topic, then on_heartbeat.
ReceiveHeartbeat(m) ==
  /\ \E fails \in FailSets :
       Step(OnHeartbeat(AgeOnTransfer(node, HeartbeatHash), m, fails))

\* cy_ingest_topic_transfer on a user topic.
IngestTransfer(t) ==
  /\ t \in node.topics \ {HeartbeatHash}
  /\ node.age[t] < MaxAge
  /\ Step(AgeOnTransfer(node, t))

DiscriminatorCollision(t) ==
  /\ t \in node.topics
  /\ Step(NotifyDiscriminatorCollision(node, t))

\* A node whose thread hangs in a call takes no further step.
Next ==
  /\ ~node.hung
  /\ \/ \E t \in Hashes : CreateTopic(t) \/ SubscribeTopic(t)
                          \/ IngestTransfer(t) \/ DiscriminatorCollision(t)
     \/ Heartbeat
     \/ \E m \in MsgSpace : ReceiveHeartbeat(m)

Spec == Init /\ [][Next]_vars

-----------------------------------------------------------------------------
TypeOK ==
  /\ IsNodeState(node)
  /\ \A t \in node.topics : SubjectIdOf(node, t) \in 0..TotalSubjectCount - 1

\* Section 8.1 of the spec and the comments of allocate_topic: after every
\* call, every live topic sits in the subject-ID index, once in the gossip
\* index, topic_count counts them, and no two share a subject-ID, however
\* long the displacement cascade of allocate_topic was.
SubjectIdsUnique ==
  /\ node.sidIndex = node.topics
  /\ ToSet(node.order) = node.topics
  /\ Len(node.order) = Cardinality(node.topics)
  /\ node.topicCount = Cardinality(node.topics)
  /\ \A a, b \in node.topics :
       a # b => SubjectIdOf(node, a) # SubjectIdOf(node, b)

\* The assertion iter_count <= topic_count in the loop of allocate_topic
\* never fails, whatever cascade the displacements set off.
AllocatorAssertHolds == node.assertOK

\* allocate_topic unsubscribes a topic before it moves and resubscribes it
\* after: the transport subscriptions are exactly the subscribed topics,
\* each on its current subject-ID, with no stale one left on an old ID.
SubscriptionsOnCurrentSubjectIds ==
  node.transportSubs =
    {<<t, SubjectIdOf(node, t)>> : t \in {x \in node.topics : node.subscribed[x]}}

\* The step is the reception of a gossip of t at the counter t now has.
Confirms(t) ==
  \E m \in MsgSpace : m.hash = t /\ m.evictions = node'.evictions[t] /\ ReceiveHeartbeat(m)

\* schedule_gossip_asap, allocate_topic and the restore of last_gossip in
\* on_heartbeat (lines 638-642): a step that creates a topic or changes its
\* eviction counter (a new topic, one displaced in a cascade, one that lost
\* arbitration and did not land on the remote's counter) leaves it
\* scheduled ASAP, at gossip time 0 or 1, so the next heartbeats announce
\* the new allocation before any topic the network already knows (only a
\* heartbeat raises a time of 0 or 1).  Only a topic that lands exactly on
\* the counter a remote just gossiped may keep its old place.
AllocationAnnounced ==
  [][node'.assertOK => \A t \in Moved : node'.lastGossip[t] <= 1 \/ Confirms(t)]_vars

\* Section 8.6 of the spec and the comment on cy_topic_t.age: ages are merged
\* by max and never decrease, also when a topic loses arbitration and moves.
AgeMonotone ==
  [][\A t \in node.topics : node'.age[t] >= node.age[t]]_vars

\* cy.h on cy_topic_new_hint: it returns the new topic, or NULL if the name
\* is taken or invalid or the platform has no memory; the application's
\* thread gets control back whatever hint it passes.
TopicNewReturns == ~node.hung

=============================================================================
