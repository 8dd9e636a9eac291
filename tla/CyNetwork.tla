----------------------------- MODULE CyNetwork -----------------------------
(***************************************************************************)
(* Several Cy nodes gossiping topic allocations over a lossy, reordering, *)
(* duplicating broadcast bus.  Each node is a CyTopic node record; the    *)
(* heartbeat of cy_update broadcasts the gossip of the least recently     *)
(* gossiped topic, and on_heartbeat merges what a node receives.          *)
(*                                                                         *)
(* The environment (topic creation, user transfers, discriminator         *)
(* collisions, message loss and duplication) may act until quiet is set;  *)
(* after that only the protocol runs, and it must reach and keep a        *)
(* network-wide consistent allocation (spec section 1, (b) and (c)).      *)
(***************************************************************************)
EXTENDS CyTopic

CONSTANTS
  Node,       \* the nodes on the bus
  Creatable,  \* Creatable[n]: the topics the application of n may create
  MaxInbox    \* model bound: heartbeats buffered per receiver

ASSUME /\ Creatable \in [Node -> SUBSET Hashes]
       /\ MaxInbox \in Nat \ {0}

VARIABLES
  cy,      \* cy[n]: the topic state of node n (a CyTopic node record)
  inbox,   \* inbox[n]: heartbeat gossips sent to n and not yet received
  quiet    \* the environment has stopped acting

vars == <<cy, inbox, quiet>>

Apply(n, r) == /\ WithinBounds(r)
               /\ cy' = [cy EXCEPT ![n] = NormalizeGossipTimes(r)]

Init ==
  /\ cy = [n \in Node |-> InitNode]
  /\ inbox = [n \in Node |-> {}]
  /\ quiet = FALSE

\* The RX socket filter of the UDP wrapper: a multicast datagram looped
\* back from the node's own TX socket (same source address and port) is
\* discarded, so a node never ingests its own heartbeat.
RxAccepts(receiver, sender) == receiver # sender

\* cy_update with the heartbeat due: publish and broadcast.  A receiver
\* whose buffer is full drops the frame.  Once quiet, the bus delivers a
\* frame within one heartbeat period (100 ms, heartbeat_period_max), so
\* every frame is received before the next heartbeat of any node.
Heartbeat(n) ==
  /\ quiet => \A k \in Node : inbox[k] = {}
  /\ \E bump \in BOOLEAN :
       /\ Apply(n, PublishHeartbeat(cy[n], bump))
       /\ inbox' = [k \in Node |->
                      IF ~RxAccepts(k, n) \/ Cardinality(inbox[k]) >= MaxInbox
                      THEN inbox[k]
                      ELSE inbox[k] \cup {GossipOf(cy[n], bump)}]
       /\ UNCHANGED quiet

\* cy_ingest_topic_transfer of a heartbeat and on_heartbeat.
ReceiveHeartbeat(n) ==
  \E m \in inbox[n] :
    /\ Apply(n, OnHeartbeat(AgeOnTransfer(cy[n], HeartbeatHash), m, {}))
    /\ inbox' = [inbox EXCEPT ![n] = @ \ {m}]
    /\ UNCHANGED quiet

\* The same frame delivered a second time.
RedeliverHeartbeat(n) ==
  /\ ~quiet
  /\ \E m \in inbox[n] :
       Apply(n, OnHeartbeat(AgeOnTransfer(cy[n], HeartbeatHash), m, {}))
  /\ UNCHANGED <<inbox, quiet>>

LoseHeartbeat(n) ==
  /\ ~quiet
  /\ \E m \in inbox[n] : inbox' = [inbox EXCEPT ![n] = @ \ {m}]
  /\ UNCHANGED <<cy, quiet>>

CreateTopic(n, t) ==
  /\ ~quiet
  /\ t \in Creatable[n] \ cy[n].topics
  /\ cy[n].topicCount < TopicSubjectCount
  /\ Apply(n, CyTopicNew(cy[n], t, {}))
  /\ UNCHANGED <<inbox, quiet>>

IngestTransfer(n, t) ==
  /\ ~quiet
  /\ t \in cy[n].topics \ {HeartbeatHash}
  /\ cy[n].age[t] < MaxAge
  /\ Apply(n, AgeOnTransfer(cy[n], t))
  /\ UNCHANGED <<inbox, quiet>>

DiscriminatorCollision(n, t) ==
  /\ ~quiet
  /\ t \in cy[n].topics
  /\ Apply(n, NotifyDiscriminatorCollision(cy[n], t))
  /\ UNCHANGED <<inbox, quiet>>

Quiet ==
  /\ ~quiet
  /\ quiet' = TRUE
  /\ UNCHANGED <<cy, inbox>>

Next ==
  \/ \E n \in Node :
       \/ Heartbeat(n) \/ ReceiveHeartbeat(n)
       \/ RedeliverHeartbeat(n) \/ LoseHeartbeat(n)
       \/ \E t \in Hashes : \/ CreateTopic(n, t) \/ IngestTransfer(n, t)
                           \/ DiscriminatorCollision(n, t)
  \/ Quiet

\* A heartbeat received by some node.
Delivery == \E n \in Node : ReceiveHeartbeat(n)

\* cy_update is invoked periodically on every node by its embedder and
\* publishes a heartbeat whenever the period has elapsed, and a frame on the
\* bus is eventually received once the environment stops dropping frames.
\* In the model a heartbeat waits for the bus to drain, so it is enabled
\* only intermittently; the timer of cy_update still fires it, which is
\* strong fairness.
Fairness == /\ \A n \in Node : SF_vars(Heartbeat(n))
            /\ WF_vars(Delivery)

Spec == Init /\ [][Next]_vars /\ Fairness

-----------------------------------------------------------------------------
TypeOK ==
  /\ \A n \in Node :
       /\ IsNodeState(cy[n])
       /\ cy[n].evictions \in [Hashes -> 0..MaxEvictions]
       /\ \A t \in cy[n].topics : SubjectIdOf(cy[n], t) \in 0..TotalSubjectCount - 1
  /\ \A n \in Node : \A m \in inbox[n] :
       m \in [hash : Hashes, evictions : 0..MaxEvictions, age : 0..MaxAge]
  /\ quiet \in BOOLEAN

\* The network-wide allocation is consistent: every topic has the same
\* eviction counter on every node that holds it, and no two different
\* topics, on one node or on two, share a subject-ID.
Consistent ==
  /\ \A n, k \in Node : \A t \in cy[n].topics \cap cy[k].topics :
       cy[n].evictions[t] = cy[k].evictions[t]
  /\ \A n, k \in Node : \A a \in cy[n].topics, b \in cy[k].topics :
       a # b => SubjectIdOf(cy[n], a) # SubjectIdOf(cy[k], b)

\* Section 1 of the spec: once the network stops changing, the gossip and
\* the merge rules of on_heartbeat bring every node to the same collision-
\* free allocation, and it stays so.
Convergence == quiet ~> []Consistent

=============================================================================
