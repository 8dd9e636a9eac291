------------------------------ MODULE CyTopic ------------------------------
(***************************************************************************)
(* The node-local topic allocator of cy.c (src/unnamed/part_000).          *)
(*                                                                         *)
(* A node is a record holding what struct cy_t and its struct cy_topic_t   *)
(* objects keep about topics: the three AVL indices (by hash, by           *)
(* subject-ID, by gossip time), the per-topic eviction counter, age and    *)
(* last gossip time, and the subscription state.  Every operation of       *)
(* cy.c that changes this state is an operator from a node record to a     *)
(* node record, so that CyNetwork can apply the same operators to many     *)
(* nodes; CyNode is the one-node specification built from them.           *)
(*                                                                         *)
(* Topics are identified by their 64-bit name hash; a hash below           *)
(* TotalSubjectCount is a pinned topic.  Subject-ID arithmetic keeps the   *)
(* code's formula with the subject-ID space scaled down.                   *)
(*                                                                         *)
(* An operator named after another one plus a bug description (for        *)
(* example AllocateTopicKeepIndex) is a mutant: a plausible wrong version  *)
(* of the operator that follows it, which some property must reject.      *)
(***************************************************************************)
EXTENDS Integers, Sequences, SequencesExt, FiniteSets

CONSTANTS
  TopicSubjectCount,  \* CY_TOPIC_SUBJECT_COUNT (6144 in the code)
  TotalSubjectCount,  \* CY_TOTAL_SUBJECT_COUNT (8192 in the code)
  Hashes,             \* the topic name hashes that exist in the model
  HeartbeatHash,      \* hash of the pinned heartbeat topic, "/7509"
  MaxEvictions,       \* model bound on eviction counters
  MaxAge,             \* model bound on topic ages
  NodeIdMax,          \* platform->node_id_max (127 on CAN, 65534 elsewhere)
  SubjectIdInvalid    \* CY_SUBJECT_ID_INVALID (0xFFFF)

ASSUME /\ TopicSubjectCount \in Nat \ {0}
       /\ TotalSubjectCount > TopicSubjectCount
       /\ Hashes \subseteq Nat /\ HeartbeatHash \in Hashes
       /\ HeartbeatHash < TotalSubjectCount
       /\ MaxEvictions \in Nat /\ MaxAge \in Nat
       /\ NodeIdMax \in Nat /\ SubjectIdInvalid > NodeIdMax

-----------------------------------------------------------------------------
(* Pure helpers: is_pinned, topic_get_subject_id, log2_floor, left_wins.  *)

IsPinned(h) == h < TotalSubjectCount

\* Mutant: the modulo is forgotten.
TopicGetSubjectIdNoModulo(h, evictions) ==
  IF IsPinned(h) THEN h ELSE h + evictions

TopicGetSubjectId(h, evictions) ==
  IF IsPinned(h) THEN h ELSE (h + evictions) % TopicSubjectCount

\* log2_floor returns -1 for zero so that ages compare linearly.
RECURSIVE Log2Floor(_)
Log2Floor(x) == IF x = 0 THEN -1
                ELSE IF x = 1 THEN 0
                ELSE 1 + Log2Floor(x \div 2)

\* Collision arbitration between two different hashes on one subject-ID.
LeftWins(lHash, lAge, rAge, rHash) ==
  IF IsPinned(lHash) # IsPinned(rHash) THEN IsPinned(lHash)
  ELSE IF Log2Floor(lAge) = Log2Floor(rAge) THEN lHash < rHash
  ELSE Log2Floor(lAge) > Log2Floor(rAge)

SubjectIdOf(s, t) == TopicGetSubjectId(t, s.evictions[t])

\* cy_topic_find_by_subject_id: the topics of the subject-ID index on sid.
OccupantsOf(s, sid) == {o \in s.sidIndex : SubjectIdOf(s, o) = sid}

-----------------------------------------------------------------------------
(* The gossip-time index.  Its comparator never returns "equal", so a     *)
(* topic inserted with time ts lands after every topic whose last_gossip  *)
(* is <= ts: FIFO among equal times.  The index is a sequence here.       *)

UpdateLastGossipTime(s, t, ts) ==
  LET rest == Remove(s.order, t)
      lg   == [s.lastGossip EXCEPT ![t] = ts]
      pos  == Len(SelectSeq(rest, LAMBDA x : lg[x] <= ts))
  IN  [s EXCEPT !.lastGossip = lg, !.order = InsertAt(rest, pos + 1, t)]

\* Rank 1 for pinned topics puts "we hold this slot" announcements behind
\* genuine conflict reports, which use rank 0.
ScheduleGossipAsap(s, t) ==
  IF s.lastGossip[t] > 0
  THEN UpdateLastGossipTime(s, t, IF IsPinned(t) THEN 1 ELSE 0)
  ELSE s

-----------------------------------------------------------------------------
(* allocate_topic.  The transport subscription of a topic is a pair       *)
(* <<topic, subject-ID it listens on>> in s.transportSubs.  fails is the  *)
(* set of topics whose topic_subscribe() fails during this step.  The     *)
(* loop checks assert(iter_count <= topic_count) and, like a debug build, *)
(* stops there (assertOK = FALSE) when it does not hold.                  *)

\* cy_topic_has_local_subscribers: sub_list is not empty.
HasLocalSubscribers(s, t) == s.hasSubs[t]

\* The platform hooks topic_subscribe and topic_unsubscribe: the transport
\* listens on the topic's current subject-ID, or stops listening.
TransportSubscribe(s, t) == s.transportSubs \cup {<<t, SubjectIdOf(s, t)>>}

TransportUnsubscribe(s, t) == {p \in s.transportSubs : p[1] # t}

\* A failed topic_subscribe leaves the topic "in the unsubscribed state, as
\* if cy_topic_subscribe() was never invoked"; the user hook
\* topic_handle_resubscription_error changes nothing the allocator reads.
ResubscriptionFailed(s, t) == [s EXCEPT !.subscribed[t] = FALSE]

TopicUnsubscribe(s, t) ==
  IF s.subscribed[t]
  THEN [s EXCEPT !.transportSubs = TransportUnsubscribe(s, t),
                 !.subscribed[t] = FALSE]
  ELSE s

TopicResubscribe(s, t, fails) ==
  IF ~HasLocalSubscribers(s, t) THEN s
  ELSE IF t \in fails THEN ResubscriptionFailed(s, t)
  ELSE [s EXCEPT !.subscribed[t] = TRUE,
                 !.transportSubs = TransportSubscribe(s, t)]

RECURSIVE AllocateTopic(_, _, _, _, _), AllocateLoop(_, _, _, _)

AllocateLoop(s, t, iter, fails) ==
  LET sid == SubjectIdOf(s, t)
      occ == OccupantsOf(s, sid)
  IN  IF ~s.assertOK THEN s
      ELSE IF iter > s.topicCount THEN [s EXCEPT !.assertOK = FALSE]
      ELSE IF occ = {} THEN [s EXCEPT !.sidIndex = @ \cup {t}]
      ELSE LET o == CHOOSE x \in occ : TRUE
           IN  IF LeftWins(t, s.age[t], s.age[o], o)
               THEN AllocateLoop(AllocateTopic(s, o, s.evictions[o] + 1,
                                               FALSE, fails),
                                 t, iter + 1, fails)
               ELSE AllocateLoop([s EXCEPT !.evictions[t] = @ + 1],
                                 t, iter + 1, fails)

\* Mutants: the topic is left in the subject-ID index while it moves; its
\* transport subscription is not dropped before it moves.
AllocateTopicKeepIndex(s, t, newEvictions, virgin, fails) ==
  LET s1 == TopicUnsubscribe(s, t)
      s3 == AllocateLoop([s1 EXCEPT !.evictions[t] = newEvictions], t, 0, fails)
  IN  IF ~s3.assertOK THEN s3
      ELSE TopicResubscribe(ScheduleGossipAsap(s3, t), t, fails)

AllocateTopicNoUnsubscribe(s, t, newEvictions, virgin, fails) ==
  LET s2 == IF virgin THEN s ELSE [s EXCEPT !.sidIndex = @ \ {t}]
      s3 == AllocateLoop([s2 EXCEPT !.evictions[t] = newEvictions], t, 0, fails)
  IN  IF ~s3.assertOK THEN s3
      ELSE TopicResubscribe(ScheduleGossipAsap(s3, t), t, fails)

\* Mutant: only a new topic is scheduled ASAP; a moved one keeps its place.
AllocateTopicAsapOnlyVirgin(s, t, newEvictions, virgin, fails) ==
  LET s1 == TopicUnsubscribe(s, t)
      s2 == IF virgin THEN s1 ELSE [s1 EXCEPT !.sidIndex = @ \ {t}]
      s3 == AllocateLoop([s2 EXCEPT !.evictions[t] = newEvictions],
                         t, 0, fails)
  IN  IF ~s3.assertOK THEN s3
      ELSE TopicResubscribe(IF virgin THEN ScheduleGossipAsap(s3, t) ELSE s3,
                            t, fails)

AllocateTopic(s, t, newEvictions, virgin, fails) ==
  LET s1 == TopicUnsubscribe(s, t)
      s2 == IF virgin THEN s1 ELSE [s1 EXCEPT !.sidIndex = @ \ {t}]
      s3 == AllocateLoop([s2 EXCEPT !.evictions[t] = newEvictions],
                         t, 0, fails)
  IN  IF ~s3.assertOK THEN s3
      ELSE TopicResubscribe(ScheduleGossipAsap(s3, t), t, fails)

-----------------------------------------------------------------------------
(* Ageing.  age_topic bumps the age at most once when at least a second   *)
(* has passed since aged_at; bump says whether it has.                    *)

AgeTopic(s, t, bump) ==
  IF bump THEN [s EXCEPT !.age[t] = @ + 1] ELSE s

\* Received transfers age the topic (cy_ingest_topic_transfer).  The age
\* saturates at MaxAge, the model's bound on this unbounded counter.
AgeOnTransfer(s, t) ==
  [s EXCEPT !.age[t] = IF @ < MaxAge THEN @ + 1 ELSE @]

-----------------------------------------------------------------------------
(* on_heartbeat, split into its two branches.                             *)

\* A gossip of a topic we do not have: if its subject-ID is taken by one of
\* ours, arbitrate; the winner announces, the loser moves.
OnCollisionLoseInPlace(s, m, fails) ==
  LET occ == OccupantsOf(s, TopicGetSubjectId(m.hash, m.evictions))
  IN  IF occ = {} THEN s
      ELSE LET mine == CHOOSE x \in occ : TRUE
           IN  IF LeftWins(mine, s.age[mine], m.age, m.hash)
               THEN ScheduleGossipAsap(s, mine)
               ELSE [s EXCEPT !.evictions[mine] = @ + 1]

OnCollisionIgnored(s, m, fails) == s

OnCollision(s, m, fails) ==
  LET occ == OccupantsOf(s, TopicGetSubjectId(m.hash, m.evictions))
  IN  IF occ = {} THEN s
      ELSE LET mine == CHOOSE x \in occ : TRUE
           IN  IF LeftWins(mine, s.age[mine], m.age, m.hash)
               THEN ScheduleGossipAsap(s, mine)
               ELSE AllocateTopic(s, mine, s.evictions[mine] + 1, FALSE, fails)

\* A gossip of a topic we have: on divergent eviction counters the larger
\* log2(age), then the larger counter wins; the loser adopts the remote
\* counter and, if it lands there, keeps its place in the gossip order.
\* The age is merged by max in every case.
\* Mutant: the remote age overwrites ours.
OnDivergenceOverwriteAge(s, m, fails) ==
  LET mine      == m.hash
      mineLage  == Log2Floor(s.age[mine])
      otherLage == Log2Floor(m.age)
      merged    == [s EXCEPT !.age[mine] = m.age]
  IN  IF s.evictions[mine] = m.evictions THEN merged
      ELSE IF \/ mineLage > otherLage
              \/ mineLage = otherLage /\ s.evictions[mine] > m.evictions
      THEN [ScheduleGossipAsap(s, mine) EXCEPT !.age = merged.age]
      ELSE LET moved == AllocateTopic(merged, mine, m.evictions, FALSE, fails)
           IN  IF moved.assertOK /\ moved.evictions[mine] = m.evictions
               THEN UpdateLastGossipTime(moved, mine, s.lastGossip[mine])
               ELSE moved

OnDivergence(s, m, fails) ==
  LET mine      == m.hash
      mineLage  == Log2Floor(s.age[mine])
      otherLage == Log2Floor(m.age)
      merged    == [s EXCEPT !.age[mine] = IF m.age > @ THEN m.age ELSE @]
  IN  IF s.evictions[mine] = m.evictions THEN merged
      ELSE IF \/ mineLage > otherLage
              \/ mineLage = otherLage /\ s.evictions[mine] > m.evictions
      THEN [ScheduleGossipAsap(s, mine) EXCEPT !.age = merged.age]
      ELSE LET moved == AllocateTopic(merged, mine, m.evictions, FALSE, fails)
           IN  IF moved.assertOK /\ moved.evictions[mine] = m.evictions
               THEN UpdateLastGossipTime(moved, mine, s.lastGossip[mine])
               ELSE moved

\* on_heartbeat: CRDT merge of one received gossip m = [hash, evictions, age].
OnHeartbeat(s, m, fails) ==
  IF m.hash \notin s.topics THEN OnCollision(s, m, fails)
                            ELSE OnDivergence(s, m, fails)

-----------------------------------------------------------------------------
(* Gossip times are compared, never subtracted, so they are kept as       *)
(* ranks: 0 and 1 are the "ASAP" values, 2.. are the publication times    *)
(* renumbered in order after every step.                                  *)

Stamps(s) == {s.lastGossip[x] : x \in s.topics} \ {0, 1}

NormalizeGossipTimes(s) ==
  [s EXCEPT !.lastGossip =
     [h \in Hashes |->
        IF @[h] < 2 THEN @[h]
        ELSE 2 + Cardinality({v \in Stamps(s) : v < @[h]})]]

NextStamp(s) == 2 + Cardinality(Stamps(s))

\* The gossip published by the heartbeat of cy_update: the least recently
\* gossiped topic, aged first (publish_heartbeat).
GossipOf(s, bump) ==
  LET t == Head(s.order)
  IN  [hash |-> t, evictions |-> s.evictions[t],
       age |-> AgeTopic(s, t, bump).age[t]]

PublishHeartbeat(s, bump) ==
  LET t == Head(s.order)
  IN  UpdateLastGossipTime(AgeTopic(s, t, bump), t, NextStamp(s))

\* The loop of cy_topic_new_hint that fits the eviction counter to the
\* hint counts up from 0 to the first counter landing on it: the least of
\* these counters, and the loop never ends when there is none.
HintFits(t, hint) ==
  {e \in 0..TopicSubjectCount - 1 : TopicGetSubjectId(t, e) = hint}

\* cy_topic_new_hint; the caller checks that the name is new and that
\* topic_count < TopicSubjectCount.  A hint is applied when it is at most
\* node_id_max; a node whose thread never returns from the call is hung.
\* The new topic then enters the gossip index at time 0 and allocate_topic
\* places it, starting from the eviction counter it is passed.
TopicNewHint(s, t, hint, fails) ==
  LET fit == hint <= NodeIdMax /\ ~IsPinned(t)
  IN  IF fit /\ HintFits(t, hint) = {} THEN [s EXCEPT !.hung = TRUE]
      ELSE
        LET s1 == [s EXCEPT !.topics = @ \cup {t},
                            !.evictions[t] = IF fit THEN Min(HintFits(t, hint))
                                                    ELSE 0,
                            !.age[t] = 0,
                            !.subscribed[t] = FALSE, !.hasSubs[t] = FALSE,
                            !.lastGossip[t] = 0]
            s2 == UpdateLastGossipTime(s1, t, 0)
            s3 == AllocateTopic(s2, t, 0, TRUE, fails)
        IN  [s3 EXCEPT !.topicCount = @ + 1]

\* cy_topic_new: cy_topic_new_hint without a hint.
CyTopicNew(s, t, fails) == TopicNewHint(s, t, SubjectIdInvalid, fails)

\* cy_subscribe_with_transfer_id_timeout; grow says that the new extent or
\* transfer-ID timeout exceeds the topic's, ok that topic_subscribe works.
Subscribe(s, t, grow, ok) ==
  LET s1 == IF s.subscribed[t] /\ grow THEN TopicUnsubscribe(s, t) ELSE s
      s2 == [s1 EXCEPT !.hasSubs[t] = TRUE]
  IN  IF s2.subscribed[t] THEN s2
      ELSE IF ok
      THEN [s2 EXCEPT !.subscribed[t] = TRUE,
                      !.transportSubs = TransportSubscribe(s2, t)]
      ELSE s2

\* cy_notify_discriminator_collision
NotifyDiscriminatorCollision(s, t) ==
  IF s.lastGossip[t] > 0 THEN ScheduleGossipAsap(s, t) ELSE s

\* struct cy_topic_t as far as the allocator reads it, one function per
\* field, indexed by the name hash: the eviction counter, the age, the
\* last gossip time (as a rank), the subscribed flag and whether sub_list
\* is non-empty.  The name, the timestamps of events, the futures index
\* and the publisher fields are left out.
IsTopicState(s) ==
  /\ s.evictions \in [Hashes -> Nat]
  /\ s.age \in [Hashes -> 0..MaxAge]
  /\ s.lastGossip \in [Hashes -> Nat]
  /\ s.subscribed \in [Hashes -> BOOLEAN]
  /\ s.hasSubs \in [Hashes -> BOOLEAN]

\* struct cy_t as far as the allocator reads it: the topics (the hash
\* index), the subject-ID index, the gossip-time index as a sequence,
\* topic_count, the transport subscriptions the platform holds, and two
\* model flags: no assertion failed, and no call failed to return.
IsNodeState(s) ==
  /\ s.topics \subseteq Hashes /\ s.sidIndex \subseteq Hashes
  /\ s.order \in Seq(Hashes)
  /\ IsTopicState(s)
  /\ s.transportSubs \subseteq Hashes \X (0..TotalSubjectCount - 1)
  /\ s.topicCount \in Nat
  /\ s.assertOK \in BOOLEAN /\ s.hung \in BOOLEAN

\* A node right after cy_new: the heartbeat topic exists and is subscribed.
InitNode ==
  [topics        |-> {HeartbeatHash},
   sidIndex      |-> {HeartbeatHash},
   order         |-> <<HeartbeatHash>>,
   evictions     |-> [h \in Hashes |-> 0],
   age           |-> [h \in Hashes |-> 0],
   lastGossip    |-> [h \in Hashes |-> 0],
   subscribed    |-> [h \in Hashes |-> h = HeartbeatHash],
   hasSubs       |-> [h \in Hashes |-> h = HeartbeatHash],
   transportSubs |-> {<<HeartbeatHash, HeartbeatHash>>},
   topicCount    |-> 1,
   assertOK      |-> TRUE,
   hung          |-> FALSE]

\* The model bound: a step whose result exceeds it is not explored, unless
\* the step failed the assertion of allocate_topic, which is kept so that
\* the failure is seen whatever the counters reached on the way.
WithinBounds(s) ==
  \/ ~s.assertOK
  \/ \A h \in Hashes : s.evictions[h] <= MaxEvictions /\ s.age[h] <= MaxAge

=============================================================================
