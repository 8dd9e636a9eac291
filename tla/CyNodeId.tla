------------------------------ MODULE CyNodeId ------------------------------
(***************************************************************************)
(* Node-ID allocation of cy.c: the node-ID occupancy Bloom filter          *)
(* (bloom64_set, _get, _purge), pick_node_id, mark_neighbor,             *)
(* cy_notify_node_id_collision                                            *)
(* and the node-ID part of cy_update, for one node whose environment may   *)
(* send it transfers from any node-ID, report a node-ID collision, and     *)
(* accept or refuse node_id_set().                                         *)
(*                                                                         *)
(* The filter is a record: bits, the set of set bit indices, and popcount. *)
(* Its 64-bit words are WordBits bits wide, so that the hierarchical scan  *)
(* of pick_node_id keeps its shape on a small filter.  random_uint is the  *)
(* set of values the code's formula can return.  Time is abstracted: the   *)
(* heartbeat timer is due or not, and the CSMA back-off of mark_neighbor   *)
(* only moves that timer.                                                  *)
(***************************************************************************)
EXTENDS Integers, FiniteSets, FiniteSetsExt

CONSTANTS
  NodeIdMax,      \* platform->node_id_max (127 on CAN, 65534 elsewhere)
  NBits,          \* bloom->n_bits, a multiple of the word width
  WordBits,       \* the width of a filter word (64 in the code)
  NodeIdInvalid   \* CY_NODE_ID_INVALID (0xFFFF)

ASSUME /\ NodeIdMax \in Nat \ {0} /\ NodeIdInvalid > NodeIdMax
       /\ WordBits \in Nat \ {0} /\ NBits \in Nat \ {0}
       /\ NBits % WordBits = 0

VARIABLES
  nodeId,         \* cy->node_id
  bloom,          \* the filter returned by node_id_bloom()
  collision,      \* cy->node_id_collision
  bound,          \* the node-ID node_id_set() gave the transport, if any
  lastHeartbeat,  \* the node-ID of the last heartbeat and what the transport had bound
  assertOK        \* no assertion of pick_node_id or cy_update has failed

vars == <<nodeId, bloom, collision, bound, lastHeartbeat, assertOK>>

NodeIds == 0..NodeIdMax

-----------------------------------------------------------------------------
(* random_uint: "the limits are inclusive", but (r % (max - min)) + min    *)
(* never returns max.                                                      *)
RandomUint(lo, hi) == IF lo < hi THEN lo..(hi - 1) ELSE {lo}

\* cy_has_node_id
HasNodeId(id) == id <= NodeIdMax

\* struct cy_bloom64_t: n_bits is the constant NBits, the storage words are
\* the set of set bit indices, and popcount <= n_bits counts them.
IsBloom64(f) ==
  /\ f.bits \subseteq 0..NBits - 1
  /\ f.popcount = Cardinality(f.bits)
  /\ f.popcount <= NBits

\* The platform hooks node_id_set, which may fail and then leaves the
\* transport as it was, and node_id_clear, which is infallible: the
\* node-ID the transport holds afterwards.
NodeIdSet(id, ok, held) == IF ok THEN id ELSE held

NodeIdClear == NodeIdInvalid

EmptyBloom == [bits |-> {}, popcount |-> 0]

Bloom64Get(f, v) == v % NBits \in f.bits

\* Mutant: the value is not reduced modulo the filter size.
Bloom64SetNoModulo(f, v) ==
  IF v \in f.bits THEN f
  ELSE [bits |-> f.bits \cup {v}, popcount |-> f.popcount + 1]

Bloom64Set(f, v) ==
  IF Bloom64Get(f, v) THEN f
  ELSE [bits |-> f.bits \cup {v % NBits}, popcount |-> f.popcount + 1]

WordFull(f, w) == \A b \in 0..WordBits - 1 : w * WordBits + b \in f.bits

\* num_words of pick_node_id.
NumWords == (Min({NodeIdMax, NBits}) + WordBits - 1) \div WordBits

\* pick_node_id: the set of outcomes the random choices can give, each a
\* record of the node-ID, the filter afterwards, and whether the two
\* assertions node_id < node_id_max held (PickedIdFree states the other two).  A word with a zero bit is searched from
\* a random word, a zero bit in it from a random bit; then a random multiple
\* of the filter period is added.  A full filter gives a random node-ID.
PickOutcomes(f, pickBit(_, _), mult) ==
  UNION {
    LET free == {i \in 0..NumWords - 1 : ~WordFull(f, (start + i) % NumWords)}
    IN  IF free = {}
        THEN {[id |-> r, bloom |-> f, ok |-> TRUE] : r \in RandomUint(0, NodeIdMax)}
        ELSE LET wi == (start + Min(free)) % NumWords
             IN  UNION {
                   LET cand == wi * WordBits + pickBit(wi, b0)
                   IN  {[id    |-> cand + k * NBits,
                         bloom |-> Bloom64Set(f, cand + k * NBits),
                         ok    |-> cand < NodeIdMax /\ cand + k * NBits < NodeIdMax]
                        : k \in mult}
                   : b0 \in RandomUint(0, WordBits - 1)}
    : start \in RandomUint(0, NumWords - 1)}

\* The first zero bit of word wi at or after bit b0, cyclically.
FirstClearBit(f, wi, b0) ==
  LET clear == {j \in 0..WordBits - 1 :
                  wi * WordBits + ((b0 + j) % WordBits) \notin f.bits}
  IN  (b0 + Min(clear)) % WordBits

\* Mutants: the multiplier drawn with an inclusive upper limit; the start
\* bit taken without the scan for a zero bit.
PickNodeIdInclusiveMultiplier(f) ==
  PickOutcomes(f, LAMBDA wi, b0 : FirstClearBit(f, wi, b0),
               0..NodeIdMax \div NBits)

PickNodeIdNoBitScan(f) ==
  PickOutcomes(f, LAMBDA wi, b0 : b0, RandomUint(0, NodeIdMax \div NBits))

PickNodeId(f) ==
  PickOutcomes(f, LAMBDA wi, b0 : FirstClearBit(f, wi, b0),
               RandomUint(0, NodeIdMax \div NBits))

-----------------------------------------------------------------------------
\* cy_new with a node-ID argument `given` (any value above NodeIdMax means
\* none) whose node_id_set() succeeded; a failed cy_new leaves no node.
Init ==
  \E given \in NodeIds \cup {NodeIdInvalid} :
    /\ nodeId = given
    /\ bloom = IF HasNodeId(given) THEN Bloom64Set(EmptyBloom, given)
                                     ELSE EmptyBloom
    /\ bound = given
    /\ collision = FALSE
    /\ lastHeartbeat = [src |-> NodeIdInvalid, bound |-> NodeIdInvalid]
    /\ assertOK = TRUE

\* mark_neighbor, called for every received transfer: purge a congested
\* filter, then mark the sender.
MarkNeighbor(r) ==
  LET f == IF bloom.popcount > (NBits * 31) \div 32 THEN EmptyBloom ELSE bloom
  IN  /\ bloom' = Bloom64Set(f, r)
      /\ UNCHANGED <<nodeId, collision, bound, lastHeartbeat, assertOK>>

NotifyNodeIdCollision ==
  /\ ~collision
  /\ collision' = TRUE
  /\ UNCHANGED <<nodeId, bloom, bound, lastHeartbeat, assertOK>>

\* cy_update without the futures: handle a pending collision (relinquish the
\* node-ID and make the heartbeat due), then, if the heartbeat is due, pick
\* a node-ID when node_id >= node_id_max and claim it with node_id_set(),
\* bailing out if that fails, and publish the heartbeat.
Update ==
  \E timerDue \in BOOLEAN :
    LET relinquish == collision /\ HasNodeId(nodeId)
        id1  == IF relinquish THEN NodeIdInvalid ELSE nodeId
        bnd1 == IF relinquish THEN NodeIdClear ELSE bound
    IN  /\ collision' = FALSE
        /\ IF ~(timerDue \/ relinquish)
           THEN /\ nodeId' = id1 /\ bound' = bnd1
                /\ UNCHANGED <<bloom, lastHeartbeat, assertOK>>
           ELSE IF id1 >= NodeIdMax
           THEN \E p \in PickNodeId(bloom), setOk \in BOOLEAN :
                  /\ nodeId' = p.id
                  /\ bloom' = p.bloom
                  /\ bound' = NodeIdSet(p.id, setOk, bnd1)
                  /\ assertOK' = (assertOK /\ p.ok /\ p.id <= NodeIdMax)
                  /\ lastHeartbeat' =
                       IF setOk THEN [src |-> p.id, bound |-> p.id]
                                ELSE lastHeartbeat
           ELSE /\ nodeId' = id1 /\ bound' = bnd1
                /\ UNCHANGED bloom
                /\ assertOK' = (assertOK /\ id1 <= NodeIdMax)
                /\ lastHeartbeat' = [src |-> id1, bound |-> bnd1]

Next ==
  \/ \E r \in NodeIds : MarkNeighbor(r)
  \/ NotifyNodeIdCollision
  \/ Update

Spec == Init /\ [][Next]_vars

-----------------------------------------------------------------------------
TypeOK ==
  /\ nodeId \in NodeIds \cup {NodeIdInvalid}
  /\ IsBloom64(bloom)
  /\ collision \in BOOLEAN
  /\ bound \in NodeIds \cup {NodeIdInvalid}
  /\ assertOK \in BOOLEAN

\* pick_node_id "is guaranteed to return a valid node-ID": its assertions
\* node_id < node_id_max and that of cy_update, node_id <= node_id_max after
\* the pick, hold whatever the filter holds and the random choices are.
NodeIdValid ==
  /\ assertOK
  /\ nodeId \in NodeIds \cup {NodeIdInvalid}

\* The assertions bloom64_get(bloom, node_id) == false of pick_node_id: a
\* node-ID picked while the searched words of the filter are not all full
\* is one no known neighbour maps to, and it is then marked in the filter.
PickedIdFree ==
  [][ /\ nodeId' \notin {nodeId, NodeIdInvalid}
      /\ ~\A w \in 0..NumWords - 1 : WordFull(bloom, w)
      => ~Bloom64Get(bloom, nodeId') /\ Bloom64Get(bloom', nodeId') ]_vars

\* Spec 4.I: a node lacking a node-ID claims one and "aborts the tick on
\* failure"; the code comment says it "will try again next time".  Every
\* heartbeat is then sent with the node-ID the transport was given.
HeartbeatFromBoundId == lastHeartbeat.src = lastHeartbeat.bound

\* Spec 4.I: a node-ID is picked only when the node lacks one, and it is
\* given up only on a collision.  A valid node-ID, the largest included,
\* is kept by every step that does not process a collision.
NodeIdKeptUntilCollision ==
  [][nodeId <= NodeIdMax /\ ~collision => nodeId' = nodeId]_vars

=============================================================================
