# TLA+ models of cy

These modules model the C library in `src/unnamed/part_000` (`cy.c`), its
API header `src/cy/cy.h` (the state structs, the platform hooks and the
contracts stated on them), and the one rule of `src/cy_udp_posix/udp_wrapper.h`
with protocol meaning. Cy is a
decentralized allocator that maps topic names to Cyphal subject-IDs. Each node
keeps its own allocation. Nodes gossip it in heartbeats and merge what they
receive by CRDT-like rules. Without coordination, the network must settle on
one allocation in which no two topics share a subject-ID.

## The system and its parts

| Part | Code | State | Operations |
|---|---|---|---|
| Topic allocator | `allocate_topic`, `left_wins`, `topic_get_subject_id`, `cy_topic_new_hint` | per topic: `evictions`, `age`; the subject-ID AVL index; `topic_count` | create a topic; move a topic (recursive displacement) |
| Gossip scheduler | `update_last_gossip_time`, `schedule_gossip_asap`, heartbeat part of `cy_update` | per topic: `last_gossip`; gossip-time AVL index (FIFO among equal times) | publish the least recently gossiped topic; schedule ASAP |
| CRDT merge | `on_heartbeat` | topic state | collision with an unknown topic; divergence on a known topic; age merge by max |
| Subscriptions | `cy_subscribe_with_transfer_id_timeout`, subscribe/unsubscribe around moves | `subscribed`, `sub_list`, the transport subscription | subscribe; drop the transport subscription before a move and restore it after |
| Ageing | `age_topic`, `cy_ingest_topic_transfer` | `age`, `aged_at` | age on received transfers and on publication |
| Node-ID allocator | `bloom64_*`, `pick_node_id`, `mark_neighbor`, node-ID part of `cy_update` | Bloom filter, `node_id`, `node_id_collision`, `heartbeat_next` | snoop neighbours; pick a node-ID; handle a collision |
| Response futures | `cy_publish`, `cy_ingest_topic_response_transfer`, `retire_timed_out_futures` | two AVL indices: masked transfer-ID, deadline | register; match a response; sweep deadlines with callbacks |
| Payload buffers | `cy_buffer_owned_release`, `cy_buffer_borrowed_get_size`, `cy_buffer_borrowed_gather`, `CY_BUFFER_GATHER_ON_STACK`; the buffer part of both ingest handlers | `topic->sub_last_transfer`, `fut->last_response`; the fragment chain of each payload | take over a received payload; release it (Cy or the application); read it |
| Names | `cy_new` (namespace), `compose_topic_name`, `parse_pinned`, `topic_hash`, `cy_topic_find_by_name` | `namespace_`; per topic: `name`, `hash`; the hash AVL index | canonicalize and hash; insert into the hash index or refuse a name already taken; find by name |

How the parts interact:
- Topic creation composes and hashes the name, inserts the topic into the hash index, and then calls the allocator.
- The allocator unsubscribes and resubscribes the topics it moves, and schedules their gossip.
- `cy_update` publishes the head of the gossip index through the heartbeat topic.
- Every node receives the heartbeat through `cy_ingest_topic_transfer`. That call ages the heartbeat topic and calls `on_heartbeat`.
- `on_heartbeat` may call the allocator again, which can set off a cascade.
- Both ingest handlers take over the payload the transport hands them: they store it in the topic's or the future's slot, releasing what was there, or release it at once.

## Modules

- **`CyTopic`** holds the data and pure operators. A node is a record with:
  - `topics`, the subject-ID index as a set (`sidIndex`), and the gossip index as a sequence (`order`);
  - `evictions`, `age`, `lastGossip`, `subscribed` and `hasSubs` (whether `sub_list` is non-empty), as functions over the topic hashes;
  - `transportSubs`, the pairs `<<topic, subject-ID>>` the transport listens on;
  - `topicCount`, and `assertOK` (false once `assert(iter_count <= topic_count)` would fail).

  Each operation of `cy.c` on this state is an operator from a node record to a node record:
  - `AllocateTopic` and `AllocateLoop` are recursive, like the C function. They include the unsubscribe, the index removal, the loop, the ASAP scheduling and the resubscription.
  - `OnHeartbeat` is split into `OnCollision` and `OnDivergence`.
  - `PublishHeartbeat`, `TopicNewHint` (with `CyTopicNew`, the inline `cy_topic_new` of cy.h), `Subscribe` and `NotifyDiscriminatorCollision` complete the set.
  - `TopicNewHint` includes the hint: the loop that fits the eviction counter to a hint (`HintFits`), and the flag `hung` for a loop that never ends.
  - The platform hooks `topic_subscribe`/`topic_unsubscribe` are `TransportSubscribe`/`TransportUnsubscribe`. `ResubscriptionFailed` is what cy.h says a failed resubscription leaves.
  - `IsTopicState` and `IsNodeState` state the record types, following `struct cy_topic_t` and `struct cy_t`.

  A topic is its 64-bit hash. A hash below `TotalSubjectCount` is pinned, as in `is_pinned`.
- **`CyNode`** is one node under an arbitrary environment. Its actions are:
  - `CreateTopic`, `SubscribeTopic`, `Heartbeat`, `IngestTransfer` and `DiscriminatorCollision`;
  - `ReceiveHeartbeat(m)` for every gossip `m` another node could send.

  Resubscription may fail: for each step, either every subscribed topic fails or none does (`FailSets`).
  Topics are created with any hint in `Hints`: none (`CY_SUBJECT_ID_INVALID`) or a dynamic subject-ID.
- **`CyNetwork`** is several nodes on a broadcast bus. `inbox[n]` is the set of gossips in flight to `n`.
  - A heartbeat is broadcast to the other nodes. Its own copy is dropped by the RX filter of the UDP wrapper (`RxAccepts`).
  - Before the environment turns `quiet`, frames may be lost or delivered twice, and are received in any order.
  - Before `quiet`, the applications may also create topics, receive transfers and report collisions.
- **`CyNodeId`** is the node-ID allocator of one node.
  - Its variables are `node_id`, the Bloom filter (a set of bit indices plus `popcount`), the collision flag, the node-ID the transport holds after `node_id_set()`, and the last heartbeat's source.
  - `assertOK` records whether an assertion on the node-ID range has failed.
  - Actions: `MarkNeighbor(r)` for `mark_neighbor` (purge when congested, then mark), `NotifyNodeIdCollision`, and `Update` for the node-ID part of `cy_update`. `Update` handles a pending collision, then, when the heartbeat is due, picks (if `node_id >= node_id_max`), calls `node_id_set()` (which may fail) and publishes.
  - `NodeIdSet` and `NodeIdClear` are the platform hooks: the node-ID the transport holds after them.
  - `PickNodeId` is the set of all outcomes of `pick_node_id` over its random choices.
  - `random_uint` is modelled by its formula, `(r % (max - min)) + min`. That formula never returns `max`, although the comment says the limits are inclusive.
  - Filter words are `WordBits` wide instead of 64, so the word-then-bit scan keeps its shape.
- **`CyFuture`** is the response-future registry of one node.
  - Variables: the clock, `pub_transfer_id` and `publishing` of each topic, the fields of each `cy_future_t`, and the per-topic transfer-ID index as a set of futures (keyed by `transfer_id_masked`).
  - The global deadline index is a sequence sorted by deadline, FIFO among equal deadlines, because its comparator never returns 0.
  - `sent` holds the transfer-IDs that went out, which the remote may answer any number of times after any delay. `calls` counts the `cy_publish` calls.
  - `pc` follows the embedder's thread: idle, in the deadline sweep of `cy_update`, or inside a response callback.
  - Actions:
    - `UserPublish` is `cy_publish` with a future (`Publish`) or without one (`Publish1`), made from idle or from a callback.
    - `IngestResponse(r)` is a response that matches a pending future.
    - The sweep is `BeginUpdate`, then `RetireTimedOut` (one iteration) and `CallbackReturn` (which re-reads the minimum), until `SweepDone`.
    - `Tick` advances the clock.
  - `pub_transfer_id` starts at a value of `random_u64()`, as `cy_topic_new_hint` seeds it.
  - `MaxPublish[t]` bounds the `cy_publish` calls on topic `t`.
- **`CyFutureAbstract`** is what cy.h promises of futures, without indices. A free future is registered (`Register`); it completes once, either by `Succeed` or, once the clock has passed its deadline, by `Expire`; and it may be `Reuse`d. `CyFuture` maps onto it in `Abs`:
  - `pending` is the set of registered futures;
  - `outcome` is the state of an unregistered future that is not pending;
  - `clock` is `now`.
- **`CyName`** is the name side of topic creation on one node. A C string is a sequence of one-character strings.
  - `ns` is `cy->namespace_`, chosen in `Init` among what `cy_new` makes of the namespaces an application may pass (`CyNewNamespace`: cut to `CY_NAMESPACE_NAME_MAX`, `"/"` for none).
  - `topics` is the hash index, as `[name, hash]` records. `refused` and `origin` are history: the names refused as already taken, and the raw name each topic was created from.
  - `compose_topic_name` is `Tmp` (the `snprintf` into `tmp`), `ComposeFits` (the length check of the loop), `Canonicalize` (the loop, recursive) and `StripTrailing`. `NewTopicName` adds the cut to `CY_TOPIC_NAME_MAX` of `cy_topic_new_hint`.
  - `ParsePinned`/`ParseDigits` are `parse_pinned`, and `TopicHash` is `topic_hash`. rapidhash is a collision-free hash outside the pinned range: a hash is `<<subject-ID, <<>>>>` when pinned and `<<TotalSubjectCount, name>>` otherwise.
  - `TopicNew(raw)` is `cy_topic_new`: a name that fails to compose, an empty name or a full table returns NULL and changes nothing. Otherwise the topic is inserted into the index, or refused when its hash is there already.
  - `FindByName` is `cy_topic_find_by_name`. `SpecCanonical` is the canonicalizer of spec 4.C, the reference for `StoredAsCanonical`, and `Decimal` is the reference for the pinned round trip.
- **`CyBuffer`** is the ownership of received payloads on one topic with one future. A payload is a model value, and byte `i` of payload `p` is `<<p, i>>`.
  - A fragment is a view `[data, off, size]`. `ChainFrom` and `Delivered` build the `cy_buffer_owned_t` the transport delivers from the fragment sizes `Frags[p]`, head by value and `next` behind it.
  - `delivered` and `releases` are history: the payloads handed to Cy, and the calls of `platform->buffer_release` for each.
  - `sub` is `topic->sub_last_transfer.payload`, `hasSubs` is `sub_list != NULL`, and `fut` is the future's state, whether it is in the indices, and `last_response.payload`.
  - `IngestTopicTransfer` and `IngestResponse` are the buffer part of the two ingest handlers. Every early return of the response handler (short head, unknown hash, no pending future) is the disjunct that releases the payload; a match releases the old response and stores the new one past the topic hash (`SkipHeader`).
  - `Publish` is `cy_publish`'s set-up of the future, `RetireTimedOut` the sweep, and `AppReleaseSub`/`AppReleaseResponse` the application calling `cy_buffer_owned_release` (`CyBufferOwnedRelease`, which clears `origin` and `next` but not the head view).
  - `BorrowedGetSize`, `Gather` and `GatherOnStack` are the readers.
  - `Publish` may reuse a completed future whatever its `last_response` holds, as cy.h:493 allows.
- **`CyBufferAbstract`** is the ownership contract of cy.h: each payload is the transport's, `held` in a slot where it can be released, or `returned` through `buffer_release`. `Take(p, replaced)` is an ingestion, which keeps or returns `p` and returns a payload it replaces; `Return(p)` is a release. `CyBuffer` maps onto it in `Abs` through `OwnerOf`. A slot makes `p` readable (`Readable`) while its `origin` is `p` or its head view still shows bytes of `p`. A payload released twice, released while still readable, or readable nowhere and never released maps to `"lost"`, which the abstract specification never reaches.
- **`MCCyNode`**, **`MCCyNetwork`**, **`MCCyNodeId`**, **`MCCyFuture`**, **`MCCyName`** and **`MCCyBuffer`** give the constants for TLC.

Operators whose names end in a bug description (`AllocateTopicKeepIndex`,
`OnCollisionLoseInPlace`, ...) are mutants. Each is a plausible wrong version
of the operator that follows it, and a property must reject it.

### Abstractions

- **Subject-ID space.** The code's formula is kept, scaled down: `TopicSubjectCount = 4` and `TotalSubjectCount = 6`.
  - Hashes 8 and 12 both prefer subject-ID 0.
  - 8 and 12, evicted once, land on 1 and then 2.
  - Hash 1 is a pinned topic on subject-ID 1, so it beats any dynamic topic that arrives there.
  - Hash 5 is the heartbeat topic. It is pinned, outside the dynamic range.
- **Time.** Gossip times are only ever compared. After every step they are renumbered as ranks (`NormalizeGossipTimes`).
  - 0 and 1 are the ASAP values of `schedule_gossip_asap`.
  - 2 and above follow the order of publication.
  - A publication uses a time later than every stored one (`NextStamp`).
  - Whether a second has passed for `age_topic` is the nondeterministic `bump`.
- **Bounds.** Eviction counters and ages are unbounded in the code. A step whose result exceeds `MaxEvictions` or `MaxAge` is not explored (`WithinBounds`), and received transfers saturate at `MaxAge`.
  - `MaxAge = 1` gives log2 ages of -1 and 0. That is enough for both outcomes of every age comparison.
  - `MaxEvictions = 2` lets a topic be displaced twice in one cascade: 12 goes from 0 to 1, loses to the pinned topic, and goes on to 2.
- **Futures.** There are two topics, two futures and a clock of 0..2. Topic `t1` gets at most 3 publications and `t2` one.
  - The CAN mask of 31 is scaled to 1, so the third publication on `t1` repeats the key of the first. That drives the `-12345` collision path and wrong matches.
  - The single publication on `t2` lets a future completed on `t1` be reused on another topic, and puts futures of two topics in the one deadline index.
  - Three publications on both topics take over 10 minutes under the fairness of the liveness property. Symmetry would cut that, but it is not sound for liveness checking, so the run does without it.
  - Start values are every residue for the cyclic mask. Behaviour depends only on key equality within a topic, so it is the same up to a shift for any other start.
  - Deadlines range over 0..1, so a future can be late at its first sweep or later, including one registered late by a callback inside a sweep.
- **Names.** `CY_TOPIC_NAME_MAX` is 4 (so `CY_NAMESPACE_NAME_MAX` is 2), and `CY_TOTAL_SUBJECT_COUNT` is 11.
  - Raw names are every string of up to 3 characters over `/`, `~`, `a`, `0` and `1` (156 names). Namespaces are none, `"~"`, `"a"`, and `"aaa"`, which `cy_new` cuts to `"aa"`. The node name is `"a/"`, with the trailing `/` of the format `cy_new` uses.
  - With these, a composed form can be shorter than, equal to, and one or more characters over the limit.
  - `"1"` and `"10"` are pinned, `"11"` is over the bound, and `"0"`, `"01"` have a leading zero.
  - The table holds two topics, so the full-table check and refusals both happen.
- **Buffers.** Three payloads: `p1` in fragments of 2, 0 and 1 bytes, `p2` of 1 byte, `p3` of 3 bytes, with a topic hash of 2 bytes (it stands for 8). So a response head can be shorter than, equal to or longer than the hash, leaving a zero-size head, and one payload is scattered with an empty fragment in the middle (cy.h:168 allows it). Destination sizes 0..3 are below, at and above every payload size. Each payload is delivered once, which bounds the runs.
- **Not modelled.** Heartbeat byte layout, tracing and timestamps of events.

## Runs

| Run | Config | Checks | Result |
|---|---|---|---|
| `node_safety` | `MCCyNode.cfg` | `TypeOK`, `SubjectIdsUnique`, `AllocatorAssertHolds`, `SubscriptionsOnCurrentSubjectIds`, `AllocationAnnounced`, `AgeMonotone` | pass, 191,262 states, about 1.5 min |
| `net_convergence` | `MCCyNetworkLive.cfg` | `Convergence` | pass, 31,838 states, about 3 min |
| `nodeid_safety` | `MCCyNodeId.cfg` | `TypeOK`, `NodeIdValid`, `PickedIdFree` | pass, 8,702 states |
| `nodeid_can_pick_assert` | `MCCyNodeIdCan.cfg` | `NodeIdValid` | violation (finding) |
| `nodeid_set_failure` | `MCCyNodeIdSetFail.cfg` | `HeartbeatFromBoundId` | violation (finding) |
| `nodeid_max_repick` | `MCCyNodeIdMax.cfg` | `NodeIdKeptUntilCollision` | violation (finding) |
| `future_safety` | `MCCyFuture.cfg` | `TypeOK`, `IndicesAgree`, `SweepComplete`, `FutureContract`, `FuturesComplete` | pass, 289,428 states, about 45 s |
| `topic_hint_hang` | `MCCyNodeHintHang.cfg` | `TopicNewReturns` | violation (finding) |
| `names_safety` | `MCCyName.cfg` | `TypeOK`, `DuplicateOnlyForSameName`, `PinnedRoundTrip` | pass, 86,354 states, about 40 s |
| `names_truncation` | `MCCyNameTruncate.cfg` | `StoredAsCanonical` | violation (finding) |
| `buffers_safety` | `MCCyBuffer.cfg` | `TypeOK`, `OwnershipSound`, `GatherFaithful` | pass, 362 states |
| `buffers_contract` | `MCCyBufferContract.cfg` | `BufferContract` | violation (finding) |

`SubjectIdsUnique` under `node_safety` covers what a separate network safety run
would: `CyNode` receives every gossip in `MsgSpace`, a superset of what another
node of `CyNetwork` can send with the same constants.

What the properties say:
- **`SubjectIdsUnique`**
  - Every live topic is in the subject-ID index and once in the gossip index.
  - `topic_count` is right.
  - No two local topics share a subject-ID.
  - This holds after any displacement cascade and any gossip received.
- **`AllocatorAssertHolds`.** The assertion in the loop of `allocate_topic` never fails.
- **`SubscriptionsOnCurrentSubjectIds`.**
  - The transport listens exactly on the current subject-IDs of the topics marked subscribed.
  - No stale subscription survives a move, even when some resubscriptions fail.
- **`AllocationAnnounced`** is an action property.
  - A step that creates a topic or changes its eviction counter (`Moved`) leaves it at gossip time 0 or 1. So the next heartbeats announce the new allocation before any topic the network already knows.
  - That covers a new topic, every topic displaced in a cascade, and one that lost arbitration in `on_heartbeat`.
  - The only exception is the restore of lines 638-642: a topic that lands exactly on the counter of the gossip just received keeps its old time (`Confirms`).
  - A time of 0 or 1 is raised only by a heartbeat that publishes the topic (checked once with a throw-away property), so "until announced" needs no history variable.
  - Limit: a restore after landing past the remote's counter gives the same successor as a correct restore after a gossip at that counter. This property cannot tell the two apart; see the hazard at line 638.
- **`AgeMonotone`.** No step lowers a topic's age.
- **`Convergence`.**
  - Formally: `quiet ~> []Consistent`.
  - `Consistent` means every topic held by both nodes has equal eviction counters on them.
  - It also means no two different topics, on one node or on two, share a subject-ID.

- **`NodeIdValid`.** Every node-ID `pick_node_id` returns is in range, and its range assertions hold.
- **`PickedIdFree`.** While the filter has room, a picked node-ID avoids every marked neighbour and is marked afterwards. These are the `bloom64_get` assertions.
- **`HeartbeatFromBoundId`.** Every heartbeat is sent under the node-ID the transport holds.
- **`NodeIdKeptUntilCollision`.** A valid node-ID is given up only on a collision.

- **`IndicesAgree`.** The deadline index holds each future of the transfer-ID indices exactly once. Each such future is pending, under its own topic, and alone with its key. The `fut->state == cy_future_pending` assertions of the sweep and the response handler rest on this. It must survive key collisions, transport failures, reuse of completed futures, and publications from callbacks.
- **`SweepComplete`.** When the sweep of a `cy_update` ends, no registered future has a deadline before that call's `now`, even if a callback registered a late one.
- **`FutureContract`** is `Abs!Spec`: the registry refines `CyFutureAbstract`.
- **`FuturesComplete`.** Every registered future eventually leaves the pending state.
- **`TopicNewReturns`.** `cy_topic_new_hint` returns, whatever hint it is given.

- **`DuplicateOnlyForSameName`.** `cy_topic_new` refuses a name as taken only when a topic of that very name exists. Names and hashes stay one-to-one, which rests on `parse_pinned` refusing leading zeros.
- **`PinnedRoundTrip`.** The spec law "pinned round-trip", on the topics created: a topic named by the decimal form of a `k` in `[1, CY_TOTAL_SUBJECT_COUNT)` is pinned to `k`. A `parse_pinned` that refused every `0` digit would lose `"10"`.
- **`StoredAsCanonical`.** Every topic is stored under the spec's canonical form of the name it was created with.

- **`TypeOK`** of `CyBuffer` also says no view size goes negative, which needs the response handler's check that the head holds the topic hash.
- **`OwnershipSound`.** `platform->buffer_release` is called at most once per payload, and never while the `origin` of `sub_last_transfer` or `last_response` still holds it. It must hold whatever order Cy's replacement of a slot, the application's releases (also from a callback, before the future is reused) and the reuse of a future come in. It rests on `cy_buffer_owned_release` nulling `origin` and on both ingest handlers releasing what they replace.
- **`BufferContract`** is `Abs!Spec`: the payload handling refines `CyBufferAbstract`. Beyond `OwnershipSound`, no payload Cy took is left unreleased once no slot holds it, and no slot still shows the bytes of a released payload. The code breaks it (finding 6).
- **`GatherFaithful`.** From a held slot, `cy_buffer_borrowed_gather` into a buffer of any size returns the first bytes of the payload (past the topic hash for a response), and `CY_BUFFER_GATHER_ON_STACK` returns all of them. Zero-size fragments and clipping to the room left are the cases.

Each property of a passing run has a mutant in `PROJECT.json` that it rejects.

### Findings

The node-ID geometries are scaled down:
- **Wide** is `node_id_max` 9 with 4 bits in 2-bit words. It stands for 65534 with 4096 bits.
- **Can** is `node_id_max` 7 with 8 bits in 4-bit words. It stands for 127 with 128 bits.

Disagreements between the code and its spec or comments:
1. **`pick_node_id` fails its assertion on CAN (line 248).** With the Can geometry it can return `node_id_max` and fail `assert(node_id < node_id_max)`.
   - TLC's shortest trace has 7 states: the node holds a low ID (0 or 1, depending on which worker finds the trace), neighbours mark five of the bits below 7, a collision is reported, and the re-pick chooses 7.
   - The spec promises a valid ID in `[0, node_id_max]`.
2. **A failed `node_id_set()` is never retried (line 943).** The picked ID stays in `cy->node_id`. The next `cy_update` sees a valid ID, skips the claim, and publishes a heartbeat under an ID the transport does not hold. The code comment says "will try again next time".
3. **A valid `node_id_max` is re-picked (line 930).** `cy_update` re-picks whenever `node_id >= node_id_max`. `cy_new` accepts `node_id_max` as valid, so a node configured with it drops it at its first heartbeat.

4. **A hint can hang `cy_topic_new_hint` (line 1024).** Run `topic_hint_hang`. The hint is accepted when it is at most `node_id_max`, not below `CY_TOPIC_SUBJECT_COUNT`. For a dynamic topic and a hint outside the dynamic range, the loop at line 1028 never ends.

5. **A name one character too long is accepted and cut (line 84).** Run `names_truncation`. `compose_topic_name` checks the length of `tmp` (prefix, `/`, name) before slashes collapse, and fails only at an index over `CY_TOPIC_NAME_MAX`. So a `tmp` of 97 characters passes.
   - When nothing collapses, the loop writes 97 characters and then the terminator at `topic->name[97]`, one byte past the array.
   - `cy_topic_new_hint` then cuts the name to 96 (line 1001). TLC's trace, with the limit scaled to 4: namespace `"a"` and name `"a/~"` give `tmp` `"a/a/~"` (five characters), and the topic is stored as `"a/a/"`, with a trailing `/`.
   - cy.h says `cy_topic_new` returns NULL for an invalid name, and spec 4.C step 5 rejects a canonical form over 96 bytes.
   - The same check refuses names whose canonical form fits, such as a relative name of 96 characters under the default namespace `"/"`, whose `tmp` starts with `//`.

6. **Payloads leak or stay readable after release (lines 1214 and 774).** Run `buffers_contract`. Either trace has 4 states; TLC prints whichever its workers reach first.
   - `cy_publish` zeroes `fut->last_response` without releasing it. cy.h:493 lets a completed future be reused, and cy.h:507 says Cy frees the old payload first. Publish, a response, publish again: the first response is held nowhere and never released.
   - `cy_buffer_owned_release` nulls `origin` and `next` but leaves the head view, while cy.h:597 says it zeroes the pointers and sizes. Subscribe, a transfer of `p1`, the application's release: `p1` is returned, and the subscription's view still shows 2 of its bytes.

Finding 2 has a further consequence. The stale `cy->node_id` also lets a later collision call `node_id_clear()` while the transport holds no node-ID. cy.h:255 says this never happens.

Seen while modelling but not checked by a run of its own:
- **The hint is discarded.** A hint in range is fitted, then `allocate_topic(topic, 0, true)` (line 1057) resets the counter to 0. The topic lands on its preferred subject-ID, so the hint never takes effect, contrary to cy.h:652.
- **Spec §3 invariant 8 is stronger than the code.** It says a future is pending iff it is in both indices. A future rejected by `cy_publish` (key collision or transport failure) stays pending in no index. cy.h says such a future is not registered, and `FutureContract` checks that weaker promise.
- **A response can complete the wrong future (line 891).** Matching uses `transfer_id & mask` only. With the CAN mask scaled to 1, `f1` can be registered for transfer-ID 0, a failed publish and a `cy_publish1` then advance the counter to 2, and the response to transfer-ID 2 completes `f1`. Neither the spec nor cy.h rules this out.
- **`cy_topic_find_by_name` does not compose the name (line 1080).** It hashes the string as given. A topic created as `"/1"` is stored as `"1"` with hash 1, but `cy_topic_find_by_name("/1")` hashes `"/1"` and returns NULL. The same happens to every relative name under a namespace other than `"/"`. Only the stored form finds the topic.
- **A namespace `"~x"` loses `x`.** cy.h:796 says a namespace that begins with `~` "expands into the node name". `compose_topic_name` replaces the whole namespace with the node name.
- **A leading `~` can survive.** cy.h:533 says the leading `/` and `~` "are never actually present in the final topic name", but `"/~a"` is stored as `"~a"`.
- **`-12345` skips the transfer-ID increment (line 1222).** cy.h:739 says the transfer-ID "is always incremented, even on failure". When the masked key of a pending future comes round again, `cy_publish` returns early without the increment. Every later call on that topic then hits the same key and fails without sending, until the future completes.
- **The example node publishes only its first topic (part_003, line 279).** The set-up loop writes `futures->state` instead of `futures[i].state`. `calloc` leaves every other future at 0, which is `cy_future_pending`, and the loop at line 299 skips a pending future. So topics after the first are never published. Also, a future that `cy_publish` rejects stays pending and is in no index (line 1210), so after one failed publication the example never publishes that topic again.
- **Double release stays safe despite the stale view.** Only `origin` is tested before a release, so the head view left by `cy_buffer_owned_release` (finding 6) never leads Cy itself to release a payload twice; `OwnershipSound` checks this.
- **`cy_unsubscribe` is declared (cy.h:734) but not defined**, so a subscription is never removed.
- **`cy_future_cancel` is declared (cy.h:766) but not defined** anywhere in the sources. There is no cancellation to model.

Why these bounds:
- **`MCCyNode`.** One node may create the topics 1, 8 and 12 (the heartbeat topic 5 exists from `cy_new`). It may receive any gossip in `[hash, evictions, age]` over those bounds. That covers:
  - local displacement;
  - cascades through the pinned topic;
  - both branches of `on_heartbeat`, including adopting a remote counter and restoring the gossip time.
- **`MCCyNetwork`.** The convergence run uses n1 {8} and n2 {12}, the smallest collision that needs the protocol to resolve it.

## Fairness

- `cy_update` is called periodically by the embedder, and publishes a heartbeat whenever its period has elapsed.
- In the model, a heartbeat after `quiet` waits until every inbox is empty. This models delivery within one heartbeat period (100 ms). So `Heartbeat(n)` is only intermittently enabled.
- The timer of `cy_update` still fires it, which is strong fairness: `SF_vars(Heartbeat(n))` for each node.
- Reception is weakly fair.
- Before `quiet`, nothing is fair. Loss and the application may act arbitrarily, but only finitely often.
- **Futures.** cy.h says `cy_update` "must be invoked periodically", and the clock never stops. Both `BeginUpdate` and `Tick` are enabled only when the thread is idle, so they get strong fairness. Once started, the sweep and the callbacks run to completion, which is weak fairness on `RetireTimedOut`, `SweepDone` and `CallbackReturn`. Publications and responses get none: the application may stop, and the remote may never answer.

## Not modelled

- `cy_respond` changes no state; the remote echoing a sent transfer-ID stands for it.
- The UDP wrapper's sockets are not modelled: their implementation is not among the sources.
- rapidhash itself: it is treated as collision-free, and never below `CY_TOTAL_SUBJECT_COUNT`.
- The node name that `cy_new` formats from the UID is a constant of `CyName`.
- The example node (`part_003`): argument parsing and tracing around the library. Its use of futures and payloads is what the environments of `CyBuffer` and `CyFuture` allow. The defects seen in it are listed among the observations.
- The build scripts.

## Plan for what is not modelled yet

1. **Node-ID allocation across several nodes.** `CyNodeId` covers one node. The remaining question is whether two nodes that pick the same node-ID both move, through the collision reports and the back-off.
2. **Futures across topics created and destroyed at run time.** Today the topics are fixed.
3. **An abstract allocation specification.** A set of (topic, subject-ID) pairs with uniqueness, with `CyNode` shown to refine it through `INSTANCE ... WITH`.
4. **Names and allocation together.** `CyName` hands the allocator hashes of names; `CyNode` takes the hashes as given.
