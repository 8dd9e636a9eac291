------------------------------ MODULE CyFuture ------------------------------
(***************************************************************************)
(* The response-future registry of cy.c: cy_publish with and without a     *)
(* future, cy_ingest_topic_response_transfer, and the deadline sweep       *)
(* retire_timed_out_futures that opens cy_update, with the user callbacks  *)
(* they invoke, which may publish again (reusing a completed future).      *)
(*                                                                         *)
(* The per-topic index futures_by_transfer_id is a set of futures per      *)
(* topic, keyed by their transfer_id_masked; the global index              *)
(* futures_by_deadline is a sequence sorted by deadline, FIFO among equal  *)
(* deadlines since its comparator never returns 0.  The remote side        *)
(* answers any publication that went out, any number of times and after    *)
(* any delay, so a response is any transfer-ID in sent[t].  Responses that *)
(* are malformed, name an unknown topic or match no future return before   *)
(* touching this state (their mark_neighbor is CyNodeId's MarkNeighbor).   *)
(*                                                                         *)
(* pc follows the embedder's thread: idle, inside the sweep of cy_update,  *)
(* or inside a response callback invoked from the sweep or from the       *)
(* response handler.                                                       *)
(***************************************************************************)
EXTENDS Integers, Sequences, SequencesExt, FiniteSets

CONSTANTS
  Topics,          \* the local topics that publish
  Futures,         \* the application's cy_future_t objects
  NoTopic,         \* future->topic of a future from cy_future_new (NULL)
  None,            \* an empty last_response slot
  TransferIdMask,  \* platform->transfer_id_mask (31 on CAN, 2^64-1 elsewhere)
  TidStarts,       \* the values of random_u64() the model starts pub_transfer_id at
  MaxPublish,      \* MaxPublish[t]: model bound on cy_publish calls on topic t
  MaxTime          \* model bound on the platform clock

ASSUME /\ TransferIdMask \in Nat /\ MaxPublish \in [Topics -> Nat] /\ MaxTime \in Nat \ {0}
       /\ NoTopic \notin Topics /\ TidStarts \subseteq Nat

VARIABLES
  now,           \* platform->now()
  pubTid,        \* topic->pub_transfer_id
  publishing,    \* topic->publishing
  fut,           \* the fields of each cy_future_t the registry uses
  byTid,         \* topic->futures_by_transfer_id
  byDeadline,    \* cy->futures_by_deadline
  sent,          \* transfer-IDs published on each topic (the remote's view)
  calls,         \* cy_publish calls made on each topic
  pc,            \* where the embedder's thread is
  sweepNow       \* the `now` cy_update passed to retire_timed_out_futures

vars == <<now, pubTid, publishing, fut, byTid, byDeadline, sent, calls, pc,
          sweepNow>>

States == {"pending", "success", "failure"}

-----------------------------------------------------------------------------
\* The transport contract "one less than an integer power of two" makes
\* (x & transfer_id_mask) the remainder modulo transfer_id_mask + 1.
Masked(x) == x % (TransferIdMask + 1)

\* struct cy_future_t, reduced to topic, state, transfer_id_masked, deadline
\* and the transfer-ID of last_response; tid is the full transfer-ID of the
\* publication the future was registered for, which the code does not keep.
FutureRecord ==
  [topic : Topics \cup {NoTopic}, state : States, key : Nat,
   deadline : Nat, tid : Nat, resp : Nat \cup {None}]

\* Mutant: the future is built without zeroing its state, which is then
\* whatever the storage held.
NewFutureUninitialised ==
  [topic |-> NoTopic, state |-> None, key |-> 0, deadline |-> 0,
   tid |-> 0, resp |-> None]

\* cy_future_new: zero-initialised, so its state is cy_future_pending.
NewFuture ==
  [topic |-> NoTopic, state |-> "pending", key |-> 0, deadline |-> 0,
   tid |-> 0, resp |-> None]

\* The futures in some topic's transfer-ID index: those cy_publish accepted.
Registered == UNION {byTid[t] : t \in Topics}

\* cavl2_find on futures_by_transfer_id with cavl_comp_future_transfer_id_masked.
FindByKey(t, k) == {f \in byTid[t] : fut[f].key = k}

\* cavl2_find_or_insert into futures_by_deadline: after every future whose
\* deadline is <= the new one.
InsertByDeadline(seq, f, dl) ==
  InsertAt(seq, Len(SelectSeq(seq, LAMBDA g : fut[g].deadline <= dl)) + 1, f)

RemoveFuture(seq, f) == SelectSeq(seq, LAMBDA g : g # f)

\* future->transfer_id_masked of cy_publish.
FutureKey(t) == Masked(pubTid[t])

\* Mutant: a future is late already at its deadline.
MinDeadlineBeforeInclusive(t) ==
  byDeadline # <<>> /\ fut[Head(byDeadline)].deadline <= t

\* The loop condition of retire_timed_out_futures: the minimum of the
\* deadline index exists and its deadline is before t.
MinDeadlineBefore(t) ==
  byDeadline # <<>> /\ fut[Head(byDeadline)].deadline < t

CanCall == pc \in {"idle", "cbSweep", "cbResp"}

-----------------------------------------------------------------------------
\* The topics were made by cy_topic_new_hint, which seeds pub_transfer_id
\* with random_u64(); cy_new leaves the deadline index empty.
Init ==
  /\ now = 0
  /\ pubTid \in [Topics -> TidStarts]
  /\ publishing = [t \in Topics |-> FALSE]
  /\ fut = [f \in Futures |-> NewFuture]
  /\ byTid = [t \in Topics |-> {}]
  /\ byDeadline = <<>>
  /\ sent = [t \in Topics |-> {}]
  /\ calls = [t \in Topics |-> 0]
  /\ pc = "idle"
  /\ sweepNow = 0

\* The clock advances between calls into the library.
Tick ==
  /\ pc = "idle" /\ now < MaxTime
  /\ now' = now + 1
  /\ UNCHANGED <<pubTid, publishing, fut, byTid, byDeadline, sent, calls, pc,
                 sweepNow>>

\* Mutant: a failed transport publish leaves the future in the
\* transfer-ID index.
PublishNoRollback(t, f, dl, ok) ==
  LET key == FutureKey(t)
      set == [topic |-> t, state |-> "pending", key |-> key, deadline |-> dl,
              tid |-> pubTid[t], resp |-> None]
  IN  /\ fut' = [fut EXCEPT ![f] = set]
      /\ publishing' = [publishing EXCEPT ![t] = TRUE]
      /\ calls' = [calls EXCEPT ![t] = @ + 1]
      /\ IF FindByKey(t, key) # {}
         THEN UNCHANGED <<pubTid, byTid, byDeadline, sent>>
         ELSE /\ byTid' = [byTid EXCEPT ![t] = @ \cup {f}]
              /\ byDeadline' = IF ok THEN InsertByDeadline(byDeadline, f, dl)
                                     ELSE byDeadline
              /\ sent' = IF ok THEN [sent EXCEPT ![t] = @ \cup {pubTid[t]}]
                               ELSE sent
              /\ pubTid' = [pubTid EXCEPT ![t] = @ + 1]

\* cy_publish with a future f the application may pass (one cy_publish
\* did not accept, or one that completed), response deadline dl, and ok
\* the result of platform->topic_publish.  The future is filled in first;
\* if its masked transfer-ID is in flight the call returns -12345 at once.
\* Otherwise the transport publishes; on success the future joins the
\* deadline index, on failure it leaves the transfer-ID index again.
Publish(t, f, dl, ok) ==
  LET key == FutureKey(t)
      set == [topic |-> t, state |-> "pending", key |-> key, deadline |-> dl,
              tid |-> pubTid[t], resp |-> None]
  IN  /\ fut' = [fut EXCEPT ![f] = set]
      /\ publishing' = [publishing EXCEPT ![t] = TRUE]
      /\ calls' = [calls EXCEPT ![t] = @ + 1]
      /\ IF FindByKey(t, key) # {}
         THEN UNCHANGED <<pubTid, byTid, byDeadline, sent>>
         ELSE /\ byTid' = IF ok THEN [byTid EXCEPT ![t] = @ \cup {f}]
                                ELSE byTid
              /\ byDeadline' = IF ok THEN InsertByDeadline(byDeadline, f, dl)
                                     ELSE byDeadline
              /\ sent' = IF ok THEN [sent EXCEPT ![t] = @ \cup {pubTid[t]}]
                               ELSE sent
              /\ pubTid' = [pubTid EXCEPT ![t] = @ + 1]

\* cy_publish1: cy_publish without a future.
Publish1(t, ok) ==
  /\ publishing' = [publishing EXCEPT ![t] = TRUE]
  /\ calls' = [calls EXCEPT ![t] = @ + 1]
  /\ sent' = IF ok THEN [sent EXCEPT ![t] = @ \cup {pubTid[t]}] ELSE sent
  /\ pubTid' = [pubTid EXCEPT ![t] = @ + 1]
  /\ UNCHANGED <<fut, byTid, byDeadline>>

\* The application publishes, from its loop or from a response callback.
UserPublish ==
  /\ CanCall
  /\ \E t \in Topics, ok \in BOOLEAN :
       /\ calls[t] < MaxPublish[t]
       /\ \/ \E f \in Futures \ Registered, dl \in 0..MaxTime - 1 :
               Publish(t, f, dl, ok)
          \/ Publish1(t, ok)
  /\ UNCHANGED <<now, pc, sweepNow>>

\* struct cy_transfer_owned_t of a response, reduced to the topic hash in
\* the first 8 bytes of its payload and metadata.transfer_id: those of a
\* transfer that went out, which cy_respond echoes.  Timestamp, priority,
\* remote_node_id and the rest of the payload are left out.
ResponseTransfers ==
  UNION {{[hash |-> t, transferId |-> k] : k \in sent[t]} : t \in Topics}

\* cy_ingest_topic_response_transfer for a response r that matches a
\* future: success, the response kept, the future removed from both
\* indices, then its callback.
IngestResponse(r) ==
  /\ pc = "idle"
  /\ \E f \in FindByKey(r.hash, Masked(r.transferId)) :
       /\ fut' = [fut EXCEPT ![f].state = "success", ![f].resp = r.transferId]
       /\ byDeadline' = RemoveFuture(byDeadline, f)
       /\ byTid' = [byTid EXCEPT ![r.hash] = @ \ {f}]
  /\ pc' = "cbResp"
  /\ UNCHANGED <<now, pubTid, publishing, sent, calls, sweepNow>>

\* Mutant: cy_update sweeps with the time of the previous sweep, a cached
\* timestamp instead of cy_now(cy).
BeginUpdateStale ==
  /\ pc = "idle"
  /\ pc' = "sweep"
  /\ UNCHANGED <<now, pubTid, publishing, fut, byTid, byDeadline, sent, calls,
                 sweepNow>>

\* cy_update starts: retire_timed_out_futures(cy, now).
BeginUpdate ==
  /\ pc = "idle"
  /\ pc' = "sweep" /\ sweepNow' = now
  /\ UNCHANGED <<now, pubTid, publishing, fut, byTid, byDeadline, sent, calls>>

\* One iteration of the sweep: the earliest deadline, if before now, fails,
\* leaves both indices, and its callback runs.
RetireTimedOut ==
  /\ pc = "sweep"
  /\ MinDeadlineBefore(sweepNow)
  /\ LET f == Head(byDeadline)
     IN  /\ byDeadline' = Tail(byDeadline)
         /\ byTid' = [byTid EXCEPT ![fut[f].topic] = @ \ {f}]
         /\ fut' = [fut EXCEPT ![f].state = "failure"]
  /\ pc' = "cbSweep"
  /\ UNCHANGED <<now, pubTid, publishing, sent, calls, sweepNow>>

\* The sweep loop ends when the minimum is not before now; the rest of
\* cy_update (node-ID and heartbeat) leaves the registry alone.
SweepDone ==
  /\ pc = "sweep"
  /\ ~MinDeadlineBefore(sweepNow)
  /\ pc' = "idle"
  /\ UNCHANGED <<now, pubTid, publishing, fut, byTid, byDeadline, sent, calls,
                 sweepNow>>

\* Mutant: the sweep handles one future per cy_update (if, not while).
CallbackReturnEndsSweep ==
  /\ pc \in {"cbSweep", "cbResp"}
  /\ pc' = "idle"
  /\ UNCHANGED <<now, pubTid, publishing, fut, byTid, byDeadline, sent, calls,
                 sweepNow>>

\* The callback returns: the sweep re-reads the minimum, the response
\* handler returns.
CallbackReturn ==
  /\ pc \in {"cbSweep", "cbResp"}
  /\ pc' = IF pc = "cbSweep" THEN "sweep" ELSE "idle"
  /\ UNCHANGED <<now, pubTid, publishing, fut, byTid, byDeadline, sent, calls,
                 sweepNow>>

Next ==
  \/ Tick
  \/ UserPublish
  \/ \E r \in ResponseTransfers : IngestResponse(r)
  \/ BeginUpdate
  \/ RetireTimedOut
  \/ SweepDone
  \/ CallbackReturn

Spec == Init /\ [][Next]_vars

\* cy_update "must be invoked periodically" and the clock never stops, so
\* both happen again however often the application calls in between;
\* the sweep and the callbacks run to completion once started.
Fairness ==
  /\ SF_vars(Tick) /\ SF_vars(BeginUpdate)
  /\ WF_vars(RetireTimedOut) /\ WF_vars(SweepDone) /\ WF_vars(CallbackReturn)

LiveSpec == Spec /\ Fairness

-----------------------------------------------------------------------------
TypeOK ==
  /\ now \in 0..MaxTime /\ sweepNow \in 0..MaxTime
  /\ pubTid \in [Topics -> Nat] /\ calls \in [Topics -> Nat]
  /\ publishing \in [Topics -> BOOLEAN]
  /\ fut \in [Futures -> FutureRecord]
  /\ byTid \in [Topics -> SUBSET Futures]
  /\ byDeadline \in Seq(Futures)
  /\ sent \in [Topics -> SUBSET Nat]
  /\ pc \in {"idle", "sweep", "cbSweep", "cbResp"}

\* Spec section 8, invariant 3, in both directions: the deadline index holds
\* each future of the transfer-ID indices exactly once, each pending, under
\* its own topic and the only one with its masked transfer-ID there.  The
\* assertions fut->state == cy_future_pending of the sweep and of the
\* response handler rest on it, across publish failures, reuse of
\* completed futures and publications from callbacks.
IndicesAgree ==
  /\ IsInjective(byDeadline)
  /\ ToSet(byDeadline) = Registered
  /\ \A t \in Topics : \A f \in byTid[t] :
       /\ fut[f].topic = t /\ fut[f].state = "pending"
       /\ FindByKey(t, fut[f].key) = {f}

\* retire_timed_out_futures re-reads the minimum after each callback
\* because a callback may register a future that is already late: when the
\* sweep of a cy_update call ends, no registered future has a deadline
\* before the time it was called with.
SweepComplete ==
  [][(pc \in {"sweep", "cbSweep"} /\ pc' = "idle")
      => \A f \in Registered : fut[f].deadline >= sweepNow]_vars

\* Spec scenario 5: every future cy_publish accepts leaves the pending
\* state, by a response or by the deadline sweep, whether or not the
\* remote ever answers.
FuturesComplete ==
  \A f \in Futures : f \in Registered ~> fut[f].state # "pending"

\* The refinement mapping to CyFutureAbstract: the registered futures are
\* the pending ones; a future outside the indices reports the state its
\* last completion left, none if it was never completed or was handed to
\* a cy_publish that did not register it.
AbsOutcome ==
  [f \in Futures |->
     IF f \in Registered \/ fut[f].state = "pending" THEN "none"
     ELSE fut[f].state]

AbsDeadline ==
  [f \in Futures |-> IF f \in Registered THEN fut[f].deadline ELSE 0]

Abs == INSTANCE CyFutureAbstract
         WITH pending <- Registered, outcome <- AbsOutcome,
              deadline <- AbsDeadline, clock <- now

\* The registry implements the promises of cy.h on futures: a future is
\* registered only when free, completes once per registration, fails only
\* once the clock is past its deadline, and succeeds only while pending.
FutureContract == Abs!Spec

=============================================================================
