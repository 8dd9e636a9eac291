------------------------------ MODULE CyBuffer ------------------------------
(***************************************************************************)
(* Ownership of received payloads in one Cy node: the payload chains that  *)
(* cy_ingest_topic_transfer and cy_ingest_topic_response_transfer take     *)
(* over, the slots that hold them (topic->sub_last_transfer and            *)
(* fut->last_response), cy_buffer_owned_release, and the readers           *)
(* cy_buffer_borrowed_get_size, cy_buffer_borrowed_gather and              *)
(* CY_BUFFER_GATHER_ON_STACK.  One topic and one future.                   *)
(*                                                                         *)
(* A payload is a model value; byte i of payload p is <<p, i>>.  A        *)
(* fragment is a view [data |-> p, off |-> o, size |-> n] of bytes o+1..o+n *)
(* of p, so the header skip of the response path is pointer arithmetic on  *)
(* the head view, as in the code.                                          *)
(***************************************************************************)
EXTENDS Integers, Sequences, FiniteSets

CONSTANTS
  Payloads,    \* the payloads the transport may deliver, each once
  Frags,       \* Frags[p]: the fragment sizes of p's chain, head first
  HeaderSize,  \* sizeof(uint64_t) topic hash at the head of a response
  DestSizes,   \* sizes of the buffers the application gathers into
  None         \* NULL

\* smaller()
Smaller(a, b) == IF a < b THEN a ELSE b

\* The chain of payload p as the transport delivers it (struct
\* cy_buffer_borrowed_t: the head by value, next fragments behind it).
RECURSIVE ChainFrom(_, _, _)
ChainFrom(p, sizes, off) ==
  IF sizes = <<>> THEN <<>>
  ELSE <<[data |-> p, off |-> off, size |-> Head(sizes)]>> \o ChainFrom(p, Tail(sizes), off + Head(sizes))

\* struct cy_buffer_owned_t of a delivered payload: origin is the allocation.
Delivered(p) == [origin |-> p, head |-> ChainFrom(p, Frags[p], 0)[1], next |-> Tail(ChainFrom(p, Frags[p], 0))]

\* A zero-initialized cy_transfer_owned_t payload.
Empty == [origin |-> None, head |-> [data |-> None, off |-> 0, size |-> 0], next |-> <<>>]

\* cy_buffer_owned_release: a payload whose origin is set is handed to the
\* platform's buffer_release, then next and origin are cleared.  The view
\* of the head is left as it was.
ReleaseCount(rel, slot) ==
  IF slot.origin # None THEN [rel EXCEPT ![slot.origin] = @ + 1] ELSE rel

CyBufferOwnedReleaseNoClear(slot) == slot

CyBufferOwnedRelease(slot) ==
  IF slot.origin # None THEN [slot EXCEPT !.origin = None, !.next = <<>>] ELSE slot

\* cy_buffer_borrowed_get_size: the sizes of the head and the next fragments.
BorrowedGetSizeNoHead(slot) ==
  LET RECURSIVE sum(_) sum(s) == IF s = <<>> THEN 0 ELSE Head(s).size + sum(Tail(s))
  IN sum(slot.next)

BorrowedGetSize(slot) ==
  LET RECURSIVE sum(_) sum(s) == IF s = <<>> THEN 0 ELSE Head(s).size + sum(Tail(s))
  IN slot.head.size + sum(slot.next)

\* The bytes of one fragment view, first n of them.
FragBytes(f, n) == [i \in 1..n |-> <<f.data, f.off + i>>]

\* cy_buffer_borrowed_gather without the clip to the room left.
GatherUnclipped(slot, dsize) ==
  LET RECURSIVE go(_, _) go(frags, out) ==
        IF frags = <<>> \/ Len(out) >= dsize THEN out
        ELSE go(Tail(frags), out \o FragBytes(Head(frags), Head(frags).size))
  IN go(<<slot.head>> \o slot.next, <<>>)

\* cy_buffer_borrowed_gather: copy fragment after fragment while the
\* destination has room, each clipped to the room left.
Gather(slot, dsize) ==
  LET RECURSIVE go(_, _) go(frags, out) ==
        IF frags = <<>> \/ Len(out) >= dsize THEN out
        ELSE go(Tail(frags), out \o FragBytes(Head(frags), Smaller(Head(frags).size, dsize - Len(out))))
  IN go(<<slot.head>> \o slot.next, <<>>)

\* CY_BUFFER_GATHER_ON_STACK: the head view when it is the only fragment,
\* else a gather into storage of cy_buffer_borrowed_get_size bytes.
GatherOnStack(slot) ==
  IF slot.next = <<>> THEN FragBytes(slot.head, slot.head.size)
  ELSE Gather(slot, BorrowedGetSize(slot))

-----------------------------------------------------------------------------
VARIABLES
  delivered,  \* payloads the transport has handed to Cy
  releases,   \* releases[p]: calls of platform->buffer_release for p
  hasSubs,    \* topic->sub_list != NULL
  sub,        \* topic->sub_last_transfer.payload
  fut         \* the future: state, whether it is in the indices, last_response.payload

vars == <<delivered, releases, hasSubs, sub, fut>>

States == {"fresh", "pending", "success", "failure"}

Init ==
  /\ delivered = {}
  /\ releases = [p \in Payloads |-> 0]
  /\ hasSubs = FALSE
  /\ sub = Empty
  /\ fut = [state |-> "fresh", registered |-> FALSE, resp |-> Empty]

\* cy_subscribe: the topic gets a subscription (cy_unsubscribe is not defined).
Subscribe ==
  /\ ~hasSubs
  /\ hasSubs' = TRUE
  /\ UNCHANGED <<delivered, releases, sub, fut>>

\* cy_ingest_topic_transfer: with no subscription the payload is released;
\* otherwise the previous one is released and the new one stored.
IngestTopicTransfer(p) ==
  /\ p \notin delivered
  /\ delivered' = delivered \cup {p}
  /\ IF hasSubs
     THEN /\ releases' = ReleaseCount(releases, sub)
          /\ sub' = Delivered(p)
     ELSE /\ releases' = [releases EXCEPT ![p] = @ + 1]
          /\ UNCHANGED sub
  /\ UNCHANGED <<hasSubs, fut>>

\* The head view of a response after the topic hash: size -= 8, data += 8.
SkipHeader(slot) == [slot EXCEPT !.head.off = @ + HeaderSize, !.head.size = @ - HeaderSize]

\* cy_ingest_topic_response_transfer.  A head shorter than the header, an
\* unknown topic hash and a transfer-ID without a pending future release
\* the payload; a match completes the future, releases its previous
\* response and stores this one past the header.
IngestResponseNoShortCheck(p) ==
  /\ p \notin delivered
  /\ delivered' = delivered \cup {p}
  /\ \/ /\ releases' = [releases EXCEPT ![p] = @ + 1]
        /\ UNCHANGED fut
     \/ /\ fut.registered
        /\ releases' = ReleaseCount(releases, fut.resp)
        /\ fut' = [state |-> "success", registered |-> FALSE, resp |-> SkipHeader(Delivered(p))]
  /\ UNCHANGED <<hasSubs, sub>>

IngestResponse(p) ==
  /\ p \notin delivered
  /\ delivered' = delivered \cup {p}
  /\ \/ /\ releases' = [releases EXCEPT ![p] = @ + 1]
        /\ UNCHANGED fut
     \/ /\ Frags[p][1] >= HeaderSize
        /\ fut.registered
        /\ releases' = ReleaseCount(releases, fut.resp)
        /\ fut' = [state |-> "success", registered |-> FALSE, resp |-> SkipHeader(Delivered(p))]
  /\ UNCHANGED <<hasSubs, sub>>

\* cy_publish with the future: last_response is zeroed and the future is
\* pending; it is in the indices unless the transfer-ID insertion or the
\* transport failed.  A future still in the indices is not reused; one
\* that completed may be (cy.h: "Once it is not pending, it can be reused
\* for another request"), whatever its last_response holds.
Publish(ok) ==
  /\ ~fut.registered
  /\ fut' = [state |-> "pending", registered |-> ok, resp |-> Empty]
  /\ UNCHANGED <<delivered, releases, hasSubs, sub>>

\* retire_timed_out_futures for this future.
RetireTimedOut ==
  /\ fut.registered
  /\ fut' = [fut EXCEPT !.state = "failure", !.registered = FALSE]
  /\ UNCHANGED <<delivered, releases, hasSubs, sub>>

\* The application calls cy_buffer_owned_release on a slot (from a callback
\* or later).  On a released slot the call has no effect.
AppReleaseSub ==
  /\ sub.origin # None
  /\ releases' = ReleaseCount(releases, sub)
  /\ sub' = CyBufferOwnedRelease(sub)
  /\ UNCHANGED <<delivered, hasSubs, fut>>

AppReleaseResponse ==
  /\ fut.resp.origin # None
  /\ releases' = ReleaseCount(releases, fut.resp)
  /\ fut' = [fut EXCEPT !.resp = CyBufferOwnedRelease(@)]
  /\ UNCHANGED <<delivered, hasSubs, sub>>

Next ==
  \/ Subscribe
  \/ \E p \in Payloads : IngestTopicTransfer(p) \/ IngestResponse(p)
  \/ \E ok \in BOOLEAN : Publish(ok)
  \/ RetireTimedOut
  \/ AppReleaseSub
  \/ AppReleaseResponse

Spec == Init /\ [][Next]_vars

-----------------------------------------------------------------------------
View == [data : Payloads \cup {None}, off : Nat, size : Nat]

TypeOK ==
  /\ delivered \subseteq Payloads
  /\ releases \in [Payloads -> Nat]
  /\ hasSubs \in BOOLEAN
  /\ sub.origin \in Payloads \cup {None} /\ sub.head \in View /\ sub.next \in Seq(View)
  /\ fut.state \in States /\ fut.registered \in BOOLEAN
  /\ fut.resp.origin \in Payloads \cup {None} /\ fut.resp.head \in View /\ fut.resp.next \in Seq(View)

\* The slots holding payload p.
Holders(p) == {s \in {sub, fut.resp} : s.origin = p}

\* The bytes of p from byte k + 1 on.
BytesAfter(p, k) ==
  LET total == LET RECURSIVE sum(_) sum(s) == IF s = <<>> THEN 0 ELSE Head(s) + sum(Tail(s)) IN sum(Frags[p])
  IN [i \in 1..(total - k) |-> <<p, k + i>>]

\* What the application reads from a held slot is the payload as delivered
\* (past the topic hash for a response): cy_buffer_borrowed_gather into any
\* buffer gives its first bytes, and CY_BUFFER_GATHER_ON_STACK all of them.
GatherFaithful ==
  \A s \in {<<sub, 0>>, <<fut.resp, HeaderSize>>} :
    s[1].origin # None =>
      LET want == BytesAfter(s[1].origin, s[2])
      IN /\ GatherOnStack(s[1]) = want
         /\ \A d \in DestSizes : Gather(s[1], d) = SubSeq(want, 1, Smaller(d, Len(want)))

\* cy_buffer_owned_release is the only way a payload goes back to the
\* platform, and it nulls origin.data "to prevent double-free errors": no
\* payload is released twice, and none while a slot's origin still holds
\* it, across replacements in both slots, the application's releases and
\* the reuse of a future.
OwnershipSound ==
  \A p \in Payloads : releases[p] <= 1 /\ (Holders(p) # {} => releases[p] = 0)

(***************************************************************************)
(* The ownership contract of cy.h (buffer_release, last_response,          *)
(* sub_last_transfer, cy_buffer_owned_release): a payload not yet handed   *)
(* over is the transport's; one Cy took is held in a slot and not yet      *)
(* released, or released exactly once and readable nowhere.  A slot makes *)
(* p readable while its origin is p or its borrowed view still shows      *)
(* bytes of p: cy_buffer_owned_release is to zero "pointers and sizes".    *)
(* Anything else (released twice, released while still readable, or held *)
(* nowhere and never released: a leak) maps outside the abstract states.  *)
(***************************************************************************)
Readable(p) ==
  {s \in {sub, fut.resp} : s.origin = p \/ (s.head.data = p /\ BorrowedGetSize(s) > 0)}

OwnerOf(p) ==
  CASE p \notin delivered                         -> "transport"
    [] releases[p] = 0 /\ Readable(p) # {}        -> "held"
    [] releases[p] = 1 /\ Readable(p) = {}        -> "returned"
    [] OTHER                                      -> "lost"

Abs == INSTANCE CyBufferAbstract WITH owner <- [p \in Payloads |-> OwnerOf(p)]

\* Ingestion, replacement in a slot, Cy's and the application's releases
\* and the reuse of a completed future implement the contract: every
\* payload is returned exactly once when it leaves Cy's hands, and no slot
\* shows its bytes after that.
BufferContract == Abs!Spec
=============================================================================
