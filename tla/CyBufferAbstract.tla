-------------------------- MODULE CyBufferAbstract --------------------------
(***************************************************************************)
(* What cy.h promises of received payload memory: the transport hands a    *)
(* payload to cy_ingest*, which takes ownership of it; from then on the    *)
(* payload is held where it can be released (the subscription's or the   *)
(* future's last transfer), or it has been returned with the platform's    *)
(* buffer_release, exactly once.  A delivery may return the payload it     *)
(* replaces in the same step.  CyBuffer implements this specification      *)
(* under the mapping OwnerOf.                                              *)
(***************************************************************************)
CONSTANTS Payloads

VARIABLE owner   \* owner[p]: "transport", "held" or "returned"

Owners == {"transport", "held", "returned"}

Init == owner = [p \in Payloads |-> "transport"]

\* cy_ingest*: "the payload ownership is transferred" to Cy, which keeps p
\* or returns it at once; a payload p replaces, if any, is returned.
Take(p, replaced) ==
  /\ owner[p] = "transport"
  /\ \A q \in replaced : q # p /\ owner[q] = "held"
  /\ \E o \in {"held", "returned"} :
       owner' = [q \in Payloads |->
                   IF q = p THEN o ELSE IF q \in replaced THEN "returned" ELSE owner[q]]

\* cy_buffer_owned_release: a held payload is returned.
Return(p) ==
  /\ owner[p] = "held"
  /\ owner' = [owner EXCEPT ![p] = "returned"]

Next ==
  \/ \E p \in Payloads, q \in Payloads : Take(p, {}) \/ Take(p, {q})
  \/ \E p \in Payloads : Return(p)

Spec == Init /\ [][Next]_owner
=============================================================================
