------------------------------- MODULE CyName -------------------------------
(***************************************************************************)
(* Topic names of one Cy node: cy_new's namespace, compose_topic_name,     *)
(* parse_pinned and topic_hash, and the name side of cy_topic_new_hint,    *)
(* its topics-by-hash index and cy_topic_find_by_name.                     *)
(*                                                                         *)
(* A C string is a sequence of one-character strings.  rapidhash is        *)
(* abstracted to a hash without collisions: a hash is a pair whose first   *)
(* component is the pinned subject-ID, or TotalSubjectCount for a hashed   *)
(* name, and whose second is the hashed name (the odds of rapidhash        *)
(* colliding or landing below CY_TOTAL_SUBJECT_COUNT, ~4e-16, are left     *)
(* out).  The subject-ID allocation that follows the insertion into the    *)
(* index is CyTopic's and CyNode's, and is left out here.                  *)
(***************************************************************************)
EXTENDS Integers, Sequences, SequencesExt, FiniteSets

CONSTANTS
  NameMax,            \* CY_TOPIC_NAME_MAX
  TotalSubjectCount,  \* CY_TOTAL_SUBJECT_COUNT: pinned subject-IDs are below it
  TopicSubjectCount,  \* CY_TOPIC_SUBJECT_COUNT: the cap on topic_count
  SubjectIdInvalid,   \* CY_SUBJECT_ID_INVALID, at least TotalSubjectCount
  User,               \* cy->name, the node name "vvvv/pppp/iiiiiiii/"
  NamespaceArgs,      \* namespaces an application may pass to cy_new
  RawNames            \* names an application may pass to cy_topic_new

\* CY_NAMESPACE_NAME_MAX: room for a separator and a one-character name.
NamespaceMax == NameMax - 2

\* smaller()
Smaller(a, b) == IF a < b THEN a ELSE b

DecimalDigits == <<"0", "1", "2", "3", "4", "5", "6", "7", "8", "9">>

DigitValue(c) == CHOOSE d \in 0..9 : DecimalDigits[d + 1] = c

\* cy_new: the namespace is cut to CY_NAMESPACE_NAME_MAX; none or "" is "/".
CyNewNamespace(a) ==
  IF a # <<>> THEN SubSeq(a, 1, Smaller(NamespaceMax, Len(a)))
              ELSE <<"/">>

(***************************************************************************)
(* compose_topic_name.  Tmp is the snprintf into tmp[CY_TOPIC_NAME_MAX+10]: *)
(* an absolute name as is, otherwise the namespace, or the node name when  *)
(* the name or the namespace starts with '~' (one leading '~' of the name  *)
(* dropped), then '/' and the name.                                        *)
(***************************************************************************)
Tmp(ns, user, name) ==
  LET lead(s, c) == s # <<>> /\ Head(s) = c
      in == IF lead(name, "~") THEN Tail(name) ELSE name
      full == IF lead(name, "/") THEN name
              ELSE (IF lead(name, "~") \/ lead(ns, "~") THEN user ELSE ns) \o <<"/">> \o in
  IN SubSeq(full, 1, Smaller(NameMax + 9, Len(full)))

\* The loop fails when it reaches index CY_TOPIC_NAME_MAX + 1 of tmp, that is
\* when tmp is longer than CY_TOPIC_NAME_MAX + 1, before anything collapses.
ComposeFits(tmp) == Len(tmp) <= NameMax + 1

\* The loop body: a '/' right after a '/' (or at the start) is dropped.
RECURSIVE Canonicalize(_, _)
Canonicalize(in, prev) ==
  IF in = <<>> THEN <<>>
  ELSE (IF Head(in) = "/" /\ prev = "/" THEN <<>> ELSE <<Head(in)>>)
         \o Canonicalize(Tail(in), Head(in))

\* if ((prev == '/') && (out != destination)) out--;
StripTrailing(out) == IF out # <<>> /\ Last(out) = "/" THEN Front(out) ELSE out

\* The composition without the cut to CY_TOPIC_NAME_MAX characters.
NewTopicNameUncut(ns, raw) ==
  LET tmp == Tmp(ns, User, raw)
  IN IF ComposeFits(tmp) THEN StripTrailing(Canonicalize(tmp, "/")) ELSE <<>>

\* cy_topic_new_hint: compose into topic->name, which holds the
\* CY_TOPIC_NAME_MAX + 1 characters the loop may write only by overrunning
\* the array with the terminator; name[CY_TOPIC_NAME_MAX] = '\0' then cuts
\* it, and name_length is strlen.  <<>> stands for a failed composition,
\* which the code rejects like the empty name.
NewTopicName(ns, raw) ==
  LET tmp == Tmp(ns, User, raw)
      out == StripTrailing(Canonicalize(tmp, "/"))
  IN IF ComposeFits(tmp)
     THEN SubSeq(out, 1, Smaller(NameMax, Len(out)))
     ELSE <<>>

\* parse_pinned: after the first character, digits accumulate while the value
\* stays below CY_TOTAL_SUBJECT_COUNT.
RECURSIVE ParseDigits(_, _)
ParseDigits(s, out) ==
  IF s = <<>> THEN out
  ELSE IF Head(s) \notin ToSet(DecimalDigits) THEN SubjectIdInvalid
  ELSE LET next == out * 10 + DigitValue(Head(s))
       IN IF next >= TotalSubjectCount THEN SubjectIdInvalid ELSE ParseDigits(Tail(s), next)

\* parse_pinned with the leading-zero rule dropped.
ParsePinnedLeadingZeros(s) ==
  IF s = <<>> THEN SubjectIdInvalid ELSE ParseDigits(s, 0)

\* parse_pinned that takes any '0' for the forbidden leading zero.
ParsePinnedNoZeroDigit(s) ==
  IF s = <<>> \/ \E i \in DOMAIN s : s[i] = "0" THEN SubjectIdInvalid ELSE ParseDigits(s, 0)

\* parse_pinned: empty or leading '0' is not a pinned name.
ParsePinned(s) ==
  IF s = <<>> \/ Head(s) = "0" THEN SubjectIdInvalid ELSE ParseDigits(s, 0)

\* topic_hash: the pinned subject-ID, else rapidhash of the name.
TopicHash(name) ==
  LET pinned == ParsePinned(name)
  IN IF pinned < TotalSubjectCount THEN <<pinned, <<>>>> ELSE <<TotalSubjectCount, name>>

\* is_pinned
IsPinned(hash) == hash[1] < TotalSubjectCount

-----------------------------------------------------------------------------
VARIABLES
  ns,       \* cy->namespace_
  topics,   \* the topics of cy->topics_by_hash, as [name, hash]
  refused,  \* names whose cy_topic_new returned NULL at the index (history)
  origin    \* <<raw name, topic name>> of each topic created (history)

vars == <<ns, topics, refused, origin>>

\* cy_topic_find_by_name: the topic whose hash is topic_hash of the given
\* string ({} for NULL).
FindByName(name) == {t \in topics : t.hash = TopicHash(name)}

Init ==
  /\ ns \in {CyNewNamespace(a) : a \in NamespaceArgs}
  /\ topics = {}
  /\ refused = {}
  /\ origin = {}

(***************************************************************************)
(* cy_topic_new(cy, raw).  A name that does not compose, an empty name and *)
(* a full topic table make it return NULL before the index is touched (a   *)
(* step that changes nothing, left out).  Otherwise the topic is inserted  *)
(* into topics_by_hash, or refused when its hash is already there.         *)
(***************************************************************************)
TopicNew(raw) ==
  LET name == NewTopicName(ns, raw)
      hash == TopicHash(name)
  IN /\ name # <<>>
     /\ Cardinality(topics) < TopicSubjectCount
     /\ \/ /\ hash \notin {t.hash : t \in topics}
           /\ topics' = topics \cup {[name |-> name, hash |-> hash]}
           /\ origin' = origin \cup {<<raw, name>>}
           /\ UNCHANGED refused
        \/ /\ hash \in {t.hash : t \in topics}
           /\ refused' = refused \cup {name}
           /\ UNCHANGED <<topics, origin>>
     /\ UNCHANGED ns

Next == \E raw \in RawNames : TopicNew(raw)

Spec == Init /\ [][Next]_vars

-----------------------------------------------------------------------------
NameChars == ToSet(DecimalDigits) \cup {"/", "~"} \cup UNION {ToSet(r) : r \in RawNames \cup NamespaceArgs \cup {User}}

IsName(s, max) == s \in Seq(NameChars) /\ Len(s) <= max

TypeOK ==
  /\ IsName(ns, NamespaceMax) \/ ns = <<"/">>
  /\ \A t \in topics : IsName(t.name, NameMax) /\ t.hash \in Nat \X Seq(NameChars)
  /\ \A n \in refused : IsName(n, NameMax)
  /\ origin \subseteq RawNames \X Seq(NameChars)

\* Names map one-to-one to hashes: cy_topic_new refuses a name as already
\* taken only when a topic of that very name exists (parse_pinned's
\* leading-zero rule keeps "01" from pinning the subject-ID of "1").
DuplicateOnlyForSameName == \A n \in refused : \E t \in topics : t.name = n

\* Spec law "pinned round-trip", on the topics created: a topic whose name
\* is the decimal form of some k in [1, CY_TOTAL_SUBJECT_COUNT) is pinned to
\* k (parse_pinned must accept every digit after the first, "10" included).
RECURSIVE Decimal(_)
Decimal(k) == IF k < 10 THEN <<DecimalDigits[k + 1]>>
              ELSE Decimal(k \div 10) \o <<DecimalDigits[(k % 10) + 1]>>

PinnedRoundTrip ==
  \A t \in topics : \A k \in 1..(TotalSubjectCount - 1) :
    t.name = Decimal(k) => IsPinned(t.hash) /\ t.hash[1] = k

(***************************************************************************)
(* The spec's canonicalizer (4.C): prefix as in step 1-3, collapse runs of *)
(* '/' and strip the trailing one, reject a form longer than 96 bytes.     *)
(***************************************************************************)
SpecCanonical(nsp, raw) ==
  LET lead(s, c) == s # <<>> /\ Head(s) = c
      full == IF lead(raw, "/") THEN raw
              ELSE IF lead(raw, "~") \/ lead(nsp, "~")
                   THEN User \o <<"/">> \o (IF lead(raw, "~") THEN Tail(raw) ELSE raw)
                   ELSE nsp \o <<"/">> \o raw
  IN StripTrailing(Canonicalize(full, "/"))

\* cy.h: cy_topic_new "returns NULL if the topic name is ... not valid"; the
\* spec rejects a canonical form over 96 bytes.  Every topic created is
\* stored under the spec's canonical form of the name it was created with.
StoredAsCanonical == \A p \in origin : p[2] = SpecCanonical(ns, p[1])
=============================================================================
