---------------------------- MODULE RaftLogProofs ----------------------------
(***************************************************************************)
(* Log matching in Raft, for every cluster size, every batch size and      *)
(* every number of lost or late calls, failed log writes, stale retries    *)
(* and crashes.                                                            *)
(*                                                                         *)
(* LogMatching says nothing of the requests under way, and a request may   *)
(* arrive long after its sender's log has changed.  The inductive          *)
(* invariant therefore speaks of views: every log, and every append        *)
(* request as the stretch of a log it carries.  Any two views agree        *)
(* (ViewsAgree); every entry of a view was logged by the winner of its     *)
(* term, who still holds it if it is still in that term (Origins); and     *)
(* every request comes from the winner of the term it names (Requests).    *)
(*                                                                         *)
(* The last part says what a step may do to tallies, commit indexes and    *)
(* votes, once for all actions, as long as no log write fails:             *)
(* RaftCommitProofs builds on it.                                          *)
(***************************************************************************)
EXTENDS RaftVoteProofs

----------------------------------------------------------------------------
(* Views.                                                                  *)

\* A whole log, seen as a request that carries all of it.
LogView(lg) == [prevIndex |-> 0, prevTerm |-> 0, entries |-> lg]

\* What is needed of a view: an append request is one.
IsView(v) ==
    /\ v.prevIndex \in Nat /\ v.prevTerm \in Nat /\ v.entries \in Seq(Entry)
    /\ v.prevIndex = 0 => v.prevTerm = 0

\* The indexes a view has entries for, the entry at one of them, and the term
\* it names at an index, its predecessor's included.
Covers(v)    == (v.prevIndex + 1)..(v.prevIndex + Len(v.entries))
At(v, k)     == v.entries[k - v.prevIndex]
TermIn(v, k) == IF k = v.prevIndex THEN v.prevTerm ELSE At(v, k).term

\* Where two views have an entry of the same term, they are equal up to there,
\* and what one knows of the other's predecessor is true.
Agree(v, w) ==
    \A k \in Covers(v) \cap Covers(w) : At(v, k).term = At(w, k).term =>
      /\ \A j \in Covers(v) \cap Covers(w) : j <= k => At(v, j) = At(w, j)
      /\ \A j \in {v.prevIndex, w.prevIndex} :
           j >= v.prevIndex /\ j >= w.prevIndex => TermIn(v, j) = TermIn(w, j)

AllAgree(V) == \A v, w \in V : Agree(v, w)

\* u has no entries, or is a stretch of v.
Piece(u, v) ==
    \/ u.entries = <<>>
    \/ /\ v.prevIndex <= u.prevIndex
       /\ u.prevIndex + Len(u.entries) <= v.prevIndex + Len(v.entries)
       /\ u.prevTerm = TermIn(v, u.prevIndex)
       /\ \A k \in Covers(u) : At(u, k) = At(v, k)

\* The terms and entries of a view are terms and entries.
LEMMA ViewTypes ==
    ASSUME NEW v, IsView(v)
    PROVE  /\ Len(v.entries) \in Nat /\ v.prevIndex \in Nat
           /\ \A k \in Covers(v) : /\ k \in Nat /\ k > v.prevIndex
                                   /\ k <= v.prevIndex + Len(v.entries)
                                   /\ At(v, k) \in Entry /\ TermIn(v, k) = At(v, k).term
<1>1. v.prevIndex \in Nat /\ v.entries \in Seq(Entry) /\ Len(v.entries) \in Nat
  BY LenProperties DEF IsView
<1>2. ASSUME NEW k \in Covers(v)
      PROVE  /\ k \in Nat /\ k > v.prevIndex /\ k <= v.prevIndex + Len(v.entries)
             /\ k - v.prevIndex \in 1..Len(v.entries)
  BY <1>1, <1>2 DEF Covers
<1>3. ASSUME NEW k \in Covers(v)
      PROVE  At(v, k) \in Entry /\ TermIn(v, k) = At(v, k).term
  <2>1. k # v.prevIndex
    BY <1>1, <1>2
  <2> QED BY <1>1, <1>2, <2>1, ElementOfSeq DEF At, TermIn
<1> QED
  BY <1>1, <1>2, <1>3

\* The indexes a view covers.
LEMMA InCovers ==
    ASSUME NEW v, IsView(v), NEW j \in Nat, j > v.prevIndex,
           j <= v.prevIndex + Len(v.entries)
    PROVE  j \in Covers(v)
  BY ViewTypes DEF Covers

\* Agreement is symmetric.
LEMMA AgreeSymmetric ==
    ASSUME NEW v, NEW w, Agree(v, w)
    PROVE  Agree(w, v)
  BY DEF Agree

\* Agreement is reflexive.
LEMMA AgreeReflexive == ASSUME NEW v PROVE Agree(v, v)
  BY DEF Agree

\* A stretch of a view agrees with whatever the view agrees with.
LEMMA PieceAgrees ==
    ASSUME NEW u, NEW v, NEW w, IsView(u), IsView(v), IsView(w), Piece(u, v), Agree(v, w)
    PROVE  Agree(u, w)
<1>1. /\ u.prevIndex \in Nat /\ v.prevIndex \in Nat /\ w.prevIndex \in Nat
      /\ Len(u.entries) \in Nat /\ Len(v.entries) \in Nat /\ Len(w.entries) \in Nat
  BY ViewTypes
<1> SUFFICES ASSUME NEW k \in Covers(u) \cap Covers(w), At(u, k).term = At(w, k).term
             PROVE  /\ \A j \in Covers(u) \cap Covers(w) : j <= k => At(u, j) = At(w, j)
                    /\ \A j \in {u.prevIndex, w.prevIndex} :
                         j >= u.prevIndex /\ j >= w.prevIndex => TermIn(u, j) = TermIn(w, j)
  BY DEF Agree
<1>2. /\ v.prevIndex <= u.prevIndex
      /\ u.prevIndex + Len(u.entries) <= v.prevIndex + Len(v.entries)
      /\ u.prevTerm = TermIn(v, u.prevIndex)
      /\ \A j \in Covers(u) : At(u, j) = At(v, j)
  <2>1. u.entries # <<>>
    <3>1. u.entries = <<>> => Len(u.entries) = 0
      OBVIOUS
    <3> QED BY <1>1, <3>1 DEF Covers
  <2> QED BY <2>1 DEF Piece
<1>3. \A j \in Covers(u) : j \in Covers(v)
  BY <1>1, <1>2 DEF Covers
<1>4. At(v, k).term = At(w, k).term /\ k \in Covers(v) \cap Covers(w)
  BY <1>2, <1>3
<1>5. /\ \A j \in Covers(v) \cap Covers(w) : j <= k => At(v, j) = At(w, j)
      /\ \A j \in {v.prevIndex, w.prevIndex} :
           j >= v.prevIndex /\ j >= w.prevIndex => TermIn(v, j) = TermIn(w, j)
  BY <1>4 DEF Agree
<1>6. \A j \in Covers(u) \cap Covers(w) : j <= k => At(u, j) = At(w, j)
  BY <1>2, <1>3, <1>5
<1>7. ASSUME NEW j \in {u.prevIndex, w.prevIndex}, j >= u.prevIndex, j >= w.prevIndex
      PROVE  TermIn(u, j) = TermIn(w, j)
  <2>1. j \in Nat /\ j < k /\ j >= v.prevIndex /\ k \in Nat
    BY <1>1, <1>2, <1>7 DEF Covers
  <2>2. TermIn(u, j) = TermIn(v, j)
    <3>1. CASE j = u.prevIndex
      BY <1>2, <3>1 DEF TermIn
    <3>2. CASE j # u.prevIndex
      <4>1. j \in Covers(u)
        BY <1>1, <1>7, <2>1, <3>2 DEF Covers
      <4> QED BY <1>2, <1>3, <4>1, ViewTypes
    <3> QED BY <3>1, <3>2
  <2>3. TermIn(v, j) = TermIn(w, j)
    <3>1. CASE j \in {v.prevIndex, w.prevIndex}
      BY <1>5, <1>7, <2>1, <3>1
    <3>2. CASE j \notin {v.prevIndex, w.prevIndex}
      <4>1. k <= v.prevIndex + Len(v.entries) /\ k <= w.prevIndex + Len(w.entries)
        BY <1>4, ViewTypes
      <4>2. j > v.prevIndex /\ j > w.prevIndex
        BY <1>1, <1>7, <2>1, <3>2
      <4>3. j \in Covers(v) /\ j \in Covers(w) /\ j <= k
        <5>1. j <= v.prevIndex + Len(v.entries) /\ j <= w.prevIndex + Len(w.entries) /\ j <= k
          BY <1>1, <2>1, <4>1
        <5> QED BY <2>1, <4>2, <5>1, InCovers
      <4> QED BY <1>5, <4>3, ViewTypes
    <3> QED BY <3>1, <3>2
  <2> QED BY <2>2, <2>3
<1> QED
  BY <1>6, <1>7

\* Stretches of views that agree agree.
LEMMA PiecesAgree ==
    ASSUME NEW V, NEW W, \A v \in V \cup W : IsView(v), AllAgree(V),
           \A u \in W : \E v \in V : Piece(u, v)
    PROVE  AllAgree(W)
<1> SUFFICES ASSUME NEW u \in W, NEW x \in W PROVE Agree(u, x)
  BY DEF AllAgree
<1>1. PICK v \in V : Piece(u, v)
  OBVIOUS
<1>2. PICK y \in V : Piece(x, y)
  OBVIOUS
<1>3. Agree(y, u)
  BY <1>1, PieceAgrees, AgreeSymmetric DEF AllAgree
<1> QED
  BY <1>2, <1>3, PieceAgrees, AgreeSymmetric

\* A view that agrees with all others may join them.
LEMMA JoinAgree ==
    ASSUME NEW V, NEW u, AllAgree(V), \A w \in V : Agree(u, w)
    PROVE  AllAgree(V \cup {u})
  BY AgreeSymmetric, AgreeReflexive DEF AllAgree

\* A new entry at the end of a log, of a term that no view has there.
LEMMA ExtendedAgrees ==
    ASSUME NEW lg \in Seq(Entry), NEW e \in Entry, NEW w, IsView(w),
           Agree(LogView(lg), w),
           Len(lg) + 1 \in Covers(w) => At(w, Len(lg) + 1).term # e.term
    PROVE  Agree(LogView(Append(lg, e)), w)
<1> DEFINE u == LogView(Append(lg, e))
           v == LogView(lg)
<1>1. /\ Append(lg, e) \in Seq(Entry) /\ Len(lg) \in Nat
      /\ Len(Append(lg, e)) = Len(lg) + 1
      /\ \A k \in 1..Len(lg) : Append(lg, e)[k] = lg[k]
      /\ Append(lg, e)[Len(lg) + 1] = e
  BY AppendProperties, LenProperties
<1>2. /\ u.prevIndex = 0 /\ v.prevIndex = 0 /\ u.prevTerm = 0 /\ v.prevTerm = 0
      /\ u.entries = Append(lg, e) /\ v.entries = lg
  BY DEF LogView
<1> HIDE DEF u, v
<1>3. /\ Covers(u) = 1..(Len(lg) + 1) /\ Covers(v) = 1..Len(lg)
      /\ \A k \in Int : At(u, k) = Append(lg, e)[k] /\ At(v, k) = lg[k]
  <2>1. \A k \in Int : k - 0 = k
    OBVIOUS
  <2>2. Len(u.entries) = Len(lg) + 1 /\ Len(v.entries) = Len(lg)
    BY <1>1, <1>2
  <2>3. Covers(u) = 1..(Len(lg) + 1) /\ Covers(v) = 1..Len(lg)
    BY <1>1, <1>2, <2>2 DEF Covers
  <2>4. \A k \in Int : At(u, k) = Append(lg, e)[k] /\ At(v, k) = lg[k]
    BY <1>2, <2>1 DEF At
  <2> QED BY <2>3, <2>4
<1>4. /\ w.prevIndex \in Nat /\ Len(w.entries) \in Nat
      /\ \A k \in Covers(w) : k \in Nat /\ k > w.prevIndex
  BY ViewTypes
<1> SUFFICES ASSUME NEW k \in Covers(u) \cap Covers(w), At(u, k).term = At(w, k).term
             PROVE  /\ \A j \in Covers(u) \cap Covers(w) : j <= k => At(u, j) = At(w, j)
                    /\ \A j \in {u.prevIndex, w.prevIndex} :
                         j >= u.prevIndex /\ j >= w.prevIndex => TermIn(u, j) = TermIn(w, j)
  BY DEF Agree, u
<1>5. k \in 1..Len(lg) /\ At(v, k) = At(u, k)
  <2>1. k \in 1..(Len(lg) + 1)
    BY <1>3
  <2>2. k # Len(lg) + 1
    BY <1>1, <1>3
  <2>3. k \in 1..Len(lg)
    BY <1>1, <2>1, <2>2
  <2> QED BY <1>1, <1>3, <2>3
<1>6. /\ \A j \in Covers(v) \cap Covers(w) : j <= k => At(v, j) = At(w, j)
      /\ \A j \in {v.prevIndex, w.prevIndex} :
           j >= v.prevIndex /\ j >= w.prevIndex => TermIn(v, j) = TermIn(w, j)
  <2>1. Agree(v, w)
    BY DEF v
  <2> QED BY <1>3, <1>5, <2>1 DEF Agree
<1>7. \A j \in Nat : j < k => TermIn(u, j) = TermIn(v, j)
  BY <1>1, <1>2, <1>3, <1>5 DEF TermIn
<1>8. \A j \in Covers(u) \cap Covers(w) : j <= k => At(u, j) = At(w, j)
  <2> SUFFICES ASSUME NEW j \in Covers(u) \cap Covers(w), j <= k
               PROVE  At(u, j) = At(w, j)
    OBVIOUS
  <2>1. j \in 1..Len(lg)
    BY <1>1, <1>3, <1>5
  <2>2. At(u, j) = At(v, j) /\ j \in Covers(v)
    BY <1>1, <1>3, <2>1
  <2> QED BY <1>6, <2>2
<1>9. ASSUME NEW j \in {u.prevIndex, w.prevIndex}, j >= u.prevIndex, j >= w.prevIndex
      PROVE  TermIn(u, j) = TermIn(w, j)
  <2>1. j \in Nat /\ j < k
    BY <1>2, <1>4, <1>5, <1>9
  <2> QED BY <1>2, <1>6, <1>7, <1>9, <2>1
<1> QED
  BY <1>8, <1>9

----------------------------------------------------------------------------
(* What appendEntries makes of a log.                                      *)

\* after is lg up to the predecessor of the request r, then the first c
\* entries of r.
Taken(after, lg, r, c) ==
    /\ after \in Seq(Entry)
    /\ Len(after) = r.prevIndex + c
    /\ \A j \in 1..r.prevIndex : after[j] = lg[j]
    /\ \A j \in 1..c : after[r.prevIndex + j] = r.entries[j]

\* Both halves of a concatenation, by their own indexes.
LEMMA ConcatEntries ==
    ASSUME NEW s \in Seq(Entry), NEW t \in Seq(Entry)
    PROVE  /\ s \o t \in Seq(Entry) /\ Len(s \o t) = Len(s) + Len(t)
           /\ \A k \in 1..Len(s) : (s \o t)[k] = s[k]
           /\ \A k \in 1..Len(t) : (s \o t)[Len(s) + k] = t[k]
  BY LenProperties

\* Cutting at the first new entry and writing entries up to last gives the
\* entries of the request up to last: what was kept was equal.
LEMMA SplicedIsTaken ==
    ASSUME NEW lg \in Seq(Entry), NEW r, IsView(r), r.prevIndex <= Len(lg),
           Agree(LogView(lg), r), Unmatched(lg, r.prevIndex, r.entries) # {},
           NEW last \in Nat, last <= Len(r.entries),
           last >= Min(Unmatched(lg, r.prevIndex, r.entries)) - 1
    PROVE  Taken(SubSeq(lg, 1, r.prevIndex + Min(Unmatched(lg, r.prevIndex, r.entries)) - 1)
                   \o SubSeq(r.entries, Min(Unmatched(lg, r.prevIndex, r.entries)), last),
                 lg, r, last)
<1> DEFINE prev == r.prevIndex
           new == Unmatched(lg, prev, r.entries)
           f == Min(new)
           left == SubSeq(lg, 1, prev + f - 1)
           right == SubSeq(r.entries, f, last)
<1>1. Len(lg) \in Nat /\ Len(r.entries) \in Nat /\ prev \in Nat /\ r.entries \in Seq(Entry)
  BY LenProperties DEF IsView
<1>2. f \in 1..Len(r.entries) /\ \A y \in new : f <= y
  <2>1. new \subseteq 1..Len(r.entries) /\ new \subseteq Nat /\ new # {}
    BY <1>1 DEF Unmatched
  <2> HIDE DEF new
  <2>2. f \in new /\ \A y \in new : f <= y
    BY <2>1, MinOfNats
  <2> QED BY <2>1, <2>2
<1>3. ASSUME NEW k \in 1..(f - 1)
      PROVE  prev + k <= Len(lg) /\ lg[prev + k].term = r.entries[k].term
  <2>1. k \in 1..Len(r.entries) /\ k \notin new
    BY <1>1, <1>2
  <2> QED BY <1>1, <2>1 DEF Unmatched
<1> HIDE DEF f, new
<1>4. prev + f - 1 <= Len(lg)
  <2>1. CASE f = 1
    BY <1>1, <2>1
  <2>2. CASE f # 1
    <3>1. f - 1 \in 1..(f - 1)
      BY <1>2, <2>2
    <3>2. prev + (f - 1) <= Len(lg)
      BY <1>3, <3>1
    <3> QED BY <1>1, <1>2, <3>2
  <2> QED BY <2>1, <2>2
<1>5. ASSUME NEW k \in 1..(f - 1) PROVE lg[prev + k] = r.entries[k]
  <2> DEFINE v == LogView(lg)
  <2>1. v.prevIndex = 0 /\ v.entries = lg
    BY DEF LogView
  <2>2. Agree(v, r)
    OBVIOUS
  <2> HIDE DEF v
  <2>3. /\ prev + k \in Covers(v) \cap Covers(r)
        /\ At(v, prev + k) = lg[prev + k] /\ At(r, prev + k) = r.entries[k]
    <3>1. prev + k <= Len(lg) /\ k \in 1..Len(r.entries)
      BY <1>1, <1>2, <1>3
    <3> QED BY <1>1, <2>1, <3>1 DEF Covers, At
  <2>4. At(v, prev + k).term = At(r, prev + k).term
    BY <1>3, <2>3
  <2>5. prev + k <= prev + k
    BY <1>1
  <2>6. At(v, prev + k) = At(r, prev + k)
    BY <2>2, <2>3, <2>4, <2>5 DEF Agree
  <2> QED BY <2>3, <2>6
<1>6. /\ left \in Seq(Entry) /\ Len(left) = prev + f - 1
      /\ \A k \in 1..(prev + f - 1) : left[k] = lg[k]
  <2>1. \A k \in 1..(prev + f - 1) : lg[k] \in Entry
    BY <1>1, <1>2, <1>4, ElementOfSeq
  <2> QED BY <1>1, <1>2, <2>1, SubSeqProperties
<1>7. /\ right \in Seq(Entry) /\ Len(right) = last - f + 1
      /\ \A k \in 1..(last - f + 1) : right[k] = r.entries[f + k - 1]
  <2>1. \A k \in f..last : r.entries[k] \in Entry
    BY <1>1, <1>2, ElementOfSeq
  <2>2. f - 1 <= last
    BY DEF f, new
  <2> QED BY <1>1, <1>2, <2>1, <2>2, SubSeqProperties
<1> HIDE DEF left, right
<1> DEFINE after == left \o right
<1>8. /\ after \in Seq(Entry) /\ Len(after) = Len(left) + Len(right)
      /\ \A k \in 1..Len(left) : after[k] = left[k]
      /\ \A k \in 1..Len(right) : after[Len(left) + k] = right[k]
  BY <1>6, <1>7, ConcatEntries
<1> HIDE DEF after
<1>9. Len(after) = prev + last
  BY <1>1, <1>2, <1>6, <1>7, <1>8
<1>10. ASSUME NEW j \in 1..prev PROVE after[j] = lg[j]
  <2>1. j \in 1..(prev + f - 1)
    BY <1>1, <1>2
  <2> QED BY <1>6, <1>8, <2>1
<1>11. ASSUME NEW j \in 1..last PROVE after[prev + j] = r.entries[j]
  <2>1. CASE j < f
    <3>1. j \in 1..(f - 1) /\ prev + j \in 1..(prev + f - 1)
      BY <1>1, <1>2, <2>1
    <3>2. after[prev + j] = lg[prev + j]
      BY <1>6, <1>8, <3>1
    <3> QED BY <1>5, <3>1, <3>2
  <2>2. CASE ~(j < f)
    <3> DEFINE m == j - f + 1
    <3>1. /\ m \in 1..(last - f + 1) /\ Len(left) + m = prev + j
          /\ f + m - 1 = j
      BY <1>1, <1>2, <1>6, <2>2
    <3> HIDE DEF m
    <3>2. after[prev + j] = right[m]
      BY <1>7, <1>8, <3>1
    <3> QED BY <1>7, <3>1, <3>2
  <2> QED BY <2>1, <2>2
<1> QED
  BY <1>8, <1>9, <1>10, <1>11 DEF after, left, right, f, new, Taken

\* Whatever fails on the way, appendEntries leaves the log as it was, or a
\* log that ends with entries of the request, without a gap.
LEMMA AppendTakes ==
    ASSUME NEW lg \in Seq(Entry), NEW r \in AppendRpc, IsView(r), r.prevIndex <= Len(lg),
           Agree(LogView(lg), r), NEW logFails \in BOOLEAN,
           NEW after \in LogsAfterAppend(lg, r, logFails)
    PROVE  after = lg \/ \E c \in 0..Len(r.entries) : Taken(after, lg, r, c)
<1> DEFINE new == Unmatched(lg, r.prevIndex, r.entries)
           f == Min(new)
<1>1. Len(r.entries) \in Nat /\ r.entries \in Seq(Entry)
  BY LenProperties DEF IsView
<1>2. CASE new = {}
  BY <1>2 DEF LogsAfterAppend, AppendEntries, AppendEntriesCut
<1>3. CASE new # {}
  <2>1. new \subseteq 1..Len(r.entries)
    BY DEF Unmatched
  <2>2. f \in new /\ \A y \in new : f <= y
    <3> HIDE DEF new
    <3>1. new \subseteq Nat
      BY <1>1, <2>1
    <3> QED BY <3>1, <1>3, MinOfNats
  <2>3. f \in 1..Len(r.entries)
    BY <2>1, <2>2
  <2>4. ASSUME NEW last \in Nat, last <= Len(r.entries), last >= f - 1
        PROVE  Taken(SubSeq(lg, 1, r.prevIndex + f - 1) \o SubSeq(r.entries, f, last), lg, r, last)
    BY <1>3, <2>4, SplicedIsTaken
  <2>5. AppendEntries(lg, r.prevIndex, r.entries)
          = SubSeq(lg, 1, r.prevIndex + f - 1) \o SubSeq(r.entries, f, Len(r.entries))
    BY <1>3 DEF AppendEntries
  <2>6. \A k : AppendEntriesCut(lg, r.prevIndex, r.entries, k)
          = SubSeq(lg, 1, r.prevIndex + f - 1) \o SubSeq(r.entries, f, f + k - 1)
    BY <1>3 DEF AppendEntriesCut
  <2>7. Cardinality(new) \in Nat /\ Cardinality(new) <= Len(r.entries) - f + 1
    <3>1. new \subseteq f..Len(r.entries)
      <4> HIDE DEF new, f
      <4> QED BY <2>1, <2>2, <2>3, <1>1
    <3>2. /\ IsFiniteSet(f..Len(r.entries))
          /\ Cardinality(f..Len(r.entries)) = Len(r.entries) - f + 1
      <4> HIDE DEF f
      <4>1. f \in Int /\ Len(r.entries) \in Int /\ ~(f > Len(r.entries))
        BY <1>1, <2>3
      <4> QED BY <4>1, FS_Interval
    <3>3. IsFiniteSet(new) /\ Cardinality(new) <= Cardinality(f..Len(r.entries))
      BY <3>1, <3>2, FS_Subset
    <3> QED BY <3>2, <3>3, FS_CardinalityType
  <2> HIDE DEF f
  <2>8. Taken(AppendEntries(lg, r.prevIndex, r.entries), lg, r, Len(r.entries))
    <3>1. Len(r.entries) <= Len(r.entries) /\ Len(r.entries) >= f - 1
      BY <1>1, <2>3
    <3> QED BY <1>1, <2>4, <2>5, <3>1
  <2>9. ASSUME NEW k \in 0..(Cardinality(new) - 1)
        PROVE  \E c \in 0..Len(r.entries) :
                 Taken(AppendEntriesCut(lg, r.prevIndex, r.entries, k), lg, r, c)
    <3>1. f + k - 1 \in 0..Len(r.entries) /\ f + k - 1 >= f - 1 /\ f + k - 1 \in Nat
      <4> HIDE DEF new
      <4> QED BY <1>1, <2>3, <2>7
    <3>2. Taken(AppendEntriesCut(lg, r.prevIndex, r.entries, k), lg, r, f + k - 1)
      <4>1. f + k - 1 <= Len(r.entries)
        BY <1>1, <3>1
      <4>2. Taken(SubSeq(lg, 1, r.prevIndex + f - 1) \o SubSeq(r.entries, f, f + k - 1),
                  lg, r, f + k - 1)
        BY <2>4, <3>1, <4>1
      <4> QED BY <2>6, <4>2, Zenon
    <3> QED BY <3>1, <3>2, Zenon
  <2> QED BY <1>1, <2>8, <2>9 DEF LogsAfterAppend
<1> QED
  BY <1>2, <1>3

\* What a follower has taken from a request that fits its log agrees with
\* whatever its log and the request agree with.
LEMMA TakenAgrees ==
    ASSUME NEW lg \in Seq(Entry), NEW r, IsView(r), NEW w, IsView(w),
           r.prevIndex <= Len(lg), r.prevIndex = 0 \/ lg[r.prevIndex].term = r.prevTerm,
           Agree(LogView(lg), w), Agree(r, w),
           NEW c \in 0..Len(r.entries), NEW after, Taken(after, lg, r, c)
    PROVE  Agree(LogView(after), w)
<1> DEFINE u == LogView(after)
           v == LogView(lg)
           p == r.prevIndex
<1>0. p \in Nat /\ c \in Nat /\ c <= Len(r.entries) /\ p <= Len(lg)
  BY ViewTypes
<1>1. /\ p \in Nat /\ Len(r.entries) \in Nat /\ Len(lg) \in Nat /\ c \in Nat
      /\ w.prevIndex \in Nat /\ Len(w.entries) \in Nat
      /\ \A k \in Covers(w) : k \in Nat /\ k > w.prevIndex
      /\ r.prevTerm \in Nat /\ (p = 0 => r.prevTerm = 0)
      /\ (w.prevIndex = 0 => w.prevTerm = 0)
  BY ViewTypes, LenProperties DEF IsView
<1>2. /\ u.prevIndex = 0 /\ v.prevIndex = 0 /\ u.prevTerm = 0 /\ v.prevTerm = 0
      /\ u.entries = after /\ v.entries = lg
  BY DEF LogView
<1>3. Agree(v, w)
  OBVIOUS
<1> HIDE DEF u, v
<1>4. /\ Covers(u) = 1..(p + c) /\ Covers(v) = 1..Len(lg)
      /\ Covers(r) = (p + 1)..(p + Len(r.entries))
      /\ \A k \in Int : At(u, k) = after[k] /\ At(v, k) = lg[k]
  BY <1>1, <1>2 DEF Covers, At, Taken
<1>5. ASSUME NEW k \in 1..p PROVE At(u, k) = At(v, k) /\ k \in Covers(v)
  <2>1. k \in Int /\ k \in 1..Len(lg)
    BY <1>0, <1>1
  <2>2. after[k] = lg[k]
    BY DEF Taken
  <2> QED BY <1>4, <2>1, <2>2
<1>6. ASSUME NEW k \in (p + 1)..(p + c)
      PROVE  At(u, k) = At(r, k) /\ k \in Covers(r)
  <2>1. k - p \in 1..c /\ p + (k - p) = k /\ k \in Int
    <3> HIDE DEF p
    <3> QED BY <1>0
  <2>2. after[k] = r.entries[k - p]
    BY <2>1 DEF Taken
  <2> QED BY <1>1, <1>4, <2>1, <2>2 DEF At
<1>7. \A k \in Nat : k <= p => TermIn(u, k) = TermIn(v, k)
  BY <1>1, <1>2, <1>5 DEF TermIn
<1> SUFFICES ASSUME NEW k \in Covers(u) \cap Covers(w), At(u, k).term = At(w, k).term
             PROVE  /\ \A j \in Covers(u) \cap Covers(w) : j <= k => At(u, j) = At(w, j)
                    /\ \A j \in {u.prevIndex, w.prevIndex} :
                         j >= u.prevIndex /\ j >= w.prevIndex => TermIn(u, j) = TermIn(w, j)
  BY DEF Agree, u
<1>8. ASSUME NEW m \in 1..p, m \in Covers(w), At(v, m).term = At(w, m).term
      PROVE  /\ \A j \in Covers(u) \cap Covers(w) : j <= m => At(u, j) = At(w, j)
             /\ w.prevIndex <= m => TermIn(u, w.prevIndex) = TermIn(w, w.prevIndex)
  <2>1. m \in Covers(v) \cap Covers(w)
    BY <1>5, <1>8
  <2>2. /\ \A j \in Covers(v) \cap Covers(w) : j <= m => At(v, j) = At(w, j)
        /\ \A j \in {v.prevIndex, w.prevIndex} :
             j >= v.prevIndex /\ j >= w.prevIndex => TermIn(v, j) = TermIn(w, j)
    BY <1>3, <1>8, <2>1 DEF Agree
  <2>3. ASSUME NEW j \in Covers(u) \cap Covers(w), j <= m PROVE At(u, j) = At(w, j)
    <3>1. j \in 1..p
      BY <1>1, <1>4, <1>8, <2>3
    <3> QED BY <1>5, <2>2, <2>3, <3>1
  <2>4. ASSUME w.prevIndex <= m PROVE TermIn(u, w.prevIndex) = TermIn(w, w.prevIndex)
    <3>1. w.prevIndex >= v.prevIndex /\ w.prevIndex >= w.prevIndex /\ w.prevIndex <= p
      BY <1>1, <1>2, <1>8, <2>4
    <3>2. TermIn(v, w.prevIndex) = TermIn(w, w.prevIndex)
      BY <2>2, <3>1
    <3> QED BY <1>1, <1>7, <3>1, <3>2
  <2> QED BY <2>3, <2>4
<1>9. k \in Nat /\ k > w.prevIndex /\ k \in 1..(p + c)
  BY <1>1, <1>4
<1>10. CASE k <= p
  <2>1. k \in 1..p /\ At(v, k).term = At(w, k).term /\ w.prevIndex <= k
    BY <1>1, <1>5, <1>9, <1>10
  <2>2. \A j \in {u.prevIndex, w.prevIndex} : j >= u.prevIndex /\ j >= w.prevIndex => j = w.prevIndex
    BY <1>1, <1>2
  <2> QED BY <1>8, <2>1, <2>2
<1>11. CASE k > p
  <2>1. k \in Covers(r) \cap Covers(w) /\ At(r, k).term = At(w, k).term
    <3>1. k \in (p + 1)..(p + c)
      BY <1>1, <1>9, <1>11
    <3> QED BY <1>6, <3>1
  <2>2. /\ \A j \in Covers(r) \cap Covers(w) : j <= k => At(r, j) = At(w, j)
        /\ \A j \in {r.prevIndex, w.prevIndex} :
             j >= r.prevIndex /\ j >= w.prevIndex => TermIn(r, j) = TermIn(w, j)
    BY <2>1 DEF Agree
  <2>3. p > w.prevIndex => /\ p \in 1..p /\ p \in Covers(w)
                           /\ At(v, p).term = At(w, p).term
    <3> SUFFICES ASSUME p > w.prevIndex
                 PROVE  p \in 1..p /\ p \in Covers(w) /\ At(v, p).term = At(w, p).term
      OBVIOUS
    <3>1. p \in 1..p /\ p \in Covers(w) /\ p >= r.prevIndex /\ p >= w.prevIndex /\ p # 0
      <4>1. k <= w.prevIndex + Len(w.entries)
        BY ViewTypes
      <4>2. p \in Covers(w)
        <5> HIDE DEF p
        <5> QED BY <1>0, <1>1, <1>9, <1>11, <4>1 DEF Covers
      <4> QED BY <1>0, <1>1, <4>2
    <3>2. TermIn(r, p) = TermIn(w, p)
      BY <2>2, <3>1
    <3>3. TermIn(w, p) = At(w, p).term /\ TermIn(r, p) = r.prevTerm
      BY <3>1, ViewTypes DEF TermIn
    <3> QED BY <1>1, <1>4, <3>1, <3>2, <3>3
  <2>4. ASSUME NEW j \in Covers(u) \cap Covers(w), j <= k PROVE At(u, j) = At(w, j)
    <3>1. CASE j <= p
      <4>1. p > w.prevIndex /\ j <= p
        BY <1>1, <2>4, <3>1
      <4> QED BY <1>8, <2>3, <2>4, <4>1
    <3>2. CASE ~(j <= p)
      <4>1. j \in (p + 1)..(p + c)
        BY <1>1, <1>4, <2>4, <3>2
      <4> QED BY <1>6, <2>2, <2>4, <4>1
    <3> QED BY <3>1, <3>2
  <2>5. TermIn(u, w.prevIndex) = TermIn(w, w.prevIndex)
    <3>1. CASE p > w.prevIndex
      BY <1>1, <1>8, <2>3, <3>1
    <3>2. CASE p <= w.prevIndex
      <4>1. TermIn(r, w.prevIndex) = TermIn(w, w.prevIndex)
        BY <1>1, <2>2, <3>2
      <4>2. TermIn(u, w.prevIndex) = TermIn(r, w.prevIndex)
        <5>1. CASE w.prevIndex = p /\ p = 0
          BY <1>1, <1>2, <5>1 DEF TermIn
        <5>2. CASE w.prevIndex = p /\ p # 0
          <6>1. p \in 1..p
            BY <1>1, <5>2
          <6>2. At(u, p) = lg[p]
            BY <1>1, <1>4, <1>5, <6>1
          <6> QED BY <1>2, <5>2, <6>2 DEF TermIn
        <5>3. CASE w.prevIndex # p
          <6>1. w.prevIndex \in (p + 1)..(p + c)
            BY <1>1, <1>9, <3>2, <5>3
          <6> QED BY <1>1, <1>2, <1>6, <5>3, <6>1 DEF TermIn
        <5> QED BY <5>1, <5>2, <5>3
      <4> QED BY <4>1, <4>2
    <3> QED BY <1>1, <3>1, <3>2
  <2> QED BY <1>1, <1>2, <2>4, <2>5
<1> QED
  BY <1>1, <1>9, <1>10, <1>11

----------------------------------------------------------------------------
(* The inductive invariant.                                                *)

\* The logs, and the requests that are under way or may still arrive.
Views == {LogView(log[i]) : i \in Node} \cup appendRpcs

ViewsAgree == AllAgree(Views)

\* Whoever won the term has left it, or holds an entry of that term at k.
Origin(term, k) ==
    \E w \in Node :
      /\ Won(term, w)
      /\ \/ node[w].currentTerm > term
         \/ /\ node[w].currentTerm = term
            /\ k <= Len(log[w]) /\ log[w][k].term = term

\* Every entry of every view comes from the winner of its term.
Origins == \A v \in Views : \A k \in Covers(v) : Origin(At(v, k).term, k)

\* A request names a term that its sender has won, though the sender may have
\* left it by now and won another, and names nobody else as leader.
GoodRequest(r) ==
    /\ r.to # r.from
    /\ Won(r.term, r.from)
    /\ r.leaderId \in {Nil, r.from}
    /\ r.prevIndex = 0 => r.prevTerm = 0

Requests == \A r \in appendRpcs : GoodRequest(r)

\* A leader takes no other node for the leader.
LeadersKnow == \A i \in Node : node[i].role = "leader" => node[i].leaderId \in {Nil, i}

Logs == ViewsAgree /\ Origins /\ Requests /\ LeadersKnow /\ LeaderHint

----------------------------------------------------------------------------
(* What a step may do to logs and requests.                                *)

\* q is p, as far as its receiver is concerned.
Carries(q, p) ==
    /\ q.from = p.from /\ q.to = p.to /\ q.term = p.term /\ q.leaderId = p.leaderId
    /\ q.prevIndex = p.prevIndex /\ q.prevTerm = p.prevTerm /\ q.entries = p.entries

\* Every request is an old one, or a good one cut from its sender's log as the
\* step leaves it.
RequestsKept ==
    \A q \in appendRpcs' :
      \/ \E p \in appendRpcs : Carries(q, p)
      \/ q.from \in Node /\ GoodRequest(q) /\ Piece(q, LogView(log'[q.from]))

\* The winner of its current term adds an entry of that term.
WinnerLogs ==
    \E i \in Node : \E e \in Entry :
      /\ Won(node[i].currentTerm, i)
      /\ e.term = node[i].currentTerm /\ node'[i].currentTerm = node[i].currentTerm
      /\ log' = [log EXCEPT ![i] = Append(log[i], e)]

\* A node takes over entries of a request that fits its log, in the term of
\* the request.
FollowerTakes ==
    \E r \in appendRpcs : \E c \in 0..Len(r.entries) : \E after \in Seq(Entry) :
      /\ node'[r.to].currentTerm = r.term
      /\ r.prevIndex <= Len(log[r.to])
      /\ r.prevIndex = 0 \/ log[r.to][r.prevIndex].term = r.prevTerm
      /\ Taken(after, log[r.to], r, c)
      /\ log' = [log EXCEPT ![r.to] = after]

\* Ballots and stores only move forward; logs and requests as above.
LogStep ==
    /\ ballots \subseteq ballots'
    /\ \A i \in Node : StoreStep(node[i], node'[i])
    /\ RequestsKept
    /\ log' = log \/ WinnerLogs \/ FollowerTakes

\* A term once won stays won.
LEMMA WonStays ==
    ASSUME ballots \subseteq ballots', NEW term, NEW w, Won(term, w)
    PROVE  Won(term, w)'
<1>1. Voters(term, w) \subseteq Voters(term, w)' /\ Voters(term, w)' \subseteq Node
  BY DEF Voters
<1> QED
  BY <1>1, QuorumGrows DEF Won

\* Logs and good requests are views.
LEMMA AreViews ==
    ASSUME Shape, Requests
    PROVE  /\ \A v \in Views : IsView(v)
           /\ \A i \in Node : LogView(log[i]) \in Views /\ log[i] \in Seq(Entry)
<1>1. \A i \in Node : log[i] \in Seq(Entry)
  BY DEF Shape, TypeOK
<1>2. \A lg \in Seq(Entry) : IsView(LogView(lg))
  BY DEF IsView, LogView
<1>3. \A r \in appendRpcs : IsView(r)
  BY DEF Shape, TypeOK, AppendRpc, Requests, GoodRequest, IsView, Index, Term
<1> QED
  BY <1>1, <1>2, <1>3 DEF Views

\* What a log looks like as a view.
LEMMA LogViewFacts ==
    ASSUME NEW lg \in Seq(Entry)
    PROVE  /\ Covers(LogView(lg)) = 1..Len(lg)
           /\ \A k \in Int : At(LogView(lg), k) = lg[k]
<1>1. LogView(lg).prevIndex = 0 /\ LogView(lg).entries = lg /\ Len(lg) \in Nat
  BY LenProperties DEF LogView
<1>2. \A k \in Int : k - 0 = k
  OBVIOUS
<1>3. Covers(LogView(lg)) = 1..Len(lg)
  BY <1>1 DEF Covers
<1> QED
  BY <1>1, <1>2, <1>3 DEF At

\* A winner that stays in its term only adds to its log: a request that could
\* overwrite it would come from the same winner, and nobody sends to itself.
LEMMA WinnerKeepsLog ==
    ASSUME Shape, Shape', Votes, Requests, LogStep, NEW i \in Node,
           Won(node[i].currentTerm, i), node'[i].currentTerm = node[i].currentTerm
    PROVE  /\ Len(log[i]) <= Len(log'[i])
           /\ \A k \in 1..Len(log[i]) : log'[i][k] = log[i][k]
<1>1. /\ log \in [Node -> Seq(Entry)] /\ log[i] \in Seq(Entry) /\ Len(log[i]) \in Nat
  BY LenProperties DEF Shape, TypeOK
<1>2. CASE log'[i] = log[i]
  BY <1>1, <1>2
<1>3. CASE WinnerLogs
  <2>1. PICK j \in Node, e \in Entry : log' = [log EXCEPT ![j] = Append(log[j], e)]
    BY <1>3 DEF WinnerLogs
  <2>2. CASE j = i
    <3>1. log'[i] = Append(log[i], e)
      BY <1>1, <2>1, <2>2
    <3>2. /\ Len(Append(log[i], e)) = Len(log[i]) + 1
          /\ \A k \in 1..Len(log[i]) : Append(log[i], e)[k] = log[i][k]
      BY <1>1, AppendProperties
    <3> QED BY <1>1, <3>1, <3>2
  <2>3. CASE j # i
    BY <1>1, <1>2, <2>1, <2>3
  <2> QED BY <2>2, <2>3
<1>4. CASE FollowerTakes
  <2>1. PICK r \in appendRpcs, after \in Seq(Entry) :
          /\ node'[r.to].currentTerm = r.term
          /\ log' = [log EXCEPT ![r.to] = after]
    BY <1>4 DEF FollowerTakes
  <2>2. r.to # r.from /\ Won(r.term, r.from)
    BY DEF Requests, GoodRequest
  <2>3. r.to # i
    <3> SUFFICES ASSUME r.to = i PROVE FALSE
      OBVIOUS
    <3>1. Won(r.term, i)
      BY <2>1
    <3> QED BY <2>2, <3>1, OneWinner DEF Votes
  <2> QED BY <1>1, <1>2, <2>1, <2>3
<1> QED
  BY <1>2, <1>3, <1>4 DEF LogStep

\* So an entry keeps its origin.
LEMMA OriginStays ==
    ASSUME Shape, Shape', Votes, Requests, LogStep, NEW term \in Nat, NEW k \in Nat, k > 0,
           Origin(term, k)
    PROVE  Origin(term, k)'
<1>1. PICK w \in Node : /\ Won(term, w)
                        /\ \/ node[w].currentTerm > term
                           \/ /\ node[w].currentTerm = term
                              /\ k <= Len(log[w]) /\ log[w][k].term = term
  BY DEF Origin
<1>2. Won(term, w)'
  BY <1>1, WonStays DEF LogStep
<1>3. /\ node[w].currentTerm \in Nat /\ node'[w].currentTerm \in Nat
      /\ Len(log[w]) \in Nat /\ Len(log'[w]) \in Nat
  BY LenProperties DEF Shape, TypeOK, NodeState, Term
<1>4. node'[w].currentTerm >= node[w].currentTerm
  BY <1>3 DEF LogStep, StoreStep
<1>5. CASE node'[w].currentTerm > term
  BY <1>2, <1>5 DEF Origin
<1>6. CASE ~(node'[w].currentTerm > term)
  <2>1. node[w].currentTerm = term /\ node'[w].currentTerm = term
    BY <1>1, <1>3, <1>4, <1>6
  <2>2. k \in 1..Len(log[w]) /\ log[w][k].term = term
    BY <1>1, <1>3, <2>1
  <2>3. Len(log[w]) <= Len(log'[w]) /\ log'[w][k] = log[w][k]
    BY <1>1, <2>1, <2>2, WinnerKeepsLog
  <2>4. k <= Len(log'[w]) /\ log'[w][k].term = term
    BY <1>3, <2>2, <2>3
  <2> QED BY <1>2, <2>1, <2>4 DEF Origin
<1> QED
  BY <1>5, <1>6

\* An entry of a stretch of a view is an entry of the view.
LEMMA PieceCovers ==
    ASSUME NEW u, NEW v, IsView(u), IsView(v), Piece(u, v), NEW k \in Covers(u)
    PROVE  k \in Covers(v) /\ At(u, k) = At(v, k)
<1>1. /\ u.prevIndex \in Nat /\ v.prevIndex \in Nat /\ k \in Nat /\ k > u.prevIndex
      /\ Len(u.entries) \in Nat /\ Len(v.entries) \in Nat
      /\ k <= u.prevIndex + Len(u.entries)
  BY ViewTypes
<1>2. u.entries # <<>>
  <2>1. u.entries = <<>> => Len(u.entries) = 0
    OBVIOUS
  <2> QED BY <1>1, <2>1
<1>3. /\ v.prevIndex <= u.prevIndex
      /\ u.prevIndex + Len(u.entries) <= v.prevIndex + Len(v.entries)
      /\ At(u, k) = At(v, k)
  BY <1>2 DEF Piece
<1>4. k > v.prevIndex /\ k <= v.prevIndex + Len(v.entries)
  BY <1>1, <1>3
<1> QED
  BY <1>1, <1>3, <1>4, InCovers

\* The logs after the step can be added to the views before it: they agree
\* with them, and their entries have an origin.
NewLogFits(u) ==
    /\ IsView(u)
    /\ \A w \in Views : Agree(u, w)
    /\ \A k \in Covers(u) : Origin(At(u, k).term, k)'

\* A new entry of a winner: nobody has one of that term at that index.
LEMMA WinnersEntryFits ==
    ASSUME Shape, Shape', Votes, ViewsAgree, Origins, Requests, LogStep,
           NEW i \in Node, NEW e \in Entry, NEW lg2, lg2 = Append(log[i], e),
           Won(node[i].currentTerm, i),
           e.term = node[i].currentTerm, node'[i].currentTerm = node[i].currentTerm,
           log' = [log EXCEPT ![i] = lg2]
    PROVE  NewLogFits(LogView(lg2))
<1> DEFINE lg == log[i]
           T == e.term
<1>1. /\ lg \in Seq(Entry) /\ Len(lg) \in Nat /\ log \in [Node -> Seq(Entry)]
      /\ T \in Nat /\ node[i].currentTerm = T /\ node'[i].currentTerm = T
  BY LenProperties DEF Shape, TypeOK, NodeState, Term
<1>2. /\ lg2 \in Seq(Entry) /\ Len(lg2) = Len(lg) + 1
      /\ \A k \in 1..Len(lg) : lg2[k] = lg[k]
      /\ lg2[Len(lg) + 1] = e
  BY <1>1, AppendProperties
<1>3. log'[i] = lg2
  BY <1>1
<1>4. ASSUME NEW w \in Views, Len(lg) + 1 \in Covers(w), At(w, Len(lg) + 1).term = T
      PROVE  FALSE
  <2>1. Origin(T, Len(lg) + 1)
    BY <1>4 DEF Origins
  <2>2. PICK x \in Node : /\ Won(T, x)
                          /\ \/ node[x].currentTerm > T
                             \/ node[x].currentTerm = T /\ Len(lg) + 1 <= Len(log[x])
    BY <2>1 DEF Origin
  <2>3. x = i
    BY <2>2, OneWinner DEF Votes
  <2> QED BY <1>1, <2>2, <2>3
<1>5. IsView(LogView(lg2))
  BY <1>2 DEF IsView, LogView
<1>6. ASSUME NEW w \in Views PROVE Agree(LogView(lg2), w)
  <2>1. IsView(w) /\ Agree(LogView(lg), w)
    BY AreViews DEF ViewsAgree, AllAgree
  <2> QED BY <1>1, <1>4, <2>1, ExtendedAgrees
<1>7. ASSUME NEW k \in Covers(LogView(lg2)) PROVE Origin(At(LogView(lg2), k).term, k)'
  <2> HIDE DEF lg
  <2>1. k \in 1..(Len(lg) + 1) /\ At(LogView(lg2), k) = lg2[k] /\ k \in Nat /\ k > 0
    <3>1. k \in 1..Len(lg2) /\ \A m \in Int : At(LogView(lg2), m) = lg2[m]
      BY <1>2, LogViewFacts
    <3>2. k \in 1..(Len(lg) + 1)
      BY <1>2, <3>1
    <3> QED BY <1>1, <3>1, <3>2
  <2>2. CASE k = Len(lg) + 1
    <3>1. At(LogView(lg2), k).term = T
      BY <1>2, <2>1, <2>2
    <3>2. Won(T, i)'
      BY <1>1, WonStays DEF LogStep
    <3>3. node'[i].currentTerm = T /\ k <= Len(log'[i]) /\ log'[i][k].term = T
      BY <1>1, <1>2, <1>3, <2>2
    <3>4. Origin(T, k)'
      BY <3>2, <3>3 DEF Origin
    <3> QED BY <3>1, <3>4
  <2>3. CASE k # Len(lg) + 1
    <3>1. k \in 1..Len(lg) /\ lg2[k] = lg[k]
      BY <1>1, <1>2, <2>1, <2>3
    <3>2. k \in Covers(LogView(lg)) /\ At(LogView(lg), k) = lg[k]
      BY <1>1, <2>1, <3>1, LogViewFacts
    <3>3. Origin(lg[k].term, k)
      <4>1. LogView(lg) \in Views
        BY AreViews DEF lg
      <4> QED BY <3>2, <4>1 DEF Origins
    <3>4. lg[k].term \in Nat
      <4>1. lg[k] \in Entry
        BY <1>1, <3>1, ElementOfSeq
      <4> QED BY <4>1 DEF Entry, Term
    <3> QED BY <2>1, <3>1, <3>3, <3>4, OriginStays
  <2> QED BY <2>2, <2>3
<1> QED
  BY <1>5, <1>6, <1>7 DEF NewLogFits

\* Entries taken from a request.
LEMMA TakenEntriesFit ==
    ASSUME Shape, Shape', Votes, ViewsAgree, Origins, Requests, LogStep,
           NEW r \in appendRpcs, NEW c \in 0..Len(r.entries), NEW after \in Seq(Entry),
           r.prevIndex <= Len(log[r.to]),
           r.prevIndex = 0 \/ log[r.to][r.prevIndex].term = r.prevTerm,
           Taken(after, log[r.to], r, c)
    PROVE  NewLogFits(LogView(after))
<1> DEFINE lg == log[r.to]
<1>1. r.to \in Node /\ lg \in Seq(Entry) /\ Len(lg) \in Nat
  BY LenProperties DEF Shape, TypeOK, AppendRpc
<1>2. r \in Views /\ IsView(r) /\ LogView(lg) \in Views
  BY <1>1, AreViews DEF Views
<1>3. r.prevIndex \in Nat /\ Len(r.entries) \in Nat /\ c \in Nat /\ c <= Len(r.entries)
  BY <1>2, ViewTypes
<1>4. IsView(LogView(after))
  BY DEF IsView, LogView
<1>5. ASSUME NEW w \in Views PROVE Agree(LogView(after), w)
  <2>1. IsView(w) /\ Agree(LogView(lg), w) /\ Agree(r, w)
    BY <1>2, AreViews DEF ViewsAgree, AllAgree
  <2> QED BY <1>1, <1>2, <2>1, TakenAgrees
<1>6. ASSUME NEW k \in Covers(LogView(after)) PROVE Origin(At(LogView(after), k).term, k)'
  <2>1. k \in 1..(r.prevIndex + c) /\ At(LogView(after), k) = after[k] /\ k \in Nat /\ k > 0
    BY <1>3, LogViewFacts DEF Taken
  <2>2. Origin(after[k].term, k)
    <3>1. CASE k <= r.prevIndex
      <4>1. k \in 1..r.prevIndex /\ k \in 1..Len(lg)
        BY <1>1, <1>3, <2>1, <3>1
      <4>2. after[k] = lg[k]
        BY <4>1 DEF Taken
      <4>3. k \in Covers(LogView(lg)) /\ At(LogView(lg), k) = lg[k]
        BY <1>1, <2>1, <4>1, LogViewFacts
      <4> QED BY <1>2, <4>2, <4>3 DEF Origins
    <3>2. CASE ~(k <= r.prevIndex)
      <4>1. k - r.prevIndex \in 1..c /\ r.prevIndex + (k - r.prevIndex) = k
            /\ k > r.prevIndex /\ k <= r.prevIndex + Len(r.entries)
        BY <1>3, <2>1, <3>2
      <4>2. after[k] = At(r, k)
        BY <4>1 DEF Taken, At
      <4>3. k \in Covers(r)
        BY <1>2, <2>1, <4>1, InCovers
      <4> QED BY <1>2, <4>2, <4>3 DEF Origins
    <3> QED BY <3>1, <3>2
  <2>3. after[k].term \in Nat
    <3>1. k \in 1..Len(after)
      BY <2>1 DEF Taken
    <3>2. after[k] \in Entry
      BY <3>1, ElementOfSeq
    <3> QED BY <3>2 DEF Entry, Term
  <2> QED BY <2>1, <2>2, <2>3, OriginStays
<1> QED
  BY <1>4, <1>5, <1>6 DEF NewLogFits

\* Every log after the step was there before or fits.
LEMMA NewLogsFit ==
    ASSUME Shape, Shape', Votes, ViewsAgree, Origins, Requests, LogStep
    PROVE  \E V : /\ Views \subseteq V /\ \A i \in Node : LogView(log'[i]) \in V
                  /\ \A v \in V : IsView(v)
                  /\ AllAgree(V)
                  /\ \A v \in V : \A k \in Covers(v) : Origin(At(v, k).term, k)'
<1>1. /\ \A v \in Views : IsView(v)
      /\ \A i \in Node : LogView(log[i]) \in Views
      /\ log \in [Node -> Seq(Entry)]
  BY AreViews DEF Shape, TypeOK
<1>2. ASSUME NEW v \in Views, NEW k \in Covers(v) PROVE Origin(At(v, k).term, k)'
  <2>1. Origin(At(v, k).term, k)
    BY DEF Origins
  <2>2. k \in Nat /\ k > 0 /\ At(v, k).term \in Nat
    <3>1. v.prevIndex \in Nat /\ k \in Nat /\ k > v.prevIndex /\ At(v, k) \in Entry
      BY <1>1, ViewTypes
    <3> QED BY <3>1 DEF Entry, Term
  <2> QED BY <2>1, <2>2, OriginStays
<1>3. CASE log' = log
  BY <1>1, <1>2, <1>3 DEF ViewsAgree
<1>4. ASSUME NEW j \in Node, NEW lg, log' = [log EXCEPT ![j] = lg], NewLogFits(LogView(lg))
      PROVE  LET V == Views \cup {LogView(lg)}
             IN  /\ Views \subseteq V /\ \A i \in Node : LogView(log'[i]) \in V
                 /\ \A v \in V : IsView(v)
                 /\ AllAgree(V)
                 /\ \A v \in V : \A k \in Covers(v) : Origin(At(v, k).term, k)'
  <2> DEFINE u == LogView(lg)
  <2>1. AllAgree(Views \cup {u})
    BY <1>4, JoinAgree DEF NewLogFits, ViewsAgree
  <2>2. ASSUME NEW i \in Node PROVE LogView(log'[i]) \in Views \cup {u}
    <3>1. log'[i] = IF i = j THEN lg ELSE log[i]
      BY <1>1, <1>4
    <3> QED BY <1>1, <3>1
  <2> HIDE DEF u
  <2> QED BY <1>1, <1>2, <1>4, <2>1, <2>2 DEF NewLogFits, u
<1>5. CASE WinnerLogs
  <2>1. PICK j \in Node, e \in Entry :
          /\ Won(node[j].currentTerm, j)
          /\ e.term = node[j].currentTerm /\ node'[j].currentTerm = node[j].currentTerm
          /\ log' = [log EXCEPT ![j] = Append(log[j], e)]
    BY <1>5 DEF WinnerLogs
  <2>2. PICK lg : lg = Append(log[j], e)
    OBVIOUS
  <2>3. NewLogFits(LogView(lg)) /\ log' = [log EXCEPT ![j] = lg]
    BY <2>1, <2>2, WinnersEntryFits
  <2> HIDE DEF NewLogFits
  <2> QED BY <1>4, <2>3
<1>6. CASE FollowerTakes
  <2>1. PICK r \in appendRpcs : \E c \in 0..Len(r.entries) : \E after \in Seq(Entry) :
          /\ r.prevIndex <= Len(log[r.to])
          /\ r.prevIndex = 0 \/ log[r.to][r.prevIndex].term = r.prevTerm
          /\ Taken(after, log[r.to], r, c)
          /\ log' = [log EXCEPT ![r.to] = after]
    BY <1>6, Zenon DEF FollowerTakes
  <2>2. PICK c \in 0..Len(r.entries), after \in Seq(Entry) :
          /\ r.prevIndex <= Len(log[r.to])
          /\ r.prevIndex = 0 \/ log[r.to][r.prevIndex].term = r.prevTerm
          /\ Taken(after, log[r.to], r, c)
          /\ log' = [log EXCEPT ![r.to] = after]
    BY <2>1, Zenon
  <2>3. NewLogFits(LogView(after)) /\ r.to \in Node
    BY <2>2, TakenEntriesFit DEF Shape, TypeOK, AppendRpc
  <2> HIDE DEF NewLogFits
  <2> QED BY <1>4, <2>2, <2>3
<1> QED
  BY <1>3, <1>5, <1>6 DEF LogStep

\* The step keeps the part of the invariant that is about logs and requests.
LEMMA LogStepKeeps ==
    ASSUME Shape, Shape', Votes, ViewsAgree, Origins, Requests, LogStep
    PROVE  ViewsAgree' /\ Origins' /\ Requests'
<1>1. Requests'
  <2> SUFFICES ASSUME NEW q \in appendRpcs' PROVE GoodRequest(q)'
    BY DEF Requests
  <2>1. GoodRequest(q)
    BY DEF LogStep, RequestsKept, Carries, Requests, GoodRequest
  <2> QED BY <2>1, WonStays DEF LogStep, GoodRequest
<1>2. PICK V : /\ Views \subseteq V /\ \A i \in Node : LogView(log'[i]) \in V
               /\ \A v \in V : IsView(v)
               /\ AllAgree(V)
               /\ \A v \in V : \A k \in Covers(v) : Origin(At(v, k).term, k)'
  BY NewLogsFit
<1>3. \A v \in Views' : IsView(v)
  <2>1. \A i \in Node : IsView(LogView(log'[i]))
    BY <1>2
  <2>2. \A r \in appendRpcs' : IsView(r)
    BY <1>1 DEF Shape, TypeOK, AppendRpc, Requests, GoodRequest, IsView, Index, Term
  <2> QED BY <2>1, <2>2 DEF Views
<1>4. \A u, v : Carries(u, v) /\ IsView(v) => Piece(u, v)
  BY ViewTypes DEF Carries, Piece, Covers, At, TermIn
<1>5. ASSUME NEW u \in Views' PROVE \E v \in V : Piece(u, v)
  <2>1. CASE u \in appendRpcs'
    <3>1. CASE \E p \in appendRpcs : Carries(u, p)
      BY <1>2, <1>4, <3>1 DEF Views
    <3>2. CASE u.from \in Node /\ Piece(u, LogView(log'[u.from]))
      BY <1>2, <3>2
    <3> QED BY <2>1, <3>1, <3>2 DEF LogStep, RequestsKept
  <2>2. CASE u \notin appendRpcs'
    <3>1. u \in V
      BY <1>2, <2>2 DEF Views
    <3> QED BY <1>2, <1>4, <3>1 DEF Carries
  <2> QED BY <2>1, <2>2
<1>6. AllAgree(Views')
  BY <1>2, <1>3, <1>5, PiecesAgree
<1>7. Origins'
  <2> SUFFICES ASSUME NEW u \in Views', NEW k \in Covers(u) PROVE Origin(At(u, k).term, k)'
    BY DEF Origins
  <2>1. PICK v \in V : Piece(u, v)
    BY <1>5
  <2>2. k \in Covers(v) /\ At(u, k) = At(v, k)
    BY <1>2, <1>3, <2>1, PieceCovers
  <2> QED BY <1>2, <2>2
<1> QED
  BY <1>1, <1>6, <1>7 DEF ViewsAgree

----------------------------------------------------------------------------
(* Every action is such a step.                                            *)

\* Answering, abandoning or orphaning a call leaves what it carries.
LEMMA RpcsCarried ==
    ASSUME Shape, NEW r \in appendRpcs, NEW reply
    PROVE  /\ \A q \in Answered(appendRpcs, r, reply) : \E p \in appendRpcs : Carries(q, p)
           /\ \A q \in GivenUp(appendRpcs, r) : \E p \in appendRpcs : Carries(q, p)
<1>1. r \in AppendRpc
  BY DEF Shape, TypeOK
<1>2. Carries([r EXCEPT !.phase = "done", !.reply = reply], r)
  BY <1>1 DEF Carries, AppendRpc
<1>3. Carries([r EXCEPT !.phase = "orphan"], r)
  BY <1>1 DEF Carries, AppendRpc
<1>4. \A p \in appendRpcs : Carries(p, p)
  BY DEF Carries
<1>5. ASSUME NEW q \in Answered(appendRpcs, r, reply)
      PROVE  \E p \in appendRpcs : Carries(q, p)
  BY <1>2, <1>4 DEF Answered
<1>6. ASSUME NEW q \in GivenUp(appendRpcs, r)
      PROVE  \E p \in appendRpcs : Carries(q, p)
  BY <1>3, <1>4 DEF GivenUp
<1> QED
  BY <1>5, <1>6

\* The same when the caller dies.
LEMMA DeadCallersCarried ==
    ASSUME Shape, NEW i
    PROVE  \A q \in CallerDied(appendRpcs, i) : \E p \in appendRpcs : Carries(q, p)
<1>1. \A p \in appendRpcs : Carries(p, p) /\ Carries([p EXCEPT !.phase = "orphan"], p)
  BY DEF Shape, TypeOK, AppendRpc, Carries
<1> QED
  BY <1>1 DEF CallerDied

\* A request that a node cuts from its log, in a term it has won, is good.
LEMMA AppendRequestGood ==
    ASSUME NEW i \in Node, NEW o, NEW p \in Node \ {i}, NEW l \in LeaderState,
           NEW lg \in Seq(Entry), NEW n, n.leaderId \in {Nil, i}, NEW term, Won(term, i)
    PROVE  LET q == AppendRequest(i, o, p, l, lg, n, term)
           IN  q.from = i /\ GoodRequest(q) /\ Piece(q, LogView(lg))
<1> DEFINE q == AppendRequest(i, o, p, l, lg, n, term)
           next == IF l.nextIndex[p] = 0 THEN LastIndex(lg) + 1 ELSE l.nextIndex[p]
           last == IF LastIndex(lg) - next + 1 > MaxBatchEntries
                     THEN next + MaxBatchEntries - 1 ELSE LastIndex(lg)
<1>1. next \in Nat /\ next >= 1
  <2>1. l.nextIndex[p] \in Nat \ {0}
    BY DEF LeaderState, Index
  <2> QED BY <2>1
<1>2. Len(lg) \in Nat /\ LastIndex(lg) = Len(lg) /\ MaxBatchEntries \in Nat
  BY LenProperties, BatchAssumption DEF LastIndex
<1>3. last \in Int /\ last <= Len(lg)
  <2> HIDE DEF next
  <2> QED BY <1>1, <1>2
<1>4. /\ q.from = i /\ q.to = p /\ q.term = term /\ q.leaderId = n.leaderId
      /\ q.prevIndex = next - 1 /\ q.prevTerm = TermAt(lg, next - 1)
      /\ q.entries = SubSeq(lg, next, last)
  BY DEF AppendRequest
<1> HIDE DEF q, next, last
<1>5. /\ Len(SubSeq(lg, next, last)) = IF next <= last THEN last - next + 1 ELSE 0
      /\ \A k \in 1..(last - next + 1) : SubSeq(lg, next, last)[k] = lg[next + k - 1]
      /\ SubSeq(lg, next, last) \in Seq(Entry)
  <2>1. \A k \in next..last : lg[k] \in Entry
    BY <1>1, <1>2, <1>3, ElementOfSeq
  <2> QED BY <1>1, <1>3, <2>1, SubSeqProperties
<1>6. GoodRequest(q)
  <2>1. next - 1 = 0 => TermAt(lg, next - 1) = 0
    BY <1>1, <1>2 DEF TermAt
  <2> QED BY <1>4, <2>1 DEF GoodRequest
<1>7. Piece(q, LogView(lg))
  <2>1. CASE ~(next <= last)
    <3>1. SubSeq(lg, next, last) = <<>>
      BY <1>1, <1>3, <2>1, SubSeqEmpty
    <3> QED BY <1>4, <3>1 DEF Piece
  <2>2. CASE next <= last
    <3> DEFINE v == LogView(lg)
    <3>1. v.prevIndex = 0 /\ v.prevTerm = 0 /\ v.entries = lg
      BY DEF LogView
    <3> HIDE DEF v
    <3>2. \A k \in Int : k - 0 = k
      OBVIOUS
    <3>3. v.prevIndex <= q.prevIndex
      BY <1>1, <1>4, <3>1
    <3>4. q.prevIndex + Len(q.entries) <= v.prevIndex + Len(v.entries)
      BY <1>1, <1>2, <1>3, <1>4, <1>5, <2>2, <3>1
    <3>5. q.prevTerm = TermIn(v, q.prevIndex)
      <4>1. CASE next - 1 = 0
        BY <1>1, <1>2, <1>4, <3>1, <4>1 DEF TermAt, TermIn
      <4>2. CASE next - 1 # 0
        <5>1. next - 1 \in 1..Len(lg) /\ next - 1 \in Int
          BY <1>1, <1>2, <1>3, <2>2, <4>2
        <5> QED BY <1>4, <3>1, <3>2, <4>2, <5>1 DEF TermAt, TermIn, At
      <4> QED BY <4>1, <4>2
    <3>6. ASSUME NEW k \in Covers(q) PROVE At(q, k) = At(v, k)
      <4>1. k \in (next - 1 + 1)..(next - 1 + (last - next + 1))
        BY <1>4, <1>5, <2>2 DEF Covers
      <4>2. k \in Int /\ k - (next - 1) \in 1..(last - next + 1) /\ next + (k - (next - 1)) - 1 = k
        BY <1>1, <1>3, <4>1
      <4>3. SubSeq(lg, next, last)[k - (next - 1)] = lg[k]
        BY <1>5, <4>2
      <4> QED BY <1>4, <3>1, <3>2, <4>2, <4>3 DEF At
    <3> QED BY <3>3, <3>4, <3>5, <3>6 DEF Piece, v
  <2> QED BY <2>1, <2>2
<1> QED
  BY <1>4, <1>6, <1>7 DEF q

\* So are those of a heartbeat.
LEMMA AppendRequestsToAllGood ==
    ASSUME NEW i \in Node, NEW o, NEW l \in LeaderState, NEW lg \in Seq(Entry), NEW n,
           n.leaderId \in {Nil, i}, Won(n.currentTerm, i),
           NEW q \in AppendRequestsToAll(i, o, l, lg, n)
    PROVE  q.from = i /\ GoodRequest(q) /\ Piece(q, LogView(lg))
<1>1. PICK p \in Idle(i, l) : q = AppendRequest(i, o, p, l, lg, n, n.currentTerm)
  BY DEF AppendRequestsToAll
<1>2. p \in Node \ {i}
  BY DEF Idle
<1>3. PICK term : term = n.currentTerm
  OBVIOUS
<1>4. Won(term, i) /\ q = AppendRequest(i, o, p, l, lg, n, term)
  BY <1>1, <1>3
<1> QED
  BY <1>2, <1>4, AppendRequestGood

\* What an action has to show of logs and requests.
LogsMove == RequestsKept /\ (log' = log \/ WinnerLogs \/ FollowerTakes)

\* An action that leaves logs and requests alone, or only ends calls.
LEMMA OldRequests ==
    ASSUME log' = log, \A q \in appendRpcs' : \E p \in appendRpcs : Carries(q, p)
    PROVE  LogsMove
  BY DEF LogsMove, RequestsKept

\* The same, when there is nothing to end.
LEMMA SameRequests ==
    ASSUME log' = log, appendRpcs' = appendRpcs
    PROVE  LogsMove
  BY OldRequests DEF Carries

\* HandlePropose: an entry of the leader's term, and requests that may carry it.
LEMMA ProposeLogs ==
    ASSUME Shape, Votes, LeadersKnow, NEW i \in Node, NEW v \in Value, Propose(i, v)
    PROVE  LogsMove
<1> DEFINE n == node[i]
           o == Len(lead[i])
           l == lead[i][o]
           e == [term |-> n.currentTerm, data |-> v]
           written == Append(log[i], e)
<1>1. /\ n.role = "leader" /\ UNCHANGED node
      /\ log' = [log EXCEPT ![i] = written]
      /\ appendRpcs' = appendRpcs \cup AppendRequestsToAll(i, o, l, written, n)
  BY DEF Propose
<1>2. /\ log \in [Node -> Seq(Entry)] /\ n \in NodeState /\ log[i] \in Seq(Entry)
      /\ lead[i] \in Seq(LeaderState)
  BY DEF Shape, TypeOK
<1>3. l \in LeaderState
  <2>1. o \in Nat \ {0}
    BY <1>1 DEF Shape, LeaderHasObject
  <2>2. o \in 1..Len(lead[i])
    BY <2>1
  <2> QED BY <1>2, <2>2, ElementOfSeq
<1>4. e \in Entry /\ e.term = n.currentTerm
  BY <1>2 DEF Entry, NodeState, Term
<1>5. written \in Seq(Entry)
  <2> HIDE DEF e
  <2> QED BY <1>2, <1>4, AppendProperties
<1>6. Won(n.currentTerm, i) /\ n.leaderId \in {Nil, i}
  BY <1>1, LeaderWon DEF LeadersKnow
<1>7. log'[i] = written
  BY <1>1, <1>2
<1>8. WinnerLogs
  <2>1. node'[i].currentTerm = n.currentTerm
    BY <1>1
  <2> HIDE DEF e
  <2> QED BY <1>1, <1>4, <1>6, <2>1 DEF WinnerLogs
<1> HIDE DEF written, l, o, n, e
<1>9. RequestsKept
  <2> SUFFICES ASSUME NEW q \in appendRpcs'
               PROVE  \/ \E p \in appendRpcs : Carries(q, p)
                      \/ q.from \in Node /\ GoodRequest(q) /\ Piece(q, LogView(log'[q.from]))
    BY DEF RequestsKept
  <2>1. CASE q \in appendRpcs
    BY <2>1 DEF Carries
  <2>2. CASE q \in AppendRequestsToAll(i, o, l, written, n)
    <3>1. q.from = i /\ GoodRequest(q) /\ Piece(q, LogView(written))
      BY <1>3, <1>5, <1>6, <2>2, AppendRequestsToAllGood
    <3> QED BY <1>7, <3>1
  <2> QED BY <1>1, <2>1, <2>2
<1> QED
  BY <1>8, <1>9 DEF LogsMove

\* Tick of a leader: requests cut from its log.
LEMMA LeaderTickLogs ==
    ASSUME Shape, Votes, LeadersKnow, NEW i \in Node, NEW heartbeat \in BOOLEAN,
           NEW expired \in BOOLEAN, LeaderTick(i, heartbeat, expired)
    PROVE  LogsMove
<1> DEFINE n == node[i]
           o == Len(lead[i])
           l == lead[i][o]
<1>1. /\ n.role = "leader" /\ log' = log
      /\ appendRpcs' = IF heartbeat
                         THEN appendRpcs \cup AppendRequestsToAll(i, o, l, log[i], n)
                         ELSE appendRpcs
  BY DEF LeaderTick
<1>2. log[i] \in Seq(Entry) /\ lead[i] \in Seq(LeaderState)
  BY DEF Shape, TypeOK
<1>3. l \in LeaderState
  <2>1. o \in Nat \ {0}
    BY <1>1 DEF Shape, LeaderHasObject
  <2>2. o \in 1..Len(lead[i])
    BY <2>1
  <2> QED BY <1>2, <2>2, ElementOfSeq
<1>4. Won(n.currentTerm, i) /\ n.leaderId \in {Nil, i}
  BY <1>1, LeaderWon DEF LeadersKnow
<1> HIDE DEF l, o, n
<1>5. RequestsKept
  <2> SUFFICES ASSUME NEW q \in appendRpcs'
               PROVE  \/ \E p \in appendRpcs : Carries(q, p)
                      \/ q.from \in Node /\ GoodRequest(q) /\ Piece(q, LogView(log'[q.from]))
    BY DEF RequestsKept
  <2>1. CASE q \in appendRpcs
    BY <2>1 DEF Carries
  <2>2. CASE q \in AppendRequestsToAll(i, o, l, log[i], n)
    <3>1. q.from = i /\ GoodRequest(q) /\ Piece(q, LogView(log[i]))
      BY <1>2, <1>3, <1>4, <2>2, AppendRequestsToAllGood
    <3> QED BY <1>1, <3>1
  <2> QED BY <1>1, <2>1, <2>2
<1> QED
  BY <1>1, <1>5 DEF LogsMove

\* becomeLeader: a no-op of the term just won, and requests that carry it.
LEMMA BecomeLeaderLogs ==
    ASSUME Shape, NEW i \in Node, NEW n \in NodeState, n.currentTerm = node[i].currentTerm,
           Won(n.currentTerm, i), BecomeLeader(i, n, FALSE)
    PROVE  LogsMove
<1> DEFINE e == [term |-> n.currentTerm, data |-> NoOp]
           written == Append(log[i], e)
           fresh == [nextIndex  |-> [p \in Node |-> IF p = i THEN Len(written) + 1
                                                    ELSE LastIndex(log[i]) + 1],
                     matchIndex |-> [p \in Node |-> IF p = i THEN Len(written) ELSE 0],
                     inflight   |-> {}]
           elected == [n EXCEPT !.role = "leader", !.leaderId = i]
           commit == AdvancedCommitIndex(elected, written, fresh)
           o == Len(lead[i]) + 1
<1>1. /\ node' = [node EXCEPT ![i] = [elected EXCEPT !.commitIndex = commit]]
      /\ log' = [log EXCEPT ![i] = written]
      /\ appendRpcs' = appendRpcs \cup AppendRequestsToAll(i, o, fresh, written, elected)
  BY DEF BecomeLeader
<1>2. /\ log \in [Node -> Seq(Entry)] /\ log[i] \in Seq(Entry)
      /\ node \in [Node -> NodeState]
  BY DEF Shape, TypeOK
<1>3. e \in Entry /\ e.term = n.currentTerm
  BY DEF Entry, NodeState, Term
<1>4. written \in Seq(Entry)
  <2> HIDE DEF e
  <2> QED BY <1>2, <1>3, AppendProperties
<1>5. Len(written) \in Nat /\ LastIndex(log[i]) \in Nat
  <2> HIDE DEF written
  <2> QED BY <1>2, <1>4, LenProperties, LastType
<1>6. fresh \in LeaderState
  <2> HIDE DEF written
  <2> QED BY <1>5 DEF LeaderState, Index
<1>7. /\ elected.leaderId = i /\ elected.currentTerm = n.currentTerm
      /\ [elected EXCEPT !.commitIndex = commit].currentTerm = n.currentTerm
  <2> HIDE DEF commit
  <2> QED BY DEF NodeState
<1> HIDE DEF e, fresh, commit, elected
<1>8. log'[i] = written
  BY <1>1, <1>2
<1>9. WinnerLogs
  <2>1. node'[i].currentTerm = node[i].currentTerm
    BY <1>1, <1>2, <1>7
  <2> QED BY <1>1, <1>3, <2>1 DEF WinnerLogs
<1> HIDE DEF written, o
<1>10. RequestsKept
  <2> SUFFICES ASSUME NEW q \in appendRpcs'
               PROVE  \/ \E p \in appendRpcs : Carries(q, p)
                      \/ q.from \in Node /\ GoodRequest(q) /\ Piece(q, LogView(log'[q.from]))
    BY DEF RequestsKept
  <2>1. CASE q \in appendRpcs
    BY <2>1 DEF Carries
  <2>2. CASE q \in AppendRequestsToAll(i, o, fresh, written, elected)
    <3>1. q.from = i /\ GoodRequest(q) /\ Piece(q, LogView(written))
      BY <1>4, <1>6, <1>7, <2>2, AppendRequestsToAllGood
    <3> QED BY <1>8, <3>1
  <2> QED BY <1>1, <2>1, <2>2
<1> QED
  BY <1>9, <1>10 DEF LogsMove

\* The continuation of sendRequestVote: a node that wins logs its no-op.
LEMMA RequestVoteReturnsLogs ==
    ASSUME Shape, Votes, NEW r \in voteRpcs, RequestVoteReturns(r)
    PROVE  LogsMove
<1> DEFINE i == r.from
           n == node[i]
           counted == [n EXCEPT !.votes = @ \cup {r.to}]
<1>1. r \in VoteRpc /\ i \in Node /\ r.to \in Node /\ n \in NodeState /\ n.votes \in SUBSET Node
  BY DEF Shape, TypeOK, VoteRpc, NodeState
<1>2. /\ counted \in NodeState /\ counted.votes = n.votes \cup {r.to}
      /\ counted.currentTerm = n.currentTerm
  <2> HIDE DEF n
  <2> QED BY <1>1 DEF NodeState
<1>3. CASE UNCHANGED <<log, appendRpcs>>
  BY <1>3, SameRequests
<1>4. ASSUME r.phase = "done", VoteCounts(r), counted.votes \in Quorum,
             BecomeLeader(i, counted, FALSE)
      PROVE  LogsMove
  <2>1. <<r.to, n.currentTerm, i>> \in ballots
    BY <1>4 DEF VoteCounts, Votes, GrantsAreBallots
  <2>2. counted.votes \subseteq Voters(n.currentTerm, i)
    BY <1>1, <1>2, <2>1 DEF Votes, VotesAreBallots, Voters
  <2>3. Voters(n.currentTerm, i) \subseteq Node
    BY DEF Voters
  <2>4. Won(n.currentTerm, i)
    BY <1>4, <2>2, <2>3, QuorumGrows DEF Won
  <2> HIDE DEF counted
  <2> QED BY <1>1, <1>2, <1>4, <2>4, BecomeLeaderLogs
<1>5. ASSUME NEW logFails \in BOOLEAN, r.phase = "done", VoteCounts(r),
             counted.votes \in Quorum, BecomeLeader(i, counted, logFails)
      PROVE  LogsMove
  <2>1. CASE logFails
    BY <1>3, <1>5, <2>1 DEF BecomeLeader
  <2>2. CASE logFails = FALSE
    BY <1>4, <1>5, <2>2
  <2> QED BY <2>1, <2>2
<1> QED
  BY <1>3, <1>5 DEF RequestVoteReturns

\* A node that handles a request is a follower in the term of the request.
LEMMA FollowsInTerm ==
    ASSUME NEW n \in NodeState, NEW r \in AppendRpc, NEW termFails \in BOOLEAN,
           ~RefusesAppend(n, r)
    PROVE  LET m == FollowerState(n, r, termFails)
           IN  m \in NodeState /\ m.role = "follower" /\ m.currentTerm = r.term
<1>1. r.term \in Nat /\ n.currentTerm \in Nat /\ ~(r.term < n.currentTerm)
  BY DEF AppendRpc, NodeState, Term, RefusesAppend
<1> DEFINE f == BecomeFollower(n, r.term)
           h == HandlerBecomesFollower(n, r.term, termFails)
<1>2. f \in NodeState /\ h \in NodeState /\ f.role = "follower"
  BY <1>1, NodeOpsType, NodeOpsCalm
<1>3. f.currentTerm = r.term
  BY <1>1 DEF BecomeFollower, AdoptTerm, NodeState
<1> HIDE DEF f
<1>4. h.role = "follower" /\ h.currentTerm = r.term
  BY <1>2, <1>3 DEF HandlerBecomesFollower, MarkUnhealthy, NodeState, f
<1> HIDE DEF h
<1>5. CASE r.term > n.currentTerm \/ n.role # "follower"
  BY <1>2, <1>4, <1>5 DEF FollowerState, h
<1>6. CASE ~(r.term > n.currentTerm \/ n.role # "follower")
  BY <1>1, <1>6 DEF FollowerState
<1> QED
  BY <1>5, <1>6

\* HandleAppendEntries: refused, or entries taken over in the request's term.
LEMMA DeliverAppendLogs ==
    ASSUME Shape, ViewsAgree, Requests, NEW r \in appendRpcs,
           DeliverAppendRefused(r) \/ DeliverAppendEntries(r)
    PROVE  LogsMove
<1>1. /\ r \in AppendRpc /\ r.to \in Node /\ r.term \in Nat /\ node \in [Node -> NodeState]
      /\ log \in [Node -> Seq(Entry)] /\ log[r.to] \in Seq(Entry) /\ node[r.to] \in NodeState
      /\ node[r.to].currentTerm \in Nat
      /\ r.prevIndex \in Nat /\ Len(log[r.to]) \in Nat
  BY LenProperties DEF Shape, TypeOK, AppendRpc, Index, Term, NodeState
<1>2. PICK reply : AppendHandled(r, reply)
  BY DEF DeliverAppendRefused, DeliverAppendEntries
<1>3. \A q \in appendRpcs' : \E p \in appendRpcs : Carries(q, p)
  BY <1>2, RpcsCarried DEF AppendHandled
<1>4. CASE log' = log
  BY <1>3, <1>4, OldRequests
<1>5. ASSUME ~RefusesAppend(node[r.to], r), NEW termFails \in BOOLEAN, NEW logFails \in BOOLEAN,
             r.prevIndex <= LastIndex(log[r.to]),
             CheckLogConsistency(log[r.to], r.prevIndex, r.prevTerm).ok,
             NEW after \in LogsAfterAppend(log[r.to], r, logFails),
             log' = [log EXCEPT ![r.to] = after],
             NEW commit,
             node' = [node EXCEPT ![r.to] =
               [FollowerState(node[r.to], r, termFails) EXCEPT !.leaderId = r.leaderId,
                  !.commitIndex = commit]]
      PROVE  LogsMove
  <2> DEFINE lg == log[r.to]
             n == FollowerState(node[r.to], r, termFails)
  <2>1. r.prevIndex <= Len(lg)
    BY <1>5 DEF LastIndex
  <2>2. r.prevIndex = 0 \/ lg[r.prevIndex].term = r.prevTerm
    <3>1. r.prevIndex = 0 \/ TermAt(lg, r.prevIndex) = r.prevTerm
      BY <1>5 DEF CheckLogConsistency
    <3> QED BY <1>1, <2>1, <3>1 DEF TermAt
  <2>3. IsView(r) /\ Agree(LogView(lg), r) /\ Len(r.entries) \in Nat
    BY <1>1, AreViews, ViewTypes DEF ViewsAgree, AllAgree, Views
  <2>4. after = lg \/ \E c \in 0..Len(r.entries) : Taken(after, lg, r, c)
    BY <1>1, <1>5, <2>1, <2>3, AppendTakes
  <2>5. n \in NodeState /\ n.currentTerm = r.term
    BY <1>1, <1>5, FollowsInTerm
  <2>6. node'[r.to].currentTerm = r.term
    <3> HIDE DEF n
    <3>1. [n EXCEPT !.leaderId = r.leaderId, !.commitIndex = commit].currentTerm = r.term
      BY <2>5 DEF NodeState
    <3> QED BY <1>1, <1>5, <3>1 DEF n
  <2>7. CASE after = lg
    BY <1>1, <1>4, <1>5, <2>7
  <2>8. CASE \E c \in 0..Len(r.entries) : Taken(after, lg, r, c)
    <3>1. after \in Seq(Entry)
      BY <2>8 DEF Taken
    <3>2. FollowerTakes
      BY <1>5, <2>1, <2>2, <2>6, <2>8, <3>1 DEF FollowerTakes
    <3> QED BY <1>3, <3>2 DEF LogsMove, RequestsKept
  <2> QED BY <2>4, <2>7, <2>8
<1> QED
  BY <1>4, <1>5 DEF DeliverAppendRefused, DeliverAppendEntries

\* sendAppendEntriesToNode after its answer: the log is left alone, and a retry
\* is cut from it in the term of the first attempt.
LEMMA AppendContinuesLogs ==
    ASSUME Shape, Requests, LeadersKnow, NEW r \in appendRpcs, r.phase # "orphan",
           NEW reply \in AppendReply, NEW cause, AppendContinues(r, reply, cause), log' = log
    PROVE  LogsMove
<1> DEFINE i == r.from
           n == node[i]
           l == lead[i][r.obj]
           lg == log[i]
           m == IF reply.success THEN AckedState(l, r) ELSE NackedState(l, r, lg, reply)
           commit == IF reply.success THEN AdvancedCommitIndex(n, lg, m) ELSE n.commitIndex
           after == [n EXCEPT !.commitIndex = commit]
           again == AppendRequest(i, r.obj, r.to, m, lg, after, r.term)
<1>1. \/ appendRpcs' = GivenUp(appendRpcs, r)
      \/ /\ n.role = "leader"
         /\ appendRpcs' \subseteq GivenUp(appendRpcs, r) \cup {again}
  BY DEF AppendContinues, UsesAppendReply
<1>2. /\ r \in AppendRpc /\ i \in Node /\ lg \in Seq(Entry) /\ n \in NodeState
      /\ lead[i] \in Seq(LeaderState)
  BY DEF Shape, TypeOK, AppendRpc
<1>3. l \in LeaderState
  <2>1. r.obj \in 1..Len(lead[i])
    BY DEF Shape, LiveObjects
  <2> QED BY <1>2, <2>1, ElementOfSeq
<1>4. r.to \in Node \ {i} /\ Won(r.term, i)
  BY <1>2 DEF Requests, GoodRequest, AppendRpc
<1>5. \A q \in GivenUp(appendRpcs, r) : \E p \in appendRpcs : Carries(q, p)
  BY RpcsCarried
<1>6. CASE appendRpcs' = GivenUp(appendRpcs, r)
  BY <1>5, <1>6, OldRequests
<1>7. CASE n.role = "leader" /\ appendRpcs' \subseteq GivenUp(appendRpcs, r) \cup {again}
  <2>1. m \in LeaderState
    <3> HIDE DEF l, lg
    <3> QED BY <1>2, <1>3, LeaderOpsType
  <2>2. after.leaderId = n.leaderId
    <3> HIDE DEF commit, n
    <3> QED BY <1>2 DEF NodeState
  <2>3. n.leaderId \in {Nil, i}
    BY <1>2, <1>7 DEF LeadersKnow
  <2> HIDE DEF m, after
  <2>4. PICK term : term = r.term
    OBVIOUS
  <2>5. again.from = i /\ GoodRequest(again) /\ Piece(again, LogView(lg))
    <3>1. Won(term, i)
      BY <1>4, <2>4
    <3>2. after.leaderId \in {Nil, i}
      BY <2>2, <2>3
    <3>3. again = AppendRequest(i, r.obj, r.to, m, lg, after, term)
      BY <2>4
    <3> QED BY <1>2, <1>4, <2>1, <3>1, <3>2, <3>3, AppendRequestGood
  <2> HIDE DEF again
  <2>6. RequestsKept
    BY <1>2, <1>5, <1>7, <2>5 DEF RequestsKept
  <2> QED BY <2>6 DEF LogsMove
<1> QED
  BY <1>1, <1>6, <1>7

\* Both ways an append call ends.
LEMMA AppendReturnsLogs ==
    ASSUME Shape, Requests, LeadersKnow, NEW r \in appendRpcs,
           AppendEntriesReturns(r) \/ AppendEntriesFails(r)
    PROVE  LogsMove
<1>1. r.term \in Nat /\ r.reply \in AppendReply
  BY DEF Shape, TypeOK, AppendRpc, Term
<1>2. CASE AppendEntriesReturns(r)
  BY <1>1, <1>2, AppendContinuesLogs DEF AppendEntriesReturns
<1>3. CASE AppendEntriesFails(r)
  <2>1. [NoAppend EXCEPT !.term = r.term] \in AppendReply
    BY <1>1 DEF NoAppend, AppendReply, Term, Index
  <2> QED BY <1>3, <2>1, AppendContinuesLogs DEF AppendEntriesFails
<1> QED
  BY <1>2, <1>3

\* No step takes a ballot back.
LEMMA BallotsStay ==
    ASSUME Shape, [Next]_vars
    PROVE  ballots \subseteq ballots'
<1>1. CASE QuietStep
  BY <1>1 DEF QuietStep
<1>2. ASSUME NEW r, NEW t, NEW granted, NEW failing, PreVoteContinues(r, t, granted, failing)
      PROVE  ballots \subseteq ballots'
  BY <1>2 DEF PreVoteContinues, StartElection
<1>3. ASSUME NEW r \in preVoteRpcs, PreVoteReturns(r) \/ PreVoteFails(r)
      PROVE  ballots \subseteq ballots'
  BY <1>2, <1>3 DEF PreVoteReturns, PreVoteFails
<1>4. ASSUME NEW r \in voteRpcs, DeliverRequestVote(r) PROVE ballots \subseteq ballots'
  BY <1>4, DeliverRequestVoteFacts
<1>5. ASSUME NEW r \in voteRpcs, RequestVoteReturns(r) PROVE ballots \subseteq ballots'
  BY <1>5 DEF RequestVoteReturns
<1>6. \/ QuietStep
      \/ \E r \in preVoteRpcs : PreVoteReturns(r) \/ PreVoteFails(r)
      \/ \E r \in voteRpcs : DeliverRequestVote(r) \/ RequestVoteReturns(r)
  BY QuietActions DEF Next
<1> QED
  BY <1>1, <1>3, <1>4, <1>5, <1>6

\* Every step of the system moves logs and requests as LogStep says.
LEMMA NextLogStep ==
    ASSUME Shape, Shape', Votes, ViewsAgree, Requests, LeadersKnow, [Next]_vars
    PROVE  LogStep
<1>1. ASSUME NEW i \in Node, ElectionTimeout(i) \/ Disable(i) \/ Enable(i) PROVE LogsMove
  BY <1>1, SameRequests DEF ElectionTimeout, Disable, Enable, rpcVars
<1>2. ASSUME NEW i, NEW n, Reboot(i, n) PROVE LogsMove
  BY <1>2, DeadCallersCarried, OldRequests DEF Reboot
<1>3. ASSUME NEW i \in Node, Restart(i) PROVE LogsMove
  BY <1>2, <1>3 DEF Restart
<1>4. ASSUME NEW r \in preVoteRpcs, CrashMidElection(r) PROVE LogsMove
  BY <1>2, <1>4 DEF CrashMidElection
<1>5. ASSUME NEW r \in preVoteRpcs, DeliverPreVote(r) \/ PreVoteReturns(r) \/ PreVoteFails(r)
      PROVE  LogsMove
  BY <1>5, SameRequests DEF DeliverPreVote, PreVoteReturns, PreVoteFails, nodeVars
<1>6. ASSUME NEW r \in voteRpcs,
             DeliverRequestVoteRefused(r) \/ DeliverRequestVote(r) \/ RequestVoteFails(r)
      PROVE  LogsMove
  <2>1. log' = log /\ appendRpcs' = appendRpcs
    BY <1>6 DEF DeliverRequestVoteRefused, DeliverRequestVote, RequestVoteFails,
                RequestVoteHandled, nodeVars
  <2> QED BY <2>1, SameRequests
<1>7. ASSUME UNCHANGED vars PROVE LogsMove
  BY <1>7, SameRequests DEF vars, nodeVars, rpcVars
<1>8. LogsMove
  <2>1. ASSUME NEW i \in Node, NEW v \in Value, Propose(i, v) PROVE LogsMove
    BY <2>1, ProposeLogs
  <2>2. ASSUME NEW i \in Node, NEW heartbeat \in BOOLEAN, NEW expired \in BOOLEAN,
               LeaderTick(i, heartbeat, expired)
        PROVE  LogsMove
    BY <2>2, LeaderTickLogs
  <2>3. ASSUME NEW r \in voteRpcs, RequestVoteReturns(r) PROVE LogsMove
    BY <2>3, RequestVoteReturnsLogs
  <2>4. ASSUME NEW r \in appendRpcs,
               \/ DeliverAppendRefused(r) \/ DeliverAppendEntries(r)
               \/ AppendEntriesReturns(r) \/ AppendEntriesFails(r)
        PROVE  LogsMove
    BY <2>4, DeliverAppendLogs, AppendReturnsLogs
  <2> QED BY <1>1, <1>3, <1>4, <1>5, <1>6, <1>7, <2>1, <2>2, <2>3, <2>4 DEF Next
<1> QED
  BY <1>8, BallotsStay, NextVotes DEF LogsMove, LogStep

----------------------------------------------------------------------------
(* Whom a node takes for the leader.                                       *)

\* The hint is dropped, or not used, or is what it was in the same term.
HintKept(n, m) ==
    \/ m.leaderId = Nil
    \/ m.role = "candidate"
    \/ m.role = "follower" /\ ~m.healthy
    \/ /\ m.role = n.role /\ m.leaderId = n.leaderId /\ m.currentTerm = n.currentTerm
       /\ m.healthy => n.healthy

\* Or the node has won, or follows the winner of its term.
HintChange(i, n, m) ==
    \/ HintKept(n, m)
    \/ m.role = "leader" /\ m.leaderId = i
    \/ m.role = "follower" /\ Won(m.currentTerm, m.leaderId)

HintsMove == \A i \in Node : HintChange(i, node[i], node'[i])

\* Such a step keeps the hints right.
LEMMA HintsStayRight ==
    ASSUME Shape, LeadersKnow, LeaderHint, ballots \subseteq ballots', HintsMove
    PROVE  LeadersKnow' /\ LeaderHint'
<1>1. ASSUME NEW term, NEW w, Won(term, w) PROVE Voters(term, w)' \in Quorum
  BY <1>1, WonStays DEF Won
<1>2. LeadersKnow'
  BY DEF LeadersKnow, HintsMove, HintChange, HintKept
<1>3. LeaderHint'
  <2> SUFFICES ASSUME NEW i \in Node,
                      node'[i].role = "follower" /\ node'[i].healthy /\ node'[i].leaderId # Nil
               PROVE  (Voters(node[i].currentTerm, node[i].leaderId) \in Quorum)'
    BY DEF LeaderHint
  <2>1. PICK term, w : term = node'[i].currentTerm /\ w = node'[i].leaderId
    OBVIOUS
  <2>2. \/ /\ node[i].role = "follower" /\ node[i].healthy /\ node[i].leaderId = w
           /\ node[i].currentTerm = term
        \/ Won(term, w)
    BY <2>1 DEF HintsMove, HintChange, HintKept
  <2>3. Won(term, w)
    BY <2>1, <2>2 DEF LeaderHint, Won
  <2>4. Voters(term, w)' \in Quorum
    BY <1>1, <2>3
  <2> QED BY <2>1, <2>4 DEF Voters
<1> QED
  BY <1>2, <1>3

\* Two changes that keep the hint keep it.
LEMMA HintKeptTransitive ==
    ASSUME NEW n, NEW m, NEW k, HintKept(n, m), HintKept(m, k)
    PROVE  HintKept(n, k)
  BY DEF HintKept

\* No change of a role or a store makes a hint up.
LEMMA NodeOpsHint ==
    ASSUME NEW n \in NodeState, NEW term \in Nat, NEW fails \in BOOLEAN
    PROVE  /\ HintKept(n, n)
           /\ HintKept(n, MarkUnhealthy(n))
           /\ BecomeFollower(n, term).leaderId = Nil
           /\ HintKept(n, StepDown(n, term, fails))
           /\ HandlerBecomesFollower(n, term, fails).leaderId = Nil
           /\ IncrementCurrentTerm(n).role = n.role
           /\ MarkUnhealthy(n).role = n.role
           /\ Rebooted(n).leaderId = Nil
<1>1. HintKept(n, n)
  BY DEF HintKept
<1>2. \A m \in NodeState : /\ HintKept(m, MarkUnhealthy(m)) /\ MarkUnhealthy(m).role = m.role
                           /\ MarkUnhealthy(m).leaderId = m.leaderId
  BY DEF HintKept, MarkUnhealthy, NodeState
<1>3. BecomeFollower(n, term).leaderId = Nil
  <2>1. CASE term > n.currentTerm
    BY <2>1 DEF BecomeFollower, AdoptTerm, NodeState
  <2>2. CASE ~(term > n.currentTerm)
    BY <2>2 DEF BecomeFollower, NodeState
  <2> QED BY <2>1, <2>2
<1>4. BecomeFollower(n, term) \in NodeState
  BY NodeOpsType
<1>5. HintKept(n, BecomeFollowerUnsaved(n))
  BY DEF HintKept, BecomeFollowerUnsaved, MarkUnhealthy, NodeState
<1>6. HintKept(n, StepDown(n, term, fails))
  BY <1>1, <1>3, <1>5 DEF StepDown, HintKept
<1>7. HandlerBecomesFollower(n, term, fails).leaderId = Nil
  BY <1>2, <1>3, <1>4 DEF HandlerBecomesFollower
<1>8. IncrementCurrentTerm(n).role = n.role
  BY DEF IncrementCurrentTerm, NodeState
<1>9. Rebooted(n).leaderId = Nil
  BY DEF Rebooted, NodeState
<1> QED
  BY <1>1, <1>2, <1>3, <1>6, <1>7, <1>8, <1>9

\* A step that changes one node.
LEMMA OneHint ==
    ASSUME node \in [Node -> NodeState], NEW i \in Node, NEW m,
           HintChange(i, node[i], m), node' = [node EXCEPT ![i] = m]
    PROVE  HintsMove
<1>1. \A j \in Node : HintKept(node[j], node[j])
  BY DEF HintKept
<1>2. \A j \in Node : node'[j] = IF j = i THEN m ELSE node[j]
  OBVIOUS
<1> QED
  BY <1>1, <1>2 DEF HintsMove, HintChange

\* A step that changes none.
LEMMA NoHint ==
    ASSUME node' = node
    PROVE  HintsMove
  BY DEF HintsMove, HintChange, HintKept

\* It makes no hint up either.
LEMMA FollowerStateHint ==
    ASSUME NEW n \in NodeState, NEW r \in AppendRpc, NEW termFails \in BOOLEAN
    PROVE  HintKept(n, FollowerState(n, r, termFails))
<1>1. r.term \in Nat
  BY DEF AppendRpc, Term
<1>2. HandlerBecomesFollower(n, r.term, termFails).leaderId = Nil /\ HintKept(n, n)
  BY <1>1, NodeOpsHint
<1> QED
  BY <1>2 DEF FollowerState, HintKept

\* Timers, operators and restarts.
LEMMA OwnStepHints ==
    ASSUME Shape, NEW i \in Node,
           \/ ElectionTimeout(i) \/ Disable(i) \/ Enable(i) \/ Restart(i)
           \/ \E heartbeat, expired \in BOOLEAN : LeaderTick(i, heartbeat, expired)
    PROVE  HintsMove
<1>1. node \in [Node -> NodeState] /\ node[i] \in NodeState /\ node[i].currentTerm \in Nat
  BY DEF Shape, TypeOK, NodeState, Term
<1>2. TRUE \in BOOLEAN
  OBVIOUS
<1>3. CASE ElectionTimeout(i)
  <2> DEFINE m == [node[i] EXCEPT !.role = "candidate",
                                  !.preVotes = Append(node[i].preVotes, {i})]
  <2>1. node' = [node EXCEPT ![i] = m]
    BY <1>3 DEF ElectionTimeout
  <2>2. m.role = "candidate"
    BY <1>1 DEF NodeState
  <2> HIDE DEF m
  <2> QED BY <1>1, <2>1, <2>2, OneHint DEF HintChange, HintKept
<1>4. CASE Disable(i)
  <2> DEFINE m == [node[i] EXCEPT !.enabled = FALSE, !.leaderId = Nil,
                     !.stopped = (node[i].stopped \/ node[i].role = "leader")]
  <2>1. node' = [node EXCEPT ![i] = m]
    BY <1>4 DEF Disable
  <2>2. m.leaderId = Nil
    BY <1>1 DEF NodeState
  <2> HIDE DEF m
  <2> QED BY <1>1, <2>1, <2>2, OneHint DEF HintChange, HintKept
<1>5. CASE Enable(i)
  <2> DEFINE f == BecomeFollower(node[i], node[i].currentTerm)
             m == [f EXCEPT !.enabled = TRUE]
  <2>1. node' = [node EXCEPT ![i] = m]
    BY <1>5 DEF Enable
  <2>2. f \in NodeState /\ f.leaderId = Nil
    BY <1>1, <1>2, NodeOpsType, NodeOpsHint
  <2> HIDE DEF f
  <2>3. m.leaderId = Nil
    BY <2>2 DEF NodeState
  <2> HIDE DEF m
  <2> QED BY <1>1, <2>1, <2>3, OneHint DEF HintChange, HintKept
<1>6. CASE Restart(i)
  <2>1. node' = [node EXCEPT ![i] = Rebooted(node[i])]
    BY <1>6 DEF Restart, Reboot
  <2>2. Rebooted(node[i]).leaderId = Nil
    BY <1>1, <1>2, NodeOpsHint
  <2> QED BY <1>1, <2>1, <2>2, OneHint DEF HintChange, HintKept
<1>7. ASSUME NEW heartbeat \in BOOLEAN, NEW expired \in BOOLEAN, LeaderTick(i, heartbeat, expired)
      PROVE  HintsMove
  <2>1. CASE expired
    <3>1. node' = [node EXCEPT ![i] = BecomeFollower(node[i], node[i].currentTerm)]
      BY <1>7, <2>1 DEF LeaderTick
    <3>2. BecomeFollower(node[i], node[i].currentTerm).leaderId = Nil
      BY <1>1, <1>2, NodeOpsHint
    <3> QED BY <1>1, <3>1, <3>2, OneHint DEF HintChange, HintKept
  <2>2. CASE ~expired
    BY <1>7, <2>2, NoHint DEF LeaderTick
  <2> QED BY <2>1, <2>2
<1> QED
  BY <1>3, <1>4, <1>5, <1>6, <1>7

\* The pre-vote: at the caller, who may stand for election or die doing so.
LEMMA PreVoteHints ==
    ASSUME Shape, NEW r \in preVoteRpcs,
           \/ DeliverPreVote(r) \/ PreVoteReturns(r) \/ PreVoteFails(r) \/ CrashMidElection(r)
    PROVE  HintsMove
<1> DEFINE i == r.from
           n == node[i]
           w == WithPreVote(n, r)
<1>1. r \in PreVoteRpc /\ i \in Node /\ n \in NodeState /\ node \in [Node -> NodeState]
      /\ TRUE \in BOOLEAN /\ 0 \in Nat
  BY DEF Shape, TypeOK, PreVoteRpc
<1>2. w \in NodeState /\ w.role = n.role /\ HintKept(n, w)
  <2>1. HintKept(n, w)
    BY <1>1 DEF WithPreVote, NodeState, HintKept
  <2> QED BY <1>1, <2>1, WithPreVoteType, WithPreVoteCalm
<1>3. CASE DeliverPreVote(r)
  BY <1>3, NoHint DEF DeliverPreVote, nodeVars
<1>4. CASE CrashMidElection(r)
  <2>1. node' = [node EXCEPT ![i] = Rebooted(IncrementCurrentTerm(n))]
    BY <1>4 DEF CrashMidElection, Reboot
  <2>2. IncrementCurrentTerm(n) \in NodeState
    BY <1>1, NodeOpsType
  <2>3. Rebooted(IncrementCurrentTerm(n)).leaderId = Nil
    BY <1>1, <2>2, NodeOpsHint
  <2> QED BY <1>1, <2>1, <2>3, OneHint DEF HintChange, HintKept
<1>5. ASSUME NEW t \in Nat, NEW granted \in BOOLEAN, NEW failing \in {"none", "term", "vote"},
             PreVoteContinues(r, t, granted, failing)
      PROVE  HintsMove
  <2>1. CASE node' = [node EXCEPT ![i] = StepDown(n, t, failing = "term")]
    <3>1. (failing = "term") \in BOOLEAN
      OBVIOUS
    <3>2. HintKept(n, StepDown(n, t, failing = "term"))
      BY <1>1, <3>1, NodeOpsHint
    <3> QED BY <1>1, <2>1, <3>2, OneHint DEF HintChange
  <2>2. CASE WinsPreVote(r, t, granted) /\ StartElection(i, w, failing)
    <3> DEFINE m == IncrementCurrentTerm(w)
    <3>1. w.role = "candidate"
      BY <1>2, <2>2 DEF WinsPreVote, PreVoteCounts
    <3>2. m \in NodeState /\ m.role = "candidate" /\ MarkUnhealthy(w).role = "candidate"
      BY <1>1, <1>2, <3>1, NodeOpsType, NodeOpsHint
    <3>3. MarkUnhealthy(m).role = "candidate"
      <4> HIDE DEF m
      <4> QED BY <1>1, <3>2, NodeOpsHint
    <3>4. [m EXCEPT !.votedFor = i, !.votes = {i}].role = "candidate"
      <4> HIDE DEF m
      <4> QED BY <3>2 DEF NodeState
    <3>5. PICK x : node' = [node EXCEPT ![i] = x] /\ x.role = "candidate"
      BY <2>2, <3>2, <3>3, <3>4 DEF StartElection
    <3> QED BY <1>1, <3>5, OneHint DEF HintChange, HintKept
  <2>3. CASE node' = [node EXCEPT ![i] = w]
    BY <1>1, <1>2, <2>3, OneHint DEF HintChange
  <2>4. CASE node' = node
    BY <2>4, NoHint
  <2> QED BY <1>5, <2>1, <2>2, <2>3, <2>4 DEF PreVoteContinues
<1>6. CASE PreVoteReturns(r) \/ PreVoteFails(r)
  <2>1. r.term + 1 \in Nat /\ r.reply.term \in Nat /\ r.reply.granted \in BOOLEAN
    BY <1>1 DEF PreVoteRpc, VoteReply, Term
  <2> QED BY <1>5, <1>6, <2>1 DEF PreVoteReturns, PreVoteFails
<1> QED
  BY <1>3, <1>4, <1>6

\* The vote: at the voter, and at the candidate, who may have won.
LEMMA VoteHints ==
    ASSUME Shape, NEW r \in voteRpcs,
           \/ DeliverRequestVoteRefused(r) \/ DeliverRequestVote(r)
           \/ RequestVoteReturns(r) \/ RequestVoteFails(r)
    PROVE  HintsMove
<1>1. /\ r \in VoteRpc /\ r.from \in Node /\ r.to \in Node /\ node \in [Node -> NodeState]
      /\ node[r.from] \in NodeState /\ node[r.to] \in NodeState
      /\ r.term \in Nat /\ r.reply.term \in Nat /\ node[r.from].currentTerm \in Nat
      /\ TRUE \in BOOLEAN /\ 0 \in Nat
  BY DEF Shape, TypeOK, VoteRpc, VoteReply, NodeState, Term
<1>2. CASE DeliverRequestVoteRefused(r) \/ RequestVoteFails(r)
  BY <1>2, NoHint DEF DeliverRequestVoteRefused, RequestVoteFails, nodeVars
<1>3. CASE DeliverRequestVote(r)
  <2>1. PICK termFails \in BOOLEAN, voteFails \in BOOLEAN :
          LET n == VoterState(node[r.to], r, termFails)
          IN  node' = [node EXCEPT ![r.to] =
                IF voteFails THEN MarkUnhealthy(n)
                ELSE IF GrantsVote(n, log[r.to], r) THEN [n EXCEPT !.votedFor = r.from] ELSE n]
    BY <1>3 DEF DeliverRequestVote
  <2> DEFINE n == VoterState(node[r.to], r, termFails)
             m == IF voteFails THEN MarkUnhealthy(n)
                  ELSE IF GrantsVote(n, log[r.to], r) THEN [n EXCEPT !.votedFor = r.from] ELSE n
  <2>2. n \in NodeState /\ HintKept(node[r.to], n)
    <3>1. HandlerBecomesFollower(node[r.to], r.term, termFails) \in NodeState
      BY <1>1, NodeOpsType
    <3>2. HandlerBecomesFollower(node[r.to], r.term, termFails).leaderId = Nil
      BY <1>1, NodeOpsHint
    <3>3. HintKept(node[r.to], node[r.to])
      BY <1>1, NodeOpsHint
    <3> QED BY <1>1, <3>1, <3>2, <3>3 DEF VoterState, HintKept
  <2> HIDE DEF n
  <2>3. HintKept(n, n) /\ HintKept(n, MarkUnhealthy(n))
    BY <1>1, <2>2, NodeOpsHint
  <2>4. HintKept(n, [n EXCEPT !.votedFor = r.from])
    BY <2>2 DEF HintKept, NodeState
  <2>5. HintKept(n, m)
    BY <2>3, <2>4
  <2>6. node' = [node EXCEPT ![r.to] = m]
    BY <2>1 DEF n
  <2> HIDE DEF m
  <2>7. HintKept(node[r.to], m)
    BY <2>2, <2>5, HintKeptTransitive
  <2> QED BY <1>1, <2>6, <2>7, OneHint DEF HintChange
<1>4. CASE RequestVoteReturns(r)
  <2> DEFINE i == r.from
             n == node[i]
             counted == [n EXCEPT !.votes = @ \cup {r.to}]
  <2>1. counted \in NodeState /\ HintKept(n, counted) /\ counted.currentTerm \in Nat
    <3>1. n.votes \cup {r.to} \in SUBSET Node
      BY <1>1 DEF NodeState
    <3>2. \A S \in SUBSET Node : LET x == [n EXCEPT !.votes = S]
                                 IN  x \in NodeState /\ HintKept(n, x) /\ x.currentTerm \in Nat
      BY <1>1 DEF NodeState, HintKept, Term
    <3> QED BY <3>1, <3>2
  <2> HIDE DEF counted
  <2>2. ASSUME NEW fails \in BOOLEAN,
               node' = [node EXCEPT ![i] = StepDown(n, r.reply.term, fails)]
        PROVE  HintsMove
    <3>1. HintKept(n, StepDown(n, r.reply.term, fails))
      BY <1>1, NodeOpsHint
    <3> QED BY <1>1, <2>2, <3>1, OneHint DEF HintChange
  <2>3. ASSUME NEW logFails \in BOOLEAN, BecomeLeader(i, counted, logFails) PROVE HintsMove
    <3>1. CASE logFails
      <4>1. node' = [node EXCEPT ![i] = BecomeFollower(counted, counted.currentTerm)]
        BY <2>3, <3>1 DEF BecomeLeader
      <4>2. BecomeFollower(counted, counted.currentTerm).leaderId = Nil
        BY <1>1, <2>1, NodeOpsHint
      <4> QED BY <1>1, <4>1, <4>2, OneHint DEF HintChange, HintKept
    <3>2. CASE ~logFails
      <4>1. PICK commit :
              node' = [node EXCEPT ![i] = [[counted EXCEPT !.role = "leader", !.leaderId = i]
                                             EXCEPT !.commitIndex = commit]]
        BY <2>3, <3>2 DEF BecomeLeader
      <4> DEFINE m == [[counted EXCEPT !.role = "leader", !.leaderId = i]
                         EXCEPT !.commitIndex = commit]
      <4>2. m.role = "leader" /\ m.leaderId = i
        BY <2>1 DEF NodeState
      <4> HIDE DEF m
      <4> QED BY <1>1, <4>1, <4>2, OneHint DEF HintChange, m
    <3> QED BY <3>1, <3>2
  <2>4. CASE node' = [node EXCEPT ![i] = IF VoteCounts(r) THEN counted ELSE n]
    <3>1. HintKept(n, IF VoteCounts(r) THEN counted ELSE n)
      BY <2>1 DEF HintKept
    <3> QED BY <1>1, <2>4, <3>1, OneHint DEF HintChange
  <2> QED BY <1>4, <2>2, <2>3, <2>4 DEF RequestVoteReturns, counted
<1> QED
  BY <1>2, <1>3, <1>4

\* Replication: a follower takes the sender of a request for the leader, which
\* has won the term of the request.
LEMMA AppendHints ==
    ASSUME Shape, Requests, NEW r \in appendRpcs,
           \/ DeliverAppendRefused(r) \/ DeliverAppendEntries(r)
           \/ AppendEntriesReturns(r) \/ AppendEntriesFails(r)
    PROVE  HintsMove
<1>1. /\ r \in AppendRpc /\ r.from \in Node /\ r.to \in Node /\ node \in [Node -> NodeState]
      /\ node[r.from] \in NodeState /\ node[r.to] \in NodeState
      /\ r.term \in Nat /\ r.reply.term \in Nat
      /\ TRUE \in BOOLEAN /\ 0 \in Nat
  BY DEF Shape, TypeOK, AppendRpc, AppendReply, NodeState, Term
<1>2. CASE DeliverAppendRefused(r)
  BY <1>2, NoHint DEF DeliverAppendRefused
<1>3. CASE DeliverAppendEntries(r)
  <2>1. PICK termFails \in BOOLEAN :
          LET n == FollowerState(node[r.to], r, termFails)
          IN  \/ node' = [node EXCEPT ![r.to] = n]
              \/ \E commit : node' = [node EXCEPT ![r.to] =
                               [n EXCEPT !.leaderId = r.leaderId, !.commitIndex = commit]]
    BY <1>3 DEF DeliverAppendEntries
  <2> DEFINE n == FollowerState(node[r.to], r, termFails)
  <2>2. ~RefusesAppend(node[r.to], r)
    BY <1>3 DEF DeliverAppendEntries
  <2>3. /\ n \in NodeState /\ HintKept(node[r.to], n)
        /\ n.role = "follower" /\ n.currentTerm = r.term
    BY <1>1, <2>2, FollowsInTerm, FollowerStateHint
  <2> HIDE DEF n
  <2>4. CASE node' = [node EXCEPT ![r.to] = n]
    BY <1>1, <2>3, <2>4, OneHint DEF HintChange
  <2>5. ASSUME NEW commit,
               node' = [node EXCEPT ![r.to] =
                          [n EXCEPT !.leaderId = r.leaderId, !.commitIndex = commit]]
        PROVE  HintsMove
    <3> DEFINE m == [n EXCEPT !.leaderId = r.leaderId, !.commitIndex = commit]
    <3>1. m.role = "follower" /\ m.currentTerm = r.term /\ m.leaderId = r.leaderId
      BY <2>3 DEF NodeState
    <3>2. r.leaderId = Nil \/ Won(r.term, r.leaderId)
      BY DEF Requests, GoodRequest
    <3> HIDE DEF m
    <3>3. HintChange(r.to, node[r.to], m)
      BY <3>1, <3>2 DEF HintChange, HintKept
    <3> QED BY <1>1, <2>5, <3>3, OneHint DEF m
  <2> QED BY <2>1, <2>4, <2>5 DEF n
<1>4. ASSUME NEW reply \in AppendReply, NEW cause, AppendContinues(r, reply, cause)
      PROVE  HintsMove
  <2> DEFINE i == r.from
             n == node[i]
  <2>1. reply.term \in Nat
    BY DEF AppendReply, Term
  <2>2. ASSUME NEW fails \in BOOLEAN,
               node' = [node EXCEPT ![i] = StepDown(n, reply.term, fails)]
        PROVE  HintsMove
    <3>1. HintKept(n, StepDown(n, reply.term, fails))
      BY <1>1, <2>1, NodeOpsHint
    <3> QED BY <1>1, <2>2, <3>1, OneHint DEF HintChange
  <2>3. ASSUME NEW commit, node' = [node EXCEPT ![i] = [n EXCEPT !.commitIndex = commit]]
        PROVE  HintsMove
    <3>1. HintKept(n, [n EXCEPT !.commitIndex = commit])
      BY <1>1 DEF HintKept, NodeState
    <3> QED BY <1>1, <2>3, <3>1, OneHint DEF HintChange
  <2>4. CASE node' = node
    BY <2>4, NoHint
  <2> QED BY <1>4, <2>2, <2>3, <2>4 DEF AppendContinues
<1>5. CASE AppendEntriesReturns(r) \/ AppendEntriesFails(r)
  <2>1. [NoAppend EXCEPT !.term = r.term] \in AppendReply /\ r.reply \in AppendReply
    BY <1>1 DEF NoAppend, AppendReply, AppendRpc, Term, Index
  <2> QED BY <1>4, <1>5, <2>1 DEF AppendEntriesReturns, AppendEntriesFails
<1> QED
  BY <1>2, <1>3, <1>5

----------------------------------------------------------------------------
(* The theorems.                                                           *)

\* Logs that hold the same entries up to k have the same prefix of length k.
LEMMA SamePrefix ==
    ASSUME NEW a \in Seq(Entry), NEW b \in Seq(Entry), NEW k \in Nat,
           k <= Len(a), k <= Len(b), \A m \in 1..k : a[m] = b[m]
    PROVE  SubSeq(a, 1, k) = SubSeq(b, 1, k)
<1>1. ASSUME NEW s \in Seq(Entry), k <= Len(s)
      PROVE  /\ SubSeq(s, 1, k) \in Seq(Entry) /\ Len(SubSeq(s, 1, k)) = k
             /\ \A m \in 1..k : SubSeq(s, 1, k)[m] = s[m]
  <2>1. Len(s) \in Nat
    BY LenProperties
  <2>2. \A m \in 1..k : s[m] \in Entry
    BY <1>1, <2>1, ElementOfSeq
  <2>3. /\ SubSeq(s, 1, k) \in Seq(Entry)
        /\ Len(SubSeq(s, 1, k)) = IF 1 <= k THEN k - 1 + 1 ELSE 0
        /\ \A m \in 1..(k - 1 + 1) : SubSeq(s, 1, k)[m] = s[1 + m - 1]
    BY <2>2, SubSeqProperties
  <2> QED BY <2>3
<1>2. /\ SubSeq(a, 1, k) \in Seq(Entry) /\ Len(SubSeq(a, 1, k)) = k
      /\ \A m \in 1..k : SubSeq(a, 1, k)[m] = a[m]
  BY <1>1
<1>3. /\ SubSeq(b, 1, k) \in Seq(Entry) /\ Len(SubSeq(b, 1, k)) = k
      /\ \A m \in 1..k : SubSeq(b, 1, k)[m] = b[m]
  BY <1>1
<1> HIDE <1>1
<1>4. \A m \in 1..k : SubSeq(a, 1, k)[m] = SubSeq(b, 1, k)[m]
  BY <1>2, <1>3
<1> QED
  BY <1>2, <1>3, <1>4, SeqEqual

\* A log that another one extends is its prefix.
LEMMA PrefixOfLonger ==
    ASSUME NEW a \in Seq(Entry), NEW b \in Seq(Entry),
           Len(a) <= Len(b), \A m \in 1..Len(a) : b[m] = a[m]
    PROVE  SubSeq(b, 1, Len(a)) = a
<1>1. Len(a) \in Nat /\ Len(b) \in Nat /\ Len(a) <= Len(a)
  BY LenProperties
<1>2. SubSeq(b, 1, Len(a)) = SubSeq(a, 1, Len(a))
  BY <1>1, SamePrefix
<1>3. SubSeq(a, 1, Len(a)) = a
  <2>1. \A m \in 1..Len(a) : a[m] \in Entry
    BY ElementOfSeq
  <2>2. /\ SubSeq(a, 1, Len(a)) \in Seq(Entry)
        /\ Len(SubSeq(a, 1, Len(a))) = IF 1 <= Len(a) THEN Len(a) - 1 + 1 ELSE 0
        /\ \A m \in 1..(Len(a) - 1 + 1) : SubSeq(a, 1, Len(a))[m] = a[1 + m - 1]
    BY <1>1, <2>1, SubSeqProperties
  <2> QED BY <1>1, <2>2, SeqEqual
<1> QED
  BY <1>2, <1>3

\* The empty logs of a cluster that starts agree.
LEMMA InitLogs == Init => Logs
<1> SUFFICES ASSUME Init PROVE Logs
  OBVIOUS
<1>1. /\ \A i \in Node : log[i] = <<>> /\ node[i].role = "follower" /\ node[i].leaderId = Nil
      /\ appendRpcs = {}
  BY DEF Init
<1>2. Covers(LogView(<<>>)) = {}
  BY DEF Covers, LogView
<1>3. \A v \in Views : v = LogView(<<>>)
  BY <1>1 DEF Views
<1>4. ViewsAgree
  BY <1>3, AgreeReflexive DEF ViewsAgree, AllAgree
<1>5. Origins
  BY <1>2, <1>3 DEF Origins
<1>6. Requests /\ LeadersKnow /\ LeaderHint
  BY <1>1 DEF Requests, LeadersKnow, LeaderHint
<1> QED
  BY <1>4, <1>5, <1>6 DEF Logs

\* Every step keeps the logs and the requests in agreement, the entries with
\* the winners of their terms, and the hints right.
LEMMA NextLogs ==
    Shape /\ Shape' /\ Votes /\ Logs /\ [Next]_vars => Logs' /\ LogStep
<1> SUFFICES ASSUME Shape, Shape', Votes, Logs, [Next]_vars PROVE Logs' /\ LogStep
  OBVIOUS
<1>1. ViewsAgree /\ Origins /\ Requests /\ LeadersKnow /\ LeaderHint
  BY DEF Logs
<1>2. LogStep
  BY <1>1, NextLogStep
<1>3. ViewsAgree' /\ Origins' /\ Requests'
  BY <1>1, <1>2, LogStepKeeps
<1>4. HintsMove
  <2>1. ASSUME NEW i \in Node,
               \/ ElectionTimeout(i) \/ Disable(i) \/ Enable(i) \/ Restart(i)
               \/ \E heartbeat, expired \in BOOLEAN : LeaderTick(i, heartbeat, expired)
        PROVE  HintsMove
    BY <2>1, OwnStepHints
  <2>2. ASSUME NEW i, NEW v, Propose(i, v) PROVE HintsMove
    BY <2>2, NoHint DEF Propose
  <2>3. ASSUME NEW r \in preVoteRpcs,
               DeliverPreVote(r) \/ PreVoteReturns(r) \/ PreVoteFails(r) \/ CrashMidElection(r)
        PROVE  HintsMove
    BY <2>3, PreVoteHints
  <2>4. ASSUME NEW r \in voteRpcs,
               \/ DeliverRequestVoteRefused(r) \/ DeliverRequestVote(r)
               \/ RequestVoteReturns(r) \/ RequestVoteFails(r)
        PROVE  HintsMove
    BY <2>4, VoteHints
  <2>5. ASSUME NEW r \in appendRpcs,
               \/ DeliverAppendRefused(r) \/ DeliverAppendEntries(r)
               \/ AppendEntriesReturns(r) \/ AppendEntriesFails(r)
        PROVE  HintsMove
    BY <1>1, <2>5, AppendHints
  <2>6. ASSUME UNCHANGED vars PROVE HintsMove
    BY <2>6, NoHint DEF vars, nodeVars
  <2> QED BY <2>1, <2>2, <2>3, <2>4, <2>5, <2>6 DEF Next
<1>5. LeadersKnow' /\ LeaderHint'
  BY <1>1, <1>2, <1>4, HintsStayRight DEF LogStep
<1> QED
  BY <1>2, <1>3, <1>5 DEF Logs

\* Views agree, entries have their origin, requests are good: at all times.
THEOREM LogsInvariant == Spec => []Logs
  BY InitLogs, NextLogs, ShapeInvariant, VotesInvariant, PTL DEF Spec

\* Log Matching, for clusters of any size, logs and batches of any length,
\* with writes that fail half-way, requests that arrive late, twice or after
\* their sender has won another term, crashes and restarts: two logs that hold
\* an entry of the same term at the same index are equal up to it.
THEOREM LogsMatch == Spec => []LogMatching
<1>1. Shape /\ Logs => LogMatching
  <2> SUFFICES ASSUME Shape, Logs, NEW i \in Node, NEW j \in Node, NEW k \in 1..Len(log[i]),
                      k <= Len(log[j]), log[i][k].term = log[j][k].term
               PROVE  SubSeq(log[i], 1, k) = SubSeq(log[j], 1, k)
    BY DEF LogMatching
  <2>1. /\ log[i] \in Seq(Entry) /\ log[j] \in Seq(Entry)
        /\ Agree(LogView(log[i]), LogView(log[j]))
    BY AreViews DEF Logs, ViewsAgree, AllAgree
  <2>2. /\ Covers(LogView(log[i])) = 1..Len(log[i]) /\ \A m \in Int : At(LogView(log[i]), m) = log[i][m]
        /\ Covers(LogView(log[j])) = 1..Len(log[j]) /\ \A m \in Int : At(LogView(log[j]), m) = log[j][m]
    BY <2>1, LogViewFacts
  <2>3. Len(log[i]) \in Nat /\ Len(log[j]) \in Nat /\ k \in Nat /\ k >= 1 /\ k <= Len(log[i])
    BY <2>1, LenProperties
  <2>4. k \in 1..Len(log[i]) \cap 1..Len(log[j]) /\ k \in Int
    BY <2>3
  <2> DEFINE v == LogView(log[i])
             w == LogView(log[j])
  <2>5. \A m \in Covers(v) \cap Covers(w) : m <= k => At(v, m) = At(w, m)
    <3>1. k \in Covers(v) \cap Covers(w) /\ At(v, k).term = At(w, k).term
      BY <2>2, <2>4
    <3> HIDE DEF v, w
    <3> QED BY <2>1, <3>1 DEF Agree, v, w
  <2>6. ASSUME NEW m \in 1..k PROVE log[i][m] = log[j][m] /\ log[i][m] \in Entry /\ log[j][m] \in Entry
    <3>1. m \in 1..Len(log[i]) /\ m \in 1..Len(log[j]) /\ m <= k
      BY <2>3
    <3>2. m \in Covers(v) \cap Covers(w) /\ m \in Int
      BY <2>2, <3>1
    <3>3. At(v, m) = At(w, m)
      BY <2>5, <3>1, <3>2
    <3> QED BY <2>1, <2>2, <3>1, <3>2, <3>3, ElementOfSeq
  <2> QED BY <2>1, <2>3, <2>6, SamePrefix
<1> QED
  BY <1>1, ShapeInvariant, LogsInvariant, PTL

\* The leader that a healthy follower forwards proposals to was elected in the
\* follower's own term.
THEOREM HintIsElected == Spec => []LeaderHint
<1>1. Logs => LeaderHint
  BY DEF Logs
<1> QED
  BY <1>1, LogsInvariant, PTL

\* A node that stays in a term it has won never loses or replaces an entry of
\* its log, not even after it has stepped down within the term.
THEOREM WinnersOnlyAppend == Spec => WinnerAppendsOnly
<1>1. Shape /\ Shape' /\ Votes /\ Logs /\ [Next]_vars =>
        [\A i \in Node :
           (/\ Voters(node[i].currentTerm, i) \in Quorum
            /\ node'[i].currentTerm = node[i].currentTerm)
             => /\ Len(log[i]) <= Len(log'[i])
                /\ SubSeq(log'[i], 1, Len(log[i])) = log[i]]_vars
  <2> SUFFICES ASSUME Shape, Shape', Votes, Logs, [Next]_vars, NEW i \in Node,
                      Voters(node[i].currentTerm, i) \in Quorum,
                      node'[i].currentTerm = node[i].currentTerm
               PROVE  /\ Len(log[i]) <= Len(log'[i])
                      /\ SubSeq(log'[i], 1, Len(log[i])) = log[i]
    OBVIOUS
  <2>1. LogStep /\ Requests
    BY NextLogs DEF Logs
  <2>2. Won(node[i].currentTerm, i)
    BY DEF Won
  <2>3. /\ Len(log[i]) <= Len(log'[i])
        /\ \A k \in 1..Len(log[i]) : log'[i][k] = log[i][k]
    BY <2>1, <2>2, WinnerKeepsLog
  <2>4. log[i] \in Seq(Entry) /\ log'[i] \in Seq(Entry)
    BY DEF Shape, TypeOK
  <2> QED BY <2>3, <2>4, PrefixOfLonger
<1> QED
  BY <1>1, ShapeInvariant, VotesInvariant, LogsInvariant, PTL DEF Spec, WinnerAppendsOnly

----------------------------------------------------------------------------
(* What a step may do to tallies, commit indexes and votes.                *)

\* The last index a view speaks of.
EndOf(v) == v.prevIndex + Len(v.entries)

\* The tally of leader object o of node i, which counts for term t, is still
\* in use: a goroutine of o will come back, or o is the object of a leader.
LiveObj(i, o, t) ==
    \/ \E r \in appendRpcs : r.from = i /\ r.obj = o /\ r.term = t /\ r.phase # "orphan"
    \/ node[i].role = "leader" /\ o = Len(lead[i]) /\ t = node[i].currentTerm

\* An answer on its way back that will be counted.
IsAck(r) == r.phase = "done" /\ r.reply.success /\ r.reply.term = r.term

\* Object o of i counts p as holding k entries, or is about to.
Acked(i, o, p, k) ==
    \/ lead[i][o].matchIndex[p] >= k
    \/ \E r \in appendRpcs : r.from = i /\ r.obj = o /\ r.to = p /\ IsAck(r) /\ EndOf(r) >= k

\* q is what AppendRequest cuts from the log lg.  If it is not full, it reaches
\* the end of lg, or starts beyond it.
CutFrom(q, lg) ==
    /\ q.prevTerm = TermAt(lg, q.prevIndex)
    /\ q.entries = <<>> \/ EndOf(q) <= Len(lg)
    /\ \A j \in 1..Len(q.entries) : q.entries[j] = lg[q.prevIndex + j]
    /\ Len(q.entries) < MaxBatchEntries => q.prevIndex > Len(lg) \/ EndOf(q) = Len(lg)

\* The step is the handler of r, which takes all of r's entries over.
Accepted(r) ==
    /\ r \in appendRpcs /\ r.phase # "done"
    /\ node'[r.to].currentTerm = r.term
    /\ r.prevIndex <= Len(log[r.to])
    /\ r.prevIndex = 0 \/ log[r.to][r.prevIndex].term = r.prevTerm
    /\ log' = [log EXCEPT ![r.to] = AppendEntries(log[r.to], r.prevIndex, r.entries)]

\* i, who has won its term, adds an entry of that term.
Writes(i) ==
    /\ Won(node[i].currentTerm, i)
    /\ node'[i].currentTerm = node[i].currentTerm /\ node'[i].role = "leader"
    /\ \E e \in Entry : /\ e.term = node[i].currentTerm
                        /\ log' = [log EXCEPT ![i] = Append(log[i], e)]

\* The step is becomeLeader of i for term t, with leader object o.
NewObject(i, o, t) ==
    /\ o = Len(lead[i]) + 1
    /\ t = node[i].currentTerm
    /\ Writes(i)

\* q is p for its receiver and for its sender.
SameCall(q, p) ==
    /\ Carries(q, p) /\ q.obj = p.obj /\ q.commit = p.commit
    /\ q.phase # "orphan" => p.phase # "orphan"

\* A request that the step sends.
Fresh(q) ==
    /\ q.from \in Node /\ q.phase = "sent"
    /\ node'[q.from].currentTerm = node[q.from].currentTerm
    /\ CutFrom(q, log'[q.from])
    /\ q.commit <= node'[q.from].commitIndex
    /\ \/ node[q.from].role = "leader" /\ LiveObj(q.from, q.obj, q.term)
       \/ NewObject(q.from, q.obj, q.term)

\* Requests are old ones, whose answers are counted as before or because the
\* follower has just taken them over, or fresh ones.
CallsMove ==
    \A q \in appendRpcs' :
      \/ \E p \in appendRpcs : SameCall(q, p) /\ (IsAck(q) => IsAck(p) \/ Accepted(p))
      \/ Fresh(q)

\* A log changes because its owner, in office, adds an entry, or because a
\* request is taken over.
WritesMove ==
    \/ log' = log
    \/ \E i \in Node :
         /\ Writes(i)
         /\ node[i].role = "leader" \/ NewObject(i, Len(lead[i]) + 1, node[i].currentTerm)
    \/ \E r \in appendRpcs : Accepted(r)

\* A leader was one before, in the same term, or is becoming one.
OfficesMove ==
    \A i \in Node : node'[i].role = "leader" =>
      \/ node[i].role = "leader" /\ node'[i].currentTerm = node[i].currentTerm
      \/ NewObject(i, Len(lead[i]) + 1, node[i].currentTerm)

\* p is counted because the leader i has written its own log, or because p
\* has just taken over a request.
JustAcked(i, o, t, p, k) ==
    \/ /\ p = i /\ node[i].role = "leader" /\ node'[i].role = "leader"
       /\ t = node[i].currentTerm /\ node'[i].currentTerm = t
       /\ k <= Len(log'[i])
    \/ \E r \in appendRpcs : /\ Accepted(r) /\ r.phase # "orphan"
                             /\ r.from = i /\ r.obj = o /\ r.to = p /\ EndOf(r) >= k

\* A tally counts whom it counted, or who is to be counted just now; that of a
\* new office counts its owner only.
TalliesMove ==
    \A i \in Node : \A o, t \in Nat : LiveObj(i, o, t)' =>
      \/ /\ LiveObj(i, o, t)
         /\ \A p \in Node : \A k \in Nat \ {0} :
              Acked(i, o, p, k)' => Acked(i, o, p, k) \/ JustAcked(i, o, t, p, k)
      \/ /\ NewObject(i, o, t)
         /\ \A p \in Node : \A k \in Nat \ {0} :
              Acked(i, o, p, k)' => p = i /\ k <= Len(log'[i])

\* The leader i raises its commit index, from the tally of one of its objects.
Advances(i) ==
    /\ node[i].role = "leader" /\ log' = log
    /\ LET k == node'[i].commitIndex
       IN  /\ k > node[i].commitIndex
           /\ k <= Len(log[i]) /\ log[i][k].term = node[i].currentTerm
           /\ \E o, t \in Nat : /\ LiveObj(i, o, t)
                                /\ {p \in Node : Acked(i, o, p, k)} \in Quorum
           /\ committed' = committed
                             \cup Declared(log[i], node[i].commitIndex, k, node[i].currentTerm)

\* Entries are declared committed by a leader that advances; a commit index
\* rises because its leader advances, or with a request that is taken over.
CommitsMove ==
    /\ committed' = committed \/ \E i \in Node : Advances(i)
    /\ \A i \in Node : node'[i].commitIndex > node[i].commitIndex =>
         \/ Advances(i)
         \/ \E r \in appendRpcs : /\ Accepted(r) /\ r.to = i
                                  /\ node'[i].commitIndex <= r.commit
                                  /\ node'[i].commitIndex <= Len(log'[i])

\* All of it.
CommitStep == CallsMove /\ WritesMove /\ OfficesMove /\ TalliesMove /\ CommitsMove

\* What AppendRequest makes.
LEMMA AppendRequestCut ==
    ASSUME NEW i, NEW o, NEW p \in Node, NEW l \in LeaderState,
           NEW lg \in Seq(Entry), NEW n, NEW term
    PROVE  LET q == AppendRequest(i, o, p, l, lg, n, term)
           IN  /\ q.from = i /\ q.to = p /\ q.obj = o /\ q.term = term
               /\ q.phase = "sent" /\ q.commit = n.commitIndex
               /\ CutFrom(q, lg)
<1> DEFINE q == AppendRequest(i, o, p, l, lg, n, term)
           next == IF l.nextIndex[p] = 0 THEN LastIndex(lg) + 1 ELSE l.nextIndex[p]
           last == IF LastIndex(lg) - next + 1 > MaxBatchEntries
                     THEN next + MaxBatchEntries - 1 ELSE LastIndex(lg)
<1>1. next \in Nat /\ next >= 1
  <2>1. l.nextIndex[p] \in Nat \ {0}
    BY DEF LeaderState, Index
  <2> QED BY <2>1
<1>2. Len(lg) \in Nat /\ LastIndex(lg) = Len(lg) /\ MaxBatchEntries \in Nat \ {0}
  BY LenProperties, BatchAssumption DEF LastIndex
<1>3. /\ last \in Int /\ last <= Len(lg)
      /\ last = Len(lg) \/ last - next + 1 = MaxBatchEntries
  <2> HIDE DEF next
  <2> QED BY <1>1, <1>2
<1>4. /\ q.from = i /\ q.to = p /\ q.obj = o /\ q.term = term
      /\ q.phase = "sent" /\ q.commit = n.commitIndex
      /\ q.prevIndex = next - 1 /\ q.prevTerm = TermAt(lg, next - 1)
      /\ q.entries = SubSeq(lg, next, last)
  BY DEF AppendRequest
<1> HIDE DEF q, next, last
<1>5. /\ Len(SubSeq(lg, next, last)) = IF next <= last THEN last - next + 1 ELSE 0
      /\ \A k \in 1..(last - next + 1) : SubSeq(lg, next, last)[k] = lg[next + k - 1]
  <2>1. \A k \in next..last : lg[k] \in Entry
    BY <1>1, <1>2, <1>3, ElementOfSeq
  <2> QED BY <1>1, <1>3, <2>1, SubSeqProperties
<1>6. CASE ~(next <= last)
  <2>1. q.entries = <<>> /\ Len(q.entries) = 0
    BY <1>1, <1>3, <1>4, <1>5, <1>6, SubSeqEmpty
  <2>2. q.prevIndex > Len(lg) \/ EndOf(q) = Len(lg)
    BY <1>1, <1>2, <1>3, <1>4, <1>6, <2>1 DEF EndOf
  <2>3. CutFrom(q, lg)
    BY <1>4, <2>1, <2>2 DEF CutFrom
  <2> QED BY <1>4, <2>3 DEF q
<1>7. CASE next <= last
  <2>1. Len(q.entries) = last - next + 1 /\ EndOf(q) = last
    BY <1>1, <1>3, <1>4, <1>5, <1>7 DEF EndOf
  <2>2. ASSUME NEW j \in 1..Len(q.entries) PROVE q.entries[j] = lg[q.prevIndex + j]
    <3>1. j \in 1..(last - next + 1) /\ next + j - 1 = (next - 1) + j
      BY <1>1, <1>3, <2>1
    <3> QED BY <1>4, <1>5, <3>1
  <2>3. Len(q.entries) < MaxBatchEntries => EndOf(q) = Len(lg)
    BY <1>1, <1>2, <1>3, <2>1
  <2>4. CutFrom(q, lg)
    BY <1>3, <1>4, <2>1, <2>2, <2>3 DEF CutFrom
  <2> QED BY <1>4, <2>4 DEF q
<1> QED
  BY <1>6, <1>7

\* And those of a heartbeat.
LEMMA AppendRequestsToAllCut ==
    ASSUME NEW i \in Node, NEW o, NEW l \in LeaderState, NEW lg \in Seq(Entry), NEW n,
           NEW q \in AppendRequestsToAll(i, o, l, lg, n)
    PROVE  /\ q.from = i /\ q.obj = o /\ q.term = n.currentTerm
           /\ q.phase = "sent" /\ q.commit = n.commitIndex /\ CutFrom(q, lg)
<1>1. PICK p \in Idle(i, l) : q = AppendRequest(i, o, p, l, lg, n, n.currentTerm)
  BY DEF AppendRequestsToAll
<1>2. p \in Node
  BY DEF Idle
<1>3. PICK term : term = n.currentTerm
  OBVIOUS
<1>4. q = AppendRequest(i, o, p, l, lg, n, term)
  BY <1>1, <1>3
<1> QED
  BY <1>2, <1>3, <1>4, AppendRequestCut

\* A step that makes no leader object.
NoNewObject ==
    \A i \in Node : node'[i].role = "leader" =>
      /\ node[i].role = "leader" /\ node'[i].currentTerm = node[i].currentTerm
      /\ Len(lead'[i]) = Len(lead[i])

\* It adds requests of objects in use only.
OldCalls ==
    \A q \in appendRpcs' :
      \/ \E p \in appendRpcs : SameCall(q, p) /\ (IsAck(q) => IsAck(p) \/ Accepted(p))
      \/ Fresh(q) /\ LiveObj(q.from, q.obj, q.term)

\* What it counts, it was about to count.
OldMatches ==
    \A i \in Node : \A o, t \in Nat : LiveObj(i, o, t)' =>
      \A p \in Node : \A k \in Nat \ {0} :
        lead'[i][o].matchIndex[p] >= k => Acked(i, o, p, k) \/ JustAcked(i, o, t, p, k)

\* Such a step is as CommitStep asks, as far as calls, offices and tallies go.
LEMMA OldTallies ==
    ASSUME Shape, NoNewObject, OldCalls, OldMatches
    PROVE  CallsMove /\ OfficesMove /\ TalliesMove
<1>1. CallsMove
  BY DEF OldCalls, CallsMove
<1>2. OfficesMove
  BY DEF NoNewObject, OfficesMove
<1>3. ASSUME NEW i \in Node, NEW o \in Nat, NEW t \in Nat, LiveObj(i, o, t)'
      PROVE  LiveObj(i, o, t)
  <2>1. CASE node'[i].role = "leader" /\ o = Len(lead'[i]) /\ t = node'[i].currentTerm
    BY <2>1 DEF NoNewObject, LiveObj
  <2>2. ASSUME NEW q \in appendRpcs', q.from = i, q.obj = o, q.term = t, q.phase # "orphan"
        PROVE  LiveObj(i, o, t)
    <3>1. CASE LiveObj(q.from, q.obj, q.term)
      BY <2>2, <3>1
    <3>2. ASSUME NEW p \in appendRpcs, SameCall(q, p) PROVE LiveObj(i, o, t)
      BY <2>2, <3>2 DEF SameCall, Carries, LiveObj
    <3> QED BY <3>1, <3>2 DEF OldCalls
  <2> QED BY <1>3, <2>1, <2>2 DEF LiveObj
<1>4. ASSUME NEW i \in Node, NEW o \in Nat, NEW t \in Nat, LiveObj(i, o, t)',
             NEW p \in Node, NEW k \in Nat \ {0}, Acked(i, o, p, k)'
      PROVE  Acked(i, o, p, k) \/ JustAcked(i, o, t, p, k)
  <2>1. CASE lead'[i][o].matchIndex[p] >= k
    BY <1>4, <2>1 DEF OldMatches
  <2>2. ASSUME NEW q \in appendRpcs', q.from = i, q.obj = o, q.to = p, IsAck(q), EndOf(q) >= k
        PROVE  Acked(i, o, p, k) \/ JustAcked(i, o, t, p, k)
    <3>1. q.phase = "done"
      BY <2>2 DEF IsAck
    <3>2. PICK c \in appendRpcs : SameCall(q, c) /\ (IsAck(c) \/ Accepted(c))
      BY <2>2, <3>1 DEF OldCalls, Fresh
    <3>3. /\ c.from = i /\ c.obj = o /\ c.to = p /\ EndOf(c) >= k /\ c.phase # "orphan"
      BY <2>2, <3>1, <3>2 DEF SameCall, Carries, EndOf
    <3> QED BY <3>2, <3>3 DEF Acked, JustAcked
  <2> QED BY <1>4, <2>1, <2>2 DEF Acked
<1>5. TalliesMove
  BY <1>3, <1>4 DEF TalliesMove
<1> QED
  BY <1>1, <1>2, <1>5

\* Leader objects whose match indexes are what they were.
LEMMA SameMatches ==
    ASSUME \A i \in Node : \A o, t \in Nat : LiveObj(i, o, t)' =>
             \A p \in Node : lead'[i][o].matchIndex[p] = lead[i][o].matchIndex[p]
    PROVE  OldMatches
  BY DEF OldMatches, Acked

\* Objects in use are objects of the node.
LEMMA LiveIsObject ==
    ASSUME Shape, NEW i \in Node, NEW o, NEW t, LiveObj(i, o, t)
    PROVE  o \in 1..Len(lead[i]) /\ lead[i][o] \in LeaderState
<1>1. lead[i] \in Seq(LeaderState)
  BY DEF Shape, TypeOK
<1>2. o \in 1..Len(lead[i])
  <2>1. CASE node[i].role = "leader" /\ o = Len(lead[i])
    <3>1. o \in Nat \ {0}
      BY <2>1 DEF Shape, LeaderHasObject
    <3> QED BY <2>1, <3>1
  <2>2. CASE \E r \in appendRpcs : r.from = i /\ r.obj = o /\ r.phase # "orphan"
    BY <2>2 DEF Shape, LiveObjects
  <2> QED BY <2>1, <2>2 DEF LiveObj
<1> QED
  BY <1>1, <1>2, ElementOfSeq

\* One object changes, the others stay.
LEMMA LeadUpdated ==
    ASSUME lead \in [Node -> Seq(LeaderState)], NEW i \in Node,
           NEW o \in 1..Len(lead[i]), NEW l \in LeaderState,
           lead' = [lead EXCEPT ![i][o] = l]
    PROVE  /\ lead' \in [Node -> Seq(LeaderState)]
           /\ \A j \in Node : Len(lead'[j]) = Len(lead[j])
           /\ \A j \in Node : \A x \in 1..Len(lead[j]) :
                lead'[j][x] = IF j = i /\ x = o THEN l ELSE lead[j][x]
<1>1. lead[i] \in Seq(LeaderState)
  OBVIOUS
<1>2. lead' = [lead EXCEPT ![i] = [lead[i] EXCEPT ![o] = l]]
  OBVIOUS
<1>3. \A x \in 1..Len(lead[i]) : [lead[i] EXCEPT ![o] = l][x] = IF x = o THEN l ELSE lead[i][x]
  <2>1. DOMAIN lead[i] = 1..Len(lead[i])
    BY <1>1, LenProperties
  <2> QED BY <2>1
<1>4. \A j \in Node : \A x \in 1..Len(lead[j]) :
        lead'[j][x] = IF j = i /\ x = o THEN l ELSE lead[j][x]
  BY <1>2, <1>3
<1> QED
  BY <1>4, LeadUpdate

\* Steps that leave logs, leader objects, append calls and the history of
\* commits alone.
StillStep ==
    /\ log' = log /\ lead' = lead /\ appendRpcs' = appendRpcs /\ committed' = committed
    /\ \A i \in Node : /\ node'[i].role = "leader" => /\ node[i].role = "leader"
                                                      /\ node'[i].currentTerm = node[i].currentTerm
                       /\ node'[i].commitIndex = node[i].commitIndex

\* A step that leaves those alone is one.
LEMMA StillCommitStep ==
    ASSUME Shape, StillStep
    PROVE  CommitStep
<1>1. NoNewObject
  BY DEF StillStep, NoNewObject
<1>2. OldCalls
  BY DEF StillStep, OldCalls, SameCall, Carries
<1>3. OldMatches
  BY SameMatches DEF StillStep
<1>4. WritesMove
  BY DEF StillStep, WritesMove
<1>5. CommitsMove
  <2>1. \A i \in Node : node[i].commitIndex \in Nat
    BY DEF Shape, TypeOK, NodeState, Index
  <2> QED BY <2>1 DEF StillStep, CommitsMove
<1> QED
  BY <1>1, <1>2, <1>3, <1>4, <1>5, OldTallies DEF CommitStep

\* No change of a role or a store touches the commit index, except a restart.
LEMMA NodeOpsCommit ==
    ASSUME NEW n \in NodeState, NEW term \in Nat, NEW fails \in BOOLEAN
    PROVE  /\ MarkUnhealthy(n).commitIndex = n.commitIndex
           /\ BecomeFollower(n, term).commitIndex = n.commitIndex
           /\ StepDown(n, term, fails).commitIndex = n.commitIndex
           /\ HandlerBecomesFollower(n, term, fails).commitIndex = n.commitIndex
           /\ IncrementCurrentTerm(n).commitIndex = n.commitIndex
           /\ Rebooted(n).commitIndex = 0
<1>1. \A m \in NodeState : MarkUnhealthy(m).commitIndex = m.commitIndex
  BY DEF MarkUnhealthy, NodeState
<1>2. BecomeFollower(n, term).commitIndex = n.commitIndex
  <2>1. CASE term > n.currentTerm
    BY <2>1 DEF BecomeFollower, AdoptTerm, NodeState
  <2>2. CASE ~(term > n.currentTerm)
    BY <2>2 DEF BecomeFollower, NodeState
  <2> QED BY <2>1, <2>2
<1>3. BecomeFollower(n, term) \in NodeState
  BY NodeOpsType
<1>4. BecomeFollowerUnsaved(n).commitIndex = n.commitIndex
  BY DEF BecomeFollowerUnsaved, MarkUnhealthy, NodeState
<1>5. StepDown(n, term, fails).commitIndex = n.commitIndex
  BY <1>2, <1>4 DEF StepDown
<1>6. HandlerBecomesFollower(n, term, fails).commitIndex = n.commitIndex
  BY <1>1, <1>2, <1>3 DEF HandlerBecomesFollower
<1>7. IncrementCurrentTerm(n).commitIndex = n.commitIndex
  BY DEF IncrementCurrentTerm, NodeState
<1>8. Rebooted(n).commitIndex = 0
  BY DEF Rebooted, NodeState
<1> QED
  BY <1>1, <1>2, <1>5, <1>6, <1>7, <1>8

\* One node changes, keeping its commit index; nobody becomes leader.
LEMMA OneStill ==
    ASSUME Shape, AllCalm, NEW i \in Node, NEW m, m.commitIndex = node[i].commitIndex,
           node' = [node EXCEPT ![i] = m],
           log' = log, lead' = lead, appendRpcs' = appendRpcs, committed' = committed
    PROVE  StillStep
<1>1. node \in [Node -> NodeState]
  BY DEF Shape, TypeOK
<1>2. \A j \in Node : node'[j].commitIndex = node[j].commitIndex
  BY <1>1
<1> QED
  BY <1>2 DEF StillStep, AllCalm, Calm

\* Timers and operators.
LEMMA OwnStepStill ==
    ASSUME Shape, NEW i \in Node, ElectionTimeout(i) \/ Disable(i) \/ Enable(i)
    PROVE  StillStep
<1>1. node \in [Node -> NodeState] /\ node[i] \in NodeState /\ node[i].currentTerm \in Nat
      /\ TRUE \in BOOLEAN
  BY DEF Shape, TypeOK, NodeState, Term
<1>2. AllCalm
  BY ElectionTimeoutCalm, DisableShape, EnableShape
<1>3. log' = log /\ lead' = lead /\ appendRpcs' = appendRpcs /\ committed' = committed
  BY DEF ElectionTimeout, Disable, Enable, rpcVars, histVars
<1>4. CASE ElectionTimeout(i)
  <2>1. PICK tally : node' = [node EXCEPT ![i] = [node[i] EXCEPT !.role = "candidate", !.preVotes = tally]]
    BY <1>4 DEF ElectionTimeout
  <2>2. [node[i] EXCEPT !.role = "candidate", !.preVotes = tally].commitIndex = node[i].commitIndex
    BY <1>1 DEF NodeState
  <2> QED BY <1>2, <1>3, <2>1, <2>2, OneStill
<1>5. CASE Disable(i)
  <2>1. PICK st : node' = [node EXCEPT ![i] = [node[i] EXCEPT !.enabled = FALSE, !.leaderId = Nil, !.stopped = st]]
    BY <1>5 DEF Disable
  <2>2. [node[i] EXCEPT !.enabled = FALSE, !.leaderId = Nil, !.stopped = st].commitIndex
          = node[i].commitIndex
    BY <1>1 DEF NodeState
  <2> QED BY <1>2, <1>3, <2>1, <2>2, OneStill
<1>6. CASE Enable(i)
  <2> DEFINE f == BecomeFollower(node[i], node[i].currentTerm)
  <2>1. node' = [node EXCEPT ![i] = [f EXCEPT !.enabled = TRUE]]
    BY <1>6 DEF Enable
  <2>2. f \in NodeState /\ f.commitIndex = node[i].commitIndex
    BY <1>1, NodeOpsType, NodeOpsCommit
  <2> HIDE DEF f
  <2>3. [f EXCEPT !.enabled = TRUE].commitIndex = node[i].commitIndex
    BY <2>2 DEF NodeState
  <2> QED BY <1>2, <1>3, <2>1, <2>3, OneStill
<1> QED
  BY <1>4, <1>5, <1>6

\* The pre-vote.
LEMMA PreVoteStill ==
    ASSUME Shape, NEW r \in preVoteRpcs, DeliverPreVote(r) \/ PreVoteReturns(r) \/ PreVoteFails(r)
    PROVE  StillStep
<1> DEFINE i == r.from
           n == node[i]
           w == WithPreVote(n, r)
<1>1. r \in PreVoteRpc /\ i \in Node /\ n \in NodeState /\ node \in [Node -> NodeState]
      /\ TRUE \in BOOLEAN /\ 0 \in Nat
  BY DEF Shape, TypeOK, PreVoteRpc
<1>2. w \in NodeState /\ w.role = n.role /\ w.commitIndex = n.commitIndex
      /\ w.currentTerm = n.currentTerm
  <2>1. w.commitIndex = n.commitIndex /\ w.currentTerm = n.currentTerm
    BY <1>1 DEF WithPreVote, NodeState
  <2> QED BY <1>1, <2>1, WithPreVoteType, WithPreVoteCalm
<1>3. CASE DeliverPreVote(r)
  BY <1>3 DEF DeliverPreVote, nodeVars, histVars, StillStep
<1>4. ASSUME NEW t \in Nat, NEW granted \in BOOLEAN, NEW failing \in {"none", "term", "vote"},
             PreVoteContinues(r, t, granted, failing),
             log' = log, lead' = lead, appendRpcs' = appendRpcs, committed' = committed
      PROVE  StillStep
  <2>1. ASSUME NEW m, node' = [node EXCEPT ![i] = m], m.commitIndex = n.commitIndex,
               m.role = "leader" => n.role = "leader" /\ m.currentTerm = n.currentTerm
        PROVE  StillStep
    <3>1. \A j \in Node : node'[j] = IF j = i THEN m ELSE node[j]
      BY <1>1, <2>1
    <3> QED BY <1>4, <2>1, <3>1 DEF StillStep
  <2>2. CASE node' = [node EXCEPT ![i] = StepDown(n, t, failing = "term")]
    <3>1. (failing = "term") \in BOOLEAN
      OBVIOUS
    <3>2. Calm(n, StepDown(n, t, failing = "term"))
      BY <1>1, <3>1, NodeOpsCalm
    <3>3. StepDown(n, t, failing = "term").commitIndex = n.commitIndex
      BY <1>1, <3>1, NodeOpsCommit
    <3> QED BY <2>1, <2>2, <3>2, <3>3 DEF Calm
  <2>3. CASE WinsPreVote(r, t, granted) /\ StartElection(i, w, failing)
    <3> DEFINE m == IncrementCurrentTerm(w)
    <3>1. w.role = "candidate"
      BY <1>2, <2>3 DEF WinsPreVote, PreVoteCounts
    <3>2. /\ m \in NodeState /\ m.role = "candidate" /\ MarkUnhealthy(w).role = "candidate"
          /\ m.commitIndex = n.commitIndex /\ MarkUnhealthy(w).commitIndex = n.commitIndex
      BY <1>1, <1>2, <3>1, NodeOpsType, NodeOpsHint, NodeOpsCommit
    <3>3. MarkUnhealthy(m).role = "candidate" /\ MarkUnhealthy(m).commitIndex = n.commitIndex
      <4> HIDE DEF m
      <4> QED BY <1>1, <3>2, NodeOpsHint, NodeOpsCommit
    <3>4. /\ [m EXCEPT !.votedFor = i, !.votes = {i}].role = "candidate"
          /\ [m EXCEPT !.votedFor = i, !.votes = {i}].commitIndex = n.commitIndex
      <4> HIDE DEF m
      <4> QED BY <3>2 DEF NodeState
    <3>5. PICK x : /\ node' = [node EXCEPT ![i] = x] /\ x.role = "candidate"
                   /\ x.commitIndex = n.commitIndex
      BY <2>3, <3>2, <3>3, <3>4 DEF StartElection
    <3> QED BY <2>1, <3>5
  <2>4. CASE node' = [node EXCEPT ![i] = w]
    BY <1>2, <2>1, <2>4
  <2>5. CASE node' = node
    BY <1>4, <2>5 DEF StillStep
  <2> QED BY <1>4, <2>2, <2>3, <2>4, <2>5 DEF PreVoteContinues
<1>5. CASE PreVoteReturns(r) \/ PreVoteFails(r)
  <2>1. r.term + 1 \in Nat /\ r.reply.term \in Nat /\ r.reply.granted \in BOOLEAN
    BY <1>1 DEF PreVoteRpc, VoteReply, Term
  <2> QED BY <1>4, <1>5, <2>1 DEF PreVoteReturns, PreVoteFails
<1> QED
  BY <1>3, <1>5

\* The vote, at the voter.
LEMMA VoterStill ==
    ASSUME Shape, NEW r \in voteRpcs,
           DeliverRequestVoteRefused(r) \/ DeliverRequestVote(r) \/ RequestVoteFails(r)
    PROVE  StillStep
<1>1. /\ r \in VoteRpc /\ r.to \in Node /\ node \in [Node -> NodeState]
      /\ node[r.to] \in NodeState /\ r.term \in Nat /\ TRUE \in BOOLEAN
  BY DEF Shape, TypeOK, VoteRpc, Term
<1>2. log' = log /\ lead' = lead /\ appendRpcs' = appendRpcs /\ committed' = committed
  BY DEF DeliverRequestVoteRefused, DeliverRequestVote, RequestVoteFails, RequestVoteHandled,
         nodeVars, histVars
<1>3. CASE DeliverRequestVoteRefused(r) \/ RequestVoteFails(r)
  BY <1>2, <1>3 DEF DeliverRequestVoteRefused, RequestVoteFails, nodeVars, StillStep
<1>4. CASE DeliverRequestVote(r)
  <2>1. PICK termFails \in BOOLEAN, voteFails \in BOOLEAN :
          LET n == VoterState(node[r.to], r, termFails)
          IN  node' = [node EXCEPT ![r.to] =
                IF voteFails THEN MarkUnhealthy(n)
                ELSE IF GrantsVote(n, log[r.to], r) THEN [n EXCEPT !.votedFor = r.from] ELSE n]
    BY <1>4 DEF DeliverRequestVote
  <2> DEFINE n == VoterState(node[r.to], r, termFails)
             m == IF voteFails THEN MarkUnhealthy(n)
                  ELSE IF GrantsVote(n, log[r.to], r) THEN [n EXCEPT !.votedFor = r.from] ELSE n
  <2>2. /\ n \in NodeState /\ n.commitIndex = node[r.to].commitIndex
        /\ n.role = "leader" => /\ node[r.to].role = "leader"
                                /\ n.currentTerm = node[r.to].currentTerm
    <3>1. HandlerBecomesFollower(node[r.to], r.term, termFails).commitIndex = node[r.to].commitIndex
      BY <1>1, NodeOpsCommit
    <3>2. ~RefusesVote(node[r.to], r)
      BY <1>4 DEF DeliverRequestVote
    <3>3. n \in NodeState /\ Calm(node[r.to], n)
      BY <1>1, <3>2, VoterStateFacts
    <3> QED BY <1>1, <3>1, <3>3 DEF VoterState, Calm
  <2> HIDE DEF n
  <2>3. /\ MarkUnhealthy(n).commitIndex = n.commitIndex /\ MarkUnhealthy(n).role = n.role
        /\ MarkUnhealthy(n).currentTerm = n.currentTerm
        /\ [n EXCEPT !.votedFor = r.from].commitIndex = n.commitIndex
        /\ [n EXCEPT !.votedFor = r.from].role = n.role
        /\ [n EXCEPT !.votedFor = r.from].currentTerm = n.currentTerm
    BY <2>2 DEF NodeState, MarkUnhealthy
  <2>4. /\ m.commitIndex = node[r.to].commitIndex
        /\ m.role = "leader" => node[r.to].role = "leader" /\ m.currentTerm = node[r.to].currentTerm
    BY <2>2, <2>3
  <2>5. node' = [node EXCEPT ![r.to] = m]
    BY <2>1 DEF n
  <2> HIDE DEF m
  <2>6. \A j \in Node : node'[j] = IF j = r.to THEN m ELSE node[j]
    BY <1>1, <2>5
  <2> QED BY <1>2, <2>4, <2>6 DEF StillStep
<1> QED
  BY <1>3, <1>4

----------------------------------------------------------------------------
(* Quorums.                                                                *)

\* Two quorums share a node.
LEMMA QuorumsMeet ==
    ASSUME NEW S \in Quorum, NEW T \in Quorum
    PROVE  \E v \in Node : v \in S /\ v \in T
<1>1. S \subseteq Node /\ T \subseteq Node /\ IsFiniteSet(Node)
  BY NodeAssumption DEF Quorum
<1>2. IsFiniteSet(S) /\ IsFiniteSet(T)
  BY <1>1, FS_Subset
<1>3. Cardinality(Node) \in Nat /\ Cardinality(S) \in Nat /\ Cardinality(T) \in Nat
  BY <1>1, <1>2, FS_CardinalityType
<1>4. Cardinality(S) + Cardinality(T) > Cardinality(Node)
  <2>1. Cardinality(S) >= Majority /\ Cardinality(T) >= Majority
    BY DEF Quorum
  <2> QED BY <1>3, <2>1 DEF Majority
<1>5. S \cap T # {}
  BY <1>1, <1>4, FS_MajoritiesIntersect
<1> QED
  BY <1>1, <1>5

\* A quorum is more than one node.
LEMMA QuorumHasTwo ==
    ASSUME NEW Q \in Quorum, NEW i
    PROVE  \E v \in Q : v # i
<1>1. /\ IsFiniteSet(Node) /\ Cardinality(Node) \in Nat /\ Cardinality(Node) >= 2
      /\ Q \subseteq Node /\ Cardinality(Q) >= Majority
  BY NodeAssumption, FS_CardinalityType DEF Quorum
<1>2. IsFiniteSet(Q)
  BY <1>1, FS_Subset
<1>3. Cardinality(Q) \in Nat /\ Cardinality(Q) >= 2
  BY <1>1, <1>2, FS_CardinalityType DEF Majority
<1>4. ASSUME Q \subseteq {i} PROVE FALSE
  <2>1. IsFiniteSet({i}) /\ Cardinality({i}) = 1
    BY FS_Singleton
  <2>2. Cardinality(Q) <= 1
    BY <1>4, <2>1, FS_Subset
  <2> QED BY <1>3, <2>2
<1> QED
  BY <1>4

\* The nodes make a quorum.
LEMMA NodeIsQuorum == Node \in Quorum
<1>1. Cardinality(Node) \in Nat /\ Cardinality(Node) >= 2
  BY NodeAssumption, FS_CardinalityType
<1>2. Cardinality(Node) >= Majority
  BY <1>1 DEF Majority
<1> QED
  BY <1>2 DEF Quorum

\* Numbers given to the nodes have an upper bound.
LEMMA NodesBounded ==
    ASSUME NEW f \in [Node -> Nat]
    PROVE  \E u \in Nat : \A p \in Node : f[p] <= u
<1> DEFINE n == Cardinality(Node)
<1>1. n \in Nat /\ ExistsBijection(1..n, Node)
  BY NodeAssumption, FS_CardinalityType
<1>2. PICK b \in Bijection(1..n, Node) : TRUE
  BY <1>1 DEF ExistsBijection
<1>3. b \in [1..n -> Node] /\ \A p \in Node : \E x \in 1..n : b[x] = p
  BY <1>2 DEF Bijection, Surjection
<1> HIDE DEF n
<1> DEFINE Bounded(j) == \E u \in Nat : \A x \in 1..j : x <= n => f[b[x]] <= u
           bad == {j \in Nat : ~Bounded(j)}
<1>4. bad = {}
  <2> SUFFICES ASSUME bad # {} PROVE FALSE
    OBVIOUS
  <2>1. bad \subseteq Nat
    OBVIOUS
  <2>2. Min(bad) \in bad /\ \A y \in bad : Min(bad) <= y
    <3> HIDE DEF bad
    <3> QED BY <2>1, MinOfNats
  <2>3. PICK j \in Nat : j = Min(bad) /\ ~Bounded(j)
    BY <2>2
  <2>4. Bounded(0)
    <3>1. 0 \in Nat /\ \A x \in 1..0 : FALSE
      OBVIOUS
    <3> QED BY <3>1
  <2>5. j # 0 /\ j - 1 \in Nat
    <3>1. j # 0
      BY <2>3, <2>4
    <3> QED BY <3>1
  <2>6. Bounded(j - 1)
    <3>1. j - 1 \notin bad
      <4> HIDE DEF bad, Bounded
      <4>1. ~(j <= j - 1)
        BY <2>5
      <4> QED BY <2>2, <2>3, <4>1
    <3> QED BY <2>5, <3>1
  <2>7. PICK u \in Nat : \A x \in 1..(j - 1) : x <= n => f[b[x]] <= u
    BY <2>6
  <2>8. PICK w \in Nat : u <= w /\ (j <= n => f[b[j]] <= w)
    <3>1. CASE j <= n
      <4>1. j \in 1..n
        BY <1>1, <2>5, <3>1
      <4>2. f[b[j]] \in Nat
        BY <1>3, <4>1
      <4>3. PICK a \in Nat : a = f[b[j]]
        BY <4>2
      <4>4. \E w \in Nat : u <= w /\ a <= w
        <5>1. u <= u + a /\ a <= u + a /\ u + a \in Nat
          OBVIOUS
        <5> QED BY <5>1
      <4> QED BY <4>3, <4>4
    <3>2. CASE ~(j <= n)
      <4>1. u <= u
        OBVIOUS
      <4> QED BY <3>2, <4>1
    <3> QED BY <3>1, <3>2
  <2>9. ASSUME NEW x \in 1..j, x <= n PROVE f[b[x]] <= w
    <3>1. CASE x = j
      BY <2>8, <2>9, <3>1
    <3>2. CASE x # j
      <4>1. x \in 1..(j - 1) /\ x \in 1..n
        BY <1>1, <2>5, <2>9, <3>2
      <4>2. f[b[x]] \in Nat /\ f[b[x]] <= u
        BY <1>3, <2>7, <2>9, <4>1
      <4>3. u <= w
        BY <2>8
      <4> HIDE DEF Bounded, bad
      <4>4. \A a \in Nat : a <= u => a <= w
        BY <4>3
      <4> QED BY <4>2, <4>4
    <3> QED BY <3>1, <3>2
  <2>10. Bounded(j)
    BY <2>9
  <2> QED BY <2>3, <2>10
<1>5. Bounded(n)
  BY <1>1, <1>4
<1>6. PICK u \in Nat : \A x \in 1..n : x <= n => f[b[x]] <= u
  BY <1>5
<1>7. \A x \in 1..n : x <= n
  BY <1>1
<1> QED
  BY <1>3, <1>6, <1>7

\* tryToAdvanceCommitIndex finds an index that a majority has reached.
LEMMA MajorityMatched ==
    ASSUME NEW f \in [Node -> Nat]
    PROVE  /\ MajorityMatch(f, Majority) \in Nat
           /\ {p \in Node : f[p] >= MajorityMatch(f, Majority)} \in Quorum
<1> DEFINE S == {m \in Range(f) : Cardinality({p \in DOMAIN f : f[p] >= m}) >= Majority}
<1>1. DOMAIN f = Node /\ Range(f) = {f[p] : p \in Node}
  BY DEF Range
<1>2. PICK u \in Nat : \A p \in Node : f[p] <= u
  BY NodesBounded
<1>3. S \subseteq 0..u
  BY <1>1, <1>2
<1>4. S # {}
  <2> DEFINE R == {f[p] : p \in Node}
  <2>1. R \subseteq Nat /\ R # {}
    <3>1. Node # {}
      BY NodeIsQuorum, QuorumHasTwo
    <3> QED BY <3>1
  <2>2. Min(R) \in R /\ \A y \in R : Min(R) <= y
    <3> HIDE DEF R
    <3> QED BY <2>1, MinOfNats
  <2>3. \A p \in Node : f[p] >= Min(R)
    <3> HIDE DEF R
    <3>1. Min(R) \in Nat
      BY <2>1, <2>2
    <3>2. \A p \in Node : f[p] \in R /\ f[p] \in Nat
      BY DEF R
    <3> QED BY <2>2, <3>1, <3>2
  <2> DEFINE m == Min(R)
  <2>4. m \in Range(f) /\ {p \in DOMAIN f : f[p] >= m} = Node
    <3>1. m \in R
      BY <2>2
    <3>2. R = Range(f)
      BY <1>1
    <3> HIDE DEF m, R
    <3>3. \A p \in Node : f[p] >= m
      BY <2>3 DEF m, R
    <3> QED BY <1>1, <3>1, <3>2, <3>3
  <2>5. Cardinality(Node) >= Majority
    BY NodeIsQuorum DEF Quorum
  <2> HIDE DEF m, R
  <2>6. m \in S
    BY <2>4, <2>5
  <2> QED BY <2>6
<1>5. Max(S) \in S
  <2> HIDE DEF S
  <2> QED BY <1>2, <1>3, <1>4, MaxOfNats
<1>6. MajorityMatch(f, Majority) = Max(S)
  BY DEF MajorityMatch
<1> DEFINE c == Max(S)
<1>7. c \in Nat /\ {p \in Node : f[p] >= c} \in Quorum
  <2>1. c \in 0..u /\ Cardinality({p \in Node : f[p] >= c}) >= Majority
    <3>1. c \in S
      BY <1>5
    <3>2. c \in 0..u
      BY <1>3, <3>1
    <3> HIDE DEF c
    <3> QED BY <1>1, <3>1, <3>2
  <2> HIDE DEF c
  <2> QED BY <1>2, <2>1 DEF Quorum
<1> QED
  BY <1>6, <1>7

----------------------------------------------------------------------------
(* Every action is such a step.                                            *)

\* No write to a log has failed.
NoLogFailure == events["log"] = 0

\* A tally counts for one term.
OneTerm == \A i \in Node : \A o, t, u \in Nat : LiveObj(i, o, t) /\ LiveObj(i, o, u) => t = u

\* An object in use after a step that makes none was in use before.
LEMMA LiveBefore ==
    ASSUME Shape, NoNewObject, OldCalls, NEW i \in Node, NEW o, NEW t, LiveObj(i, o, t)'
    PROVE  LiveObj(i, o, t)
<1>1. CASE node'[i].role = "leader" /\ o = Len(lead'[i]) /\ t = node'[i].currentTerm
  BY <1>1 DEF NoNewObject, LiveObj
<1>2. ASSUME NEW q \in appendRpcs', q.from = i, q.obj = o, q.term = t, q.phase # "orphan"
      PROVE  LiveObj(i, o, t)
  <2>1. CASE LiveObj(q.from, q.obj, q.term)
    BY <1>2, <2>1
  <2>2. ASSUME NEW p \in appendRpcs, SameCall(q, p) PROVE LiveObj(i, o, t)
    BY <1>2, <2>2 DEF SameCall, Carries, LiveObj
  <2> QED BY <2>1, <2>2 DEF OldCalls
<1> QED
  BY <1>1, <1>2 DEF LiveObj

\* The events of a step without a log failure.
LEMMA NoFailureHappens ==
    ASSUME events \in [EventKind -> Nat], NoLogFailure, NoLogFailure', NEW K, Happen(K)
    PROVE  "log" \notin K
  BY DEF Happen, EventKind, NoLogFailure

\* The same call again, after the caller has given it up or died.
LEMMA CallsGivenUp ==
    ASSUME Shape
    PROVE  /\ \A r \in appendRpcs : \A q \in GivenUp(appendRpcs, r) :
                \E p \in appendRpcs : SameCall(q, p) /\ (IsAck(q) => IsAck(p))
           /\ \A i : \A q \in CallerDied(appendRpcs, i) :
                \E p \in appendRpcs : SameCall(q, p) /\ (IsAck(q) => IsAck(p))
<1>1. \A p \in appendRpcs : p \in AppendRpc
  BY DEF Shape, TypeOK
<1>2. \A p \in appendRpcs : SameCall(p, p)
  BY DEF SameCall, Carries
<1>3. \A p \in appendRpcs : /\ SameCall([p EXCEPT !.phase = "orphan"], p)
                            /\ ~IsAck([p EXCEPT !.phase = "orphan"])
  BY <1>1 DEF SameCall, Carries, AppendRpc, IsAck
<1> QED
  BY <1>2, <1>3 DEF GivenUp, CallerDied

\* And after the handler has run.
LEMMA CallAnswered ==
    ASSUME Shape, NEW r \in appendRpcs, NEW reply,
           reply.success /\ reply.term = r.term => Accepted(r)
    PROVE  \A q \in Answered(appendRpcs, r, reply) :
             \E p \in appendRpcs : SameCall(q, p) /\ (IsAck(q) => IsAck(p) \/ Accepted(p))
<1> DEFINE a == [r EXCEPT !.phase = "done", !.reply = reply]
<1>1. r \in AppendRpc
  BY DEF Shape, TypeOK
<1>2. \A p \in appendRpcs : SameCall(p, p)
  BY DEF SameCall, Carries
<1>3. /\ r.phase = "sent" => SameCall(a, r)
      /\ a.reply = reply /\ a.term = r.term
  BY <1>1 DEF SameCall, Carries, AppendRpc
<1>4. IsAck(a) => Accepted(r)
  <2> HIDE DEF a
  <2> QED BY <1>3 DEF IsAck
<1> QED
  BY <1>2, <1>3, <1>4 DEF Answered

\* The commit indexes are numbers.
LEMMA CommitIndexes ==
    ASSUME Shape, NEW i \in Node
    PROVE  node[i] \in NodeState /\ node[i].commitIndex \in Nat /\ node[i].currentTerm \in Nat
  BY DEF Shape, TypeOK, NodeState, Index, Term

\* The process dies: its tallies die with it.
LEMMA RebootCommits ==
    ASSUME Shape, NEW i \in Node, NEW n \in NodeState, Calm(node[i], n), Reboot(i, n)
    PROVE  CommitStep
<1>1. /\ node \in [Node -> NodeState] /\ lead \in [Node -> Seq(LeaderState)]
      /\ appendRpcs \subseteq AppendRpc
  BY DEF Shape, TypeOK
<1>2. /\ node' = [node EXCEPT ![i] = Rebooted(n)] /\ lead' = [lead EXCEPT ![i] = <<>>]
      /\ appendRpcs' = CallerDied(appendRpcs, i) /\ log' = log /\ committed' = committed
  BY DEF Reboot, histVars
<1>3. /\ \A j \in Node : j # i => node'[j] = node[j] /\ lead'[j] = lead[j]
      /\ node'[i].role = "follower" /\ node'[i].commitIndex = 0
  BY <1>1, <1>2, NodeOpsCalm, NodeOpsCommit
<1>4. NoNewObject
  BY <1>3 DEF NoNewObject
<1>5. OldCalls
  <2>1. \A q \in appendRpcs' : \E p \in appendRpcs : SameCall(q, p) /\ (IsAck(q) => IsAck(p))
    BY <1>2, CallsGivenUp
  <2> QED BY <2>1 DEF OldCalls
<1>6. OldMatches
  <2>1. \A q \in appendRpcs' : q.from = i => q.phase = "orphan"
    BY <1>1, <1>2 DEF CallerDied, AppendRpc
  <2>2. \A o, t \in Nat : ~LiveObj(i, o, t)'
    BY <1>3, <2>1 DEF LiveObj
  <2> QED BY <1>3, <2>2, SameMatches
<1>7. CommitsMove
  <2>1. \A j \in Node : ~(node'[j].commitIndex > node[j].commitIndex)
    BY <1>3, CommitIndexes
  <2> QED BY <1>2, <2>1 DEF CommitsMove
<1>8. WritesMove
  BY <1>2 DEF WritesMove
<1> QED
  BY <1>4, <1>5, <1>6, <1>7, <1>8, OldTallies DEF CommitStep

\* HandlePropose: the leader counts itself.
LEMMA ProposeCommits ==
    ASSUME Shape, Votes, OneTerm, NEW i \in Node, NEW v \in Value, Propose(i, v)
    PROVE  CommitStep
<1> DEFINE n == node[i]
           o == Len(lead[i])
           l == lead[i][o]
           e == [term |-> n.currentTerm, data |-> v]
           written == Append(log[i], e)
           m == [AllInflight(i, l) EXCEPT
                   !.matchIndex[i] = IF @ < Len(written) THEN Len(written) ELSE @,
                   !.nextIndex[i] = IF @ < Len(written) + 1 THEN Len(written) + 1 ELSE @]
<1>1. /\ n.role = "leader" /\ node' = node /\ committed' = committed
      /\ log' = [log EXCEPT ![i] = written]
      /\ appendRpcs' = appendRpcs \cup AppendRequestsToAll(i, o, l, written, n)
      /\ lead' = [lead EXCEPT ![i][o] = m]
  BY DEF Propose, histVars
<1>2. /\ log \in [Node -> Seq(Entry)] /\ n \in NodeState /\ log[i] \in Seq(Entry)
      /\ lead \in [Node -> Seq(LeaderState)] /\ lead[i] \in Seq(LeaderState)
      /\ n.currentTerm \in Nat
  BY DEF Shape, TypeOK, NodeState, Term
<1>3. o \in 1..Len(lead[i]) /\ o \in Nat /\ l \in LeaderState
  <2>1. o \in Nat \ {0}
    BY <1>1 DEF Shape, LeaderHasObject
  <2>2. o \in 1..Len(lead[i])
    BY <2>1
  <2> QED BY <1>2, <2>1, <2>2, ElementOfSeq
<1>4. e \in Entry /\ e.term = n.currentTerm
  BY <1>2 DEF Entry, NodeState, Term
<1>5. written \in Seq(Entry) /\ Len(written) \in Nat /\ log'[i] = written
  <2> HIDE DEF e
  <2>1. written \in Seq(Entry)
    BY <1>2, <1>4, AppendProperties
  <2> HIDE DEF written
  <2> QED BY <1>1, <1>2, <2>1, LenProperties
<1>6. LiveObj(i, o, n.currentTerm)
  BY <1>1 DEF LiveObj
<1>7. Writes(i)
  <2>1. Won(n.currentTerm, i)
    BY <1>1, LeaderWon
  <2>2. node'[i].currentTerm = n.currentTerm /\ node'[i].role = "leader"
    BY <1>1
  <2>3. \E x \in Entry : x.term = n.currentTerm /\ log' = [log EXCEPT ![i] = Append(log[i], x)]
    <3> HIDE DEF e
    <3> QED BY <1>1, <1>4
  <2> QED BY <2>1, <2>2, <2>3 DEF Writes
<1> HIDE DEF e, written
<1>8. /\ m \in LeaderState
      /\ \A p \in Node : p # i => m.matchIndex[p] = l.matchIndex[p]
      /\ m.matchIndex[i] = IF l.matchIndex[i] < Len(written) THEN Len(written) ELSE l.matchIndex[i]
  <2> DEFINE a == AllInflight(i, l)
  <2>1. /\ a \in LeaderState /\ a.matchIndex = l.matchIndex
    <3>1. a.matchIndex = l.matchIndex
      BY <1>3 DEF AllInflight, LeaderState
    <3> QED BY <1>2, <1>3, <1>5, <3>1, AppendRequestsToAllType
  <2> HIDE DEF a, l
  <2>2. m = [a EXCEPT
               !.matchIndex[i] = IF @ < Len(written) THEN Len(written) ELSE @,
               !.nextIndex[i] = IF @ < Len(written) + 1 THEN Len(written) + 1 ELSE @]
    BY DEF a
  <2> HIDE DEF m
  <2>3. PICK k \in Nat : k = Len(written)
    BY <1>5
  <2> DEFINE g == [a.matchIndex EXCEPT ![i] = IF @ < k THEN k ELSE @]
             f == [a.nextIndex EXCEPT ![i] = IF @ < k + 1 THEN k + 1 ELSE @]
  <2>4. m = [a EXCEPT !.matchIndex = g, !.nextIndex = f]
    BY <2>1, <2>2, <2>3 DEF LeaderState
  <2>5. /\ m \in LeaderState
        /\ \A p \in Node : p # i => m.matchIndex[p] = a.matchIndex[p]
        /\ m.matchIndex[i] = IF a.matchIndex[i] < k THEN k ELSE a.matchIndex[i]
    <3>1. a.matchIndex \in [Node -> Nat] /\ a.nextIndex \in [Node -> Nat \ {0}]
      BY <2>1 DEF LeaderState, Index
    <3>2. /\ g \in [Node -> Nat] /\ f \in [Node -> Nat \ {0}]
          /\ \A p \in Node : p # i => g[p] = a.matchIndex[p]
          /\ g[i] = IF a.matchIndex[i] < k THEN k ELSE a.matchIndex[i]
      BY <3>1
    <3> HIDE DEF g, f
    <3>3. m \in LeaderState /\ m.matchIndex = g
      BY <2>1, <2>4, <3>2 DEF LeaderState, Index
    <3> QED BY <3>2, <3>3
  <2> QED BY <2>1, <2>3, <2>5
<1> HIDE DEF m, l
<1>9. /\ \A j \in Node : Len(lead'[j]) = Len(lead[j])
      /\ \A j \in Node : \A x \in 1..Len(lead[j]) :
           lead'[j][x] = IF j = i /\ x = o THEN m ELSE lead[j][x]
  BY <1>1, <1>2, <1>3, <1>8, LeadUpdated
<1>10. NoNewObject
  BY <1>1, <1>9 DEF NoNewObject
<1>11. OldCalls
  <2> SUFFICES ASSUME NEW q \in appendRpcs'
               PROVE  \/ \E p \in appendRpcs : SameCall(q, p) /\ (IsAck(q) => IsAck(p) \/ Accepted(p))
                      \/ Fresh(q) /\ LiveObj(q.from, q.obj, q.term)
    BY DEF OldCalls
  <2>1. CASE q \in appendRpcs
    BY <2>1 DEF SameCall, Carries
  <2>2. CASE q \in AppendRequestsToAll(i, o, l, written, n)
    <3>1. /\ q.from = i /\ q.obj = o /\ q.term = n.currentTerm
          /\ q.phase = "sent" /\ q.commit = n.commitIndex /\ CutFrom(q, written)
      BY <1>3, <1>5, <2>2, AppendRequestsToAllCut DEF l
    <3>2. q.commit <= node'[i].commitIndex
      BY <1>1, <3>1, CommitIndexes
    <3> QED BY <1>1, <1>5, <1>6, <3>1, <3>2 DEF Fresh
  <2> QED BY <1>1, <2>1, <2>2
<1>12. OldMatches
  <2> SUFFICES ASSUME NEW j \in Node, NEW x \in Nat, NEW t \in Nat, LiveObj(j, x, t)',
                      NEW p \in Node, NEW k \in Nat \ {0}, lead'[j][x].matchIndex[p] >= k
               PROVE  Acked(j, x, p, k) \/ JustAcked(j, x, t, p, k)
    BY DEF OldMatches
  <2>1. LiveObj(j, x, t)
    BY <1>10, <1>11, LiveBefore
  <2>2. x \in 1..Len(lead[j])
    BY <2>1, LiveIsObject
  <2>3. CASE ~(j = i /\ x = o /\ p = i)
    <3>1. lead'[j][x].matchIndex[p] = lead[j][x].matchIndex[p]
      BY <1>8, <1>9, <2>2, <2>3 DEF l
    <3> QED BY <3>1 DEF Acked
  <2>4. CASE j = i /\ x = o /\ p = i
    <3>1. m.matchIndex[i] >= k
      BY <1>9, <2>2, <2>4
    <3>2. CASE l.matchIndex[i] < Len(written)
      <4>1. k <= Len(log'[i])
        BY <1>5, <1>8, <3>1, <3>2
      <4>2. t = n.currentTerm
        BY <1>2, <1>3, <1>6, <2>1, <2>4 DEF OneTerm
      <4> QED BY <1>1, <2>4, <4>1, <4>2 DEF JustAcked
    <3>3. CASE ~(l.matchIndex[i] < Len(written))
      BY <1>8, <2>4, <3>1, <3>3 DEF Acked, l
    <3> QED BY <3>2, <3>3
  <2> QED BY <2>3, <2>4
<1>13. CommitsMove
  BY <1>1, CommitIndexes DEF CommitsMove
<1>14. WritesMove
  BY <1>1, <1>7 DEF WritesMove
<1> QED
  BY <1>10, <1>11, <1>12, <1>13, <1>14, OldTallies DEF CommitStep

\* Tick of a leader: nothing is counted.
LEMMA LeaderTickCommits ==
    ASSUME Shape, NEW i \in Node, NEW heartbeat \in BOOLEAN,
           NEW expired \in BOOLEAN, LeaderTick(i, heartbeat, expired)
    PROVE  CommitStep
<1> DEFINE n == node[i]
           o == Len(lead[i])
           l == lead[i][o]
           m == AllInflight(i, l)
<1>1. /\ n.role = "leader" /\ log' = log /\ committed' = committed
      /\ lead' = IF heartbeat THEN [lead EXCEPT ![i][o] = m] ELSE lead
      /\ appendRpcs' = IF heartbeat
                         THEN appendRpcs \cup AppendRequestsToAll(i, o, l, log[i], n)
                         ELSE appendRpcs
      /\ node' = IF expired THEN [node EXCEPT ![i] = BecomeFollower(n, n.currentTerm)] ELSE node
  BY DEF LeaderTick, histVars
<1>2. /\ node \in [Node -> NodeState] /\ n \in NodeState /\ log[i] \in Seq(Entry)
      /\ lead \in [Node -> Seq(LeaderState)] /\ lead[i] \in Seq(LeaderState)
      /\ n.currentTerm \in Nat /\ TRUE \in BOOLEAN
  BY DEF Shape, TypeOK, NodeState, Term
<1>3. o \in 1..Len(lead[i]) /\ o \in Nat /\ l \in LeaderState
  <2>1. o \in Nat \ {0}
    BY <1>1 DEF Shape, LeaderHasObject
  <2>2. o \in 1..Len(lead[i])
    BY <2>1
  <2> QED BY <1>2, <2>1, <2>2, ElementOfSeq
<1>4. /\ AllCalm
      /\ \A j \in Node : node'[j].commitIndex = node[j].commitIndex
      /\ node'[i].currentTerm = n.currentTerm
  <2>1. BecomeFollower(n, n.currentTerm).commitIndex = n.commitIndex
    BY <1>2, NodeOpsCommit
  <2>2. BecomeFollower(n, n.currentTerm).currentTerm = n.currentTerm
    BY <1>2 DEF BecomeFollower, NodeState
  <2>3. AllCalm
    BY LeaderTickShape
  <2> QED BY <1>1, <1>2, <2>1, <2>2, <2>3
<1>5. LiveObj(i, o, n.currentTerm)
  BY <1>1 DEF LiveObj
<1>6. m \in LeaderState /\ m.matchIndex = l.matchIndex
  <2>1. m.matchIndex = l.matchIndex
    BY <1>3 DEF AllInflight, LeaderState
  <2> HIDE DEF l
  <2> QED BY <1>2, <1>3, <2>1, AppendRequestsToAllType
<1> HIDE DEF m, l
<1>7. /\ \A j \in Node : Len(lead'[j]) = Len(lead[j])
      /\ \A j \in Node : \A x \in 1..Len(lead[j]) :
           lead'[j][x].matchIndex = lead[j][x].matchIndex
  <2>1. CASE heartbeat
    <3>1. /\ \A j \in Node : Len(lead'[j]) = Len(lead[j])
          /\ \A j \in Node : \A x \in 1..Len(lead[j]) :
               lead'[j][x] = IF j = i /\ x = o THEN m ELSE lead[j][x]
      BY <1>1, <1>2, <1>3, <1>6, <2>1, LeadUpdated
    <3> QED BY <1>6, <3>1 DEF l
  <2>2. CASE ~heartbeat
    BY <1>1, <2>2
  <2> QED BY <2>1, <2>2
<1>8. NoNewObject
  BY <1>4, <1>7 DEF NoNewObject, AllCalm, Calm
<1>9. OldCalls
  <2> SUFFICES ASSUME NEW q \in appendRpcs'
               PROVE  \/ \E p \in appendRpcs : SameCall(q, p) /\ (IsAck(q) => IsAck(p) \/ Accepted(p))
                      \/ Fresh(q) /\ LiveObj(q.from, q.obj, q.term)
    BY DEF OldCalls
  <2>1. CASE q \in appendRpcs
    BY <2>1 DEF SameCall, Carries
  <2>2. CASE q \in AppendRequestsToAll(i, o, l, log[i], n)
    <3>1. /\ q.from = i /\ q.obj = o /\ q.term = n.currentTerm
          /\ q.phase = "sent" /\ q.commit = n.commitIndex /\ CutFrom(q, log[i])
      BY <1>2, <1>3, <2>2, AppendRequestsToAllCut DEF l
    <3>2. q.commit <= node'[i].commitIndex
      BY <1>4, <3>1, CommitIndexes
    <3> QED BY <1>1, <1>4, <1>5, <3>1, <3>2 DEF Fresh
  <2> QED BY <1>1, <2>1, <2>2
<1>10. OldMatches
  <2>1. ASSUME NEW j \in Node, NEW x \in Nat, NEW t \in Nat, LiveObj(j, x, t)', NEW p \in Node
        PROVE  lead'[j][x].matchIndex[p] = lead[j][x].matchIndex[p]
    <3>1. x \in 1..Len(lead[j])
      BY <1>8, <1>9, <2>1, LiveBefore, LiveIsObject
    <3> QED BY <1>7, <3>1
  <2> QED BY <2>1, SameMatches
<1>11. CommitsMove
  <2>1. \A j \in Node : ~(node'[j].commitIndex > node[j].commitIndex)
    BY <1>4, CommitIndexes
  <2> QED BY <1>1, <2>1 DEF CommitsMove
<1>12. WritesMove
  BY <1>1 DEF WritesMove
<1> QED
  BY <1>8, <1>9, <1>10, <1>11, <1>12, OldTallies DEF CommitStep

\* becomeLeader: a new tally, in which the leader alone counts for its no-op.
LEMMA BecomeLeaderCommits ==
    ASSUME Shape, NEW i \in Node, NEW n \in NodeState, n.currentTerm = node[i].currentTerm,
           n.commitIndex = node[i].commitIndex,
           Won(n.currentTerm, i), BecomeLeader(i, n, FALSE)
    PROVE  CommitStep
<1> DEFINE e == [term |-> n.currentTerm, data |-> NoOp]
           written == Append(log[i], e)
           fresh == [nextIndex  |-> [p \in Node |-> IF p = i THEN Len(written) + 1
                                                    ELSE LastIndex(log[i]) + 1],
                     matchIndex |-> [p \in Node |-> IF p = i THEN Len(written) ELSE 0],
                     inflight   |-> {}]
           elected == [n EXCEPT !.role = "leader", !.leaderId = i]
           commit == AdvancedCommitIndex(elected, written, fresh)
           o == Len(lead[i]) + 1
<1>1. /\ node' = [node EXCEPT ![i] = [elected EXCEPT !.commitIndex = commit]]
      /\ log' = [log EXCEPT ![i] = written]
      /\ lead' = [lead EXCEPT ![i] = Append(lead[i], AllInflight(i, fresh))]
      /\ appendRpcs' = appendRpcs \cup AppendRequestsToAll(i, o, fresh, written, elected)
      /\ committed' = committed \cup Declared(written, n.commitIndex, commit, n.currentTerm)
  BY DEF BecomeLeader
<1>2. /\ log \in [Node -> Seq(Entry)] /\ log[i] \in Seq(Entry)
      /\ node \in [Node -> NodeState] /\ lead \in [Node -> Seq(LeaderState)]
      /\ lead[i] \in Seq(LeaderState) /\ n.commitIndex \in Nat /\ n.currentTerm \in Nat
  BY DEF Shape, TypeOK, NodeState, Index, Term
<1>3. e \in Entry /\ e.term = n.currentTerm
  BY DEF Entry, NodeState, Term
<1>4. written \in Seq(Entry)
  <2> HIDE DEF e
  <2> QED BY <1>2, <1>3, AppendProperties
<1>5. Len(written) \in Nat /\ LastIndex(log[i]) \in Nat
  <2> HIDE DEF written
  <2> QED BY <1>2, <1>4, LenProperties, LastType
<1>6. /\ fresh \in LeaderState /\ fresh.matchIndex \in [Node -> Nat]
      /\ fresh.matchIndex[i] = Len(written)
      /\ \A p \in Node : p # i => fresh.matchIndex[p] = 0
  <2> HIDE DEF written
  <2> QED BY <1>5 DEF LeaderState, Index
<1>7. /\ AllInflight(i, fresh) \in LeaderState
      /\ AllInflight(i, fresh).matchIndex = fresh.matchIndex
  <2> HIDE DEF fresh
  <2>1. AllInflight(i, fresh) \in LeaderState
    <3>1. o \in Nat
      BY <1>2, LenProperties
    <3> HIDE DEF o, elected
    <3> QED BY <1>2, <1>6, <3>1, AppendRequestsToAllType
  <2> QED BY <1>6, <2>1 DEF AllInflight, LeaderState
<1>8. commit = n.commitIndex
  <2> DEFINE f == fresh.matchIndex
             c == MajorityMatch(f, Majority)
  <2>1. c \in Nat /\ {p \in Node : f[p] >= c} \in Quorum
    <3> HIDE DEF f
    <3> QED BY <1>6, MajorityMatched DEF f
  <2>2. PICK v \in Node : v # i /\ f[v] >= c
    <3> HIDE DEF f, c
    <3>1. \E v \in {p \in Node : f[p] >= c} : v # i
      BY <2>1, QuorumHasTwo
    <3> QED BY <3>1
  <2>3. f[v] = 0
    BY <1>6, <2>2
  <2> HIDE DEF f
  <2>4. c = 0
    BY <2>1, <2>2, <2>3
  <2>5. 0 \notin 1..LastIndex(written)
    <3> HIDE DEF written
    <3> QED BY <1>4, LastType
  <2>6. elected.commitIndex = n.commitIndex
    BY DEF NodeState
  <2> HIDE DEF elected, written, fresh
  <2> QED BY <2>4, <2>5, <2>6 DEF AdvancedCommitIndex, f
<1>9. /\ elected.leaderId = i /\ elected.currentTerm = n.currentTerm
      /\ elected.commitIndex = n.commitIndex
      /\ [elected EXCEPT !.commitIndex = commit].currentTerm = n.currentTerm
      /\ [elected EXCEPT !.commitIndex = commit].role = "leader"
      /\ [elected EXCEPT !.commitIndex = commit].commitIndex = n.commitIndex
  <2>1. PICK x : x = commit
    OBVIOUS
  <2>2. [elected EXCEPT !.commitIndex = x].commitIndex = x
    BY DEF NodeState
  <2> HIDE DEF commit
  <2> QED BY <1>8, <2>1, <2>2 DEF NodeState
<1> HIDE DEF e, fresh, commit, elected
<1>10. /\ \A j \in Node : j # i => node'[j] = node[j] /\ lead'[j] = lead[j]
       /\ node'[i].currentTerm = n.currentTerm /\ node'[i].role = "leader"
       /\ node'[i].commitIndex = n.commitIndex
       /\ log'[i] = written
  BY <1>1, <1>2, <1>9
<1>11. committed' = committed
  <2>1. \A k : k \notin (n.commitIndex + 1)..n.commitIndex
    BY <1>2
  <2>2. Declared(written, n.commitIndex, n.commitIndex, n.currentTerm) = {}
    BY <2>1 DEF Declared
  <2> QED BY <1>1, <1>8, <2>2
<1>12. /\ Len(lead'[i]) = o /\ o \in Nat /\ o \notin 1..Len(lead[i])
       /\ \A x \in 1..Len(lead[i]) : lead'[i][x] = lead[i][x]
       /\ lead'[i][o] = AllInflight(i, fresh)
  <2>1. lead'[i] = Append(lead[i], AllInflight(i, fresh))
    BY <1>1, <1>2
  <2>2. Len(lead[i]) \in Nat
    BY <1>2, LenProperties
  <2> QED BY <1>2, <1>7, <2>1, <2>2, AppendProperties
<1>13. Writes(i)
  <2>1. \E x \in Entry : x.term = n.currentTerm /\ log' = [log EXCEPT ![i] = Append(log[i], x)]
    BY <1>1, <1>3
  <2> QED BY <1>10, <2>1 DEF Writes
<1>14. NewObject(i, o, n.currentTerm)
  BY <1>13 DEF NewObject
<1> HIDE DEF written, o
<1>15. ASSUME NEW q \in AppendRequestsToAll(i, o, fresh, written, elected)
       PROVE  /\ q.from = i /\ q.obj = o /\ q.term = n.currentTerm
              /\ q.phase = "sent" /\ q.commit = n.commitIndex /\ CutFrom(q, written)
  BY <1>4, <1>6, <1>9, <1>15, AppendRequestsToAllCut
<1>16. CallsMove
  <2> SUFFICES ASSUME NEW q \in appendRpcs'
               PROVE  \/ \E p \in appendRpcs : SameCall(q, p) /\ (IsAck(q) => IsAck(p) \/ Accepted(p))
                      \/ Fresh(q)
    BY DEF CallsMove
  <2>1. CASE q \in appendRpcs
    BY <2>1 DEF SameCall, Carries
  <2>2. CASE q \in AppendRequestsToAll(i, o, fresh, written, elected)
    <3>1. q.commit <= node'[i].commitIndex
      BY <1>2, <1>10, <1>15, <2>2
    <3> QED BY <1>10, <1>14, <1>15, <2>2, <3>1 DEF Fresh
  <2> QED BY <1>1, <2>1, <2>2
<1>17. OfficesMove
  BY <1>10, <1>14 DEF OfficesMove, o
<1>18. WritesMove
  BY <1>13, <1>14 DEF WritesMove, o
<1>19. CommitsMove
  <2>1. \A j \in Node : ~(node'[j].commitIndex > node[j].commitIndex)
    BY <1>10, CommitIndexes
  <2> QED BY <1>11, <2>1 DEF CommitsMove
<1>20. ASSUME NEW q \in appendRpcs', IsAck(q) PROVE q \in appendRpcs
  <2>1. q.phase = "done"
    BY <1>20 DEF IsAck
  <2> QED BY <1>1, <1>15, <2>1
<1>21. TalliesMove
  <2> SUFFICES ASSUME NEW j \in Node, NEW x \in Nat, NEW t \in Nat, LiveObj(j, x, t)'
               PROVE  \/ /\ LiveObj(j, x, t)
                         /\ \A p \in Node : \A k \in Nat \ {0} :
                              Acked(j, x, p, k)' => Acked(j, x, p, k) \/ JustAcked(j, x, t, p, k)
                      \/ /\ NewObject(j, x, t)
                         /\ \A p \in Node : \A k \in Nat \ {0} :
                              Acked(j, x, p, k)' => p = j /\ k <= Len(log'[j])
    BY DEF TalliesMove
  <2>1. CASE LiveObj(j, x, t)
    <3>1. x \in 1..Len(lead[j])
      BY <2>1, LiveIsObject
    <3>2. lead'[j][x] = lead[j][x]
      BY <1>10, <1>12, <3>1
    <3>3. ASSUME NEW p \in Node, NEW k \in Nat \ {0}, Acked(j, x, p, k)'
          PROVE  Acked(j, x, p, k)
      BY <1>20, <3>2, <3>3 DEF Acked
    <3> QED BY <2>1, <3>3
  <2>2. CASE j = i /\ x = o /\ t = n.currentTerm
    <3>1. ASSUME NEW p \in Node, NEW k \in Nat \ {0}, Acked(j, x, p, k)'
          PROVE  p = j /\ k <= Len(log'[j])
      <4>1. ASSUME NEW q \in appendRpcs', q.from = j, q.obj = x, IsAck(q) PROVE FALSE
        <5>1. q \in appendRpcs /\ q.phase # "orphan"
          BY <1>20, <4>1 DEF IsAck
        <5>2. o \in 1..Len(lead[i])
          BY <2>2, <4>1, <5>1 DEF Shape, LiveObjects
        <5> QED BY <1>12, <5>2
      <4>2. lead'[j][x].matchIndex[p] >= k
        BY <3>1, <4>1 DEF Acked
      <4>3. fresh.matchIndex[p] >= k
        BY <1>7, <1>12, <2>2, <4>2
      <4>4. p = i
        BY <1>6, <4>3
      <4> QED BY <1>5, <1>6, <1>10, <2>2, <4>3, <4>4
    <3> QED BY <1>14, <2>2, <3>1
  <2>3. CASE node'[j].role = "leader" /\ x = Len(lead'[j]) /\ t = node'[j].currentTerm
    <3>1. CASE j = i
      BY <1>10, <1>12, <2>2, <2>3, <3>1
    <3>2. CASE j # i
      <4>1. LiveObj(j, x, t)
        BY <1>10, <2>3, <3>2 DEF LiveObj
      <4> QED BY <2>1, <4>1
    <3> QED BY <3>1, <3>2
  <2>4. ASSUME NEW q \in appendRpcs', q.from = j, q.obj = x, q.term = t, q.phase # "orphan"
        PROVE  LiveObj(j, x, t) \/ (j = i /\ x = o /\ t = n.currentTerm)
    <3>1. CASE q \in appendRpcs
      BY <2>4, <3>1 DEF LiveObj
    <3>2. CASE q \in AppendRequestsToAll(i, o, fresh, written, elected)
      BY <1>15, <2>4, <3>2
    <3> QED BY <1>1, <3>1, <3>2
  <2>5. LiveObj(j, x, t) \/ (j = i /\ x = o /\ t = n.currentTerm)
        \/ (node'[j].role = "leader" /\ x = Len(lead'[j]) /\ t = node'[j].currentTerm)
    BY <2>4 DEF LiveObj
  <2> QED BY <2>1, <2>2, <2>3, <2>5
<1> QED
  BY <1>16, <1>17, <1>18, <1>19, <1>21 DEF CommitStep

\* The continuation of sendRequestVote.
LEMMA RequestVoteReturnsCommits ==
    ASSUME Shape, Votes, NoLogFailure, NoLogFailure', NEW r \in voteRpcs, RequestVoteReturns(r)
    PROVE  CommitStep
<1> DEFINE i == r.from
           n == node[i]
           counted == [n EXCEPT !.votes = @ \cup {r.to}]
<1>1. /\ r \in VoteRpc /\ i \in Node /\ r.to \in Node /\ n \in NodeState /\ n.votes \in SUBSET Node
      /\ node \in [Node -> NodeState] /\ r.reply.term \in Nat /\ n.currentTerm \in Nat
      /\ events \in [EventKind -> Nat]
  BY DEF Shape, TypeOK, VoteRpc, VoteReply, NodeState, Term
<1>2. /\ counted \in NodeState /\ counted.votes = n.votes \cup {r.to}
      /\ counted.currentTerm = n.currentTerm /\ counted.commitIndex = n.commitIndex
      /\ counted.role = n.role
  <2> HIDE DEF n
  <2> QED BY <1>1 DEF NodeState
<1>3. ASSUME NEW m, node' = [node EXCEPT ![i] = m], m.commitIndex = n.commitIndex,
             m.role = "leader" => n.role = "leader" /\ m.currentTerm = n.currentTerm,
             UNCHANGED <<log, lead, appendRpcs, committed>>
      PROVE  CommitStep
  <2>1. \A j \in Node : node'[j] = IF j = i THEN m ELSE node[j]
    BY <1>1, <1>3
  <2>2. StillStep
    BY <1>3, <2>1 DEF StillStep
  <2> QED BY <2>2, StillCommitStep
<1>4. ASSUME NEW storeFails \in BOOLEAN,
             node' = [node EXCEPT ![i] = StepDown(n, r.reply.term, storeFails)],
             UNCHANGED <<log, lead, appendRpcs, committed>>
      PROVE  CommitStep
  <2> DEFINE m == StepDown(n, r.reply.term, storeFails)
  <2>1. Calm(n, m) /\ m.commitIndex = n.commitIndex
    BY <1>1, NodeOpsCalm, NodeOpsCommit
  <2>2. node' = [node EXCEPT ![i] = m]
    BY <1>4
  <2> HIDE DEF m
  <2> QED BY <1>3, <1>4, <2>1, <2>2 DEF Calm
<1>5. ASSUME r.phase = "done", VoteCounts(r), counted.votes \in Quorum,
             BecomeLeader(i, counted, FALSE)
      PROVE  CommitStep
  <2>1. <<r.to, n.currentTerm, i>> \in ballots
    BY <1>5 DEF VoteCounts, Votes, GrantsAreBallots
  <2>2. counted.votes \subseteq Voters(n.currentTerm, i)
    BY <1>1, <1>2, <2>1 DEF Votes, VotesAreBallots, Voters
  <2>3. Voters(n.currentTerm, i) \subseteq Node
    BY DEF Voters
  <2>4. Won(n.currentTerm, i)
    BY <1>5, <2>2, <2>3, QuorumGrows DEF Won
  <2> HIDE DEF counted
  <2> QED BY <1>1, <1>2, <1>5, <2>4, BecomeLeaderCommits
<1>6. ASSUME NEW logFails \in BOOLEAN, Happen(When(logFails, "log")) PROVE logFails = FALSE
  <2>1. "log" \notin When(logFails, "log")
    BY <1>1, <1>6, NoFailureHappens
  <2> QED BY <1>6, <2>1 DEF When
<1>7. CASE \E storeFails \in BOOLEAN :
             /\ node' = [node EXCEPT ![i] = StepDown(n, r.reply.term, storeFails)]
             /\ UNCHANGED <<log, lead, appendRpcs, committed>>
  BY <1>4, <1>7
<1>8. CASE \E logFails \in BOOLEAN :
             /\ r.phase = "done" /\ VoteCounts(r) /\ counted.votes \in Quorum
             /\ BecomeLeader(i, counted, logFails)
             /\ Happen(When(logFails, "log"))
  <2> HIDE DEF counted
  <2> QED BY <1>5, <1>6, <1>8 DEF counted
<1>9. CASE /\ node' = [node EXCEPT ![i] = IF VoteCounts(r) THEN counted ELSE n]
           /\ UNCHANGED <<log, lead, appendRpcs, committed, events>>
  <2> HIDE DEF counted, n
  <2> QED BY <1>2, <1>3, <1>9
<1> QED
  BY <1>7, <1>8, <1>9 DEF RequestVoteReturns

\* A handler that leaves the logs and the commit indexes alone, and refuses.
LEMMA RefusalCommits ==
    ASSUME Shape, AllCalm, NEW r \in appendRpcs, NEW reply, ~reply.success,
           AppendHandled(r, reply), log' = log,
           \A j \in Node : node'[j].commitIndex = node[j].commitIndex
    PROVE  CommitStep
<1>1. /\ lead' = lead /\ committed' = committed
      /\ appendRpcs' = Answered(appendRpcs, r, reply)
  BY DEF AppendHandled, histVars
<1>2. NoNewObject
  BY <1>1 DEF NoNewObject, AllCalm, Calm
<1>3. OldCalls
  BY <1>1, CallAnswered DEF OldCalls
<1>4. OldMatches
  BY <1>1, SameMatches
<1>5. WritesMove
  BY DEF WritesMove
<1>6. CommitsMove
  <2>1. \A j \in Node : ~(node'[j].commitIndex > node[j].commitIndex)
    BY CommitIndexes
  <2> QED BY <1>1, <2>1 DEF CommitsMove
<1> QED
  BY <1>2, <1>3, <1>4, <1>5, <1>6, OldTallies DEF CommitStep

\* A handler that takes the entries over.
LEMMA AcceptCommits ==
    ASSUME Shape, AllCalm, NEW r \in appendRpcs, NEW reply, Accepted(r),
           AppendHandled(r, reply),
           \A j \in Node : j # r.to => node'[j].commitIndex = node[j].commitIndex,
           node'[r.to].commitIndex > node[r.to].commitIndex =>
             /\ node'[r.to].commitIndex <= r.commit
             /\ node'[r.to].commitIndex <= Len(log'[r.to])
    PROVE  CommitStep
<1>1. /\ lead' = lead /\ committed' = committed
      /\ appendRpcs' = Answered(appendRpcs, r, reply)
  BY DEF AppendHandled, histVars
<1>2. NoNewObject
  BY <1>1 DEF NoNewObject, AllCalm, Calm
<1>3. OldCalls
  BY <1>1, CallAnswered DEF OldCalls
<1>4. OldMatches
  BY <1>1, SameMatches
<1>5. WritesMove
  BY DEF WritesMove
<1>6. CommitsMove
  <2>1. \A j \in Node : node'[j].commitIndex > node[j].commitIndex => j = r.to
    BY CommitIndexes
  <2> QED BY <1>1, <2>1 DEF CommitsMove
<1> QED
  BY <1>2, <1>3, <1>4, <1>5, <1>6, OldTallies DEF CommitStep

\* HandleAppendEntries.
LEMMA DeliverAppendCommits ==
    ASSUME Shape, NoLogFailure, NoLogFailure', NEW r \in appendRpcs,
           DeliverAppendRefused(r) \/ DeliverAppendEntries(r)
    PROVE  CommitStep
<1>1. /\ r \in AppendRpc /\ r.to \in Node /\ r.term \in Nat /\ node \in [Node -> NodeState]
      /\ log \in [Node -> Seq(Entry)] /\ log[r.to] \in Seq(Entry) /\ node[r.to] \in NodeState
      /\ node[r.to].currentTerm \in Nat /\ node[r.to].commitIndex \in Nat
      /\ r.prevIndex \in Nat /\ r.commit \in Nat /\ Len(log[r.to]) \in Nat
      /\ events \in [EventKind -> Nat]
  BY LenProperties DEF Shape, TypeOK, AppendRpc, Index, Term, NodeState
<1>2. AllCalm
  BY DeliverAppendFacts
<1>3. CASE DeliverAppendRefused(r)
  <2> DEFINE reply == [NoAppend EXCEPT !.term = node[r.to].currentTerm]
  <2>1. /\ AppendHandled(r, reply) /\ node' = node /\ log' = log
    BY <1>3 DEF DeliverAppendRefused
  <2>2. ~reply.success
    BY DEF NoAppend
  <2> HIDE DEF reply
  <2> QED BY <1>2, <2>1, <2>2, RefusalCommits
<1>4. ASSUME ~RefusesAppend(node[r.to], r), NEW termFails \in BOOLEAN
      PROVE  LET n == FollowerState(node[r.to], r, termFails)
             IN  n \in NodeState /\ n.currentTerm = r.term /\ n.commitIndex = node[r.to].commitIndex
  <2>1. HandlerBecomesFollower(node[r.to], r.term, termFails).commitIndex = node[r.to].commitIndex
    BY <1>1, NodeOpsCommit
  <2> QED BY <1>1, <1>4, <2>1, FollowsInTerm DEF FollowerState
<1>5. ASSUME ~RefusesAppend(node[r.to], r), NEW termFails \in BOOLEAN,
             node' = [node EXCEPT ![r.to] = FollowerState(node[r.to], r, termFails)],
             NEW ci, NEW ct, NEW tt,
             AppendHandled(r, [term |-> tt, success |-> FALSE, conflictIndex |-> ci, conflictTerm |-> ct]),
             log' = log
      PROVE  CommitStep
  <2>1. \A j \in Node : node'[j].commitIndex = node[j].commitIndex
    BY <1>1, <1>4, <1>5
  <2> DEFINE reply == [term |-> tt, success |-> FALSE, conflictIndex |-> ci, conflictTerm |-> ct]
  <2>2. ~reply.success /\ AppendHandled(r, reply)
    BY <1>5
  <2> HIDE DEF reply
  <2> QED BY <1>2, <1>5, <2>1, <2>2, RefusalCommits
<1>6. ASSUME r.phase # "done", ~RefusesAppend(node[r.to], r), NEW termFails \in BOOLEAN,
             r.prevIndex <= LastIndex(log[r.to]),
             CheckLogConsistency(log[r.to], r.prevIndex, r.prevTerm).ok,
             NEW after, after = AppendEntries(log[r.to], r.prevIndex, r.entries),
             after \in Seq(Entry),
             log' = [log EXCEPT ![r.to] = after],
             node' = [node EXCEPT ![r.to] =
               [FollowerState(node[r.to], r, termFails) EXCEPT !.leaderId = r.leaderId,
                  !.commitIndex = SetCommitIndex(after, FollowerState(node[r.to], r, termFails).commitIndex, r.commit)]],
             NEW reply, AppendHandled(r, reply)
      PROVE  CommitStep
  <2> DEFINE lg == log[r.to]
             n == FollowerState(node[r.to], r, termFails)
             c == SetCommitIndex(after, n.commitIndex, r.commit)
             m == [n EXCEPT !.leaderId = r.leaderId, !.commitIndex = c]
  <2>1. r.prevIndex <= Len(lg)
    BY <1>6 DEF LastIndex
  <2>2. r.prevIndex = 0 \/ lg[r.prevIndex].term = r.prevTerm
    <3>1. r.prevIndex = 0 \/ TermAt(lg, r.prevIndex) = r.prevTerm
      BY <1>6 DEF CheckLogConsistency
    <3> QED BY <1>1, <2>1, <3>1 DEF TermAt
  <2>3. n \in NodeState /\ n.currentTerm = r.term /\ n.commitIndex = node[r.to].commitIndex
    BY <1>4, <1>6
  <2>4. node' = [node EXCEPT ![r.to] = m]
    BY <1>6
  <2>5. c > node[r.to].commitIndex => c <= r.commit /\ c <= Len(after)
    <3>1. Len(after) \in Nat
      BY <1>6, LenProperties
    <3> HIDE DEF n
    <3> QED BY <1>1, <2>3, <3>1 DEF SetCommitIndex, LastIndex
  <2> HIDE DEF n, c
  <2>6. m.currentTerm = r.term /\ m.commitIndex = c
    BY <2>3 DEF NodeState
  <2> HIDE DEF m
  <2>7. /\ node'[r.to] = m /\ log'[r.to] = after
        /\ \A j \in Node : j # r.to => node'[j] = node[j]
    BY <1>1, <1>6, <2>4
  <2>8. Accepted(r)
    BY <1>6, <2>1, <2>2, <2>6, <2>7 DEF Accepted
  <2> QED BY <1>2, <1>6, <2>5, <2>6, <2>7, <2>8, AcceptCommits
<1>7. CASE DeliverAppendEntries(r)
  <2>1. PICK termFails \in BOOLEAN, logFails \in BOOLEAN :
         LET v  == r.to
             lg == log[v]
             n  == FollowerState(node[v], r, termFails)
             check == CheckLogConsistency(lg, r.prevIndex, r.prevTerm)
         IN  /\ Happen(When(termFails, "store") \cup When(logFails, "log"))
             /\ \/ /\ node' = [node EXCEPT ![v] = n]
                   /\ \E ci, ct : AppendHandled(r, [term |-> n.currentTerm, success |-> FALSE,
                        conflictIndex |-> ci, conflictTerm |-> ct])
                   /\ UNCHANGED log
                \/ /\ r.prevIndex <= LastIndex(lg) /\ check.ok
                   /\ \E after \in LogsAfterAppend(lg, r, logFails) :
                        /\ log' = [log EXCEPT ![v] = after]
                        /\ node' = [node EXCEPT ![v] = [n EXCEPT !.leaderId = r.leaderId,
                             !.commitIndex = SetCommitIndex(after, @, r.commit)]]
                   /\ AppendHandled(r, [NoAppend EXCEPT !.term = n.currentTerm,
                                                        !.success = TRUE])
    BY <1>7 DEF DeliverAppendEntries
  <2>2. ~RefusesAppend(node[r.to], r) /\ r.phase # "done"
    BY <1>7 DEF DeliverAppendEntries
  <2>3. logFails = FALSE
    <3>1. "log" \notin When(termFails, "store") \cup When(logFails, "log")
      BY <1>1, <2>1, NoFailureHappens
    <3> QED BY <3>1 DEF When
  <2>4. \A after \in LogsAfterAppend(log[r.to], r, FALSE) :
          after = AppendEntries(log[r.to], r.prevIndex, r.entries)
    BY DEF LogsAfterAppend
  <2>5. ASSUME r.prevIndex <= LastIndex(log[r.to]), NEW after \in LogsAfterAppend(log[r.to], r, FALSE)
        PROVE  after \in Seq(Entry)
    <3>1. r.prevIndex <= Len(log[r.to]) /\ FALSE \in BOOLEAN
      BY <2>5 DEF LastIndex
    <3> QED BY <1>1, <2>5, <3>1, LogsAfterAppendType
  <2> QED BY <1>5, <1>6, <2>1, <2>2, <2>3, <2>4, <2>5
<1> QED
  BY <1>3, <1>7

\* What the continuation counts: the request it sent, if it was taken over.
LEMMA LeaderOpsMatch ==
    ASSUME NEW l \in LeaderState, NEW r \in AppendRpc, NEW lg \in Seq(Entry),
           NEW reply \in AppendReply
    PROVE  /\ Returned(l, r).matchIndex = l.matchIndex
           /\ NackedState(l, r, lg, reply).matchIndex = l.matchIndex
           /\ \A p \in Node : p # r.to => AckedState(l, r).matchIndex[p] = l.matchIndex[p]
           /\ AckedState(l, r).matchIndex[r.to]
                = IF l.matchIndex[r.to] < EndOf(r) THEN EndOf(r) ELSE l.matchIndex[r.to]
<1> DEFINE a == Returned(l, r)
<1>1. a \in LeaderState /\ a.matchIndex = l.matchIndex
  <2>1. a.matchIndex = l.matchIndex
    BY DEF Returned, LeaderState
  <2> QED BY <2>1, LeaderOpsType
<1>2. PICK k \in Nat : k = r.prevIndex + Len(r.entries) /\ k = EndOf(r)
  <2>1. r.prevIndex \in Nat /\ Len(r.entries) \in Nat
    BY LenProperties DEF AppendRpc, Index
  <2> QED BY <2>1 DEF EndOf
<1>3. r.to \in Node
  BY DEF AppendRpc
<1> DEFINE g == [a.matchIndex EXCEPT ![r.to] = IF @ < k THEN k ELSE @]
           f == [a.nextIndex EXCEPT ![r.to] = IF @ < k + 1 THEN k + 1 ELSE @]
<1>4. AckedState(l, r) = [a EXCEPT !.matchIndex = g, !.nextIndex = f]
  BY <1>1, <1>2 DEF AckedState, LeaderState
<1> HIDE DEF a
<1>5. /\ \A p \in Node : p # r.to => AckedState(l, r).matchIndex[p] = a.matchIndex[p]
      /\ AckedState(l, r).matchIndex[r.to]
           = IF a.matchIndex[r.to] < k THEN k ELSE a.matchIndex[r.to]
  <2>1. a.matchIndex \in [Node -> Nat] /\ a.nextIndex \in [Node -> Nat \ {0}]
    BY <1>1 DEF LeaderState, Index
  <2>2. /\ g \in [Node -> Nat] /\ f \in [Node -> Nat \ {0}]
        /\ \A p \in Node : p # r.to => g[p] = a.matchIndex[p]
        /\ g[r.to] = IF a.matchIndex[r.to] < k THEN k ELSE a.matchIndex[r.to]
    BY <1>3, <2>1
  <2> HIDE DEF g, f
  <2>3. AckedState(l, r).matchIndex = g
    BY <1>1, <1>4, <2>2 DEF LeaderState, Index
  <2> QED BY <2>2, <2>3
<1>6. NackedState(l, r, lg, reply).matchIndex = l.matchIndex
  <2>1. \A x : [a EXCEPT !.nextIndex[r.to] = x].matchIndex = a.matchIndex
    BY <1>1 DEF LeaderState
  <2>2. \/ NackedState(l, r, lg, reply) = a
        \/ \E x : NackedState(l, r, lg, reply) = [a EXCEPT !.nextIndex[r.to] = x]
    BY DEF NackedState, a
  <2> QED BY <1>1, <2>1, <2>2
<1> QED
  BY <1>1, <1>2, <1>5, <1>6 DEF a

\* A continuation that only marks the peer idle.
LEMMA IdleCommits ==
    ASSUME Shape, AllCalm, NEW r \in appendRpcs, r.phase # "orphan",
           \A j \in Node : node'[j].commitIndex = node[j].commitIndex,
           lead' = [lead EXCEPT ![r.from][r.obj] = Returned(lead[r.from][r.obj], r)],
           appendRpcs' = GivenUp(appendRpcs, r), log' = log, committed' = committed
    PROVE  CommitStep
<1> DEFINE i == r.from
           l == lead[i][r.obj]
           m == Returned(l, r)
<1>1. /\ r \in AppendRpc /\ i \in Node
      /\ lead \in [Node -> Seq(LeaderState)] /\ lead[i] \in Seq(LeaderState)
  BY DEF Shape, TypeOK, AppendRpc
<1>2. r.obj \in 1..Len(lead[i]) /\ l \in LeaderState
  <2>1. r.obj \in 1..Len(lead[i])
    BY DEF Shape, LiveObjects
  <2> QED BY <1>1, <2>1, ElementOfSeq
<1>3. m \in LeaderState /\ m.matchIndex = l.matchIndex
  <2>1. m.matchIndex = l.matchIndex
    <3> HIDE DEF l
    <3> QED BY <1>2 DEF Returned, LeaderState
  <2>2. m \in LeaderState
    <3> HIDE DEF l
    <3> QED BY <1>2 DEF Returned, LeaderState
  <2> QED BY <2>1, <2>2
<1>4. lead' = [lead EXCEPT ![i][r.obj] = m]
  OBVIOUS
<1> HIDE DEF m, l
<1>5. /\ \A j \in Node : Len(lead'[j]) = Len(lead[j])
      /\ \A j \in Node : \A x \in 1..Len(lead[j]) :
           lead'[j][x] = IF j = i /\ x = r.obj THEN m ELSE lead[j][x]
  BY <1>1, <1>2, <1>3, <1>4, LeadUpdated
<1>6. NoNewObject
  BY <1>5 DEF NoNewObject, AllCalm, Calm
<1>7. OldCalls
  <2>1. \A q \in appendRpcs' : \E p \in appendRpcs : SameCall(q, p) /\ (IsAck(q) => IsAck(p))
    BY CallsGivenUp
  <2> QED BY <2>1 DEF OldCalls
<1>8. OldMatches
  <2>1. ASSUME NEW j \in Node, NEW x \in Nat, NEW t \in Nat, LiveObj(j, x, t)', NEW p \in Node
        PROVE  lead'[j][x].matchIndex[p] = lead[j][x].matchIndex[p]
    <3>1. x \in 1..Len(lead[j])
      BY <1>6, <1>7, <2>1, LiveBefore, LiveIsObject
    <3> QED BY <1>3, <1>5, <3>1 DEF l
  <2> QED BY <2>1, SameMatches
<1>9. CommitsMove
  <2>1. \A j \in Node : ~(node'[j].commitIndex > node[j].commitIndex)
    BY CommitIndexes
  <2> QED BY <2>1 DEF CommitsMove
<1>10. WritesMove
  BY DEF WritesMove
<1> QED
  BY <1>6, <1>7, <1>8, <1>9, <1>10, OldTallies DEF CommitStep

\* A continuation that uses the answer: the tally is raised, the commit index
\* follows it, and there may be a retry.
LEMMA UsedCommits ==
    ASSUME Shape, NEW r \in appendRpcs, r.phase # "orphan",
           NEW i \in Node, i = r.from, NEW o, o = r.obj, node[i].role = "leader",
           NEW m \in LeaderState,
           \A p \in Node : \A k \in Nat \ {0} : m.matchIndex[p] >= k => Acked(i, o, p, k),
           NEW w \in LeaderState, w.matchIndex = m.matchIndex,
           NEW commit \in Nat,
           commit = node[i].commitIndex \/ commit = AdvancedCommitIndex(node[i], log[i], m),
           NEW after, after.commitIndex = commit, after.role = "leader",
           after.currentTerm = node[i].currentTerm,
           NEW p1 \in Node, NEW term, term = r.term,
           node' = [node EXCEPT ![i] = after],
           lead' = [lead EXCEPT ![i][o] = w],
           appendRpcs' \subseteq GivenUp(appendRpcs, r)
                                   \cup {AppendRequest(i, o, p1, m, log[i], after, term)},
           committed' = committed \cup Declared(log[i], node[i].commitIndex, commit,
                                                node[i].currentTerm),
           log' = log
    PROVE  CommitStep
<1> DEFINE n == node[i]
           lg == log[i]
           again == AppendRequest(i, o, p1, m, lg, after, term)
<1>1. /\ r \in AppendRpc /\ lg \in Seq(Entry) /\ n \in NodeState
      /\ lead \in [Node -> Seq(LeaderState)] /\ lead[i] \in Seq(LeaderState)
      /\ node \in [Node -> NodeState] /\ Len(lg) \in Nat /\ term \in Nat
      /\ n.commitIndex \in Nat /\ n.currentTerm \in Nat
  BY LenProperties DEF Shape, TypeOK, AppendRpc, NodeState, Index, Term
<1>2. o \in 1..Len(lead[i]) /\ o \in Nat
  <2>1. o \in 1..Len(lead[i])
    BY DEF Shape, LiveObjects
  <2> QED BY <1>1, <2>1, LenProperties
<1>3. LiveObj(i, o, term)
  BY DEF LiveObj
<1>4. node'[i] = after /\ \A j \in Node : j # i => node'[j] = node[j]
  BY <1>1
<1>5. /\ \A j \in Node : Len(lead'[j]) = Len(lead[j])
      /\ \A j \in Node : \A x \in 1..Len(lead[j]) :
           lead'[j][x] = IF j = i /\ x = o THEN w ELSE lead[j][x]
  BY <1>1, <1>2, LeadUpdated
<1>6. NoNewObject
  BY <1>4, <1>5 DEF NoNewObject
<1>7. OldCalls
  <2> SUFFICES ASSUME NEW q \in appendRpcs'
               PROVE  \/ \E p \in appendRpcs : SameCall(q, p) /\ (IsAck(q) => IsAck(p) \/ Accepted(p))
                      \/ Fresh(q) /\ LiveObj(q.from, q.obj, q.term)
    BY DEF OldCalls
  <2>1. CASE q \in GivenUp(appendRpcs, r)
    BY <2>1, CallsGivenUp
  <2>2. CASE q = again
    <3>1. /\ q.from = i /\ q.obj = o /\ q.term = term
          /\ q.phase = "sent" /\ q.commit = after.commitIndex /\ CutFrom(q, lg)
      <4> HIDE DEF lg
      <4> QED BY <1>1, <2>2, AppendRequestCut
    <3>2. q.commit <= node'[i].commitIndex
      BY <1>4, <3>1
    <3> QED BY <1>1, <1>3, <1>4, <3>1, <3>2 DEF Fresh
  <2> QED BY <2>1, <2>2
<1>8. OldMatches
  <2> SUFFICES ASSUME NEW j \in Node, NEW x \in Nat, NEW t \in Nat, LiveObj(j, x, t)',
                      NEW p \in Node, NEW k \in Nat \ {0}, lead'[j][x].matchIndex[p] >= k
               PROVE  Acked(j, x, p, k)
    BY DEF OldMatches
  <2>1. x \in 1..Len(lead[j])
    BY <1>6, <1>7, LiveBefore, LiveIsObject
  <2>2. CASE ~(j = i /\ x = o)
    <3>1. lead'[j][x].matchIndex[p] = lead[j][x].matchIndex[p]
      BY <1>5, <2>1, <2>2
    <3> QED BY <3>1 DEF Acked
  <2>3. CASE j = i /\ x = o
    <3>1. m.matchIndex[p] >= k
      BY <1>5, <2>1, <2>3
    <3> QED BY <2>3, <3>1
  <2> QED BY <2>2, <2>3
<1>9. ASSUME commit > n.commitIndex PROVE Advances(i)
  <2> DEFINE c == MajorityMatch(m.matchIndex, Majority)
  <2>1. m.matchIndex \in [Node -> Nat]
    BY DEF LeaderState, Index
  <2>2. c \in Nat /\ {p \in Node : m.matchIndex[p] >= c} \in Quorum
    BY <2>1, MajorityMatched
  <2>3. /\ c \in 1..LastIndex(lg) /\ TermAt(lg, c) = n.currentTerm
        /\ commit = SetCommitIndex(lg, n.commitIndex, c)
    <3>1. commit # n.commitIndex
      BY <1>1, <1>9
    <3>2. commit = AdvancedCommitIndex(n, lg, m)
      BY <3>1
    <3> HIDE DEF n, lg
    <3> QED BY <3>1, <3>2 DEF AdvancedCommitIndex
  <2> HIDE DEF c
  <2>4. commit = c /\ c \in 1..Len(lg) /\ lg[c].term = n.currentTerm
    BY <1>1, <1>9, <2>2, <2>3 DEF SetCommitIndex, LastIndex, TermAt
  <2>5. {p \in Node : Acked(i, o, p, c)} \in Quorum
    <3>1. c \in Nat \ {0}
      BY <2>2, <2>4
    <3>2. {p \in Node : m.matchIndex[p] >= c} \subseteq {p \in Node : Acked(i, o, p, c)}
      BY <3>1
    <3>3. {p \in Node : Acked(i, o, p, c)} \subseteq Node
      OBVIOUS
    <3> QED BY <2>2, <3>2, <3>3, QuorumGrows
  <2>6. node'[i].commitIndex = c
    BY <1>4, <2>4
  <2>7. /\ c > n.commitIndex /\ c <= Len(log[i]) /\ log[i][c].term = n.currentTerm
        /\ committed' = committed \cup Declared(log[i], n.commitIndex, c, n.currentTerm)
    BY <1>1, <1>9, <2>4
  <2>8. \E x, t \in Nat : LiveObj(i, x, t) /\ {p \in Node : Acked(i, x, p, c)} \in Quorum
    BY <1>1, <1>2, <1>3, <2>5
  <2> QED BY <2>6, <2>7, <2>8 DEF Advances
<1>10. CommitsMove
  <2>1. CASE commit > n.commitIndex
    <3>1. Advances(i)
      BY <1>9, <2>1
    <3>2. \A j \in Node : node'[j].commitIndex > node[j].commitIndex => j = i
      BY <1>4, CommitIndexes
    <3> QED BY <3>1, <3>2 DEF CommitsMove
  <2>2. CASE ~(commit > n.commitIndex)
    <3>1. \A k : k \notin (n.commitIndex + 1)..commit
      BY <1>1, <2>2
    <3>2. Declared(log[i], n.commitIndex, commit, n.currentTerm) = {}
      BY <3>1 DEF Declared
    <3>3. committed' = committed
      BY <3>2
    <3>4. \A j \in Node : ~(node'[j].commitIndex > node[j].commitIndex)
      BY <1>4, <2>2, CommitIndexes
    <3> QED BY <3>3, <3>4 DEF CommitsMove
  <2> QED BY <2>1, <2>2
<1>11. WritesMove
  BY DEF WritesMove
<1> QED
  BY <1>6, <1>7, <1>8, <1>10, <1>11, OldTallies DEF CommitStep

\* The continuation of sendAppendEntriesToNode.
LEMMA AppendContinuesCommits ==
    ASSUME Shape, NEW r \in appendRpcs, r.phase # "orphan", NEW reply \in AppendReply, NEW cause,
           reply.success /\ reply.term = r.term => IsAck(r),
           AppendContinues(r, reply, cause), UNCHANGED <<log, preVoteRpcs, voteRpcs, ballots>>
    PROVE  CommitStep
<1> DEFINE i == r.from
           n == node[i]
<1>1. /\ r \in AppendRpc /\ i \in Node /\ n \in NodeState /\ node \in [Node -> NodeState]
      /\ reply.term \in Nat
  BY DEF Shape, TypeOK, AppendRpc, AppendReply, Term
<1>2. AllCalm
  BY AppendContinuesShape
<1>3. ASSUME NEW storeFails \in BOOLEAN,
             node' = [node EXCEPT ![i] = StepDown(n, reply.term, storeFails)],
             lead' = [lead EXCEPT ![i][r.obj] = Returned(lead[i][r.obj], r)],
             appendRpcs' = GivenUp(appendRpcs, r), UNCHANGED committed
      PROVE  CommitStep
  <2>1. StepDown(n, reply.term, storeFails).commitIndex = n.commitIndex
    BY <1>1, NodeOpsCommit
  <2>2. \A j \in Node : node'[j].commitIndex = node[j].commitIndex
    BY <1>1, <1>3, <2>1
  <2> QED BY <1>2, <1>3, <2>2, IdleCommits
<1>4. ASSUME node' = node,
             lead' = [lead EXCEPT ![i][r.obj] = Returned(lead[i][r.obj], r)],
             appendRpcs' = GivenUp(appendRpcs, r), UNCHANGED committed
      PROVE  CommitStep
  BY <1>2, <1>4, IdleCommits
<1> DEFINE l == lead[i][r.obj]
           lg == log[i]
           m == IF reply.success THEN AckedState(l, r) ELSE NackedState(l, r, lg, reply)
           commit == IF reply.success THEN AdvancedCommitIndex(n, lg, m) ELSE n.commitIndex
           retry == IF reply.success THEN m.nextIndex[r.to] <= LastIndex(lg)
                                     ELSE l.nextIndex[r.to] > 1
           after == [n EXCEPT !.commitIndex = commit]
<1>5. ASSUME UsesAppendReply(r, reply),
             node' = [node EXCEPT ![i] = after],
             lead' = [lead EXCEPT ![i][r.obj] =
                         IF retry THEN [m EXCEPT !.inflight = @ \cup {r.to}] ELSE m],
             appendRpcs' = GivenUp(appendRpcs, r) \cup
                IF retry THEN {AppendRequest(i, r.obj, r.to, m, lg, after, r.term)} ELSE {},
             committed' = committed \cup Declared(lg, n.commitIndex, commit, n.currentTerm)
      PROVE  CommitStep
  <2>1. n.role = "leader" /\ (reply.success => IsAck(r))
    BY <1>5 DEF UsesAppendReply
  <2>2. /\ lg \in Seq(Entry) /\ lead[i] \in Seq(LeaderState)
        /\ r.to \in Node /\ n.commitIndex \in Nat /\ n.currentTerm \in Nat
    BY <1>1 DEF Shape, TypeOK, AppendRpc, NodeState, Index, Term
  <2>3. l \in LeaderState
    <3>1. r.obj \in 1..Len(lead[i])
      BY DEF Shape, LiveObjects
    <3> QED BY <2>2, <3>1, ElementOfSeq
  <2>4. /\ m \in LeaderState
        /\ \A p \in Node : p # r.to => m.matchIndex[p] = l.matchIndex[p]
        /\ m.matchIndex[r.to] = l.matchIndex[r.to]
           \/ (reply.success /\ m.matchIndex[r.to] = EndOf(r))
    <3> HIDE DEF l, lg
    <3> QED BY <1>1, <2>2, <2>3, LeaderOpsMatch, LeaderOpsType
  <2>5. commit \in Nat
    <3> HIDE DEF m
    <3> QED BY <1>1, <2>2, AdvancedCommitIndexType
  <2> HIDE DEF m
  <2>6. ASSUME NEW p \in Node, NEW k \in Nat \ {0}, m.matchIndex[p] >= k
        PROVE  Acked(i, r.obj, p, k)
    <3>1. CASE m.matchIndex[p] = l.matchIndex[p]
      BY <2>6, <3>1 DEF Acked
    <3>2. CASE p = r.to /\ reply.success /\ m.matchIndex[r.to] = EndOf(r)
      BY <2>1, <2>6, <3>2 DEF Acked
    <3> QED BY <2>4, <3>1, <3>2
  <2> DEFINE w == IF retry THEN [m EXCEPT !.inflight = @ \cup {r.to}] ELSE m
  <2>7. w \in LeaderState /\ w.matchIndex = m.matchIndex
    <3> HIDE DEF retry
    <3> QED BY <2>2, <2>4 DEF LeaderState
  <2> HIDE DEF commit
  <2>8. after.commitIndex = commit /\ after.role = "leader" /\ after.currentTerm = n.currentTerm
    BY <1>1, <2>1, <2>5 DEF NodeState
  <2>9. commit = n.commitIndex \/ commit = AdvancedCommitIndex(n, lg, m)
    BY DEF commit
  <2> HIDE DEF after, retry, w
  <2>10. PICK o, to, term : o = r.obj /\ to = r.to /\ term = r.term
    OBVIOUS
  <2>11. lead' = [lead EXCEPT ![i][o] = w]
    BY <1>5, <2>10 DEF w
  <2>12. appendRpcs' \subseteq GivenUp(appendRpcs, r)
                                 \cup {AppendRequest(i, o, to, m, lg, after, term)}
    BY <1>5, <2>10
  <2>13. \A p \in Node : \A k \in Nat \ {0} : m.matchIndex[p] >= k => Acked(i, o, p, k)
    BY <2>6, <2>10
  <2>14. /\ committed' = committed \cup Declared(log[i], node[i].commitIndex, commit,
                                                 node[i].currentTerm)
         /\ node' = [node EXCEPT ![i] = after] /\ log' = log
    BY <1>5
  <2>15. PICK j \in Node : j = r.from
    BY <1>1
  <2> QED BY <2>1, <2>2, <2>4, <2>5, <2>7, <2>8, <2>9, <2>10, <2>11, <2>12, <2>13, <2>14, <2>15,
             UsedCommits
<1> HIDE DEF m, commit, retry, after
<1> QED
  BY <1>3, <1>4, <1>5 DEF AppendContinues, m, commit, retry, after

\* Both ways an append call ends.
LEMMA AppendReturnsCommits ==
    ASSUME Shape, NEW r \in appendRpcs, AppendEntriesReturns(r) \/ AppendEntriesFails(r)
    PROVE  CommitStep
<1>1. r.term \in Nat /\ r.reply \in AppendReply
  BY DEF Shape, TypeOK, AppendRpc, Term
<1>2. CASE AppendEntriesReturns(r)
  <2>1. r.phase = "done" /\ r.phase # "orphan"
    BY <1>2 DEF AppendEntriesReturns
  <2>2. r.reply.success /\ r.reply.term = r.term => IsAck(r)
    BY <2>1 DEF IsAck
  <2> QED BY <1>1, <1>2, <2>1, <2>2, AppendContinuesCommits DEF AppendEntriesReturns
<1>3. CASE AppendEntriesFails(r)
  <2>1. [NoAppend EXCEPT !.term = r.term] \in AppendReply /\ ~[NoAppend EXCEPT !.term = r.term].success
    BY <1>1 DEF NoAppend, AppendReply, Term, Index
  <2> QED BY <1>3, <2>1, AppendContinuesCommits DEF AppendEntriesFails
<1> QED
  BY <1>2, <1>3

\* Every step of a cluster whose log writes succeed is such a step.
LEMMA NextCommitStep ==
    ASSUME Shape, Votes, OneTerm, NoLogFailure, NoLogFailure', [Next]_vars
    PROVE  CommitStep
<1>1. CASE StillStep
  BY <1>1, StillCommitStep
<1>2. ASSUME NEW i \in Node, Restart(i) PROVE CommitStep
  <2>1. node[i] \in NodeState /\ TRUE \in BOOLEAN /\ 0 \in Nat
    BY DEF Shape, TypeOK
  <2> QED BY <1>2, <2>1, NodeOpsCalm, RebootCommits DEF Restart
<1>3. ASSUME NEW r \in preVoteRpcs, CrashMidElection(r) PROVE CommitStep
  <2>1. /\ node[r.from] \in NodeState /\ r.from \in Node /\ TRUE \in BOOLEAN /\ 0 \in Nat
    BY DEF Shape, TypeOK, PreVoteRpc
  <2>2. node[r.from].role # "leader"
    BY <1>3 DEF CrashMidElection, WinsPreVote, PreVoteCounts
  <2>3. /\ IncrementCurrentTerm(node[r.from]) \in NodeState
        /\ Calm(node[r.from], IncrementCurrentTerm(node[r.from]))
    BY <2>1, <2>2, NodeOpsCalm, NodeOpsType
  <2> QED BY <1>3, <2>1, <2>3, RebootCommits DEF CrashMidElection
<1>4. CASE UNCHANGED vars
  BY <1>1, <1>4 DEF vars, nodeVars, rpcVars, histVars, StillStep
<1>5. ASSUME NEW i \in Node, ElectionTimeout(i) \/ Disable(i) \/ Enable(i) PROVE CommitStep
  BY <1>1, <1>5, OwnStepStill
<1>6. ASSUME NEW r \in preVoteRpcs, DeliverPreVote(r) \/ PreVoteReturns(r) \/ PreVoteFails(r)
      PROVE  CommitStep
  BY <1>1, <1>6, PreVoteStill
<1>7. ASSUME NEW r \in voteRpcs,
             DeliverRequestVoteRefused(r) \/ DeliverRequestVote(r) \/ RequestVoteFails(r)
      PROVE  CommitStep
  BY <1>1, <1>7, VoterStill
<1> QED
  BY <1>2, <1>3, <1>4, <1>5, <1>6, <1>7, ProposeCommits, LeaderTickCommits,
     RequestVoteReturnsCommits, DeliverAppendCommits, AppendReturnsCommits DEF Next

----------------------------------------------------------------------------
(* Votes and the logs they are given to.                                   *)

\* q asks what p asks.
SameVoteCall(q, p) ==
    /\ q.from = p.from /\ q.to = p.to /\ q.term = p.term
    /\ q.lastIndex = p.lastIndex /\ q.lastTerm = p.lastTerm

\* A call for votes is an old one, or names the end of its sender's log.
VoteCallsMove ==
    \A q \in voteRpcs' :
      \/ \E p \in voteRpcs : SameVoteCall(q, p)
      \/ /\ q.from \in Node /\ log' = log
         /\ q.term > 0 /\ q.term = node'[q.from].currentTerm
         /\ q.lastIndex = LastIndex(log[q.from]) /\ q.lastTerm = LastTerm(log[q.from])

\* A new ballot is a candidate's own, or answers a call that names a log no
\* older than the voter's.
BallotsMove ==
    \A x \in ballots' : x \in ballots \/
      /\ log' = log /\ x[1] \in Node /\ x[3] \in Node
      /\ x[2] \in Nat /\ x[2] = node'[x[1]].currentTerm
      /\ \/ x[3] = x[1] /\ x[2] > 0
         \/ \E r \in voteRpcs :
              /\ r.to = x[1] /\ r.term = x[2] /\ r.from = x[3]
              /\ IsLogEqualOrMoreRecent(log[x[1]], r.lastIndex, r.lastTerm)

\* Both.
VoteStep == VoteCallsMove /\ BallotsMove

\* Most steps leave both alone.
LEMMA NoVoteStep ==
    ASSUME voteRpcs' \subseteq voteRpcs, ballots' = ballots
    PROVE  VoteStep
  BY DEF VoteStep, VoteCallsMove, BallotsMove, SameVoteCall

\* Calls that end.
LEMMA VoteCallsEnd ==
    ASSUME Shape
    PROVE  /\ \A r \in voteRpcs : \A reply : \A q \in Answered(voteRpcs, r, reply) :
                \E p \in voteRpcs : SameVoteCall(q, p)
           /\ \A r \in voteRpcs : \A q \in GivenUp(voteRpcs, r) :
                \E p \in voteRpcs : SameVoteCall(q, p)
           /\ \A i : \A q \in CallerDied(voteRpcs, i) : \E p \in voteRpcs : SameVoteCall(q, p)
<1>1. ASSUME NEW p \in voteRpcs PROVE SameVoteCall(p, p)
  BY DEF SameVoteCall
<1>2. ASSUME NEW p \in voteRpcs PROVE SameVoteCall([p EXCEPT !.phase = "orphan"], p)
  BY DEF Shape, TypeOK, VoteRpc, SameVoteCall
<1>3. ASSUME NEW p \in voteRpcs, NEW reply
      PROVE  SameVoteCall([p EXCEPT !.phase = "done", !.reply = reply], p)
  BY DEF Shape, TypeOK, VoteRpc, SameVoteCall
<1>4. ASSUME NEW r \in voteRpcs, NEW reply, NEW q \in Answered(voteRpcs, r, reply)
      PROVE  \E p \in voteRpcs : SameVoteCall(q, p)
  <2>1. q \in voteRpcs \/ q = [r EXCEPT !.phase = "done", !.reply = reply]
    BY <1>4 DEF Answered
  <2> QED BY <1>1, <1>3, <2>1
<1>5. ASSUME NEW r \in voteRpcs, NEW q \in GivenUp(voteRpcs, r)
      PROVE  \E p \in voteRpcs : SameVoteCall(q, p)
  <2>1. q \in voteRpcs \/ q = [r EXCEPT !.phase = "orphan"]
    BY <1>5 DEF GivenUp
  <2> QED BY <1>1, <1>2, <2>1
<1>6. ASSUME NEW i, NEW q \in CallerDied(voteRpcs, i)
      PROVE  \E p \in voteRpcs : SameVoteCall(q, p)
  <2>1. q \in voteRpcs \/ \E p \in voteRpcs : q = [p EXCEPT !.phase = "orphan"]
    BY <1>6 DEF CallerDied
  <2> QED BY <1>1, <1>2, <2>1
<1> QED
  BY <1>4, <1>5, <1>6

\* A candidate's vote for itself.
LEMMA StartElectionVoteStep ==
    ASSUME Shape, NEW i \in Node, NEW n \in NodeState,
           StartElection(i, n, "none"), log' = log
    PROVE  VoteStep
<1> DEFINE m == IncrementCurrentTerm(n)
           w == [m EXCEPT !.votedFor = i, !.votes = {i}]
<1>1. m \in NodeState /\ m.currentTerm \in Nat /\ m.currentTerm > 0
  <2>1. m.currentTerm = n.currentTerm + 1 /\ n.currentTerm \in Nat
    BY DEF IncrementCurrentTerm, NodeState, Term
  <2>2. m \in NodeState
    <3>1. 0 \in Nat /\ TRUE \in BOOLEAN
      OBVIOUS
    <3> QED BY <3>1, NodeOpsType
  <2> HIDE DEF m
  <2> QED BY <2>1, <2>2
<1> HIDE DEF m
<1>2. w.currentTerm = m.currentTerm
  BY <1>1 DEF NodeState
<1>3. /\ node' = [node EXCEPT ![i] = w]
      /\ ballots' = ballots \cup {<<i, m.currentTerm, i>>}
      /\ voteRpcs' = voteRpcs \cup
           {[from |-> i, to |-> p, term |-> m.currentTerm,
             lastIndex |-> LastIndex(log[i]), lastTerm |-> LastTerm(log[i]),
             phase |-> "sent", reply |-> NoVote] : p \in Node \ {i}}
  BY DEF StartElection, m
<1>4. node'[i].currentTerm = m.currentTerm
  <2>1. node \in [Node -> NodeState]
    BY DEF Shape, TypeOK
  <2> HIDE DEF w
  <2> QED BY <1>2, <1>3, <2>1
<1> HIDE DEF w
<1>5. BallotsMove
  <2> SUFFICES ASSUME NEW x \in ballots', x \notin ballots
               PROVE  /\ log' = log /\ x[1] \in Node /\ x[3] \in Node
                      /\ x[2] \in Nat /\ x[2] = node'[x[1]].currentTerm
                      /\ x[3] = x[1] /\ x[2] > 0
    BY DEF BallotsMove
  <2>1. x = <<i, m.currentTerm, i>>
    BY <1>3
  <2>2. x[1] = i /\ x[2] = m.currentTerm /\ x[3] = i
    BY <2>1
  <2> QED BY <1>1, <1>4, <2>2
<1>6. VoteCallsMove
  <2> SUFFICES ASSUME NEW q \in voteRpcs'
               PROVE  \/ \E p \in voteRpcs : SameVoteCall(q, p)
                      \/ /\ q.from \in Node /\ log' = log
                         /\ q.term > 0 /\ q.term = node'[q.from].currentTerm
                         /\ q.lastIndex = LastIndex(log[q.from])
                         /\ q.lastTerm = LastTerm(log[q.from])
    BY DEF VoteCallsMove
  <2>1. CASE q \in voteRpcs
    BY <2>1 DEF SameVoteCall
  <2>2. CASE q \notin voteRpcs
    <3>1. /\ q.from = i /\ q.term = m.currentTerm
          /\ q.lastIndex = LastIndex(log[i]) /\ q.lastTerm = LastTerm(log[i])
      BY <1>3, <2>2
    <3> QED BY <1>1, <1>4, <3>1
  <2> QED BY <2>1, <2>2
<1> QED
  BY <1>5, <1>6 DEF VoteStep

\* The vote of another node.
LEMMA DeliverRequestVoteVoteStep ==
    ASSUME Shape, NEW r \in voteRpcs, DeliverRequestVote(r)
    PROVE  VoteStep
<1>1. /\ r \in VoteRpc /\ r.to \in Node /\ r.from \in Node /\ node \in [Node -> NodeState]
      /\ node[r.to] \in NodeState /\ r.term \in Nat
  BY DEF Shape, TypeOK, VoteRpc, Term
<1>2. PICK termFails \in BOOLEAN, voteFails \in BOOLEAN :
        LET n == VoterState(node[r.to], r, termFails)
            grants == GrantsVote(n, log[r.to], r)
        IN  /\ node' = [node EXCEPT ![r.to] =
                 IF voteFails THEN MarkUnhealthy(n)
                 ELSE IF grants THEN [n EXCEPT !.votedFor = r.from] ELSE n]
            /\ ballots' = IF grants /\ ~voteFails
                            THEN ballots \cup {<<r.to, r.term, r.from>>} ELSE ballots
            /\ RequestVoteHandled(r, [term |-> n.currentTerm, granted |-> grants /\ ~voteFails])
  BY DEF DeliverRequestVote
<1> DEFINE n == VoterState(node[r.to], r, termFails)
           grants == GrantsVote(n, log[r.to], r)
<1>3. n \in NodeState /\ n.currentTerm = r.term
  <2>1. ~RefusesVote(node[r.to], r)
    BY DEF DeliverRequestVote
  <2> QED BY <1>1, <2>1, VoterStateFacts
<1>4. \E reply : voteRpcs' = Answered(voteRpcs, r, reply)
  BY <1>2 DEF RequestVoteHandled
<1>5. log' = log
  BY <1>2 DEF RequestVoteHandled
<1>6. VoteCallsMove
  BY <1>4, VoteCallsEnd DEF VoteCallsMove
<1>7. BallotsMove
  <2> SUFFICES ASSUME NEW x \in ballots', x \notin ballots
               PROVE  /\ log' = log /\ x[1] \in Node /\ x[3] \in Node
                      /\ x[2] \in Nat /\ x[2] = node'[x[1]].currentTerm
                      /\ r.to = x[1] /\ r.term = x[2] /\ r.from = x[3]
                      /\ IsLogEqualOrMoreRecent(log[x[1]], r.lastIndex, r.lastTerm)
    BY DEF BallotsMove
  <2>1. x = <<r.to, r.term, r.from>> /\ grants /\ ~voteFails
    BY <1>2
  <2>2. x[1] = r.to /\ x[2] = r.term /\ x[3] = r.from
    BY <2>1
  <2>3. IsLogEqualOrMoreRecent(log[r.to], r.lastIndex, r.lastTerm)
    <3> HIDE DEF n
    <3> QED BY <2>1 DEF GrantsVote
  <2>4. node' = [node EXCEPT ![r.to] = [n EXCEPT !.votedFor = r.from]]
    BY <1>2, <2>1
  <2>5. node'[r.to].currentTerm = r.term
    <3> HIDE DEF n
    <3>1. [n EXCEPT !.votedFor = r.from].currentTerm = r.term
      BY <1>3 DEF NodeState
    <3> QED BY <1>1, <2>4, <3>1
  <2> QED BY <1>1, <1>5, <2>2, <2>3, <2>5
<1> QED
  BY <1>6, <1>7 DEF VoteStep

\* Every step moves calls for votes and ballots so.
LEMMA NextVoteStep ==
    ASSUME Shape, [Next]_vars
    PROVE  VoteStep
<1>1. CASE UNCHANGED <<voteRpcs, ballots>>
  BY <1>1, NoVoteStep
<1>2. ASSUME NEW i \in Node, \/ ElectionTimeout(i) \/ Disable(i) \/ Enable(i)
                             \/ \E v \in Value : Propose(i, v)
                             \/ \E heartbeat, expired \in BOOLEAN : LeaderTick(i, heartbeat, expired)
      PROVE  VoteStep
  BY <1>1, <1>2 DEF ElectionTimeout, Disable, Enable, Propose, LeaderTick, rpcVars, histVars
<1>3. ASSUME NEW r, \/ DeliverPreVote(r) \/ DeliverAppendRefused(r) \/ DeliverAppendEntries(r)
                    \/ AppendEntriesReturns(r) \/ AppendEntriesFails(r)
      PROVE  VoteStep
  BY <1>1, <1>3 DEF DeliverPreVote, DeliverAppendRefused, DeliverAppendEntries, AppendHandled,
                    AppendEntriesReturns, AppendEntriesFails, histVars
<1>4. ASSUME NEW i, NEW n, Reboot(i, n) PROVE VoteStep
  <2>1. ballots' = ballots /\ voteRpcs' = CallerDied(voteRpcs, i)
    BY <1>4 DEF Reboot, histVars
  <2> QED BY <2>1, VoteCallsEnd DEF VoteStep, VoteCallsMove, BallotsMove
<1>5. ASSUME NEW r \in preVoteRpcs, NEW t \in Nat, NEW granted \in BOOLEAN,
             NEW failing \in {"none", "term", "vote"},
             PreVoteContinues(r, t, granted, failing), log' = log
      PROVE  VoteStep
  <2>1. CASE UNCHANGED <<ballots, voteRpcs>>
    BY <1>1, <2>1
  <2>2. CASE StartElection(r.from, WithPreVote(node[r.from], r), "none")
    <3>1. r.from \in Node /\ r \in PreVoteRpc /\ node[r.from] \in NodeState
      BY DEF Shape, TypeOK, PreVoteRpc
    <3>2. WithPreVote(node[r.from], r) \in NodeState
      BY <3>1, WithPreVoteType
    <3> QED BY <1>5, <2>2, <3>1, <3>2, StartElectionVoteStep
  <2> QED BY <1>5, <2>1, <2>2, PreVoteContinuesCases
<1>6. ASSUME NEW r \in preVoteRpcs, PreVoteReturns(r) \/ PreVoteFails(r) PROVE VoteStep
  <2>1. r.term + 1 \in Nat /\ r.reply.term \in Nat /\ r.reply.granted \in BOOLEAN
    BY DEF Shape, TypeOK, PreVoteRpc, VoteReply, Term
  <2> QED BY <1>5, <1>6, <2>1 DEF PreVoteReturns, PreVoteFails
<1>7. ASSUME NEW r \in voteRpcs,
             DeliverRequestVoteRefused(r) \/ RequestVoteReturns(r) \/ RequestVoteFails(r)
      PROVE  VoteStep
  <2>1. ballots' = ballots
    BY <1>7 DEF DeliverRequestVoteRefused, RequestVoteReturns, RequestVoteFails, histVars
  <2>2. \/ voteRpcs' \subseteq voteRpcs
        \/ voteRpcs' = GivenUp(voteRpcs, r)
        \/ \E reply : voteRpcs' = Answered(voteRpcs, r, reply)
    BY <1>7 DEF DeliverRequestVoteRefused, RequestVoteReturns, RequestVoteFails, RequestVoteHandled
  <2>3. VoteCallsMove
    BY <2>2, VoteCallsEnd DEF VoteCallsMove, SameVoteCall
  <2> QED BY <2>1, <2>3 DEF VoteStep, BallotsMove
<1>8. CASE UNCHANGED vars
  BY <1>1, <1>8 DEF vars, rpcVars, histVars
<1> QED
  BY <1>2, <1>3, <1>4, <1>6, <1>7, <1>8, DeliverRequestVoteVoteStep
     DEF Next, Restart, CrashMidElection
=============================================================================
