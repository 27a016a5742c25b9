-------------------------- MODULE RaftShapeProofs --------------------------
(***************************************************************************)
(* Type correctness of Raft, for every cluster size, every batch size and  *)
(* every number of events.                                                 *)
(*                                                                         *)
(* TypeOK is not inductive as it stands: the continuation of an append     *)
(* call reads the leader object it belongs to, and a leader its own.       *)
(* Shape adds that these objects exist.  The module also introduces Calm,  *)
(* the relation between a node's old and new state that nearly every step  *)
(* satisfies, which the proofs about votes build on.                       *)
(***************************************************************************)
EXTENDS Raft, FiniteSetTheorems, SequenceTheorems, WellFoundedInduction, TLAPS

----------------------------------------------------------------------------
(* Minima, maxima and the functions of RaftLog.                            *)

\* A non-empty set of naturals has a least element, and Min picks it.
LEMMA MinOfNats ==
    ASSUME NEW S, S \subseteq Nat, S # {}
    PROVE  Min(S) \in S /\ \A y \in S : Min(S) <= y
<1> DEFINE R == {ss \in Nat \X Nat : ss[1] < ss[2]}
<1>1. IsWellFoundedOn(R, Nat)
  BY NatLessThanWellFounded, Zenon DEF OpToRel
<1>2. \E x \in S : \A y \in S : x <= y
  <2>1. PICK x \in S : \A y \in S : ~(<<y, x>> \in R)
    <3> HIDE DEF R
    <3> QED BY <1>1, WFMin
  <2>2. ASSUME NEW y \in S PROVE x <= y
    <3>1. x \in Nat /\ y \in Nat /\ ~(y < x)
      BY <2>1
    <3> QED BY <3>1
  <2> QED BY <2>2
<1> QED
  BY <1>2 DEF Min

\* A non-empty set of naturals with an upper bound has a greatest element,
\* and Max picks it.
LEMMA MaxOfNats ==
    ASSUME NEW n \in Nat, NEW S, S \subseteq 0..n, S # {}
    PROVE  Max(S) \in S /\ \A y \in S : Max(S) >= y
<1> DEFINE T == {n - x : x \in S}
<1>1. T \subseteq Nat /\ T # {}
  <2>1. \A x \in S : n - x \in Nat
    OBVIOUS
  <2>2. T # {}
    BY Zenon
  <2> QED BY <2>1, <2>2
<1>2. Min(T) \in T /\ \A y \in T : Min(T) <= y
  <2> HIDE DEF T
  <2> QED BY <1>1, MinOfNats
<1>3. PICK x \in S : Min(T) = n - x
  BY <1>2
<1>4. \A y \in S : n - x <= n - y
  BY <1>2, <1>3
<1>5. \E z \in S : \A y \in S : z >= y
  BY <1>4
<1> QED
  BY <1>5 DEF Max

\* Terms read from a log are terms.
LEMMA TermAtType ==
    ASSUME NEW lg \in Seq(Entry), NEW k
    PROVE  TermAt(lg, k) \in Nat
<1>1. k \in 1..Len(lg) => lg[k] \in Entry
  BY ElementOfSeq
<1> QED
  BY <1>1 DEF TermAt, Entry, Term

\* The last index and term of a log are naturals.
LEMMA LastType ==
    ASSUME NEW lg \in Seq(Entry)
    PROVE  LastIndex(lg) \in Nat /\ LastTerm(lg) \in Nat
  BY TermAtType, LenProperties DEF LastIndex, LastTerm

\* The scan for the last entry of a term returns an index.
LEMMA LastOfTermType ==
    ASSUME NEW lg \in Seq(Entry), NEW term \in Nat
    PROVE  GetLastLogEntryIndexOfTerm(lg, term) \in Nat
<1> DEFINE reached == {k \in 1..Len(lg) : lg[k].term <= term}
<1>1. Len(lg) \in Nat
  BY LenProperties
<1>2. reached \subseteq 0..Len(lg)
  BY <1>1
<1>3. reached # {} => Max(reached) \in Nat
  <2> HIDE DEF reached
  <2>1. reached # {} => Max(reached) \in reached
    BY <1>1, <1>2, MaxOfNats
  <2>2. \A x \in reached : x \in Nat
    BY <1>1, <1>2
  <2> QED BY <2>1, <2>2
<1> QED
  BY <1>3 DEF GetLastLogEntryIndexOfTerm

\* A refused consistency check answers with an index and a term.
LEMMA CheckType ==
    ASSUME NEW lg \in Seq(Entry), NEW index \in Nat, index <= Len(lg), NEW term \in Nat
    PROVE  LET check == CheckLogConsistency(lg, index, term)
           IN  ~check.ok => check.conflictIndex \in Nat /\ check.conflictTerm \in Nat
<1> DEFINE run == {j \in 1..index : \A m \in j..index : lg[m].term = lg[index].term}
<1>1. Len(lg) \in Nat
  BY LenProperties
<1>2. ASSUME index # 0
      PROVE  FirstIndexOfRun(lg, index) \in Nat /\ lg[index].term \in Nat
  <2>1. index \in run /\ run \subseteq Nat
    BY <1>2
  <2>2. Min(run) \in Nat
    <3> HIDE DEF run
    <3> QED BY <2>1, MinOfNats
  <2>3. lg[index] \in Entry
    BY <1>1, <1>2, ElementOfSeq
  <2>4. lg[index].term \in Nat
    BY <2>3 DEF Entry, Term
  <2> QED
    BY <2>2, <2>4 DEF FirstIndexOfRun
<1> QED
  BY <1>2 DEF CheckLogConsistency

\* Cutting a log at the first new entry and adding a piece of the request
\* gives a log: the cut never reaches past the end of the old log.
LEMMA SplicedType ==
    ASSUME NEW lg \in Seq(Entry), NEW entries \in Seq(Entry),
           NEW prev \in Nat, prev <= Len(lg),
           Unmatched(lg, prev, entries) # {},
           NEW n \in Int, n <= Len(entries)
    PROVE  SubSeq(lg, 1, prev + Min(Unmatched(lg, prev, entries)) - 1)
             \o SubSeq(entries, Min(Unmatched(lg, prev, entries)), n) \in Seq(Entry)
<1> DEFINE new == Unmatched(lg, prev, entries)
           f == Min(new)
<1>1. Len(lg) \in Nat /\ Len(entries) \in Nat
  BY LenProperties
<1>2. new \subseteq 1..Len(entries) /\ new \subseteq Nat /\ new # {}
  BY <1>1 DEF Unmatched
<1>3. f \in new /\ \A y \in new : f <= y
  <2> HIDE DEF new
  <2> QED BY <1>1, <1>2, MinOfNats
<1>4. f \in 1..Len(entries)
  BY <1>2, <1>3
<1>5. \A k \in 1..(f - 1) : prev + k <= Len(lg)
  <2> SUFFICES ASSUME NEW k \in 1..(f - 1) PROVE prev + k <= Len(lg)
    OBVIOUS
  <2>1. k \in 1..Len(entries) /\ k \notin new
    BY <1>1, <1>3, <1>4
  <2> QED BY <1>1, <2>1 DEF Unmatched
<1>6. \A k \in 1..(prev + f - 1) : lg[k] \in Entry
  <2> SUFFICES ASSUME NEW k \in 1..(prev + f - 1) PROVE k \in 1..Len(lg)
    BY ElementOfSeq
  <2>1. k > prev => k - prev \in 1..(f - 1)
    BY <1>1, <1>4
  <2>2. k > prev => prev + (k - prev) <= Len(lg)
    BY <1>5, <2>1
  <2> HIDE DEF f
  <2> QED BY <1>1, <2>2, <1>4
<1>7. SubSeq(lg, 1, prev + f - 1) \in Seq(Entry)
  <2> HIDE DEF f
  <2> QED BY <1>6, <1>4, SubSeqProperties
<1>8. \A k \in f..n : entries[k] \in Entry
  <2> HIDE DEF f
  <2> QED BY <1>1, <1>4, ElementOfSeq
<1>9. SubSeq(entries, f, n) \in Seq(Entry)
  <2> HIDE DEF f
  <2> QED BY <1>8, <1>4, SubSeqProperties
<1> QED
  BY <1>7, <1>9, ConcatProperties

\* Whatever fails on the way, appendEntries leaves a log.
LEMMA LogsAfterAppendType ==
    ASSUME NEW lg \in Seq(Entry), NEW r \in AppendRpc, NEW logFails \in BOOLEAN,
           r.prevIndex <= Len(lg),
           NEW after \in LogsAfterAppend(lg, r, logFails)
    PROVE  after \in Seq(Entry)
<1> DEFINE new == Unmatched(lg, r.prevIndex, r.entries)
           f == Min(new)
<1>1. r.prevIndex \in Nat /\ r.entries \in Seq(Entry)
  BY DEF AppendRpc, Index
<1>2. Len(lg) \in Nat /\ Len(r.entries) \in Nat
  BY <1>1, LenProperties
<1>3. AppendEntries(lg, r.prevIndex, r.entries) \in Seq(Entry)
  BY <1>1, <1>2, SplicedType DEF AppendEntries
<1>4. ASSUME NEW k \in 0..(Cardinality(new) - 1)
      PROVE  AppendEntriesCut(lg, r.prevIndex, r.entries, k) \in Seq(Entry)
  <2>1. CASE new = {}
    BY <2>1 DEF AppendEntriesCut
  <2>2. CASE new # {}
    <3>1. new \subseteq 1..Len(r.entries)
      BY DEF Unmatched
    <3>2. f \in 1..Len(r.entries) /\ \A y \in new : f <= y
      <4> HIDE DEF new
      <4>1. new \subseteq Nat
        BY <1>2, <3>1
      <4>2. f \in new /\ \A y \in new : f <= y
        BY <4>1, <2>2, MinOfNats
      <4> QED BY <4>2, <3>1
    <3>3. new \subseteq f..Len(r.entries)
      <4> HIDE DEF new
      <4> QED BY <3>1, <3>2, <1>2
    <3>4. /\ IsFiniteSet(f..Len(r.entries))
          /\ Cardinality(f..Len(r.entries)) = Len(r.entries) - f + 1
      <4> HIDE DEF f
      <4>1. f \in Int /\ Len(r.entries) \in Int /\ ~(f > Len(r.entries))
        BY <1>2, <3>2
      <4> QED BY <4>1, FS_Interval
    <3>5. /\ Cardinality(new) <= Len(r.entries) - f + 1
          /\ Cardinality(new) \in Nat
      <4>1. IsFiniteSet(new) /\ Cardinality(new) <= Cardinality(f..Len(r.entries))
        BY <3>3, <3>4, FS_Subset
      <4> QED
        BY <4>1, <3>4, FS_CardinalityType
    <3>6. f + k - 1 \in Int /\ f + k - 1 <= Len(r.entries)
      <4> HIDE DEF f, new
      <4> QED BY <3>5, <3>2, <1>2
    <3> QED
      BY <1>1, <2>2, <3>6, SplicedType DEF AppendEntriesCut
  <2> QED
    BY <2>1, <2>2
<1> QED
  BY <1>3, <1>4 DEF LogsAfterAppend

----------------------------------------------------------------------------
(* Types of the operators of Raft.                                         *)

\* Every change that a role makes to a node's state leaves a node state.
LEMMA NodeOpsType ==
    ASSUME NEW n \in NodeState, NEW term \in Nat, NEW fails \in BOOLEAN
    PROVE  /\ MarkUnhealthy(n) \in NodeState
           /\ BecomeFollower(n, term) \in NodeState
           /\ StepDown(n, term, fails) \in NodeState
           /\ HandlerBecomesFollower(n, term, fails) \in NodeState
           /\ IncrementCurrentTerm(n) \in NodeState
           /\ Rebooted(n) \in NodeState
<1>0. <<>> \in Seq(SUBSET Node)
  BY EmptySeq
<1>1. \A m \in NodeState : MarkUnhealthy(m) \in NodeState
  BY DEF MarkUnhealthy, NodeState
<1>2. AdoptTerm(n, term) \in NodeState
  BY <1>0 DEF AdoptTerm, NodeState, Term
<1>3. BecomeFollower(n, term) \in NodeState
  <2> DEFINE m == IF term > n.currentTerm THEN AdoptTerm(n, term) ELSE n
  <2>1. m \in NodeState
    BY <1>2
  <2>2. [m EXCEPT !.role = "follower", !.stopped = FALSE, !.leaderId = Nil] \in NodeState
    <3> HIDE DEF m
    <3> QED BY <2>1 DEF NodeState
  <2> QED BY <2>2 DEF BecomeFollower
<1>4. BecomeFollowerUnsaved(n) \in NodeState
  <2>1. [n EXCEPT !.role = "follower", !.stopped = FALSE] \in NodeState
    BY DEF NodeState
  <2> QED BY <1>1, <2>1 DEF BecomeFollowerUnsaved
<1>5. StepDown(n, term, fails) \in NodeState
  BY <1>3, <1>4 DEF StepDown
<1>6. HandlerBecomesFollower(n, term, fails) \in NodeState
  BY <1>1, <1>3 DEF HandlerBecomesFollower
<1>7. IncrementCurrentTerm(n) \in NodeState
  <2>1. n.currentTerm + 1 \in Nat
    BY DEF NodeState, Term
  <2>2. \A t \in Nat : [n EXCEPT !.currentTerm = t, !.preVotes = <<>>, !.votes = {}] \in NodeState
    BY <1>0 DEF NodeState, Term
  <2> QED BY <2>1, <2>2 DEF IncrementCurrentTerm
<1>8. Rebooted(n) \in NodeState
  BY <1>0 DEF Rebooted, NodeState, Index
<1> QED
  BY <1>1, <1>3, <1>5, <1>6, <1>7, <1>8

\* A node that has counted a pre-vote is a node.
LEMMA WithPreVoteType ==
    ASSUME NEW n \in NodeState, NEW r \in PreVoteRpc
    PROVE  WithPreVote(n, r) \in NodeState
<1>1. n.preVotes \in Seq(SUBSET Node)
  BY DEF NodeState
<1>2. [n.preVotes EXCEPT ![r.round] = @ \cup {r.to}] \in Seq(SUBSET Node)
  <2>1. CASE r.round \in 1..Len(n.preVotes)
    <3>1. n.preVotes[r.round] \in SUBSET Node
      BY <1>1, <2>1, ElementOfSeq
    <3>2. n.preVotes[r.round] \cup {r.to} \in SUBSET Node
      BY <3>1 DEF PreVoteRpc
    <3> QED BY <1>1, <2>1, <3>2, ExceptSeq
  <2>2. CASE r.round \notin 1..Len(n.preVotes)
    <3>1. r.round \notin DOMAIN n.preVotes
      BY <1>1, <2>2, LenProperties
    <3>2. [n.preVotes EXCEPT ![r.round] = @ \cup {r.to}] = n.preVotes
      BY <1>1, <3>1, LenProperties
    <3> QED BY <1>1, <3>2
  <2> QED BY <2>1, <2>2
<1>3. WithPreVote(n, r) = [n EXCEPT !.preVotes = [n.preVotes EXCEPT ![r.round] = @ \cup {r.to}]]
  BY DEF WithPreVote
<1>4. \A tally \in Seq(SUBSET Node) : [n EXCEPT !.preVotes = tally] \in NodeState
  BY DEF NodeState
<1> QED
  BY <1>2, <1>3, <1>4

\* What becomes of a set of remote calls.
LEMMA VoteRpcsType ==
    ASSUME NEW rpcs \in SUBSET VoteRpc, NEW r \in VoteRpc, NEW reply \in VoteReply, NEW i
    PROVE  /\ Answered(rpcs, r, reply) \subseteq VoteRpc
           /\ GivenUp(rpcs, r) \subseteq VoteRpc
           /\ CallerDied(rpcs, i) \subseteq VoteRpc
<1>1. \A q \in VoteRpc : /\ [q EXCEPT !.phase = "done", !.reply = reply] \in VoteRpc
                         /\ [q EXCEPT !.phase = "orphan"] \in VoteRpc
  BY DEF VoteRpc, Phase
<1> QED
  BY <1>1 DEF Answered, GivenUp, CallerDied

\* The same for append calls.
LEMMA AppendRpcsType ==
    ASSUME NEW rpcs \in SUBSET AppendRpc, NEW r \in AppendRpc, NEW reply \in AppendReply, NEW i
    PROVE  /\ Answered(rpcs, r, reply) \subseteq AppendRpc
           /\ GivenUp(rpcs, r) \subseteq AppendRpc
           /\ CallerDied(rpcs, i) \subseteq AppendRpc
<1>1. \A q \in AppendRpc : /\ [q EXCEPT !.phase = "done", !.reply = reply] \in AppendRpc
                           /\ [q EXCEPT !.phase = "orphan"] \in AppendRpc
  BY DEF AppendRpc, Phase
<1> QED
  BY <1>1 DEF Answered, GivenUp, CallerDied

\* The same for pre-votes, which are never abandoned half-way.
LEMMA PreVoteRpcsType ==
    ASSUME NEW rpcs \in SUBSET PreVoteRpc, NEW r \in PreVoteRpc, NEW reply \in VoteReply
    PROVE  Answered(rpcs, r, reply) \subseteq PreVoteRpc
<1>1. [r EXCEPT !.phase = "done", !.reply = reply] \in PreVoteRpc
  BY DEF PreVoteRpc, Phase
<1> QED
  BY <1>1 DEF Answered

\* A request reads the log only where it has entries, whatever nextIndex is.
LEMMA AppendRequestType ==
    ASSUME NEW i \in Node, NEW o \in Nat, NEW p \in Node, NEW l \in LeaderState,
           NEW lg \in Seq(Entry), NEW n \in NodeState, NEW term \in Nat
    PROVE  AppendRequest(i, o, p, l, lg, n, term) \in AppendRpc
<1> DEFINE next == IF l.nextIndex[p] = 0 THEN LastIndex(lg) + 1 ELSE l.nextIndex[p]
           last == IF LastIndex(lg) - next + 1 > MaxBatchEntries
                     THEN next + MaxBatchEntries - 1 ELSE LastIndex(lg)
<1>1. next \in Nat /\ next >= 1
  <2>1. l.nextIndex[p] \in Nat \ {0}
    BY DEF LeaderState, Index
  <2> QED BY <2>1
<1>2. Len(lg) \in Nat /\ LastIndex(lg) = Len(lg) /\ MaxBatchEntries \in Nat
  BY LenProperties, BatchAssumption DEF LastIndex
<1>3. last \in Int /\ last <= Len(lg)
  <2> HIDE DEF next
  <2> QED BY <1>1, <1>2
<1>4. SubSeq(lg, next, last) \in Seq(Entry)
  <2>1. \A k \in next..last : lg[k] \in Entry
    <3> HIDE DEF next, last
    <3> QED BY <1>1, <1>2, <1>3, ElementOfSeq
  <2> HIDE DEF next, last
  <2> QED BY <1>1, <1>3, <2>1, SubSeqProperties
<1>5. next - 1 \in Nat /\ TermAt(lg, next - 1) \in Nat
  <2> HIDE DEF next
  <2> QED BY <1>1, TermAtType
<1>6. n.leaderId \in Node \cup {Nil} /\ n.commitIndex \in Nat
  BY DEF NodeState, Index
<1>7. NoAppend \in AppendReply
  BY DEF NoAppend, AppendReply, Term, Index
<1>8. AppendRequest(i, o, p, l, lg, n, term) =
        [from |-> i, to |-> p, obj |-> o, term |-> term, leaderId |-> n.leaderId,
         prevIndex |-> next - 1, prevTerm |-> TermAt(lg, next - 1),
         entries |-> SubSeq(lg, next, last), commit |-> n.commitIndex,
         phase |-> "sent", reply |-> NoAppend]
  BY DEF AppendRequest
<1> HIDE DEF next, last
<1> QED
  BY <1>4, <1>5, <1>6, <1>7, <1>8 DEF AppendRpc, Term, Index, Phase

\* One request to every idle peer: requests, and a leader object.
LEMMA AppendRequestsToAllType ==
    ASSUME NEW i \in Node, NEW o \in Nat, NEW l \in LeaderState,
           NEW lg \in Seq(Entry), NEW n \in NodeState
    PROVE  /\ AllInflight(i, l) \in LeaderState
           /\ AppendRequestsToAll(i, o, l, lg, n) \subseteq AppendRpc
<1>1. AllInflight(i, l) \in LeaderState
  BY DEF AllInflight, Idle, LeaderState
<1>2. n.currentTerm \in Nat
  BY DEF NodeState, Term
<1>3. Idle(i, l) \subseteq Node
  BY DEF Idle
<1> QED
  BY <1>1, <1>2, <1>3, AppendRequestType DEF AppendRequestsToAll

\* The commit index a leader computes is within its log or what it was.
LEMMA AdvancedCommitIndexType ==
    ASSUME NEW n \in NodeState, NEW lg \in Seq(Entry), NEW l
    PROVE  LET c == AdvancedCommitIndex(n, lg, l)
           IN  c \in Nat /\ (c <= Len(lg) \/ c = n.commitIndex)
<1> DEFINE candidate == MajorityMatch(l.matchIndex, Majority)
<1>1. n.commitIndex \in Nat /\ Len(lg) \in Nat /\ LastIndex(lg) = Len(lg)
  BY LenProperties DEF NodeState, Index, LastIndex
<1>2. ASSUME candidate \in 1..Len(lg)
      PROVE  LET c == SetCommitIndex(lg, n.commitIndex, candidate)
             IN  c \in Nat /\ (c <= Len(lg) \/ c = n.commitIndex)
  <2> HIDE DEF candidate
  <2> QED BY <1>1, <1>2 DEF SetCommitIndex
<1> HIDE DEF candidate
<1> QED
  BY <1>1, <1>2 DEF AdvancedCommitIndex, candidate

\* What is declared committed are entries of the log.
LEMMA DeclaredType ==
    ASSUME NEW lg \in Seq(Entry), NEW lo \in Nat, NEW hi \in Nat,
           hi <= Len(lg) \/ hi = lo, NEW term \in Nat
    PROVE  Declared(lg, lo, hi, term) \subseteq [index : Index, entry : Entry, term : Term]
<1>1. Len(lg) \in Nat
  BY LenProperties
<1>2. \A k \in (lo + 1)..hi : k \in Nat /\ k \in 1..Len(lg)
  BY <1>1
<1>3. \A k \in (lo + 1)..hi : k \in Nat /\ lg[k] \in Entry
  BY <1>2, ElementOfSeq
<1> QED
  BY <1>3 DEF Declared, Index, Term

----------------------------------------------------------------------------
(* What a step may do to one node.                                         *)

\* The persisted state moves forward: a later term, or the same term with the
\* vote kept once it is cast.
StoreStep(n, m) ==
    \/ m.currentTerm > n.currentTerm
    \/ m.currentTerm = n.currentTerm /\ n.votedFor \in {Nil, m.votedFor}

\* A step that neither counts a vote nor makes a leader: the tally is kept,
\* in the same term, or dropped, and a leader keeps its term and its tally.
Calm(n, m) ==
    /\ StoreStep(n, m)
    /\ m.votes = {} \/ (m.votes = n.votes /\ m.currentTerm = n.currentTerm)
    /\ m.role = "leader" => /\ n.role = "leader"
                            /\ m.votes = n.votes /\ m.currentTerm = n.currentTerm

\* Every node takes a calm step.
AllCalm == \A i \in Node : Calm(node[i], node'[i])

\* Two calm changes in one step are calm.
LEMMA CalmTransitive ==
    ASSUME NEW n \in NodeState, NEW m \in NodeState, NEW k \in NodeState,
           Calm(n, m), Calm(m, k)
    PROVE  Calm(n, k)
<1>1. /\ n.currentTerm \in Nat /\ m.currentTerm \in Nat /\ k.currentTerm \in Nat
      /\ n.votedFor \in Node \cup {Nil} /\ m.votedFor \in Node \cup {Nil}
  BY DEF NodeState, Term
<1> QED
  BY <1>1 DEF Calm, StoreStep

\* All the state changes roles are made of are calm, a new term included.
LEMMA NodeOpsCalm ==
    ASSUME NEW n \in NodeState, NEW term \in Nat, NEW fails \in BOOLEAN
    PROVE  /\ Calm(n, n)
           /\ Calm(n, MarkUnhealthy(n))
           /\ Calm(n, BecomeFollower(n, term)) /\ BecomeFollower(n, term).role = "follower"
           /\ Calm(n, StepDown(n, term, fails))
           /\ Calm(n, HandlerBecomesFollower(n, term, fails))
           /\ n.role # "leader" => Calm(n, IncrementCurrentTerm(n))
           /\ Calm(n, Rebooted(n)) /\ Rebooted(n).role = "follower"
<1>0. n.currentTerm \in Nat /\ n = [n EXCEPT !.role = n.role]
  BY DEF NodeState, Term
<1>1. Calm(n, n)
  BY <1>0 DEF Calm, StoreStep
<1>2. \A m \in NodeState : Calm(m, MarkUnhealthy(m))
  BY DEF Calm, StoreStep, MarkUnhealthy, NodeState, Term
<1>3. Calm(n, BecomeFollower(n, term)) /\ BecomeFollower(n, term).role = "follower"
  <2>1. CASE term > n.currentTerm
    BY <1>0, <2>1 DEF Calm, StoreStep, BecomeFollower, AdoptTerm, NodeState
  <2>2. CASE ~(term > n.currentTerm)
    BY <1>0, <2>2 DEF Calm, StoreStep, BecomeFollower, NodeState
  <2> QED BY <2>1, <2>2
<1>4. Calm(n, BecomeFollowerUnsaved(n))
  BY <1>0 DEF Calm, StoreStep, BecomeFollowerUnsaved, MarkUnhealthy, NodeState
<1>5. Calm(n, StepDown(n, term, fails))
  BY <1>1, <1>3, <1>4 DEF StepDown
<1>6. Calm(n, HandlerBecomesFollower(n, term, fails))
  <2>1. BecomeFollower(n, term) \in NodeState /\ MarkUnhealthy(BecomeFollower(n, term)) \in NodeState
    BY NodeOpsType
  <2>2. Calm(n, MarkUnhealthy(BecomeFollower(n, term)))
    BY <2>1, <1>2, <1>3, CalmTransitive
  <2> QED BY <1>3, <2>2 DEF HandlerBecomesFollower
<1>7. n.role # "leader" => Calm(n, IncrementCurrentTerm(n))
  BY <1>0 DEF Calm, StoreStep, IncrementCurrentTerm, NodeState
<1>8. Calm(n, Rebooted(n)) /\ Rebooted(n).role = "follower"
  BY <1>0 DEF Calm, StoreStep, Rebooted, NodeState
<1> QED
  BY <1>1, <1>2, <1>3, <1>5, <1>6, <1>7, <1>8

\* Counting a pre-vote is calm.
LEMMA WithPreVoteCalm ==
    ASSUME NEW n \in NodeState, NEW r \in PreVoteRpc
    PROVE  Calm(n, WithPreVote(n, r)) /\ WithPreVote(n, r).role = n.role
  BY DEF Calm, StoreStep, WithPreVote, NodeState, Term

\* If one node takes a calm step and the others none, all are calm.
LEMMA OneCalm ==
    ASSUME node \in [Node -> NodeState], NEW i \in Node, NEW m \in NodeState,
           Calm(node[i], m), node' = [node EXCEPT ![i] = m]
    PROVE  AllCalm /\ node' \in [Node -> NodeState]
<1>1. \A j \in Node : node[j] \in NodeState
  OBVIOUS
<1>2. \A j \in Node : Calm(node[j], node[j])
  <2>1. 0 \in Nat /\ TRUE \in BOOLEAN
    OBVIOUS
  <2> QED BY <1>1, <2>1, NodeOpsCalm
<1>3. \A j \in Node : node'[j] = IF j = i THEN m ELSE node[j]
  OBVIOUS
<1> QED
  BY <1>2, <1>3 DEF AllCalm

\* A step that changes no node is calm.
LEMMA NoneCalm ==
    ASSUME node \in [Node -> NodeState], UNCHANGED node
    PROVE  AllCalm /\ node' \in [Node -> NodeState]
<1>1. \A j \in Node : node[j] \in NodeState /\ 0 \in Nat /\ TRUE \in BOOLEAN
  OBVIOUS
<1>2. \A j \in Node : Calm(node[j], node[j])
  BY <1>1, NodeOpsCalm
<1> QED
  BY <1>2 DEF AllCalm

----------------------------------------------------------------------------
(* The structural invariant.                                               *)

\* A goroutine that has not been given up belongs to a leader object that
\* still exists.
LiveObjects ==
    \A r \in appendRpcs : r.phase # "orphan" => r.obj \in 1..Len(lead[r.from])

\* A node that leads has a leader object.
LeaderHasObject ==
    \A i \in Node : node[i].role = "leader" => Len(lead[i]) \in Nat \ {0}

\* The inductive strengthening of TypeOK.
Shape == TypeOK /\ LiveObjects /\ LeaderHasObject

\* Counting events keeps counters.
LEMMA HappenType ==
    ASSUME events \in [EventKind -> Nat], NEW K, Happen(K)
    PROVE  events' \in [EventKind -> Nat]
  BY DEF Happen

\* A cluster that starts is well-shaped.
LEMMA InitShape == Init => Shape
<1> SUFFICES ASSUME Init PROVE Shape
  OBVIOUS
<1>1. <<>> \in Seq(SUBSET Node) /\ <<>> \in Seq(Entry) /\ <<>> \in Seq(LeaderState)
  BY EmptySeq
<1>2. node \in [Node -> NodeState]
  BY <1>1 DEF Init, NodeState, Term, Index
<1>3. TypeOK
  BY <1>1, <1>2 DEF Init, TypeOK
<1> QED
  BY <1>3 DEF Init, Shape, LiveObjects, LeaderHasObject

----------------------------------------------------------------------------
(* Shape is preserved, action by action.                                   *)

\* Tick of a follower or candidate: a new candidate object and its pre-votes.
LEMMA ElectionTimeoutShape ==
    ASSUME Shape, NEW i \in Node, ElectionTimeout(i)
    PROVE  Shape'
<1> DEFINE tally == Append(node[i].preVotes, {i})
           n == [node[i] EXCEPT !.role = "candidate", !.preVotes = tally]
<1>1. node[i] \in NodeState /\ log[i] \in Seq(Entry)
  BY DEF Shape, TypeOK
<1>2. tally \in Seq(SUBSET Node)
  <2>1. node[i].preVotes \in Seq(SUBSET Node) /\ {i} \in SUBSET Node
    BY <1>1 DEF NodeState
  <2> QED BY <2>1, AppendProperties
<1>3. n \in NodeState /\ n.preVotes = tally /\ n.currentTerm \in Nat /\ n.role = "candidate"
  <2> HIDE DEF tally
  <2> QED BY <1>1, <1>2 DEF NodeState, Term
<1>4. Len(n.preVotes) \in Nat
  <2> HIDE DEF n
  <2> QED BY <1>2, <1>3, LenProperties
<1>5. /\ Happen({"timeout"})
      /\ node' = [node EXCEPT ![i] = n]
      /\ preVoteRpcs' = preVoteRpcs \cup
             {[from |-> i, to |-> p, term |-> n.currentTerm, round |-> Len(n.preVotes),
               lastIndex |-> LastIndex(log[i]), lastTerm |-> LastTerm(log[i]),
               phase |-> "sent", reply |-> NoVote] : p \in Node \ {i}}
      /\ UNCHANGED <<log, lead, voteRpcs, appendRpcs, histVars>>
  BY DEF ElectionTimeout
<1> HIDE DEF n
<1>6. preVoteRpcs' \subseteq PreVoteRpc
  <2>1. NoVote \in VoteReply
    BY DEF NoVote, VoteReply, Term
  <2> QED
    BY <1>1, <1>3, <1>4, <1>5, <2>1, LastType DEF PreVoteRpc, Shape, TypeOK, Phase, Term, Index
<1>7. TypeOK'
  BY <1>3, <1>5, <1>6, HappenType DEF Shape, TypeOK, histVars
<1>8. LiveObjects'
  BY <1>5 DEF Shape, LiveObjects
<1>9. LeaderHasObject'
  BY <1>3, <1>5 DEF Shape, TypeOK, LeaderHasObject
<1> QED
  BY <1>7, <1>8, <1>9 DEF Shape

\* HandlePreVote changes nothing but the call.
LEMMA DeliverPreVoteShape ==
    ASSUME Shape, NEW r \in preVoteRpcs, DeliverPreVote(r)
    PROVE  Shape'
<1>1. r \in PreVoteRpc /\ r.to \in Node
  BY DEF Shape, TypeOK, PreVoteRpc
<1>2. node[r.to].currentTerm \in Nat
  BY <1>1 DEF Shape, TypeOK, NodeState, Term
<1>3. PreVoteGranted(node[r.to], log[r.to], r) \in BOOLEAN
  BY DEF PreVoteGranted
<1>4. [term |-> node[r.to].currentTerm,
       granted |-> PreVoteGranted(node[r.to], log[r.to], r)] \in VoteReply
  BY <1>2, <1>3 DEF VoteReply, Term
<1>5. preVoteRpcs' \subseteq PreVoteRpc
  BY <1>1, <1>4, PreVoteRpcsType DEF DeliverPreVote, Shape, TypeOK
<1> QED
  BY <1>5 DEF DeliverPreVote, Shape, TypeOK, LiveObjects, LeaderHasObject, nodeVars, histVars

\* The continuation of a pre-vote changes its own node only: it starts an
\* election, or is calm and asks for no vote.
LEMMA PreVoteContinuesCases ==
    ASSUME Shape, NEW r \in preVoteRpcs, NEW t \in Nat, NEW granted \in BOOLEAN,
           NEW failing \in {"none", "term", "vote"},
           PreVoteContinues(r, t, granted, failing)
    PROVE  /\ node' \in [Node -> NodeState]
           /\ \/ AllCalm /\ UNCHANGED <<ballots, voteRpcs>>
              \/ /\ WinsPreVote(r, t, granted)
                 /\ StartElection(r.from, WithPreVote(node[r.from], r), "none")
<1> DEFINE i == r.from
           n == node[i]
           w == WithPreVote(n, r)
<1>1. r \in PreVoteRpc /\ i \in Node /\ n \in NodeState /\ node \in [Node -> NodeState]
  BY DEF Shape, TypeOK, PreVoteRpc
<1>2. w \in NodeState /\ Calm(n, w) /\ w.role = n.role
  BY <1>1, WithPreVoteType, WithPreVoteCalm
<1>3. (failing = "term") \in BOOLEAN
  OBVIOUS
<1>4. CASE /\ t > n.currentTerm
           /\ node' = [node EXCEPT ![i] = StepDown(n, t, failing = "term")]
           /\ UNCHANGED <<ballots, voteRpcs>>
  <2>1. StepDown(n, t, failing = "term") \in NodeState
    BY <1>1, <1>3, NodeOpsType
  <2>2. Calm(n, StepDown(n, t, failing = "term"))
    BY <1>1, <1>3, NodeOpsCalm
  <2> QED BY <1>1, <1>4, <2>1, <2>2, OneCalm
<1>5. CASE WinsPreVote(r, t, granted) /\ StartElection(i, w, failing)
  <2> DEFINE m == IncrementCurrentTerm(w)
  <2>0. TRUE \in BOOLEAN
    OBVIOUS
  <2>1. w.role # "leader"
    BY <1>2, <1>5 DEF WinsPreVote, PreVoteCounts
  <2>2. m \in NodeState /\ Calm(w, m) /\ MarkUnhealthy(w) \in NodeState /\ Calm(w, MarkUnhealthy(w))
    BY <2>0, <1>2, <2>1, NodeOpsType, NodeOpsCalm
  <2>3. MarkUnhealthy(m) \in NodeState /\ Calm(m, MarkUnhealthy(m))
    BY <2>0, <2>2, NodeOpsType, NodeOpsCalm
  <2>4. CASE failing = "none"
    <3>1. node' = [node EXCEPT ![i] = [m EXCEPT !.votedFor = i, !.votes = {i}]]
      BY <1>5, <2>4 DEF StartElection
    <3>2. [m EXCEPT !.votedFor = i, !.votes = {i}] \in NodeState
      <4> HIDE DEF m
      <4> QED BY <1>1, <2>2 DEF NodeState
    <3> QED BY <1>1, <1>5, <2>4, <3>1, <3>2
  <2>5. CASE failing = "term"
    <3>1. node' = [node EXCEPT ![i] = MarkUnhealthy(w)] /\ UNCHANGED <<ballots, voteRpcs>>
      BY <1>5, <2>5 DEF StartElection
    <3>2. Calm(n, MarkUnhealthy(w))
      BY <1>1, <1>2, <2>2, CalmTransitive
    <3> QED BY <1>1, <2>2, <3>1, <3>2, OneCalm
  <2>6. CASE failing = "vote"
    <3>1. node' = [node EXCEPT ![i] = MarkUnhealthy(m)] /\ UNCHANGED <<ballots, voteRpcs>>
      BY <1>5, <2>6 DEF StartElection
    <3>2. Calm(n, m)
      BY <1>1, <1>2, <2>2, CalmTransitive
    <3>3. Calm(n, MarkUnhealthy(m))
      BY <1>1, <2>2, <2>3, <3>2, CalmTransitive
    <3> QED BY <1>1, <2>3, <3>1, <3>3, OneCalm
  <2> QED BY <2>4, <2>5, <2>6
<1>6. CASE node' = [node EXCEPT ![i] = w] /\ UNCHANGED <<ballots, voteRpcs>>
  BY <1>1, <1>2, <1>6, OneCalm
<1>7. CASE UNCHANGED <<node, ballots, voteRpcs>>
  BY <1>1, <1>7, NoneCalm
<1> QED
  BY <1>4, <1>5, <1>6, <1>7 DEF PreVoteContinues

\* An election adds a ballot of the candidate and requests for votes.
LEMMA StartElectionType ==
    ASSUME Shape, NEW i \in Node, NEW n \in NodeState, StartElection(i, n, "none")
    PROVE  /\ ballots' \subseteq Node \X Term \X Node
           /\ voteRpcs' \subseteq VoteRpc
           /\ node'[i].role = n.role
           /\ \A j \in Node \ {i} : node'[j] = node[j]
<1> DEFINE m == IncrementCurrentTerm(n)
<1>1. TRUE \in BOOLEAN /\ 0 \in Nat
  OBVIOUS
<1>2. m \in NodeState
  BY <1>1, NodeOpsType
<1>3. /\ node' = [node EXCEPT ![i] = [m EXCEPT !.votedFor = i, !.votes = {i}]]
      /\ ballots' = ballots \cup {<<i, m.currentTerm, i>>}
      /\ voteRpcs' = voteRpcs \cup
           {[from |-> i, to |-> p, term |-> m.currentTerm,
             lastIndex |-> LastIndex(log[i]), lastTerm |-> LastTerm(log[i]),
             phase |-> "sent", reply |-> NoVote] : p \in Node \ {i}}
  BY DEF StartElection
<1>4. m.role = n.role
  BY DEF IncrementCurrentTerm, NodeState
<1>5. m.currentTerm \in Nat
  <2> HIDE DEF m
  <2> QED BY <1>2 DEF NodeState, Term
<1>6. log[i] \in Seq(Entry) /\ NoVote \in VoteReply
  BY DEF Shape, TypeOK, NoVote, VoteReply, Term
<1> HIDE DEF m
<1>7. voteRpcs' \subseteq VoteRpc
  BY <1>3, <1>5, <1>6, LastType DEF VoteRpc, Shape, TypeOK, Phase, Term, Index
<1>8. ballots' \subseteq Node \X Term \X Node
  BY <1>3, <1>5 DEF Shape, TypeOK, Term
<1>9. node'[i].role = n.role /\ \A j \in Node \ {i} : node'[j] = node[j]
  BY <1>2, <1>3, <1>4 DEF Shape, TypeOK, NodeState
<1> QED
  BY <1>7, <1>8, <1>9

\* Hence a finished pre-vote, answered or failed, leaves the shape.
LEMMA PreVoteStepShape ==
    ASSUME Shape, NEW r \in preVoteRpcs, NEW t \in Nat, NEW granted \in BOOLEAN,
           NEW failing \in {"none", "term", "vote"},
           PreVoteContinues(r, t, granted, failing),
           preVoteRpcs' = preVoteRpcs \ {r},
           UNCHANGED <<log, lead, appendRpcs, committed>>,
           events' \in [EventKind -> Nat]
    PROVE  Shape'
<1>1. /\ node' \in [Node -> NodeState]
      /\ \/ AllCalm /\ UNCHANGED <<ballots, voteRpcs>>
         \/ /\ WinsPreVote(r, t, granted)
            /\ StartElection(r.from, WithPreVote(node[r.from], r), "none")
  BY PreVoteContinuesCases
<1>2. r \in PreVoteRpc /\ r.from \in Node /\ node[r.from] \in NodeState
  BY DEF Shape, TypeOK, PreVoteRpc
<1>3. /\ ballots' \subseteq Node \X Term \X Node
      /\ voteRpcs' \subseteq VoteRpc
      /\ \A j \in Node : node'[j].role = "leader" => node[j].role = "leader"
  <2>1. CASE AllCalm /\ UNCHANGED <<ballots, voteRpcs>>
    BY <2>1 DEF Shape, TypeOK, AllCalm, Calm
  <2>2. CASE /\ WinsPreVote(r, t, granted)
             /\ StartElection(r.from, WithPreVote(node[r.from], r), "none")
    <3>1. WithPreVote(node[r.from], r) \in NodeState
      BY <1>2, WithPreVoteType
    <3>2. WithPreVote(node[r.from], r).role = node[r.from].role
      BY <1>2, WithPreVoteCalm
    <3> QED BY <1>2, <2>2, <3>1, <3>2, StartElectionType
  <2> QED BY <1>1, <2>1, <2>2
<1>4. TypeOK'
  BY <1>1, <1>3 DEF Shape, TypeOK
<1>5. LiveObjects' /\ LeaderHasObject'
  BY <1>3 DEF Shape, LiveObjects, LeaderHasObject
<1> QED
  BY <1>4, <1>5 DEF Shape

\* The two ways a pre-vote ends.
LEMMA PreVoteReturnsShape ==
    ASSUME Shape, NEW r \in preVoteRpcs, PreVoteReturns(r) \/ PreVoteFails(r)
    PROVE  Shape'
<1>1. /\ r.term \in Nat /\ r.term + 1 \in Nat
      /\ r.reply.term \in Nat /\ r.reply.granted \in BOOLEAN
      /\ events \in [EventKind -> Nat]
  BY DEF Shape, TypeOK, PreVoteRpc, VoteReply, Term
<1>2. CASE PreVoteReturns(r)
  <2>1. PICK failing \in {"none", "term", "vote"} :
          /\ PreVoteContinues(r, r.reply.term, r.reply.granted, failing)
          /\ Happen(When(failing # "none", "store"))
    BY <1>2 DEF PreVoteReturns
  <2>2. events' \in [EventKind -> Nat]
    BY <1>1, <2>1, HappenType
  <2> QED BY <1>1, <1>2, <2>1, <2>2, PreVoteStepShape DEF PreVoteReturns
<1>3. CASE PreVoteFails(r)
  <2>1. PICK failing \in {"none", "term"} :
          /\ PreVoteContinues(r, r.term + 1, FALSE, failing)
          /\ Happen({"rpc"} \cup When(failing # "none", "store"))
    BY <1>3 DEF PreVoteFails
  <2>2. events' \in [EventKind -> Nat]
    BY <1>1, <2>1, HappenType
  <2>3. failing \in {"none", "term", "vote"} /\ FALSE \in BOOLEAN
    OBVIOUS
  <2> QED BY <1>1, <1>3, <2>1, <2>2, <2>3, PreVoteStepShape DEF PreVoteFails
<1> QED
  BY <1>2, <1>3

\* HandleRequestVote, refused at once.
LEMMA DeliverRequestVoteRefusedShape ==
    ASSUME Shape, NEW r \in voteRpcs, DeliverRequestVoteRefused(r)
    PROVE  Shape'
<1>1. r \in VoteRpc /\ r.to \in Node /\ voteRpcs \in SUBSET VoteRpc
  BY DEF Shape, TypeOK, VoteRpc
<1>2. [term |-> node[r.to].currentTerm, granted |-> FALSE] \in VoteReply
  BY <1>1 DEF Shape, TypeOK, NodeState, VoteReply, Term
<1>3. voteRpcs' \subseteq VoteRpc
  BY <1>1, <1>2, VoteRpcsType DEF DeliverRequestVoteRefused, RequestVoteHandled
<1> QED
  BY <1>3 DEF DeliverRequestVoteRefused, RequestVoteHandled, Shape, TypeOK,
              LiveObjects, LeaderHasObject

\* The voter after a request for a vote of term r.term: in that term, and
\* changed calmly, except that a vote may be cast that was not.
LEMMA VoterStateFacts ==
    ASSUME NEW n \in NodeState, NEW r \in VoteRpc, NEW termFails \in BOOLEAN,
           ~RefusesVote(n, r)
    PROVE  /\ VoterState(n, r, termFails) \in NodeState
           /\ Calm(n, VoterState(n, r, termFails))
           /\ VoterState(n, r, termFails).currentTerm = r.term
<1>1. r.term \in Nat /\ n.currentTerm \in Nat
  BY DEF VoteRpc, NodeState, Term
<1>2. BecomeFollower(n, r.term).currentTerm = IF r.term > n.currentTerm THEN r.term ELSE n.currentTerm
  BY <1>1 DEF BecomeFollower, AdoptTerm, NodeState
<1>3. BecomeFollower(n, r.term) \in NodeState
  BY <1>1, NodeOpsType
<1>4. HandlerBecomesFollower(n, r.term, termFails).currentTerm = BecomeFollower(n, r.term).currentTerm
  BY <1>3 DEF HandlerBecomesFollower, MarkUnhealthy, NodeState
<1>5. ~(r.term < n.currentTerm)
  BY DEF RefusesVote
<1>6. Calm(n, n) /\ HandlerBecomesFollower(n, r.term, termFails) \in NodeState
      /\ Calm(n, HandlerBecomesFollower(n, r.term, termFails))
  BY <1>1, NodeOpsType, NodeOpsCalm
<1> QED
  BY <1>1, <1>2, <1>4, <1>5, <1>6 DEF VoterState

\* Delivering a request for a vote: the voter's new state, and the ballot.
LEMMA DeliverRequestVoteFacts ==
    ASSUME Shape, NEW r \in voteRpcs, DeliverRequestVote(r)
    PROVE  \E n, m \in NodeState : \E granted \in BOOLEAN :
             /\ Calm(node[r.to], n) /\ n.currentTerm = r.term
             /\ granted => /\ n.votedFor \in {Nil, r.from}
                           /\ m = [n EXCEPT !.votedFor = r.from]
             /\ ~granted => Calm(n, m)
             /\ node' = [node EXCEPT ![r.to] = m]
             /\ ballots' = IF granted THEN ballots \cup {<<r.to, r.term, r.from>>} ELSE ballots
             /\ voteRpcs' = Answered(voteRpcs, r, [term |-> r.term, granted |-> granted])
             /\ events' \in [EventKind -> Nat]
             /\ UNCHANGED <<log, lead, preVoteRpcs, appendRpcs, committed>>
<1> DEFINE v == r.to
           G(tf) == GrantsVote(VoterState(node[v], r, tf), log[v], r)
<1>1. r \in VoteRpc /\ v \in Node /\ r.from \in Node /\ node[v] \in NodeState
      /\ events \in [EventKind -> Nat]
  BY DEF Shape, TypeOK, VoteRpc
<1>2. ~RefusesVote(node[v], r)
  BY DEF DeliverRequestVote
<1>3. PICK termFails \in BOOLEAN, voteFails \in BOOLEAN :
         /\ voteFails => G(termFails)
         /\ Happen(When(termFails \/ voteFails, "store"))
         /\ node' = [node EXCEPT ![v] =
              IF voteFails THEN MarkUnhealthy(VoterState(node[v], r, termFails))
              ELSE IF G(termFails) THEN [VoterState(node[v], r, termFails) EXCEPT !.votedFor = r.from]
              ELSE VoterState(node[v], r, termFails)]
         /\ ballots' = IF G(termFails) /\ ~voteFails
                         THEN ballots \cup {<<v, r.term, r.from>>} ELSE ballots
         /\ RequestVoteHandled(r, [term |-> VoterState(node[v], r, termFails).currentTerm,
                                   granted |-> G(termFails) /\ ~voteFails])
  BY DEF DeliverRequestVote
<1> DEFINE n == VoterState(node[v], r, termFails)
           granted == G(termFails) /\ ~voteFails
           m == IF voteFails THEN MarkUnhealthy(n)
                ELSE IF G(termFails) THEN [n EXCEPT !.votedFor = r.from] ELSE n
<1>4. n \in NodeState /\ Calm(node[v], n) /\ n.currentTerm = r.term
  BY <1>1, <1>2, VoterStateFacts
<1>5. granted \in BOOLEAN
  BY DEF GrantsVote
<1>6. granted => n.votedFor \in {Nil, r.from} /\ m = [n EXCEPT !.votedFor = r.from]
  BY DEF GrantsVote
<1>7. Calm(n, n) /\ Calm(n, MarkUnhealthy(n)) /\ MarkUnhealthy(n) \in NodeState
  <2>1. 0 \in Nat /\ TRUE \in BOOLEAN
    OBVIOUS
  <2> HIDE DEF n
  <2> QED BY <1>4, <2>1, NodeOpsCalm, NodeOpsType
<1>8. [n EXCEPT !.votedFor = r.from] \in NodeState
  <2> HIDE DEF n
  <2> QED BY <1>1, <1>4 DEF NodeState
<1>9. m \in NodeState /\ (~granted => Calm(n, m))
  BY <1>4, <1>7, <1>8
<1>10. events' \in [EventKind -> Nat]
  BY <1>1, <1>3, HappenType
<1>11. /\ node' = [node EXCEPT ![v] = m]
       /\ ballots' = IF granted THEN ballots \cup {<<v, r.term, r.from>>} ELSE ballots
       /\ voteRpcs' = Answered(voteRpcs, r, [term |-> r.term, granted |-> granted])
       /\ UNCHANGED <<log, lead, preVoteRpcs, appendRpcs, committed>>
  BY <1>3, <1>4 DEF RequestVoteHandled
<1> HIDE DEF n, m, granted
<1> QED
  BY <1>4, <1>5, <1>6, <1>9, <1>10, <1>11

\* HandleRequestVote, granted or not.
LEMMA DeliverRequestVoteShape ==
    ASSUME Shape, NEW r \in voteRpcs, DeliverRequestVote(r)
    PROVE  Shape'
<1>1. r \in VoteRpc /\ r.to \in Node /\ r.from \in Node /\ r.term \in Nat
      /\ voteRpcs \in SUBSET VoteRpc
  BY DEF Shape, TypeOK, VoteRpc, Term
<1>2. PICK n \in NodeState, m \in NodeState, granted \in BOOLEAN :
        /\ Calm(node[r.to], n)
        /\ granted => m = [n EXCEPT !.votedFor = r.from]
        /\ ~granted => Calm(n, m)
        /\ node' = [node EXCEPT ![r.to] = m]
        /\ ballots' = IF granted THEN ballots \cup {<<r.to, r.term, r.from>>} ELSE ballots
        /\ voteRpcs' = Answered(voteRpcs, r, [term |-> r.term, granted |-> granted])
        /\ events' \in [EventKind -> Nat]
        /\ UNCHANGED <<log, lead, preVoteRpcs, appendRpcs, committed>>
  BY DeliverRequestVoteFacts
<1>3. [term |-> r.term, granted |-> granted] \in VoteReply
  BY <1>1 DEF VoteReply, Term
<1>4. voteRpcs' \subseteq VoteRpc
  BY <1>1, <1>2, <1>3, VoteRpcsType
<1>5. ballots' \subseteq Node \X Term \X Node
  BY <1>1, <1>2 DEF Shape, TypeOK, Term
<1>6. m.role = "leader" => node[r.to].role = "leader"
  BY <1>2 DEF Calm, NodeState
<1>7. TypeOK'
  BY <1>1, <1>2, <1>4, <1>5 DEF Shape, TypeOK
<1>8. LiveObjects' /\ LeaderHasObject'
  BY <1>1, <1>2, <1>6 DEF Shape, TypeOK, LiveObjects, LeaderHasObject
<1> QED
  BY <1>7, <1>8 DEF Shape

\* A failed RequestVote call only loses the answer.
LEMMA RequestVoteFailsShape ==
    ASSUME Shape, NEW r \in voteRpcs, RequestVoteFails(r)
    PROVE  Shape'
<1>1. r \in VoteRpc /\ voteRpcs \in SUBSET VoteRpc /\ NoVote \in VoteReply
  BY DEF Shape, TypeOK, NoVote, VoteReply, Term
<1>2. voteRpcs' \subseteq VoteRpc
  BY <1>1, VoteRpcsType DEF RequestVoteFails
<1>3. events' \in [EventKind -> Nat]
  BY HappenType DEF RequestVoteFails, Shape, TypeOK
<1> QED
  BY <1>2, <1>3 DEF RequestVoteFails, Shape, TypeOK, LiveObjects, LeaderHasObject,
                    nodeVars, histVars

\* Requests added for a leader object that exists keep LiveObjects.
LEMMA RequestsBelong ==
    ASSUME NEW i \in Node, NEW o, NEW l, NEW lg, NEW n,
           NEW q \in AppendRequestsToAll(i, o, l, lg, n)
    PROVE  q.from = i /\ q.obj = o
  BY DEF AppendRequestsToAll, AppendRequest

\* becomeLeader: a new leader object, its requests and its no-op.
LEMMA BecomeLeaderShape ==
    ASSUME Shape, NEW i \in Node, NEW n \in NodeState, NEW logFails \in BOOLEAN,
           BecomeLeader(i, n, logFails)
    PROVE  /\ node' \in [Node -> NodeState]
           /\ log' \in [Node -> Seq(Entry)]
           /\ lead' \in [Node -> Seq(LeaderState)]
           /\ appendRpcs' \subseteq AppendRpc
           /\ committed' \subseteq [index : Index, entry : Entry, term : Term]
           /\ LiveObjects'
           /\ LeaderHasObject'
<1>0. /\ node \in [Node -> NodeState] /\ log \in [Node -> Seq(Entry)]
      /\ lead \in [Node -> Seq(LeaderState)] /\ appendRpcs \subseteq AppendRpc
      /\ committed \subseteq [index : Index, entry : Entry, term : Term]
  BY DEF Shape, TypeOK
<1>1. n.currentTerm \in Nat /\ n.commitIndex \in Nat
  BY DEF NodeState, Term, Index
<1>2. CASE logFails
  <2>1. /\ node' = [node EXCEPT ![i] = BecomeFollower(n, n.currentTerm)]
        /\ UNCHANGED <<log, lead, appendRpcs, committed>>
    BY <1>2 DEF BecomeLeader
  <2>2. BecomeFollower(n, n.currentTerm) \in NodeState
        /\ BecomeFollower(n, n.currentTerm).role = "follower"
    BY <1>1, <1>2, NodeOpsType, NodeOpsCalm
  <2>3. node' \in [Node -> NodeState]
    BY <1>0, <2>1, <2>2
  <2>4. LiveObjects' /\ LeaderHasObject'
    BY <1>0, <2>1, <2>2 DEF Shape, LiveObjects, LeaderHasObject
  <2> QED BY <1>0, <2>1, <2>3, <2>4
<1>3. CASE ~logFails
  <2> DEFINE e == [term |-> n.currentTerm, data |-> NoOp]
             written == Append(log[i], e)
             fresh == [nextIndex  |-> [p \in Node |-> IF p = i THEN Len(written) + 1
                                                      ELSE LastIndex(log[i]) + 1],
                       matchIndex |-> [p \in Node |-> IF p = i THEN Len(written) ELSE 0],
                       inflight   |-> {}]
             elected == [n EXCEPT !.role = "leader", !.leaderId = i]
             commit == AdvancedCommitIndex(elected, written, fresh)
             o == Len(lead[i]) + 1
  <2>1. /\ node' = [node EXCEPT ![i] = [elected EXCEPT !.commitIndex = commit]]
        /\ log' = [log EXCEPT ![i] = written]
        /\ lead' = [lead EXCEPT ![i] = Append(lead[i], AllInflight(i, fresh))]
        /\ appendRpcs' = appendRpcs \cup AppendRequestsToAll(i, o, fresh, written, elected)
        /\ committed' = committed \cup Declared(written, n.commitIndex, commit, n.currentTerm)
    BY <1>3 DEF BecomeLeader
  <2>2. e \in Entry /\ log[i] \in Seq(Entry)
    BY <1>0, <1>1 DEF Entry, Term
  <2>3. written \in Seq(Entry)
    <3> HIDE DEF e
    <3> QED BY <2>2, AppendProperties
  <2>4. Len(written) \in Nat /\ LastIndex(log[i]) \in Nat
    <3> HIDE DEF written
    <3> QED BY <2>2, <2>3, LenProperties, LastType
  <2>5. fresh \in LeaderState
    <3> HIDE DEF written
    <3> QED BY <2>4 DEF LeaderState, Index
  <2>6. elected \in NodeState /\ elected.commitIndex = n.commitIndex
    BY DEF NodeState
  <2> HIDE DEF fresh, written, elected, e
  <2>7. commit \in Nat /\ (commit <= Len(written) \/ commit = n.commitIndex)
    BY <2>3, <2>6, AdvancedCommitIndexType
  <2>8. lead[i] \in Seq(LeaderState) /\ Len(lead[i]) \in Nat /\ o \in Nat
    BY <1>0, LenProperties
  <2>9. AllInflight(i, fresh) \in LeaderState
        /\ AppendRequestsToAll(i, o, fresh, written, elected) \subseteq AppendRpc
    BY <2>3, <2>5, <2>6, <2>8, AppendRequestsToAllType
  <2>10. Append(lead[i], AllInflight(i, fresh)) \in Seq(LeaderState)
         /\ Len(Append(lead[i], AllInflight(i, fresh))) = o
    BY <2>8, <2>9, AppendProperties
  <2>11. Declared(written, n.commitIndex, commit, n.currentTerm)
           \subseteq [index : Index, entry : Entry, term : Term]
    <3> HIDE DEF commit
    <3> QED BY <1>1, <2>3, <2>7, DeclaredType
  <2>12. node' \in [Node -> NodeState]
    <3>1. [elected EXCEPT !.commitIndex = commit] \in NodeState
      <4> HIDE DEF commit
      <4> QED BY <2>6, <2>7 DEF NodeState, Index
    <3> QED BY <1>0, <2>1, <3>1
  <2>13. log' \in [Node -> Seq(Entry)] /\ lead' \in [Node -> Seq(LeaderState)]
    BY <1>0, <2>1, <2>3, <2>10
  <2>14. \A j \in Node : /\ Len(lead'[j]) \in Nat
                         /\ Len(lead[j]) \in Nat
                         /\ Len(lead[j]) <= Len(lead'[j])
    <3> SUFFICES ASSUME NEW j \in Node
                 PROVE  /\ Len(lead'[j]) \in Nat
                        /\ Len(lead[j]) \in Nat
                        /\ Len(lead[j]) <= Len(lead'[j])
      OBVIOUS
    <3>1. Len(lead[j]) \in Nat
      BY <1>0, LenProperties
    <3>2. CASE j = i
      BY <1>0, <2>1, <2>8, <2>10, <3>2
    <3>3. CASE j # i
      BY <1>0, <2>1, <3>1, <3>3
    <3> QED BY <3>2, <3>3
  <2>15. Len(lead'[i]) = o /\ o \in 1..o
    BY <1>0, <2>1, <2>8, <2>10
  <2>16. LiveObjects'
    <3> SUFFICES ASSUME NEW q \in appendRpcs', q.phase # "orphan"
                 PROVE  q.obj \in 1..Len(lead'[q.from])
      BY DEF LiveObjects
    <3>1. CASE q \in appendRpcs
      <4>1. q.obj \in 1..Len(lead[q.from]) /\ q.from \in Node
        BY <1>0, <3>1 DEF Shape, LiveObjects, AppendRpc
      <4> QED BY <2>14, <4>1
    <3>2. CASE q \in AppendRequestsToAll(i, o, fresh, written, elected)
      <4>1. q.from = i /\ q.obj = o
        BY <3>2, RequestsBelong
      <4> QED BY <2>15, <4>1
    <3> QED BY <2>1, <3>1, <3>2
  <2>17. LeaderHasObject'
    <3> SUFFICES ASSUME NEW j \in Node, node'[j].role = "leader"
                 PROVE  Len(lead'[j]) \in Nat \ {0}
      BY DEF LeaderHasObject
    <3>1. CASE j = i
      BY <2>8, <2>15, <3>1
    <3>2. CASE j # i
      <4>1. node[j].role = "leader" /\ lead'[j] = lead[j]
        BY <1>0, <2>1, <3>2
      <4> QED BY <4>1 DEF Shape, LeaderHasObject
    <3> QED BY <3>1, <3>2
  <2>18. appendRpcs' \subseteq AppendRpc
    BY <1>0, <2>1, <2>9
  <2>19. committed' \subseteq [index : Index, entry : Entry, term : Term]
    BY <1>0, <2>1, <2>11
  <2> QED BY <2>12, <2>13, <2>16, <2>17, <2>18, <2>19
<1> QED
  BY <1>2, <1>3

\* The continuation of sendRequestVote: step down, lead, count or ignore.
LEMMA RequestVoteReturnsShape ==
    ASSUME Shape, NEW r \in voteRpcs, RequestVoteReturns(r)
    PROVE  Shape'
<1> DEFINE i == r.from
           n == node[i]
           counted == [n EXCEPT !.votes = @ \cup {r.to}]
<1>1. /\ r \in VoteRpc /\ i \in Node /\ r.to \in Node /\ n \in NodeState
      /\ r.reply.term \in Nat /\ events \in [EventKind -> Nat]
      /\ node \in [Node -> NodeState]
  BY DEF Shape, TypeOK, VoteRpc, VoteReply, Term
<1>2. counted \in NodeState /\ counted.role = n.role
  <2> HIDE DEF n
  <2> QED BY <1>1 DEF NodeState
<1>3. UNCHANGED <<preVoteRpcs, ballots>> /\ voteRpcs' \subseteq VoteRpc
  BY DEF RequestVoteReturns, Shape, TypeOK
<1>4. CASE \E storeFails \in BOOLEAN :
             /\ node' = [node EXCEPT ![i] = StepDown(n, r.reply.term, storeFails)]
             /\ Happen(When(storeFails, "store"))
             /\ UNCHANGED <<log, lead, appendRpcs, committed>>
  <2>1. PICK storeFails \in BOOLEAN :
             /\ node' = [node EXCEPT ![i] = StepDown(n, r.reply.term, storeFails)]
             /\ Happen(When(storeFails, "store"))
             /\ UNCHANGED <<log, lead, appendRpcs, committed>>
    BY <1>4
  <2>2. StepDown(n, r.reply.term, storeFails) \in NodeState
    BY <1>1, NodeOpsType
  <2>3. Calm(n, StepDown(n, r.reply.term, storeFails))
    BY <1>1, NodeOpsCalm
  <2>4. AllCalm /\ node' \in [Node -> NodeState]
    BY <1>1, <2>1, <2>2, <2>3, OneCalm
  <2>5. events' \in [EventKind -> Nat]
    BY <1>1, <2>1, HappenType
  <2>6. TypeOK'
    BY <1>3, <2>1, <2>4, <2>5 DEF Shape, TypeOK
  <2> QED
    BY <2>1, <2>4, <2>6 DEF Shape, LiveObjects, LeaderHasObject, AllCalm, Calm
<1>5. CASE \E logFails \in BOOLEAN :
             BecomeLeader(i, counted, logFails) /\ Happen(When(logFails, "log"))
  <2>1. PICK logFails \in BOOLEAN :
             BecomeLeader(i, counted, logFails) /\ Happen(When(logFails, "log"))
    BY <1>5
  <2>2. events' \in [EventKind -> Nat]
    BY <1>1, <2>1, HappenType
  <2> HIDE DEF counted, i
  <2>3. /\ node' \in [Node -> NodeState]
        /\ log' \in [Node -> Seq(Entry)]
        /\ lead' \in [Node -> Seq(LeaderState)]
        /\ appendRpcs' \subseteq AppendRpc
        /\ committed' \subseteq [index : Index, entry : Entry, term : Term]
        /\ LiveObjects'
        /\ LeaderHasObject'
    BY <1>1, <1>2, <2>1, BecomeLeaderShape
  <2> QED
    BY <1>3, <2>2, <2>3 DEF Shape, TypeOK
<1>6. CASE /\ node' = [node EXCEPT ![i] = IF VoteCounts(r) THEN counted ELSE n]
           /\ UNCHANGED <<log, lead, appendRpcs, committed, events>>
  <2>1. node' \in [Node -> NodeState]
    <3> HIDE DEF counted, n
    <3> QED BY <1>1, <1>2, <1>6
  <2>2. \A j \in Node : node'[j].role = node[j].role
    <3> HIDE DEF counted
    <3> QED BY <1>1, <1>2, <1>6
  <2> QED
    BY <1>3, <1>6, <2>1, <2>2 DEF Shape, TypeOK, LiveObjects, LeaderHasObject
<1> QED
  BY <1>4, <1>5, <1>6 DEF RequestVoteReturns

\* Answering or giving up a call makes no goroutine of a lost object.
LEMMA RpcsStayLive ==
    ASSUME Shape, NEW r \in appendRpcs, NEW reply
    PROVE  /\ \A q \in Answered(appendRpcs, r, reply) :
                q.phase # "orphan" => q.from \in Node /\ q.obj \in 1..Len(lead[q.from])
           /\ \A q \in GivenUp(appendRpcs, r) :
                q.phase # "orphan" => q.from \in Node /\ q.obj \in 1..Len(lead[q.from])
<1>1. \A q \in appendRpcs : q.phase # "orphan" => q.from \in Node /\ q.obj \in 1..Len(lead[q.from])
  BY DEF Shape, TypeOK, LiveObjects, AppendRpc
<1>2. r \in AppendRpc
  BY DEF Shape, TypeOK
<1>3. LET q == [r EXCEPT !.phase = "done", !.reply = reply]
      IN  q.from = r.from /\ q.obj = r.obj
  BY <1>2 DEF AppendRpc
<1>4. [r EXCEPT !.phase = "orphan"].phase = "orphan"
  BY <1>2 DEF AppendRpc
<1>5. ASSUME NEW q \in Answered(appendRpcs, r, reply), q.phase # "orphan"
      PROVE  q.from \in Node /\ q.obj \in 1..Len(lead[q.from])
  BY <1>1, <1>3, <1>5 DEF Answered
<1>6. ASSUME NEW q \in GivenUp(appendRpcs, r), q.phase # "orphan"
      PROVE  q.from \in Node /\ q.obj \in 1..Len(lead[q.from])
  BY <1>1, <1>4, <1>6 DEF GivenUp
<1> QED
  BY <1>5, <1>6

\* The follower after an append request of term r.term.
LEMMA FollowerStateFacts ==
    ASSUME NEW n \in NodeState, NEW r \in AppendRpc, NEW termFails \in BOOLEAN
    PROVE  FollowerState(n, r, termFails) \in NodeState /\ Calm(n, FollowerState(n, r, termFails))
<1>1. r.term \in Nat
  BY DEF AppendRpc, Term
<1> QED
  BY <1>1, NodeOpsType, NodeOpsCalm DEF FollowerState

\* What a handled append request changes: the follower, calmly, its log, and
\* the request.
LEMMA DeliverAppendFacts ==
    ASSUME Shape, NEW r \in appendRpcs, DeliverAppendRefused(r) \/ DeliverAppendEntries(r)
    PROVE  /\ AllCalm
           /\ node' \in [Node -> NodeState]
           /\ log' \in [Node -> Seq(Entry)]
           /\ events' \in [EventKind -> Nat]
           /\ \E reply \in AppendReply : AppendHandled(r, reply)
<1>1. /\ r \in AppendRpc /\ r.to \in Node /\ node \in [Node -> NodeState]
      /\ log \in [Node -> Seq(Entry)] /\ events \in [EventKind -> Nat]
      /\ r.leaderId \in Node \cup {Nil} /\ r.commit \in Nat
      /\ r.prevIndex \in Nat /\ r.prevTerm \in Nat
  BY DEF Shape, TypeOK, AppendRpc, Index, Term
<1>2. node[r.to] \in NodeState /\ log[r.to] \in Seq(Entry)
  BY <1>1
<1>3. CASE DeliverAppendRefused(r)
  <2>1. /\ AppendHandled(r, [NoAppend EXCEPT !.term = node[r.to].currentTerm])
        /\ UNCHANGED <<node, log, events>>
    BY <1>3 DEF DeliverAppendRefused
  <2>2. node[r.to].currentTerm \in Nat
    BY <1>2 DEF NodeState, Term
  <2>3. [NoAppend EXCEPT !.term = node[r.to].currentTerm] \in AppendReply
    BY <2>2 DEF NoAppend, AppendReply, Term, Index
  <2>4. AllCalm /\ node' \in [Node -> NodeState]
    BY <1>1, <2>1, NoneCalm
  <2> QED BY <1>1, <2>1, <2>3, <2>4
<1>4. CASE DeliverAppendEntries(r)
  <2> DEFINE v == r.to
             lg == log[v]
             N(tf) == FollowerState(node[v], r, tf)
             check == CheckLogConsistency(lg, r.prevIndex, r.prevTerm)
             Behind(tf) ==
                /\ r.prevIndex > LastIndex(lg)
                /\ node' = [node EXCEPT ![v] = N(tf)]
                /\ AppendHandled(r, [term |-> N(tf).currentTerm, success |-> FALSE,
                     conflictIndex |-> LastIndex(lg) + 1, conflictTerm |-> 0])
                /\ UNCHANGED log
             Conflict(tf) ==
                /\ r.prevIndex <= LastIndex(lg) /\ ~check.ok
                /\ node' = [node EXCEPT ![v] = N(tf)]
                /\ AppendHandled(r, [term |-> N(tf).currentTerm, success |-> FALSE,
                     conflictIndex |-> check.conflictIndex,
                     conflictTerm |-> check.conflictTerm])
                /\ UNCHANGED log
             Match(tf, lf) ==
                /\ r.prevIndex <= LastIndex(lg)
                /\ \E after \in LogsAfterAppend(lg, r, lf) :
                     /\ log' = [log EXCEPT ![v] = after]
                     /\ node' = [node EXCEPT ![v] = [N(tf) EXCEPT !.leaderId = r.leaderId,
                          !.commitIndex = SetCommitIndex(after, N(tf).commitIndex, r.commit)]]
                /\ AppendHandled(r, [NoAppend EXCEPT !.term = N(tf).currentTerm, !.success = TRUE])
  <2>1. PICK termFails \in BOOLEAN, logFails \in BOOLEAN :
          /\ Happen(When(termFails, "store") \cup When(logFails, "log"))
          /\ Behind(termFails) \/ Conflict(termFails) \/ Match(termFails, logFails)
    BY <1>4 DEF DeliverAppendEntries
  <2>2. events' \in [EventKind -> Nat]
    BY <1>1, <2>1, HappenType
  <2> DEFINE n == N(termFails)
  <2>3. n \in NodeState /\ Calm(node[v], n)
    BY <1>1, <1>2, FollowerStateFacts
  <2>4. n.currentTerm \in Nat /\ n.commitIndex \in Nat
    <3> HIDE DEF n
    <3> QED BY <2>3 DEF NodeState, Term, Index
  <2>5. LastIndex(lg) \in Nat /\ LastIndex(lg) = Len(lg)
    BY <1>2, LastType DEF LastIndex
  <2>6. CASE Behind(termFails)
    <3>1. [term |-> n.currentTerm, success |-> FALSE,
           conflictIndex |-> LastIndex(lg) + 1, conflictTerm |-> 0] \in AppendReply
      <4> HIDE DEF n
      <4> QED BY <2>4, <2>5 DEF AppendReply, Term, Index
    <3>2. AllCalm /\ node' \in [Node -> NodeState]
      BY <1>1, <2>3, <2>6, OneCalm
    <3> QED BY <1>1, <2>2, <2>6, <3>1, <3>2
  <2>7. CASE Conflict(termFails)
    <3>1. check.conflictIndex \in Nat /\ check.conflictTerm \in Nat
      <4>1. r.prevIndex <= Len(lg) /\ ~check.ok
        BY <2>5, <2>7
      <4> QED BY <1>1, <1>2, <4>1, CheckType
    <3>2. [term |-> n.currentTerm, success |-> FALSE, conflictIndex |-> check.conflictIndex,
           conflictTerm |-> check.conflictTerm] \in AppendReply
      <4> HIDE DEF n, check
      <4> QED BY <2>4, <3>1 DEF AppendReply, Term, Index
    <3>3. AllCalm /\ node' \in [Node -> NodeState]
      BY <1>1, <2>3, <2>7, OneCalm
    <3> QED BY <1>1, <2>2, <2>7, <3>2, <3>3
  <2>8. CASE Match(termFails, logFails)
    <3>1. PICK after \in LogsAfterAppend(lg, r, logFails) :
            /\ log' = [log EXCEPT ![v] = after]
            /\ node' = [node EXCEPT ![v] = [n EXCEPT !.leaderId = r.leaderId,
                          !.commitIndex = SetCommitIndex(after, n.commitIndex, r.commit)]]
      BY <2>8
    <3>2. after \in Seq(Entry)
      BY <1>1, <1>2, <2>5, <2>8, LogsAfterAppendType
    <3>3. SetCommitIndex(after, n.commitIndex, r.commit) \in Nat
      <4>1. LastIndex(after) \in Nat
        BY <3>2, LastType
      <4> HIDE DEF n
      <4> QED BY <1>1, <2>4, <4>1 DEF SetCommitIndex
    <3>4. \A k \in Nat : LET m == [n EXCEPT !.leaderId = r.leaderId, !.commitIndex = k]
                         IN  m \in NodeState /\ Calm(n, m)
      <4> HIDE DEF n
      <4> QED BY <1>1, <2>3, <2>4 DEF NodeState, Index, Calm, StoreStep
    <3> DEFINE m == [n EXCEPT !.leaderId = r.leaderId,
                       !.commitIndex = SetCommitIndex(after, n.commitIndex, r.commit)]
    <3>5. m \in NodeState /\ Calm(n, m)
      BY <3>3, <3>4
    <3>6. node' = [node EXCEPT ![v] = m]
      BY <3>1
    <3>7. Calm(node[v], m)
      <4> HIDE DEF n, m
      <4> QED BY <1>2, <2>3, <3>5, CalmTransitive
    <3>8. AllCalm /\ node' \in [Node -> NodeState]
      <4> HIDE DEF m
      <4> QED BY <1>1, <3>5, <3>6, <3>7, OneCalm
    <3>9. log' \in [Node -> Seq(Entry)]
      BY <1>1, <3>1, <3>2
    <3>10. [NoAppend EXCEPT !.term = n.currentTerm, !.success = TRUE] \in AppendReply
      <4> HIDE DEF n
      <4> QED BY <2>4 DEF NoAppend, AppendReply, Term, Index
    <3> QED BY <2>2, <2>8, <3>8, <3>9, <3>10
  <2> QED BY <2>1, <2>6, <2>7, <2>8
<1> QED
  BY <1>3, <1>4

\* HandleAppendEntries, all of its outcomes.
LEMMA DeliverAppendShape ==
    ASSUME Shape, NEW r \in appendRpcs, DeliverAppendRefused(r) \/ DeliverAppendEntries(r)
    PROVE  Shape'
<1>1. PICK reply \in AppendReply : AppendHandled(r, reply)
  BY DeliverAppendFacts
<1>2. /\ AllCalm
      /\ node' \in [Node -> NodeState]
      /\ log' \in [Node -> Seq(Entry)]
      /\ events' \in [EventKind -> Nat]
  BY DeliverAppendFacts
<1>3. /\ appendRpcs' = Answered(appendRpcs, r, reply)
      /\ UNCHANGED <<lead, preVoteRpcs, voteRpcs, ballots, committed>>
  BY <1>1 DEF AppendHandled, histVars
<1>4. appendRpcs' \subseteq AppendRpc
  BY <1>3, AppendRpcsType DEF Shape, TypeOK
<1>5. TypeOK'
  BY <1>2, <1>3, <1>4 DEF Shape, TypeOK
<1>6. LiveObjects'
  BY <1>3, RpcsStayLive DEF LiveObjects
<1>7. LeaderHasObject'
  BY <1>2, <1>3 DEF Shape, LeaderHasObject, AllCalm, Calm
<1> QED
  BY <1>5, <1>6, <1>7 DEF Shape

\* What the continuation makes of its leader object is a leader object; in
\* particular nextIndex never falls below 1.
LEMMA LeaderOpsType ==
    ASSUME NEW l \in LeaderState, NEW r \in AppendRpc, NEW lg \in Seq(Entry),
           NEW reply \in AppendReply
    PROVE  /\ Returned(l, r) \in LeaderState
           /\ AckedState(l, r) \in LeaderState
           /\ NackedState(l, r, lg, reply) \in LeaderState
<1>1. /\ r.to \in Node /\ r.prevIndex \in Nat /\ r.entries \in Seq(Entry)
      /\ reply.conflictIndex \in Nat /\ reply.conflictTerm \in Nat
  BY DEF AppendRpc, AppendReply, Index, Term
<1>2. /\ l.nextIndex \in [Node -> Nat \ {0}] /\ l.matchIndex \in [Node -> Nat]
      /\ l.inflight \in SUBSET Node
  BY DEF LeaderState, Index
<1>3. Returned(l, r) \in LeaderState
  BY DEF Returned, LeaderState
<1>4. Returned(l, r).nextIndex = l.nextIndex /\ Returned(l, r).matchIndex = l.matchIndex
  BY DEF Returned, LeaderState
<1>5. \A f \in [Node -> Nat \ {0}], g \in [Node -> Nat], m \in LeaderState :
         /\ [m EXCEPT !.nextIndex = f] \in LeaderState
         /\ [m EXCEPT !.matchIndex = g, !.nextIndex = f] \in LeaderState
  BY DEF LeaderState, Index
<1>6. AckedState(l, r) \in LeaderState
  <2> DEFINE lastSent == r.prevIndex + Len(r.entries)
             g == [l.matchIndex EXCEPT ![r.to] = IF @ < lastSent THEN lastSent ELSE @]
             f == [l.nextIndex EXCEPT ![r.to] = IF @ < lastSent + 1 THEN lastSent + 1 ELSE @]
  <2>1. lastSent \in Nat
    <3>1. Len(r.entries) \in Nat
      BY <1>1, LenProperties
    <3> QED BY <1>1, <3>1
  <2>2. g \in [Node -> Nat] /\ f \in [Node -> Nat \ {0}]
    <3> HIDE DEF lastSent
    <3> QED BY <1>1, <1>2, <2>1
  <2>3. AckedState(l, r) = [Returned(l, r) EXCEPT !.matchIndex = g, !.nextIndex = f]
    <3>1. \A m \in LeaderState :
            [m EXCEPT !.matchIndex[r.to] = IF @ < lastSent THEN lastSent ELSE @,
                      !.nextIndex[r.to] = IF @ < lastSent + 1 THEN lastSent + 1 ELSE @]
            = [m EXCEPT !.matchIndex = [m.matchIndex EXCEPT ![r.to] = IF @ < lastSent THEN lastSent ELSE @],
                        !.nextIndex = [m.nextIndex EXCEPT ![r.to] = IF @ < lastSent + 1 THEN lastSent + 1 ELSE @]]
      <4> HIDE DEF lastSent
      <4> QED BY DEF LeaderState
    <3> QED BY <1>3, <1>4, <3>1 DEF AckedState
  <2> HIDE DEF f, g
  <2> QED BY <1>3, <1>5, <2>2, <2>3
<1>7. NackedState(l, r, lg, reply) \in LeaderState
  <2> DEFINE lastOfTerm == GetLastLogEntryIndexOfTerm(lg, reply.conflictTerm)
             next == IF reply.conflictTerm # 0 /\ lastOfTerm > 0
                       THEN lastOfTerm + 1 ELSE reply.conflictIndex
             to == IF next < 1 THEN 1 ELSE next
             f == [l.nextIndex EXCEPT ![r.to] = to]
  <2>1. lastOfTerm \in Nat
    BY <1>1, LastOfTermType
  <2>2. to \in Nat \ {0}
    <3> HIDE DEF lastOfTerm
    <3> QED BY <1>1, <2>1
  <2>3. f \in [Node -> Nat \ {0}]
    <3> HIDE DEF to
    <3> QED BY <1>1, <1>2, <2>2
  <2>4. [Returned(l, r) EXCEPT !.nextIndex[r.to] = to] = [Returned(l, r) EXCEPT !.nextIndex = f]
    <3>1. \A m \in LeaderState : [m EXCEPT !.nextIndex[r.to] = to]
                                   = [m EXCEPT !.nextIndex = [m.nextIndex EXCEPT ![r.to] = to]]
      <4> HIDE DEF to
      <4> QED BY DEF LeaderState
    <3> QED BY <1>3, <1>4, <3>1
  <2>5. \/ NackedState(l, r, lg, reply) = [Returned(l, r) EXCEPT !.nextIndex[r.to] = to]
        \/ NackedState(l, r, lg, reply) = Returned(l, r)
    BY DEF NackedState
  <2> HIDE DEF f, to
  <2>6. [Returned(l, r) EXCEPT !.nextIndex = f] \in LeaderState
    BY <1>3, <1>5, <2>3
  <2> QED BY <1>3, <2>4, <2>5, <2>6, Zenon
<1> QED
  BY <1>3, <1>6, <1>7

\* Changing one leader object keeps the others and their number.
LEMMA LeadUpdate ==
    ASSUME lead \in [Node -> Seq(LeaderState)], NEW i \in Node,
           NEW o \in 1..Len(lead[i]), NEW l \in LeaderState,
           lead' = [lead EXCEPT ![i][o] = l]
    PROVE  /\ lead' \in [Node -> Seq(LeaderState)]
           /\ \A j \in Node : Len(lead'[j]) = Len(lead[j])
<1>1. lead[i] \in Seq(LeaderState)
  OBVIOUS
<1>2. /\ [lead[i] EXCEPT ![o] = l] \in Seq(LeaderState)
      /\ Len([lead[i] EXCEPT ![o] = l]) = Len(lead[i])
  BY <1>1, ExceptSeq
<1>3. lead' = [lead EXCEPT ![i] = [lead[i] EXCEPT ![o] = l]]
  OBVIOUS
<1> QED
  BY <1>2, <1>3

\* The continuation of an append call: calm, and its leader object, the new
\* request and the declared entries are of their types.
LEMMA AppendContinuesShape ==
    ASSUME Shape, NEW r \in appendRpcs, r.phase # "orphan",
           NEW reply \in AppendReply, NEW cause, AppendContinues(r, reply, cause),
           UNCHANGED <<log, preVoteRpcs, voteRpcs, ballots>>
    PROVE  Shape' /\ AllCalm
<1> DEFINE i == r.from
           n == node[i]
           l == lead[i][r.obj]
           lg == log[i]
           m == IF reply.success THEN AckedState(l, r) ELSE NackedState(l, r, lg, reply)
           commit == IF reply.success THEN AdvancedCommitIndex(n, lg, m) ELSE n.commitIndex
           retry == IF reply.success THEN m.nextIndex[r.to] <= LastIndex(lg)
                                     ELSE l.nextIndex[r.to] > 1
           after == [n EXCEPT !.commitIndex = commit]
           m2 == IF retry THEN [m EXCEPT !.inflight = @ \cup {r.to}] ELSE m
           again == AppendRequest(i, r.obj, r.to, m, lg, after, r.term)
           Down(sf) == /\ Happen(cause \cup When(sf, "store"))
                       /\ node' = [node EXCEPT ![i] = StepDown(n, reply.term, sf)]
                       /\ lead' = [lead EXCEPT ![i][r.obj] = Returned(l, r)]
                       /\ appendRpcs' = GivenUp(appendRpcs, r)
                       /\ UNCHANGED committed
           Ignored == /\ Happen(cause)
                      /\ lead' = [lead EXCEPT ![i][r.obj] = Returned(l, r)]
                      /\ appendRpcs' = GivenUp(appendRpcs, r)
                      /\ UNCHANGED <<node, committed>>
           Used == /\ Happen(cause)
                   /\ node' = [node EXCEPT ![i] = after]
                   /\ lead' = [lead EXCEPT ![i][r.obj] = m2]
                   /\ appendRpcs' = GivenUp(appendRpcs, r) \cup IF retry THEN {again} ELSE {}
                   /\ committed' = committed
                                     \cup Declared(lg, n.commitIndex, commit, n.currentTerm)
<1>1. (\E sf \in BOOLEAN : Down(sf)) \/ Ignored \/ Used
  BY DEF AppendContinues
<1>2. /\ node \in [Node -> NodeState] /\ log \in [Node -> Seq(Entry)]
      /\ lead \in [Node -> Seq(LeaderState)] /\ events \in [EventKind -> Nat]
      /\ appendRpcs \in SUBSET AppendRpc
      /\ r \in AppendRpc
  BY DEF Shape, TypeOK
<1>3. /\ i \in Node /\ r.to \in Node /\ r.obj \in Nat /\ r.term \in Nat
      /\ n \in NodeState /\ lg \in Seq(Entry) /\ reply.term \in Nat
  BY <1>2 DEF AppendRpc, AppendReply, Term
<1>4. r.obj \in 1..Len(lead[i])
  BY DEF Shape, LiveObjects
<1>5. l \in LeaderState
  BY <1>2, <1>3, <1>4, ElementOfSeq
<1> HIDE DEF i
<1>6. Returned(l, r) \in LeaderState /\ m \in LeaderState
  <2> HIDE DEF l, lg
  <2> QED BY <1>2, <1>3, <1>5, LeaderOpsType
<1>7. n.currentTerm \in Nat /\ n.commitIndex \in Nat
  BY <1>3 DEF NodeState, Term, Index
<1> HIDE DEF m, n, lg, l
<1>8. commit \in Nat /\ (commit <= Len(lg) \/ commit = n.commitIndex)
  BY <1>3, <1>7, AdvancedCommitIndexType
<1> HIDE DEF commit
<1>9. after \in NodeState /\ Calm(n, after)
  BY <1>3, <1>7, <1>8 DEF NodeState, Index, Calm, StoreStep
<1>10. m2 \in LeaderState
  <2>1. [m EXCEPT !.inflight = @ \cup {r.to}] \in LeaderState
    BY <1>3, <1>6 DEF LeaderState
  <2> HIDE DEF retry
  <2> QED BY <1>6, <2>1
<1> HIDE DEF after, m2
<1>11. again \in AppendRpc
  BY <1>3, <1>6, <1>9, AppendRequestType
<1>12. again.from = i /\ again.obj = r.obj
  BY DEF AppendRequest
<1> HIDE DEF again, retry
<1>13. GivenUp(appendRpcs, r) \subseteq AppendRpc
  BY <1>2, AppendRpcsType
<1>14. \A q \in GivenUp(appendRpcs, r) :
         q.phase # "orphan" => q.from \in Node /\ q.obj \in 1..Len(lead[q.from])
  BY RpcsStayLive
<1>15. ASSUME NEW x \in LeaderState, lead' = [lead EXCEPT ![i][r.obj] = x]
       PROVE  /\ lead' \in [Node -> Seq(LeaderState)]
              /\ \A j \in Node : Len(lead'[j]) = Len(lead[j])
  BY <1>2, <1>3, <1>4, <1>15, LeadUpdate
<1> DEFINE Typed ==
         /\ node' \in [Node -> NodeState] /\ AllCalm
         /\ lead' \in [Node -> Seq(LeaderState)]
         /\ \A j \in Node : Len(lead'[j]) = Len(lead[j])
         /\ appendRpcs' \subseteq AppendRpc
         /\ \A q \in appendRpcs' :
              q.phase # "orphan" => q.from \in Node /\ q.obj \in 1..Len(lead[q.from])
         /\ committed' \subseteq [index : Index, entry : Entry, term : Term]
         /\ events' \in [EventKind -> Nat]
<1>16. Typed
  <2>1. ASSUME NEW sf \in BOOLEAN, Down(sf) PROVE Typed
    <3>1. StepDown(n, reply.term, sf) \in NodeState
      BY <1>3, NodeOpsType
    <3>2. Calm(n, StepDown(n, reply.term, sf))
      BY <1>3, NodeOpsCalm
    <3>3. node' \in [Node -> NodeState] /\ AllCalm
      BY <1>2, <1>3, <2>1, <3>1, <3>2, OneCalm DEF n
    <3>4. events' \in [EventKind -> Nat]
      BY <1>2, <2>1, HappenType
    <3>5. lead' \in [Node -> Seq(LeaderState)] /\ \A j \in Node : Len(lead'[j]) = Len(lead[j])
      BY <1>6, <1>15, <2>1
    <3>6. committed' \subseteq [index : Index, entry : Entry, term : Term]
      BY <2>1 DEF Shape, TypeOK
    <3> QED BY <1>13, <1>14, <2>1, <3>3, <3>4, <3>5, <3>6
  <2>2. CASE Ignored
    <3>3. node' \in [Node -> NodeState] /\ AllCalm
      BY <1>2, <2>2, NoneCalm
    <3>4. events' \in [EventKind -> Nat]
      BY <1>2, <2>2, HappenType
    <3>5. lead' \in [Node -> Seq(LeaderState)] /\ \A j \in Node : Len(lead'[j]) = Len(lead[j])
      BY <1>6, <1>15, <2>2
    <3>6. committed' \subseteq [index : Index, entry : Entry, term : Term]
      BY <2>2 DEF Shape, TypeOK
    <3> QED BY <1>13, <1>14, <2>2, <3>3, <3>4, <3>5, <3>6
  <2>3. CASE Used
    <3>3. node' \in [Node -> NodeState] /\ AllCalm
      BY <1>2, <1>3, <1>9, <2>3, OneCalm DEF n
    <3>4. events' \in [EventKind -> Nat]
      BY <1>2, <2>3, HappenType
    <3>5. lead' \in [Node -> Seq(LeaderState)] /\ \A j \in Node : Len(lead'[j]) = Len(lead[j])
      BY <1>10, <1>15, <2>3
    <3>6. committed' \subseteq [index : Index, entry : Entry, term : Term]
      BY <1>3, <1>7, <1>8, <2>3, DeclaredType DEF Shape, TypeOK
    <3>7. appendRpcs' \subseteq AppendRpc
      BY <1>11, <1>13, <2>3
    <3>8. \A q \in appendRpcs' :
            q.phase # "orphan" => q.from \in Node /\ q.obj \in 1..Len(lead[q.from])
      BY <1>3, <1>4, <1>12, <1>14, <2>3
    <3> QED BY <3>3, <3>4, <3>5, <3>6, <3>7, <3>8
  <2> QED BY <1>1, <2>1, <2>2, <2>3
<1>17. TypeOK'
  BY <1>16 DEF Shape, TypeOK
<1>18. LiveObjects' /\ LeaderHasObject'
  BY <1>16 DEF Shape, LiveObjects, LeaderHasObject, AllCalm, Calm
<1> QED
  BY <1>16, <1>17, <1>18 DEF Shape

\* The two ways an append call ends; both are calm.
LEMMA AppendReturnsShape ==
    ASSUME Shape, NEW r \in appendRpcs, AppendEntriesReturns(r) \/ AppendEntriesFails(r)
    PROVE  Shape' /\ AllCalm
<1>1. r \in AppendRpc /\ r.term \in Nat /\ r.reply \in AppendReply
  BY DEF Shape, TypeOK, AppendRpc, Term
<1>2. CASE AppendEntriesReturns(r)
  BY <1>1, <1>2, AppendContinuesShape DEF AppendEntriesReturns
<1>3. CASE AppendEntriesFails(r)
  <2>1. [NoAppend EXCEPT !.term = r.term] \in AppendReply
    BY <1>1 DEF NoAppend, AppendReply, Term, Index
  <2> QED BY <1>3, <2>1, AppendContinuesShape DEF AppendEntriesFails
<1> QED
  BY <1>2, <1>3

\* HandlePropose: a new entry and requests of the current leader object.
LEMMA ProposeShape ==
    ASSUME Shape, NEW i \in Node, NEW v \in Value, Propose(i, v)
    PROVE  Shape'
<1> DEFINE n == node[i]
           o == Len(lead[i])
           l == lead[i][o]
           e == [term |-> n.currentTerm, data |-> v]
           written == Append(log[i], e)
           l1 == AllInflight(i, l)
           k == Len(written)
           l2 == [l1 EXCEPT !.matchIndex[i] = IF @ < k THEN k ELSE @,
                            !.nextIndex[i] = IF @ < k + 1 THEN k + 1 ELSE @]
<1>1. /\ n.role = "leader"
      /\ Happen({"propose"})
      /\ log' = [log EXCEPT ![i] = written]
      /\ appendRpcs' = appendRpcs \cup AppendRequestsToAll(i, o, l, written, n)
      /\ lead' = [lead EXCEPT ![i][o] = l2]
      /\ UNCHANGED <<node, preVoteRpcs, voteRpcs, histVars>>
  BY DEF Propose
<1>2. /\ node \in [Node -> NodeState] /\ log \in [Node -> Seq(Entry)]
      /\ lead \in [Node -> Seq(LeaderState)] /\ events \in [EventKind -> Nat]
      /\ n \in NodeState /\ log[i] \in Seq(Entry) /\ lead[i] \in Seq(LeaderState)
  BY DEF Shape, TypeOK
<1>3. o \in Nat /\ o \in 1..Len(lead[i])
  <2>1. o \in Nat \ {0}
    BY <1>1 DEF Shape, LeaderHasObject
  <2> QED BY <2>1
<1>4. l \in LeaderState
  BY <1>2, <1>3, ElementOfSeq
<1>5. e \in Entry
  BY <1>2 DEF Entry, NodeState, Term
<1>6. written \in Seq(Entry) /\ k \in Nat
  <2> HIDE DEF e
  <2>1. written \in Seq(Entry)
    BY <1>2, <1>5, AppendProperties
  <2> QED BY <2>1, LenProperties
<1> HIDE DEF written, l, o, n, e
<1>7. l1 \in LeaderState /\ AppendRequestsToAll(i, o, l, written, n) \subseteq AppendRpc
  BY <1>2, <1>3, <1>4, <1>6, AppendRequestsToAllType
<1> HIDE DEF l1, k
<1>8. l2 \in LeaderState
  <2> DEFINE g == [l1.matchIndex EXCEPT ![i] = IF @ < k THEN k ELSE @]
             f == [l1.nextIndex EXCEPT ![i] = IF @ < k + 1 THEN k + 1 ELSE @]
  <2>1. l1.matchIndex \in [Node -> Nat] /\ l1.nextIndex \in [Node -> Nat \ {0}]
    BY <1>7 DEF LeaderState, Index
  <2>2. g \in [Node -> Nat] /\ f \in [Node -> Nat \ {0}]
    BY <1>6, <2>1
  <2>3. l2 = [l1 EXCEPT !.matchIndex = g, !.nextIndex = f]
    BY <1>7 DEF LeaderState
  <2> HIDE DEF g, f
  <2> QED BY <1>7, <2>2, <2>3 DEF LeaderState, Index
<1> HIDE DEF l2
<1>9. /\ lead' \in [Node -> Seq(LeaderState)]
      /\ \A j \in Node : Len(lead'[j]) = Len(lead[j])
  BY <1>1, <1>2, <1>3, <1>8, LeadUpdate
<1>10. TypeOK'
  <2>1. log' \in [Node -> Seq(Entry)]
    BY <1>1, <1>2, <1>6
  <2>2. events' \in [EventKind -> Nat]
    BY <1>1, <1>2, HappenType
  <2>3. appendRpcs' \subseteq AppendRpc
    BY <1>1, <1>7 DEF Shape, TypeOK
  <2> QED BY <1>1, <1>9, <2>1, <2>2, <2>3 DEF Shape, TypeOK, histVars
<1>11. LiveObjects'
  <2> SUFFICES ASSUME NEW q \in appendRpcs', q.phase # "orphan"
               PROVE  q.obj \in 1..Len(lead'[q.from])
    BY DEF LiveObjects
  <2>1. CASE q \in appendRpcs
    <3>1. q.from \in Node /\ q.obj \in 1..Len(lead[q.from])
      BY <2>1 DEF Shape, TypeOK, AppendRpc, LiveObjects
    <3> QED BY <1>9, <3>1
  <2>2. CASE q \in AppendRequestsToAll(i, o, l, written, n)
    <3>1. q.from = i /\ q.obj = o
      BY <2>2, RequestsBelong
    <3> QED BY <1>3, <1>9, <3>1
  <2> QED BY <1>1, <2>1, <2>2
<1>12. LeaderHasObject'
  BY <1>1, <1>9 DEF Shape, LeaderHasObject
<1> QED
  BY <1>10, <1>11, <1>12 DEF Shape

\* Tick of a leader: heartbeat, lease or both.
LEMMA LeaderTickShape ==
    ASSUME Shape, NEW i \in Node, NEW heartbeat \in BOOLEAN, NEW expired \in BOOLEAN,
           LeaderTick(i, heartbeat, expired)
    PROVE  Shape' /\ AllCalm
<1> DEFINE n == node[i]
           o == Len(lead[i])
           l == lead[i][o]
<1>1. /\ n.role = "leader"
      /\ Happen(When(heartbeat, "heartbeat") \cup When(expired, "lease"))
      /\ lead' = IF heartbeat THEN [lead EXCEPT ![i][o] = AllInflight(i, l)] ELSE lead
      /\ appendRpcs' = IF heartbeat
                         THEN appendRpcs \cup AppendRequestsToAll(i, o, l, log[i], n)
                         ELSE appendRpcs
      /\ node' = IF expired THEN [node EXCEPT ![i] = BecomeFollower(n, n.currentTerm)]
                            ELSE node
      /\ UNCHANGED <<log, preVoteRpcs, voteRpcs, histVars>>
  BY DEF LeaderTick
<1>2. /\ node \in [Node -> NodeState] /\ log \in [Node -> Seq(Entry)]
      /\ lead \in [Node -> Seq(LeaderState)] /\ events \in [EventKind -> Nat]
      /\ n \in NodeState /\ log[i] \in Seq(Entry) /\ lead[i] \in Seq(LeaderState)
      /\ n.currentTerm \in Nat
  BY DEF Shape, TypeOK, NodeState, Term
<1>3. o \in Nat /\ o \in 1..Len(lead[i])
  <2>1. o \in Nat \ {0}
    BY <1>1 DEF Shape, LeaderHasObject
  <2> QED BY <2>1
<1>4. l \in LeaderState
  BY <1>2, <1>3, ElementOfSeq
<1>5. BecomeFollower(n, n.currentTerm) \in NodeState /\ Calm(n, BecomeFollower(n, n.currentTerm))
  BY <1>2, NodeOpsType, NodeOpsCalm
<1>6. node' \in [Node -> NodeState] /\ AllCalm
  <2>1. CASE expired
    BY <1>1, <1>2, <1>5, <2>1, OneCalm
  <2>2. CASE ~expired
    BY <1>1, <1>2, <2>2, NoneCalm
  <2> QED BY <2>1, <2>2
<1> HIDE DEF l, o, n
<1>7. AllInflight(i, l) \in LeaderState /\ AppendRequestsToAll(i, o, l, log[i], n) \subseteq AppendRpc
  BY <1>2, <1>3, <1>4, AppendRequestsToAllType
<1>8. /\ lead' \in [Node -> Seq(LeaderState)]
      /\ \A j \in Node : Len(lead'[j]) = Len(lead[j])
  <2>1. CASE heartbeat
    BY <1>1, <1>2, <1>3, <1>7, <2>1, LeadUpdate
  <2>2. CASE ~heartbeat
    BY <1>1, <1>2, <2>2
  <2> QED BY <2>1, <2>2
<1>9. TypeOK'
  <2>1. events' \in [EventKind -> Nat]
    BY <1>1, <1>2, HappenType
  <2>2. appendRpcs' \subseteq AppendRpc
    BY <1>1, <1>7 DEF Shape, TypeOK
  <2> QED BY <1>1, <1>6, <1>8, <2>1, <2>2 DEF Shape, TypeOK, histVars
<1>10. LiveObjects'
  <2> SUFFICES ASSUME NEW q \in appendRpcs', q.phase # "orphan"
               PROVE  q.obj \in 1..Len(lead'[q.from])
    BY DEF LiveObjects
  <2>1. CASE q \in appendRpcs
    <3>1. q.from \in Node /\ q.obj \in 1..Len(lead[q.from])
      BY <2>1 DEF Shape, TypeOK, AppendRpc, LiveObjects
    <3> QED BY <1>8, <3>1
  <2>2. CASE q \in AppendRequestsToAll(i, o, l, log[i], n)
    <3>1. q.from = i /\ q.obj = o
      BY <2>2, RequestsBelong
    <3> QED BY <1>3, <1>8, <3>1
  <2> QED BY <1>1, <2>1, <2>2
<1>11. LeaderHasObject'
  BY <1>6, <1>8 DEF Shape, LeaderHasObject, AllCalm, Calm
<1> QED
  BY <1>6, <1>9, <1>10, <1>11 DEF Shape

\* Disable is calm: a disabled leader keeps term, tally and object.
LEMMA DisableShape ==
    ASSUME Shape, NEW i \in Node, Disable(i)
    PROVE  Shape' /\ AllCalm
<1> DEFINE m == [node[i] EXCEPT !.enabled = FALSE, !.leaderId = Nil,
                                !.stopped = (node[i].stopped \/ node[i].role = "leader")]
<1>1. node[i] \in NodeState /\ node \in [Node -> NodeState] /\ events \in [EventKind -> Nat]
  BY DEF Shape, TypeOK
<1>2. \A b \in BOOLEAN :
        LET x == [node[i] EXCEPT !.enabled = FALSE, !.leaderId = Nil, !.stopped = b]
        IN  x \in NodeState /\ Calm(node[i], x)
  BY <1>1 DEF NodeState, Calm, StoreStep, Term
<1>3. m \in NodeState /\ Calm(node[i], m)
  <2>1. (node[i].stopped \/ node[i].role = "leader") \in BOOLEAN
    OBVIOUS
  <2> QED BY <1>2, <2>1
<1>4. /\ Happen({"disable"})
      /\ node' = [node EXCEPT ![i] = m]
      /\ UNCHANGED <<log, lead, rpcVars, histVars>>
  BY DEF Disable
<1> HIDE DEF m
<1>5. AllCalm /\ node' \in [Node -> NodeState]
  BY <1>1, <1>3, <1>4, OneCalm
<1>6. events' \in [EventKind -> Nat]
  BY <1>1, <1>4, HappenType
<1> QED
  BY <1>4, <1>5, <1>6 DEF Shape, TypeOK, LiveObjects, LeaderHasObject, AllCalm, Calm,
                          rpcVars, histVars

\* Enable is calm.
LEMMA EnableShape ==
    ASSUME Shape, NEW i \in Node, Enable(i)
    PROVE  Shape' /\ AllCalm
<1> DEFINE n == node[i]
           f == BecomeFollower(n, n.currentTerm)
           m == [f EXCEPT !.enabled = TRUE]
<1>1. n \in NodeState /\ node \in [Node -> NodeState] /\ n.currentTerm \in Nat
  BY DEF Shape, TypeOK, NodeState, Term
<1>2. f \in NodeState /\ Calm(n, f)
  <2>1. TRUE \in BOOLEAN
    OBVIOUS
  <2> QED BY <1>1, <2>1, NodeOpsType, NodeOpsCalm
<1>3. m \in NodeState /\ Calm(f, m)
  <2> HIDE DEF f
  <2> QED BY <1>2 DEF NodeState, Calm, StoreStep
<1>4. Calm(n, m)
  <2> HIDE DEF n, f, m
  <2> QED BY <1>1, <1>2, <1>3, CalmTransitive
<1>5. node' = [node EXCEPT ![i] = m] /\ UNCHANGED <<log, lead, rpcVars, histVars, events>>
  BY DEF Enable
<1>6. AllCalm /\ node' \in [Node -> NodeState]
  <2> HIDE DEF m
  <2> QED BY <1>1, <1>3, <1>4, <1>5, OneCalm
<1> QED
  BY <1>5, <1>6 DEF Shape, TypeOK, LiveObjects, LeaderHasObject, AllCalm, Calm,
                    rpcVars, histVars

\* A process that dies leaves no goroutine behind, so the leader objects that
\* are gone are missed by nobody.
LEMMA RebootShape ==
    ASSUME Shape, NEW i \in Node, NEW n \in NodeState, Calm(node[i], n), Reboot(i, n)
    PROVE  Shape' /\ AllCalm
<1>1. /\ node \in [Node -> NodeState] /\ lead \in [Node -> Seq(LeaderState)]
      /\ events \in [EventKind -> Nat] /\ node[i] \in NodeState
      /\ voteRpcs \in SUBSET VoteRpc /\ appendRpcs \in SUBSET AppendRpc
  BY DEF Shape, TypeOK
<1>2. Rebooted(n) \in NodeState /\ Calm(n, Rebooted(n)) /\ Rebooted(n).role = "follower"
  <2>1. 0 \in Nat /\ TRUE \in BOOLEAN
    OBVIOUS
  <2> QED BY <2>1, NodeOpsType, NodeOpsCalm
<1>3. Calm(node[i], Rebooted(n))
  BY <1>1, <1>2, CalmTransitive
<1>4. AllCalm /\ node' \in [Node -> NodeState]
  BY <1>1, <1>2, <1>3, OneCalm DEF Reboot
<1>5. lead' \in [Node -> Seq(LeaderState)]
  <2>1. <<>> \in Seq(LeaderState)
    BY EmptySeq
  <2> QED BY <1>1, <2>1 DEF Reboot
<1>6. voteRpcs' \subseteq VoteRpc
  <2>1. \A q \in VoteRpc : [q EXCEPT !.phase = "orphan"] \in VoteRpc
    BY DEF VoteRpc, Phase
  <2> QED BY <1>1, <2>1 DEF Reboot, CallerDied
<1>7. appendRpcs' \subseteq AppendRpc
      /\ \A q \in appendRpcs' : q.phase # "orphan" => q \in appendRpcs /\ q.from # i
  <2>1. \A q \in AppendRpc : /\ [q EXCEPT !.phase = "orphan"] \in AppendRpc
                             /\ [q EXCEPT !.phase = "orphan"].phase = "orphan"
    BY DEF AppendRpc, Phase
  <2>2. appendRpcs' = CallerDied(appendRpcs, i)
    BY DEF Reboot
  <2>3. ASSUME NEW q \in appendRpcs'
        PROVE  q \in AppendRpc /\ (q.phase # "orphan" => q \in appendRpcs /\ q.from # i)
    <3>1. CASE q \in appendRpcs /\ (q.from # i \/ q.phase = "orphan")
      BY <1>1, <3>1
    <3>2. CASE \E p \in appendRpcs : q = [p EXCEPT !.phase = "orphan"]
      BY <1>1, <2>1, <3>2
    <3> QED BY <2>2, <3>1, <3>2 DEF CallerDied
  <2> QED BY <2>3
<1>8. events' \in [EventKind -> Nat]
  BY <1>1, HappenType DEF Reboot
<1>9. TypeOK'
  BY <1>4, <1>5, <1>6, <1>7, <1>8 DEF Shape, TypeOK, Reboot, histVars
<1>10. LiveObjects'
  <2> SUFFICES ASSUME NEW q \in appendRpcs', q.phase # "orphan"
               PROVE  q.obj \in 1..Len(lead'[q.from])
    BY DEF LiveObjects
  <2>1. q \in appendRpcs /\ q.from # i /\ q.from \in Node
    BY <1>1, <1>7 DEF AppendRpc
  <2>2. lead'[q.from] = lead[q.from]
    BY <1>1, <2>1 DEF Reboot
  <2> QED BY <2>1, <2>2 DEF Shape, LiveObjects
<1>11. LeaderHasObject'
  BY <1>1, <1>2, <1>4 DEF Shape, LeaderHasObject, AllCalm, Calm, Reboot
<1> QED
  BY <1>4, <1>9, <1>10, <1>11 DEF Shape

\* A crash at any moment.
LEMMA RestartShape ==
    ASSUME Shape, NEW i \in Node, Restart(i)
    PROVE  Shape' /\ AllCalm
<1>1. node[i] \in NodeState /\ Calm(node[i], node[i])
  <2>1. node[i] \in NodeState /\ 0 \in Nat /\ TRUE \in BOOLEAN
    BY DEF Shape, TypeOK
  <2> QED BY <2>1, NodeOpsCalm
<1> QED
  BY <1>1, RebootShape DEF Restart

\* A crash between the two store writes of startElection.
LEMMA CrashMidElectionShape ==
    ASSUME Shape, NEW r \in preVoteRpcs, CrashMidElection(r)
    PROVE  Shape' /\ AllCalm
<1>1. r.from \in Node /\ node[r.from] \in NodeState /\ 0 \in Nat /\ TRUE \in BOOLEAN
  BY DEF Shape, TypeOK, PreVoteRpc
<1>2. node[r.from].role # "leader"
  BY DEF CrashMidElection, WinsPreVote, PreVoteCounts
<1>3. IncrementCurrentTerm(node[r.from]) \in NodeState
      /\ Calm(node[r.from], IncrementCurrentTerm(node[r.from]))
  BY <1>1, <1>2, NodeOpsType, NodeOpsCalm
<1> QED
  BY <1>1, <1>3, RebootShape DEF CrashMidElection

\* Every step preserves Shape, one case per action.
LEMMA NextShape == Shape /\ [Next]_vars => Shape'
<1> SUFFICES ASSUME Shape, [Next]_vars PROVE Shape'
  OBVIOUS
<1>1. ASSUME NEW i \in Node, ElectionTimeout(i) PROVE Shape'
  BY <1>1, ElectionTimeoutShape
<1>2. ASSUME NEW i \in Node, NEW v \in Value, Propose(i, v) PROVE Shape'
  BY <1>2, ProposeShape
<1>3. ASSUME NEW i \in Node, NEW heartbeat \in BOOLEAN, NEW expired \in BOOLEAN,
             LeaderTick(i, heartbeat, expired) PROVE Shape'
  BY <1>3, LeaderTickShape
<1>4. ASSUME NEW i \in Node, Disable(i) \/ Enable(i) \/ Restart(i) PROVE Shape'
  BY <1>4, DisableShape, EnableShape, RestartShape
<1>5. ASSUME NEW r \in preVoteRpcs, DeliverPreVote(r) PROVE Shape'
  BY <1>5, DeliverPreVoteShape
<1>6. ASSUME NEW r \in preVoteRpcs, PreVoteReturns(r) \/ PreVoteFails(r) PROVE Shape'
  BY <1>6, PreVoteReturnsShape
<1>7. ASSUME NEW r \in preVoteRpcs, CrashMidElection(r) PROVE Shape'
  BY <1>7, CrashMidElectionShape
<1>8. ASSUME NEW r \in voteRpcs, DeliverRequestVoteRefused(r) PROVE Shape'
  BY <1>8, DeliverRequestVoteRefusedShape
<1>9. ASSUME NEW r \in voteRpcs, DeliverRequestVote(r) PROVE Shape'
  BY <1>9, DeliverRequestVoteShape
<1>10. ASSUME NEW r \in voteRpcs, RequestVoteReturns(r) PROVE Shape'
  BY <1>10, RequestVoteReturnsShape
<1>11. ASSUME NEW r \in voteRpcs, RequestVoteFails(r) PROVE Shape'
  BY <1>11, RequestVoteFailsShape
<1>12. ASSUME NEW r \in appendRpcs, DeliverAppendRefused(r) \/ DeliverAppendEntries(r) PROVE Shape'
  BY <1>12, DeliverAppendShape
<1>13. ASSUME NEW r \in appendRpcs, AppendEntriesReturns(r) \/ AppendEntriesFails(r) PROVE Shape'
  BY <1>13, AppendReturnsShape
<1>14. CASE UNCHANGED vars
  BY <1>14 DEF vars, nodeVars, rpcVars, histVars, Shape, TypeOK, LiveObjects, LeaderHasObject
<1> QED
  BY <1>1, <1>2, <1>3, <1>4, <1>5, <1>6, <1>7, <1>8, <1>9, <1>10, <1>11, <1>12, <1>13, <1>14
     DEF Next

\* The structural invariant holds for every cluster, batch size and number of
\* events: in particular no callback ever looks for a leader object that is
\* not there, and no peer's nextIndex falls to 0.
THEOREM ShapeInvariant == Spec => []Shape
  BY InitShape, NextShape, PTL DEF Spec

\* Type correctness of the consensus core.
THEOREM TypeCorrect == Spec => []TypeOK
<1>1. Shape => TypeOK
  BY DEF Shape
<1> QED
  BY <1>1, ShapeInvariant, PTL
=============================================================================
