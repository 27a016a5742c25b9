-------------------------- MODULE RaftCommitProofs --------------------------
(***************************************************************************)
(* What a leader counts and commits, for every cluster size, every batch   *)
(* size and every number of lost, late and doubled calls, elections, failed*)
(* store writes and crashes, as long as no log write fails:                *)
(*                                                                         *)
(*   MatchIndexSound         without further conditions;                   *)
(*   LeaderCompleteness,                                                   *)
(*   CommitHasMajority       if no request is cut off by the batch limit   *)
(*                           (BatchesFit);                                 *)
(*   CommittedEntriesAgree   if, besides, no request carries an entry of a *)
(*                           later term than its own                       *)
(*                           (RequestHasLeadersTerm).                      *)
(*                                                                         *)
(* A request of an earlier office may be answered, counted and retried in  *)
(* a later one.  So the tally of a leader object is followed, with the     *)
(* answers under way to it, from the office it was made in (LiveObj,       *)
(* Acked).  Whoever a tally counts for k entries will help nobody to an    *)
(* office whose log does not reach entry k of the tally's term (Kept); or  *)
(* the tally will never count a majority (Blocked).  With a majority       *)
(* counted the entry is chosen (Chosen), and stays so: no log goes past    *)
(* its term without it (Crossing).                                         *)
(*                                                                         *)
(* Of the actions, the proofs use no more than what RaftLogProofs says of  *)
(* a step (LogStep, CommitStep, VoteStep).                                 *)
(***************************************************************************)
EXTENDS RaftLogProofs

----------------------------------------------------------------------------
(* What a leader counts as replicated is there.                            *)

\* A step of the program, with what is already proved about it.
GoodStep ==
    /\ Shape /\ Shape' /\ Votes /\ Votes' /\ Logs /\ Logs'
    /\ LogStep /\ CommitStep /\ VoteStep

\* Terms and logs, and that terms do not fall.
LEMMA StepTypes ==
    ASSUME GoodStep, NEW i \in Node
    PROVE  /\ node[i].currentTerm \in Nat /\ node'[i].currentTerm \in Nat
           /\ node[i].currentTerm <= node'[i].currentTerm
           /\ log \in [Node -> Seq(Entry)] /\ log' \in [Node -> Seq(Entry)]
           /\ log[i] \in Seq(Entry) /\ log'[i] \in Seq(Entry)
           /\ Len(log[i]) \in Nat /\ Len(log'[i]) \in Nat
<1>1. /\ node[i].currentTerm \in Nat /\ node'[i].currentTerm \in Nat
      /\ log \in [Node -> Seq(Entry)] /\ log' \in [Node -> Seq(Entry)]
  BY DEF GoodStep, Shape, TypeOK, NodeState, Term
<1>2. node[i].currentTerm <= node'[i].currentTerm
  BY <1>1 DEF GoodStep, LogStep, StoreStep
<1> QED
  BY <1>1, <1>2, LenProperties

\* What a request is made of.
LEMMA CallTypes ==
    ASSUME Shape, Logs, NEW r \in appendRpcs
    PROVE  /\ r \in AppendRpc /\ r.from \in Node /\ r.to \in Node /\ r.from # r.to
           /\ r.term \in Nat /\ r.obj \in Nat /\ Won(r.term, r.from)
           /\ r.prevIndex \in Nat /\ r.prevTerm \in Nat /\ r.commit \in Nat
           /\ r.entries \in Seq(Entry) /\ Len(r.entries) \in Nat /\ EndOf(r) \in Nat
           /\ IsView(r) /\ r \in Views
<1>1. /\ r \in AppendRpc /\ r.from \in Node /\ r.to \in Node
      /\ r.term \in Nat /\ r.obj \in Nat
      /\ r.prevIndex \in Nat /\ r.prevTerm \in Nat /\ r.commit \in Nat
      /\ r.entries \in Seq(Entry) /\ Len(r.entries) \in Nat
  BY LenProperties DEF Shape, TypeOK, AppendRpc, Term, Index
<1>2. r.from # r.to /\ Won(r.term, r.from) /\ r \in Views
  BY DEF Logs, Requests, GoodRequest, Views
<1>3. IsView(r)
  BY <1>2, AreViews DEF Logs
<1>4. EndOf(r) \in Nat
  BY <1>1 DEF EndOf
<1> QED
  BY <1>1, <1>2, <1>3, <1>4

\* A vote is asked for and given in a term that has begun and that its
\* candidate has reached.
Started ==
    /\ \A x \in ballots : x[2] > 0 /\ x[2] <= node[x[3]].currentTerm
    /\ \A r \in voteRpcs : r.term > 0 /\ r.term <= node[r.from].currentTerm

\* Started stays true.
LEMMA StartedStays ==
    ASSUME GoodStep, Started
    PROVE  Started'
<1>1. ASSUME NEW q \in voteRpcs' PROVE q.term > 0 /\ q.term <= node'[q.from].currentTerm
  <2>1. q.from \in Node /\ q.term \in Nat
    BY DEF GoodStep, Shape, TypeOK, VoteRpc, Term
  <2>2. CASE \E p \in voteRpcs : SameVoteCall(q, p)
    <3>1. PICK i \in Node, p \in voteRpcs : i = q.from /\ p.from = i /\ p.term = q.term
      BY <2>1, <2>2 DEF SameVoteCall
    <3>2. p.term > 0 /\ p.term <= node[i].currentTerm
      BY <3>1 DEF Started
    <3>3. node[i].currentTerm \in Nat /\ node'[i].currentTerm \in Nat
          /\ node[i].currentTerm <= node'[i].currentTerm
      BY StepTypes
    <3>4. q.term <= node'[i].currentTerm
      BY <2>1, <3>1, <3>2, <3>3
    <3> QED BY <3>1, <3>2, <3>4
  <2>3. CASE q.term > 0 /\ q.term = node'[q.from].currentTerm
    BY <2>1, <2>3
  <2> QED BY <2>2, <2>3 DEF GoodStep, VoteStep, VoteCallsMove
<1>2. ASSUME NEW x \in ballots' PROVE x[2] > 0 /\ x[2] <= node'[x[3]].currentTerm
  <2>1. CASE x \in ballots
    <3>1. x[3] \in Node /\ x[2] \in Nat
      BY <2>1, BallotType DEF GoodStep
    <3> QED BY <2>1, <3>1, StepTypes DEF Started
  <2>2. CASE x[3] \in Node /\ x[2] \in Nat /\ x[2] = node'[x[1]].currentTerm
             /\ x[3] = x[1] /\ x[2] > 0
    BY <2>2
  <2>3. ASSUME NEW r \in voteRpcs, x[3] \in Node, x[2] \in Nat, r.term = x[2], r.from = x[3]
        PROVE  x[2] > 0 /\ x[2] <= node'[x[3]].currentTerm
    <3>1. PICK i \in Node, t \in Nat : i = x[3] /\ t = x[2]
      BY <2>3
    <3>2. t > 0 /\ t <= node[i].currentTerm
      BY <2>3, <3>1 DEF Started
    <3>3. node[i].currentTerm \in Nat /\ node'[i].currentTerm \in Nat
          /\ node[i].currentTerm <= node'[i].currentTerm
      BY StepTypes
    <3> QED BY <3>1, <3>2, <3>3
  <2> QED BY <2>1, <2>2, <2>3 DEF GoodStep, VoteStep, BallotsMove
<1> QED
  BY <1>1, <1>2 DEF Started

\* So has a term that is won.
LEMMA WonStarted ==
    ASSUME Shape, Started, NEW t, NEW w, Won(t, w)
    PROVE  t \in Nat /\ w \in Node /\ t > 0 /\ t <= node[w].currentTerm
<1>1. PICK v \in Voters(t, w) : v # Nil
  BY QuorumHasTwo DEF Won
<1>2. <<v, t, w>> \in ballots
  BY <1>1 DEF Voters
<1>3. PICK x \in ballots : x = <<v, t, w>>
  BY <1>2
<1>4. x[2] = t /\ x[3] = w
  BY <1>3
<1> QED
  BY <1>3, <1>4, BallotType DEF Started

\* A tally that is in use belongs to a term its owner has won.
LEMMA LiveWon ==
    ASSUME Shape, Votes, Logs, Started, NEW i \in Node, NEW o, NEW t, LiveObj(i, o, t)
    PROVE  t \in Nat /\ o \in Nat /\ Won(t, i) /\ t > 0 /\ t <= node[i].currentTerm
<1>1. CASE node[i].role = "leader" /\ t = node[i].currentTerm
  BY <1>1, LeaderWon, LiveIsObject, WonStarted
<1>2. CASE \E r \in appendRpcs : r.from = i /\ r.obj = o /\ r.term = t
  BY <1>2, CallTypes, WonStarted
<1> QED
  BY <1>1, <1>2 DEF LiveObj

\* Entries have terms above 0.
LEMMA EntryStarted ==
    ASSUME Shape, Logs, Started, NEW v \in Views, NEW k \in Covers(v)
    PROVE  /\ At(v, k) \in Entry /\ At(v, k).term \in Nat /\ At(v, k).term > 0
           /\ \E w \in Node : Won(At(v, k).term, w)
<1>1. PICK w \in Node : Won(At(v, k).term, w)
  BY DEF Logs, Origins, Origin
<1>2. At(v, k) \in Entry
  BY AreViews, ViewTypes DEF Logs
<1> QED
  BY <1>1, <1>2, WonStarted

\* The same of the entries of logs.
LEMMA LogEntryStarted ==
    ASSUME Shape, Logs, Started, NEW i \in Node, NEW k \in 1..Len(log[i])
    PROVE  /\ log[i][k] \in Entry /\ log[i][k].term \in Nat /\ log[i][k].term > 0
           /\ \E w \in Node : Won(log[i][k].term, w)
<1>1. /\ LogView(log[i]) \in Views /\ k \in Covers(LogView(log[i])) /\ k \in Int
      /\ At(LogView(log[i]), k) = log[i][k]
  <2>1. log[i] \in Seq(Entry) /\ LogView(log[i]) \in Views
    BY AreViews DEF Logs
  <2>2. k \in Int
    OBVIOUS
  <2> QED BY <2>1, <2>2, LogViewFacts
<1> QED
  BY <1>1, EntryStarted

\* A tally keeps its term.
LEMMA OneTermStays ==
    ASSUME GoodStep, OneTerm
    PROVE  OneTerm'
<1> SUFFICES ASSUME NEW i \in Node, NEW o \in Nat, NEW t \in Nat, NEW u \in Nat,
                    LiveObj(i, o, t)', LiveObj(i, o, u)'
             PROVE  t = u
  BY DEF OneTerm
<1>1. LiveObj(i, o, t) \/ NewObject(i, o, t)
  BY DEF GoodStep, CommitStep, TalliesMove
<1>2. LiveObj(i, o, u) \/ NewObject(i, o, u)
  BY DEF GoodStep, CommitStep, TalliesMove
<1>3. ASSUME NEW x, NEW y, LiveObj(i, o, x), NewObject(i, o, y) PROVE FALSE
  <2>1. o \in 1..Len(lead[i])
    BY <1>3, LiveIsObject DEF GoodStep
  <2>2. Len(lead[i]) \in Nat
    BY LenProperties DEF GoodStep, Shape, TypeOK
  <2> QED BY <1>3, <2>1, <2>2 DEF NewObject
<1>4. CASE LiveObj(i, o, t) /\ LiveObj(i, o, u)
  BY <1>4 DEF OneTerm
<1>5. CASE NewObject(i, o, t) /\ NewObject(i, o, u)
  BY <1>5 DEF NewObject
<1> QED
  BY <1>1, <1>2, <1>3, <1>4, <1>5

\* What appendEntries makes of a log, when nothing fails: the log has the
\* request's entries, and is as it was or ends with them.
LEMMA AppendFacts ==
    ASSUME NEW lg \in Seq(Entry), NEW r \in AppendRpc, IsView(r), r.prevIndex <= Len(lg),
           Agree(LogView(lg), r), NEW after, after = AppendEntries(lg, r.prevIndex, r.entries)
    PROVE  /\ after \in Seq(Entry) /\ Len(after) \in Nat /\ EndOf(r) <= Len(after)
           /\ \A m \in 1..r.prevIndex : after[m] = lg[m]
           /\ \A j \in 1..Len(r.entries) : after[r.prevIndex + j] = r.entries[j]
           /\ \/ after = lg
              \/ /\ Len(after) = EndOf(r)
                 /\ \E j \in 1..Len(r.entries) :
                      r.prevIndex + j > Len(lg) \/ lg[r.prevIndex + j].term # r.entries[j].term
<1> DEFINE new == Unmatched(lg, r.prevIndex, r.entries)
           f == Min(new)
<1>1. /\ Len(r.entries) \in Nat /\ r.entries \in Seq(Entry) /\ Len(lg) \in Nat
      /\ r.prevIndex \in Nat
  BY LenProperties DEF IsView
<1>2. CASE new = {}
  <2>1. after = lg
    BY <1>2 DEF AppendEntries
  <2>2. \A j \in 1..Len(r.entries) :
          r.prevIndex + j <= Len(lg) /\ lg[r.prevIndex + j].term = r.entries[j].term
    BY <1>1, <1>2 DEF Unmatched
  <2>3. EndOf(r) <= Len(lg)
    <3>1. CASE Len(r.entries) = 0
      BY <1>1, <3>1 DEF EndOf
    <3>2. CASE Len(r.entries) > 0
      <4>1. Len(r.entries) \in 1..Len(r.entries)
        BY <1>1, <3>2
      <4> QED BY <2>2, <4>1 DEF EndOf
    <3> QED BY <1>1, <3>1, <3>2
  <2>4. ASSUME NEW j \in 1..Len(r.entries) PROVE lg[r.prevIndex + j] = r.entries[j]
    <3> DEFINE k == r.prevIndex + j
    <3>1. k \in Nat /\ k > r.prevIndex /\ k <= r.prevIndex + Len(r.entries) /\ k >= 1
          /\ k - r.prevIndex = j /\ k <= Len(lg) /\ k \in Int /\ k <= k
      BY <1>1, <2>2
    <3>2. k \in Covers(r) /\ At(r, k) = r.entries[j]
      <4>1. k \in Covers(r)
        BY <3>1, InCovers
      <4> QED BY <3>1, <4>1 DEF At
    <3>3. k \in Covers(LogView(lg)) /\ At(LogView(lg), k) = lg[k]
      <4>1. k \in 1..Len(lg)
        BY <1>1, <3>1
      <4> QED BY <3>1, <4>1, LogViewFacts
    <3>4. lg[k].term = r.entries[j].term
      BY <2>2
    <3> HIDE DEF k
    <3>5. At(LogView(lg), k) = At(r, k)
      BY <3>1, <3>2, <3>3, <3>4 DEF Agree
    <3> QED BY <3>2, <3>3, <3>5 DEF k
  <2> QED BY <1>1, <2>1, <2>3, <2>4
<1>3. CASE new # {}
  <2>1. new \subseteq 1..Len(r.entries) /\ new \subseteq Nat
    BY <1>1 DEF Unmatched
  <2>2. f \in new /\ \A y \in new : f <= y
    <3> HIDE DEF new
    <3> QED BY <2>1, <1>3, MinOfNats
  <2>3. f \in 1..Len(r.entries)
    BY <2>1, <2>2
  <2>4. after = SubSeq(lg, 1, r.prevIndex + f - 1) \o SubSeq(r.entries, f, Len(r.entries))
    BY <1>3 DEF AppendEntries
  <2>5. Taken(after, lg, r, Len(r.entries))
    <3>1. Len(r.entries) <= Len(r.entries) /\ Len(r.entries) >= f - 1
      <4> HIDE DEF f
      <4> QED BY <1>1, <2>3
    <3> QED BY <1>1, <1>3, <2>4, <3>1, SplicedIsTaken
  <2>6. r.prevIndex + f > Len(lg) \/ lg[r.prevIndex + f].term # r.entries[f].term
    BY <2>2 DEF Unmatched
  <2> HIDE DEF f
  <2>7. \E j \in 1..Len(r.entries) :
          r.prevIndex + j > Len(lg) \/ lg[r.prevIndex + j].term # r.entries[j].term
    BY <2>3, <2>6
  <2> HIDE DEF new
  <2>8. Len(after) \in Nat /\ EndOf(r) <= Len(after) /\ Len(after) = EndOf(r)
    BY <1>1, <2>5 DEF Taken, EndOf
  <2> QED BY <2>5, <2>7, <2>8 DEF Taken
<1> QED
  BY <1>2, <1>3

\* The log of a follower that takes a request over.
LEMMA AcceptedLog ==
    ASSUME GoodStep, NEW r \in appendRpcs, Accepted(r)
    PROVE  /\ \A j \in Node \ {r.to} : log'[j] = log[j]
           /\ node'[r.to].currentTerm = r.term
           /\ r.prevIndex <= Len(log[r.to])
           /\ r.prevIndex = 0 \/ log[r.to][r.prevIndex].term = r.prevTerm
           /\ EndOf(r) <= Len(log'[r.to])
           /\ \A m \in 1..r.prevIndex : log'[r.to][m] = log[r.to][m]
           /\ \A j \in 1..Len(r.entries) : log'[r.to][r.prevIndex + j] = r.entries[j]
           /\ \/ log'[r.to] = log[r.to]
              \/ /\ Len(log'[r.to]) = EndOf(r)
                 /\ \E j \in 1..Len(r.entries) :
                      \/ r.prevIndex + j > Len(log[r.to])
                      \/ log[r.to][r.prevIndex + j].term # r.entries[j].term
<1>1. r \in AppendRpc /\ r.to \in Node /\ IsView(r) /\ r \in Views
  BY CallTypes DEF GoodStep
<1>2. log \in [Node -> Seq(Entry)] /\ log[r.to] \in Seq(Entry) /\ LogView(log[r.to]) \in Views
  BY <1>1, AreViews DEF GoodStep, Logs, Shape, TypeOK
<1>3. Agree(LogView(log[r.to]), r)
  BY <1>1, <1>2 DEF GoodStep, Logs, ViewsAgree, AllAgree
<1>4. PICK after : after = AppendEntries(log[r.to], r.prevIndex, r.entries)
  OBVIOUS
<1>5. log'[r.to] = after /\ \A j \in Node \ {r.to} : log'[j] = log[j]
  BY <1>1, <1>2, <1>4 DEF Accepted
<1>6. /\ node'[r.to].currentTerm = r.term
      /\ r.prevIndex <= Len(log[r.to])
      /\ r.prevIndex = 0 \/ log[r.to][r.prevIndex].term = r.prevTerm
  BY DEF Accepted
<1>7. /\ EndOf(r) <= Len(after)
      /\ \A m \in 1..r.prevIndex : after[m] = log[r.to][m]
      /\ \A j \in 1..Len(r.entries) : after[r.prevIndex + j] = r.entries[j]
      /\ \/ after = log[r.to]
         \/ /\ Len(after) = EndOf(r)
            /\ \E j \in 1..Len(r.entries) :
                 \/ r.prevIndex + j > Len(log[r.to])
                 \/ log[r.to][r.prevIndex + j].term # r.entries[j].term
  BY <1>1, <1>2, <1>3, <1>4, <1>6, AppendFacts
<1> QED
  BY <1>5, <1>6, <1>7

\* A node that adds an entry to its log.
LEMMA WrittenLog ==
    ASSUME GoodStep, NEW i \in Node, Writes(i)
    PROVE  /\ \A j \in Node \ {i} : log'[j] = log[j]
           /\ Len(log'[i]) = Len(log[i]) + 1
           /\ \A m \in 1..Len(log[i]) : log'[i][m] = log[i][m]
           /\ log'[i][Len(log'[i])].term = node[i].currentTerm
<1>1. PICK e \in Entry : /\ e.term = node[i].currentTerm
                         /\ log' = [log EXCEPT ![i] = Append(log[i], e)]
  BY DEF Writes
<1>2. log \in [Node -> Seq(Entry)] /\ log[i] \in Seq(Entry) /\ Len(log[i]) \in Nat
  BY StepTypes
<1>3. /\ Len(Append(log[i], e)) = Len(log[i]) + 1
      /\ \A m \in 1..Len(log[i]) : Append(log[i], e)[m] = log[i][m]
      /\ Append(log[i], e)[Len(log[i]) + 1] = e
  BY <1>2, AppendProperties
<1>4. log'[i] = Append(log[i], e) /\ \A j \in Node \ {i} : log'[j] = log[j]
  BY <1>1, <1>2
<1> QED
  BY <1>1, <1>3, <1>4

\* A log changes in one of these two ways.
LEMMA LogChanges ==
    ASSUME GoodStep, NEW j \in Node, log'[j] # log[j]
    PROVE  \/ Writes(j) /\ (node[j].role = "leader" \/ NewObject(j, Len(lead[j]) + 1, node[j].currentTerm))
           \/ \E r \in appendRpcs : Accepted(r) /\ r.to = j
<1>1. ASSUME NEW i \in Node, Writes(i),
             node[i].role = "leader" \/ NewObject(i, Len(lead[i]) + 1, node[i].currentTerm)
      PROVE  Writes(j) /\ (node[j].role = "leader" \/ NewObject(j, Len(lead[j]) + 1, node[j].currentTerm))
  <2>1. i = j
    BY <1>1, WrittenLog
  <2> QED BY <1>1, <2>1
<1>2. ASSUME NEW r \in appendRpcs, Accepted(r) PROVE r.to = j
  BY <1>2, AcceptedLog
<1> QED
  BY <1>1, <1>2 DEF GoodStep, CommitStep, WritesMove

\* A request that no log accepts: it starts beyond the end of its sender's.
Hopeless(r) == r.prevIndex > 0 /\ r.prevTerm = 0

\* r is a stretch of lg.
Stretch(r, lg) ==
    /\ EndOf(r) <= Len(lg) /\ r.prevTerm = TermAt(lg, r.prevIndex)
    /\ \A j \in 1..Len(r.entries) : r.entries[j] = lg[r.prevIndex + j]

\* As long as its sender is in its term, a request is a stretch of the
\* sender's log.
CallsFromLog ==
    \A r \in appendRpcs : r.term = node[r.from].currentTerm =>
      (Hopeless(r) /\ r.entries = <<>>) \/ Stretch(r, log[r.from])

\* What is cut from a log is a stretch of it, or hopeless.
LEMMA CutIsStretch ==
    ASSUME NEW r, NEW lg \in Seq(Entry), r.prevIndex \in Nat, r.entries \in Seq(Entry),
           CutFrom(r, lg)
    PROVE  (Hopeless(r) /\ r.entries = <<>>) \/ Stretch(r, lg)
<1>1. Len(lg) \in Nat /\ Len(r.entries) \in Nat
  BY LenProperties
<1>2. CASE EndOf(r) <= Len(lg)
  BY <1>2 DEF CutFrom, Stretch
<1>3. CASE ~(EndOf(r) <= Len(lg))
  <2>1. r.entries = <<>>
    BY <1>3 DEF CutFrom
  <2>2. Len(r.entries) = 0
    BY <2>1
  <2>3. r.prevIndex > Len(lg)
    BY <1>1, <1>3, <2>2 DEF EndOf
  <2>4. r.prevTerm = 0 /\ r.prevIndex > 0
    BY <1>1, <2>3 DEF CutFrom, TermAt
  <2> QED BY <2>1, <2>4 DEF Hopeless
<1> QED
  BY <1>2, <1>3

\* A request stays a stretch of its sender's log while the sender is in its
\* term: in a term it has won, the sender's log only grows.
LEMMA CallsFromLogStays ==
    ASSUME GoodStep, Started, CallsFromLog
    PROVE  CallsFromLog'
<1> SUFFICES ASSUME NEW q \in appendRpcs', q.term = node'[q.from].currentTerm
             PROVE  (Hopeless(q) /\ q.entries = <<>>) \/ Stretch(q, log'[q.from])
  BY DEF CallsFromLog, Hopeless, Stretch, EndOf, TermAt
<1>1. q.from \in Node /\ q.prevIndex \in Nat /\ q.entries \in Seq(Entry) /\ Len(q.entries) \in Nat
  BY LenProperties DEF GoodStep, Shape, TypeOK, AppendRpc, Index
<1>2. PICK i \in Node : i = q.from
  BY <1>1
<1>3. /\ node[i].currentTerm \in Nat /\ node'[i].currentTerm \in Nat
      /\ node[i].currentTerm <= node'[i].currentTerm
      /\ log[i] \in Seq(Entry) /\ log'[i] \in Seq(Entry)
      /\ Len(log[i]) \in Nat /\ Len(log'[i]) \in Nat
  BY StepTypes
<1>4. CASE Fresh(q)
  BY <1>1, <1>2, <1>3, <1>4, CutIsStretch DEF Fresh
<1>5. ASSUME NEW p \in appendRpcs, SameCall(q, p)
      PROVE  (Hopeless(q) /\ q.entries = <<>>) \/ Stretch(q, log'[q.from])
  <2>1. /\ p.from = i /\ p.term = q.term /\ p.prevIndex = q.prevIndex
        /\ p.prevTerm = q.prevTerm /\ p.entries = q.entries
    BY <1>2, <1>5 DEF SameCall, Carries
  <2>2. Won(p.term, i) /\ p.term <= node[i].currentTerm /\ p.term \in Nat
    BY <2>1, CallTypes, WonStarted DEF GoodStep
  <2>3. p.term = node[i].currentTerm /\ node'[i].currentTerm = node[i].currentTerm
    BY <1>2, <1>3, <2>1, <2>2
  <2>4. (Hopeless(p) /\ p.entries = <<>>) \/ Stretch(p, log[i])
    BY <2>1, <2>3 DEF CallsFromLog
  <2>5. CASE Hopeless(p) /\ p.entries = <<>>
    BY <2>1, <2>5 DEF Hopeless
  <2>6. CASE Stretch(p, log[i])
    <3>1. /\ Len(log[i]) <= Len(log'[i])
          /\ \A k \in 1..Len(log[i]) : log'[i][k] = log[i][k]
      BY <2>2, <2>3, WinnerKeepsLog DEF GoodStep, Logs
    <3>2. EndOf(q) = EndOf(p) /\ EndOf(q) = q.prevIndex + Len(q.entries)
      BY <2>1 DEF EndOf
    <3>3. EndOf(q) <= Len(log[i]) /\ q.prevIndex <= Len(log[i])
      BY <1>1, <1>3, <2>6, <3>2 DEF Stretch
    <3>4. EndOf(q) <= Len(log'[i])
      BY <1>1, <1>3, <3>1, <3>2, <3>3
    <3>5. TermAt(log'[i], q.prevIndex) = TermAt(log[i], q.prevIndex)
      BY <1>1, <1>3, <3>1, <3>3 DEF TermAt
    <3>6. ASSUME NEW j \in 1..Len(q.entries) PROVE q.entries[j] = log'[i][q.prevIndex + j]
      <4>1. q.prevIndex + j \in 1..Len(log[i])
        BY <1>1, <1>3, <3>2, <3>3
      <4> QED BY <2>1, <2>6, <3>1, <4>1 DEF Stretch
    <3> QED BY <1>2, <2>1, <2>6, <3>4, <3>5, <3>6 DEF Stretch
  <2> QED BY <2>4, <2>5, <2>6
<1> QED
  BY <1>4, <1>5 DEF GoodStep, CommitStep, CallsMove

\* A request that is taken over is not hopeless.
LEMMA AcceptedHasPrev ==
    ASSUME GoodStep, Started, NEW r \in appendRpcs, Accepted(r)
    PROVE  ~Hopeless(r)
<1> SUFFICES ASSUME r.prevIndex > 0, r.prevTerm = 0 PROVE FALSE
  BY DEF Hopeless
<1>1. r.prevIndex <= Len(log[r.to]) /\ log[r.to][r.prevIndex].term = r.prevTerm
  BY AcceptedLog, CallTypes DEF GoodStep
<1>2. r.to \in Node /\ r.prevIndex \in Nat
  BY CallTypes DEF GoodStep
<1>3. Len(log[r.to]) \in Nat
  BY <1>2, StepTypes
<1>4. r.prevIndex \in 1..Len(log[r.to])
  BY <1>1, <1>2, <1>3
<1>5. log[r.to][r.prevIndex].term > 0
  BY <1>2, <1>4, LogEntryStarted DEF GoodStep
<1> QED
  BY <1>1, <1>5

\* The logs a and b both have k entries and the same ones up to there.
SameUpTo(k, a, b) == k <= Len(a) /\ k <= Len(b) /\ \A m \in 1..k : a[m] = b[m]

\* Whoever the tally of the leader's own term counts as holding k entries is
\* in that term with the same k entries, or has left the term.
Synced ==
    \A i, p \in Node : \A o \in Nat : \A k \in Nat \ {0} :
      LiveObj(i, o, node[i].currentTerm) /\ Acked(i, o, p, k) =>
        /\ node[p].currentTerm >= node[i].currentTerm
        /\ node[p].currentTerm = node[i].currentTerm => SameUpTo(k, log[i], log[p])

\* What a node has of a winner's log is not lost while both are in the term.
LEMMA SyncStays ==
    ASSUME GoodStep, Started, CallsFromLog, NEW i \in Node, NEW p \in Node, NEW k \in Nat \ {0},
           Won(node[i].currentTerm, i), node'[i].currentTerm = node[i].currentTerm,
           node'[p].currentTerm = node'[i].currentTerm,
           SameUpTo(k, log[i], log[p])
    PROVE  SameUpTo(k, log'[i], log'[p])
<1>1. /\ Len(log[i]) \in Nat /\ Len(log'[i]) \in Nat
      /\ Len(log[p]) \in Nat /\ Len(log'[p]) \in Nat
  BY StepTypes
<1>2. /\ Len(log[i]) <= Len(log'[i])
      /\ \A m \in 1..Len(log[i]) : log'[i][m] = log[i][m]
  BY WinnerKeepsLog DEF GoodStep, Logs
<1>3. k <= Len(log'[i]) /\ \A m \in 1..k : log'[i][m] = log[p][m]
  BY <1>1, <1>2 DEF SameUpTo
<1>4. SUFFICES k <= Len(log'[p]) /\ \A m \in 1..k : log'[p][m] = log[p][m]
  BY <1>3, <1>4 DEF SameUpTo
<1>5. CASE log'[p] = log[p]
  BY <1>5 DEF SameUpTo
<1>6. CASE Writes(p)
  BY <1>1, <1>6, WrittenLog DEF SameUpTo
<1>7. ASSUME NEW r \in appendRpcs, Accepted(r), r.to = p
      PROVE  k <= Len(log'[p]) /\ \A m \in 1..k : log'[p][m] = log[p][m]
  <2>1. /\ r.term = node[i].currentTerm /\ r.prevIndex \in Nat /\ Len(r.entries) \in Nat
        /\ Won(r.term, r.from)
    BY <1>7, AcceptedLog, CallTypes DEF GoodStep
  <2>2. r.from = i
    BY <2>1, OneWinner DEF GoodStep, Votes
  <2>3. Stretch(r, log[i])
    BY <1>7, <2>1, <2>2, AcceptedHasPrev DEF CallsFromLog
  <2>4. /\ EndOf(r) <= Len(log'[p])
        /\ \A m \in 1..r.prevIndex : log'[p][m] = log[p][m]
        /\ \A j \in 1..Len(r.entries) : log'[p][r.prevIndex + j] = r.entries[j]
        /\ \/ log'[p] = log[p]
           \/ /\ Len(log'[p]) = EndOf(r)
              /\ \E j \in 1..Len(r.entries) :
                   \/ r.prevIndex + j > Len(log[p])
                   \/ log[p][r.prevIndex + j].term # r.entries[j].term
    BY <1>7, AcceptedLog
  <2>5. ASSUME NEW j \in 1..Len(r.entries), r.prevIndex + j <= k
        PROVE  r.prevIndex + j <= Len(log[p]) /\ log[p][r.prevIndex + j] = r.entries[j]
    <3>1. r.entries[j] = log[i][r.prevIndex + j]
      BY <2>3 DEF Stretch
    <3>2. r.prevIndex + j \in 1..k
      BY <2>1, <2>5
    <3> QED BY <1>1, <2>1, <2>5, <3>1, <3>2 DEF SameUpTo
  <2>6. CASE log'[p] # log[p]
    <3>1. PICK j \in 1..Len(r.entries) : \/ r.prevIndex + j > Len(log[p])
                                         \/ log[p][r.prevIndex + j].term # r.entries[j].term
      BY <2>4, <2>6
    <3>2. r.prevIndex + j > k
      BY <1>1, <2>1, <2>5, <3>1
    <3>3. EndOf(r) > k
      BY <2>1, <3>2 DEF EndOf
    <3>4. ASSUME NEW m \in 1..k, m > r.prevIndex PROVE log'[p][m] = log[p][m]
      <4>1. /\ m - r.prevIndex \in 1..Len(r.entries) /\ r.prevIndex + (m - r.prevIndex) = m
            /\ m <= k
        BY <2>1, <3>3, <3>4 DEF EndOf
      <4> QED BY <2>4, <2>5, <4>1
    <3>5. \A m \in 1..k : m > r.prevIndex \/ m \in 1..r.prevIndex
      BY <2>1
    <3>6. k <= Len(log'[p])
      BY <1>1, <2>1, <2>4, <3>3 DEF EndOf
    <3> QED BY <2>4, <3>4, <3>5, <3>6
  <2> QED BY <1>5, <2>6
<1> QED
  BY <1>5, <1>6, <1>7, LogChanges

\* A node that has taken a winner's request over has the winner's log.
LEMMA SyncedByRequest ==
    ASSUME GoodStep, Started, CallsFromLog, NEW r \in appendRpcs, Accepted(r),
           r.term = node[r.from].currentTerm, NEW k \in Nat \ {0}, k <= EndOf(r)
    PROVE  SameUpTo(k, log'[r.from], log'[r.to])
<1> DEFINE i == r.from
           p == r.to
           e == EndOf(r)
<1>1. /\ i \in Node /\ p \in Node /\ i # p /\ r.prevIndex \in Nat /\ Len(r.entries) \in Nat
      /\ e \in Nat /\ e = r.prevIndex + Len(r.entries)
  BY CallTypes DEF GoodStep, EndOf
<1>2. Stretch(r, log[i])
  BY AcceptedHasPrev DEF CallsFromLog
<1>3. log'[i] = log[i]
  BY <1>1, AcceptedLog
<1>4. /\ log[i] \in Seq(Entry) /\ log'[i] \in Seq(Entry) /\ log'[p] \in Seq(Entry)
      /\ Len(log[i]) \in Nat /\ Len(log'[p]) \in Nat /\ Len(log[p]) \in Nat
  BY <1>1, StepTypes
<1>5. e <= Len(log'[p]) /\ e <= Len(log'[i])
  BY <1>2, <1>3, AcceptedLog DEF Stretch
<1>6. log'[p][e].term = log'[i][e].term
  <2>1. CASE Len(r.entries) = 0
    <3>1. e = r.prevIndex /\ e \in 1..r.prevIndex
      BY <1>1, <2>1
    <3>2. log'[p][e] = log[p][e] /\ log[p][e].term = r.prevTerm
      BY <1>1, <3>1, AcceptedLog
    <3>3. r.prevTerm = log[i][e].term
      <4>1. e \in 1..Len(log[i])
        BY <1>1, <1>3, <1>4, <1>5, <3>1
      <4> QED BY <1>2, <3>1, <4>1 DEF Stretch, TermAt
    <3> QED BY <1>3, <3>2, <3>3
  <2>2. CASE Len(r.entries) > 0
    <3>1. Len(r.entries) \in 1..Len(r.entries)
      BY <1>1, <2>2
    <3>2. /\ log'[p][r.prevIndex + Len(r.entries)] = r.entries[Len(r.entries)]
          /\ log[i][r.prevIndex + Len(r.entries)] = r.entries[Len(r.entries)]
      BY <1>2, <3>1, AcceptedLog DEF Stretch
    <3> QED BY <1>1, <1>3, <3>2
  <2> QED BY <1>1, <2>1, <2>2
<1> HIDE DEF i, p, e
<1>7. Agree(LogView(log'[i]), LogView(log'[p]))
  <2>1. LogView(log'[i]) \in Views' /\ LogView(log'[p]) \in Views'
    BY <1>1 DEF Views
  <2> QED BY <2>1 DEF GoodStep, Logs, ViewsAgree, AllAgree
<1>8. /\ Covers(LogView(log'[i])) = 1..Len(log'[i]) /\ Covers(LogView(log'[p])) = 1..Len(log'[p])
      /\ \A m \in Int : At(LogView(log'[i]), m) = log'[i][m] /\ At(LogView(log'[p]), m) = log'[p][m]
  BY <1>4, LogViewFacts
<1>9. ASSUME NEW m \in 1..k PROVE log'[i][m] = log'[p][m]
  <2>1. /\ e \in Covers(LogView(log'[i])) \cap Covers(LogView(log'[p])) /\ e \in Int /\ m \in Int
        /\ m \in Covers(LogView(log'[i])) \cap Covers(LogView(log'[p])) /\ m <= e
    BY <1>1, <1>3, <1>4, <1>5, <1>8 DEF e
  <2>2. At(LogView(log'[i]), e).term = At(LogView(log'[p]), e).term
    BY <1>6, <1>8, <2>1
  <2>3. At(LogView(log'[i]), m) = At(LogView(log'[p]), m)
    BY <1>7, <2>1, <2>2 DEF Agree
  <2> QED BY <1>8, <2>1, <2>3
<1>10. k <= Len(log'[i]) /\ k <= Len(log'[p])
  BY <1>1, <1>3, <1>4, <1>5 DEF e
<1> QED
  BY <1>9, <1>10 DEF SameUpTo, i, p

\* Synced stays true.
LEMMA SyncedStays ==
    ASSUME GoodStep, Started, OneTerm, CallsFromLog, Synced
    PROVE  Synced'
<1> SUFFICES ASSUME NEW i \in Node, NEW p \in Node, NEW o \in Nat, NEW k \in Nat \ {0},
                    NEW t, t = node'[i].currentTerm,
                    LiveObj(i, o, t)', Acked(i, o, p, k)'
             PROVE  /\ node'[p].currentTerm >= t
                    /\ node'[p].currentTerm = t => SameUpTo(k, log'[i], log'[p])
  BY DEF Synced, SameUpTo, LiveObj
<1>1. /\ node[i].currentTerm \in Nat /\ t \in Nat /\ node[i].currentTerm <= t
      /\ node[p].currentTerm \in Nat /\ node'[p].currentTerm \in Nat
      /\ node[p].currentTerm <= node'[p].currentTerm
      /\ Len(log'[i]) \in Nat
  BY StepTypes
<1>2. CASE p = i /\ k <= Len(log'[i])
  BY <1>1, <1>2 DEF SameUpTo
<1>3. CASE LiveObj(i, o, t)
  <2>1. Won(t, i) /\ t = node[i].currentTerm
    BY <1>1, <1>3, LiveWon DEF GoodStep
  <2>2. CASE Acked(i, o, p, k)
    <3>1. /\ node[p].currentTerm >= t
          /\ node[p].currentTerm = t => SameUpTo(k, log[i], log[p])
      BY <1>3, <2>1, <2>2 DEF Synced
    <3>2. ASSUME node'[p].currentTerm = t PROVE SameUpTo(k, log'[i], log'[p])
      <4>1. node[p].currentTerm = t /\ SameUpTo(k, log[i], log[p])
        BY <1>1, <3>1, <3>2
      <4>2. /\ Won(node[i].currentTerm, i) /\ node'[i].currentTerm = node[i].currentTerm
            /\ node'[p].currentTerm = node'[i].currentTerm
        BY <2>1, <3>2
      <4> QED BY <4>1, <4>2, SyncStays
    <3> QED BY <1>1, <3>1, <3>2
  <2>3. ASSUME NEW r \in appendRpcs, Accepted(r), r.phase # "orphan", r.from = i, r.obj = o,
               r.to = p, EndOf(r) >= k
        PROVE  node'[p].currentTerm = t /\ SameUpTo(k, log'[i], log'[p])
    <3>1. LiveObj(i, o, r.term) /\ r.term \in Nat /\ EndOf(r) \in Nat
      BY <2>3, CallTypes DEF LiveObj, GoodStep
    <3>2. r.term = t
      BY <1>1, <1>3, <3>1 DEF OneTerm
    <3>3. node'[p].currentTerm = t
      BY <2>3, <3>2, AcceptedLog
    <3>4. k <= EndOf(r)
      BY <2>3, <3>1
    <3> QED BY <2>1, <2>3, <3>2, <3>3, <3>4, SyncedByRequest
  <2>4. \/ Acked(i, o, p, k) \/ JustAcked(i, o, t, p, k)
        \/ p = i /\ k <= Len(log'[i])
    BY <1>1 DEF GoodStep, CommitStep, TalliesMove
  <2>5. CASE JustAcked(i, o, t, p, k)
    BY <1>1, <1>2, <2>3, <2>5 DEF JustAcked
  <2> QED BY <1>2, <2>2, <2>4, <2>5
<1> QED
  BY <1>1, <1>2, <1>3 DEF GoodStep, CommitStep, TalliesMove

\* The inductive invariant behind MatchIndexSound.
Counts == Started /\ OneTerm /\ CallsFromLog /\ Synced

\* A cluster that starts counts nothing.
LEMMA InitCounts == Init => Counts
<1> SUFFICES ASSUME Init PROVE Counts
  OBVIOUS
<1>1. ballots = {} /\ voteRpcs = {} /\ appendRpcs = {} /\ \A i \in Node : node[i].role = "follower"
  BY DEF Init
<1>2. \A i \in Node : \A o, t : ~LiveObj(i, o, t)
  BY <1>1 DEF LiveObj
<1> QED
  BY <1>1, <1>2 DEF Counts, Started, OneTerm, CallsFromLog, Synced

\* A step without a log failure.
LEMMA NextGoodStep ==
    ASSUME Shape, Votes, Logs, OneTerm, NoLogFailure, NoLogFailure', [Next]_vars
    PROVE  GoodStep
<1>1. Shape'
  BY NextShape
<1>2. Votes' /\ Logs' /\ LogStep
  BY <1>1, NextVotes, NextLogs
<1> QED
  BY <1>1, <1>2, NextCommitStep, NextVoteStep DEF GoodStep

\* Such a step keeps the invariant.
LEMMA NextCounts ==
    ASSUME GoodStep, Counts
    PROVE  Counts'
  BY StartedStays, OneTermStays, CallsFromLogStays, SyncedStays DEF Counts

\* The invariant says of the leader's own tally what MatchIndexSound says.
LEMMA CountsSound == ASSUME Shape, Counts PROVE MatchIndexSound
<1> SUFFICES ASSUME NEW i \in Node, NEW p \in Node, node[i].role = "leader",
                    node[p].currentTerm = node[i].currentTerm,
                    NEW k, k = lead[i][Len(lead[i])].matchIndex[p]
             PROVE  k <= Len(log[p]) /\ SubSeq(log[p], 1, k) = SubSeq(log[i], 1, k)
  BY DEF MatchIndexSound
<1>1. /\ log[i] \in Seq(Entry) /\ log[p] \in Seq(Entry) /\ Len(log[p]) \in Nat /\ Len(log[i]) \in Nat
      /\ node[i].currentTerm \in Nat
  BY LenProperties DEF Shape, TypeOK, NodeState, Term
<1>2. PICK o : o = Len(lead[i]) /\ LiveObj(i, o, node[i].currentTerm)
  BY DEF LiveObj
<1>3. o \in Nat /\ lead[i][o] \in LeaderState
  BY <1>2, LiveIsObject
<1>4. k \in Nat /\ k = lead[i][o].matchIndex[p]
  BY <1>2, <1>3 DEF LeaderState, Index
<1>5. CASE k = 0
  BY <1>1, <1>5, SubSeqEmpty
<1>6. CASE k # 0
  <2>1. Acked(i, o, p, k)
    BY <1>4 DEF Acked
  <2>2. SameUpTo(k, log[i], log[p])
    BY <1>1, <1>2, <1>3, <1>4, <1>6, <2>1 DEF Counts, Synced
  <2> QED BY <1>1, <1>4, <2>2, SamePrefix DEF SameUpTo
<1> QED
  BY <1>5, <1>6

\* As long as no log write fails, Counts holds.
THEOREM CountsInvariant == Spec /\ []NoLogFailure => []Counts
<1>1. Init => Counts
  BY InitCounts
<1>2. Shape /\ Votes /\ Logs /\ Counts /\ NoLogFailure /\ NoLogFailure' /\ [Next]_vars => Counts'
  BY NextGoodStep, NextCounts DEF Counts
<1> QED
  BY <1>1, <1>2, ShapeInvariant, VotesInvariant, LogsInvariant, PTL DEF Spec

\* As long as no log write fails, what a leader counts as replicated on a
\* follower of its term is there: its match index for the follower is not
\* beyond the follower's log, and the two logs are the same up to it, however
\* late the answers are and whatever an earlier office has left behind.
THEOREM CountedIsReplicated == Spec /\ []NoLogFailure => []MatchIndexSound
<1>1. Shape /\ Counts => MatchIndexSound
  BY CountsSound
<1> QED
  BY <1>1, CountsInvariant, ShapeInvariant, PTL

----------------------------------------------------------------------------
(* Terms along a log.                                                      *)

\* The terms of a log, as a view.
LEMMA LogTerms ==
    ASSUME NEW lg \in Seq(Entry)
    PROVE  /\ LogView(lg).prevIndex = 0 /\ EndOf(LogView(lg)) = Len(lg) /\ Len(lg) \in Nat
           /\ IsView(LogView(lg)) /\ Covers(LogView(lg)) = 1..Len(lg)
           /\ \A k \in 0..Len(lg) : TermIn(LogView(lg), k) = TermAt(lg, k)
           /\ \A k \in 1..Len(lg) : /\ TermAt(lg, k) = lg[k].term /\ TermAt(lg, k) \in Nat
                                    /\ At(LogView(lg), k) = lg[k]
           /\ TermAt(lg, 0) = 0
<1>1. /\ LogView(lg).prevIndex = 0 /\ LogView(lg).prevTerm = 0 /\ LogView(lg).entries = lg
      /\ Len(lg) \in Nat
  BY LenProperties DEF LogView
<1>2. EndOf(LogView(lg)) = Len(lg) /\ IsView(LogView(lg))
  BY <1>1 DEF EndOf, IsView
<1>3. /\ Covers(LogView(lg)) = 1..Len(lg) /\ \A k \in Int : At(LogView(lg), k) = lg[k]
  BY LogViewFacts
<1>4. TermAt(lg, 0) = 0
  BY <1>1 DEF TermAt
<1>5. \A k \in 1..Len(lg) : TermAt(lg, k) = lg[k].term /\ TermAt(lg, k) \in Nat
  BY TermAtType DEF TermAt
<1>6. ASSUME NEW k \in 0..Len(lg) PROVE TermIn(LogView(lg), k) = TermAt(lg, k)
  <2>1. CASE k = 0
    BY <1>1, <1>4, <2>1 DEF TermIn
  <2>2. CASE k # 0
    <3>1. k \in 1..Len(lg) /\ k \in Int
      BY <1>1, <2>2
    <3> QED BY <1>1, <1>3, <1>5, <2>2, <3>1 DEF TermIn
  <2> QED BY <2>1, <2>2
<1> QED
  BY <1>1, <1>2, <1>3, <1>4, <1>5, <1>6

\* Terms in a view are numbers.
LEMMA TermInType ==
    ASSUME NEW v, IsView(v), NEW k \in v.prevIndex..EndOf(v)
    PROVE  TermIn(v, k) \in Nat /\ k \in Nat /\ (k = v.prevIndex \/ k \in Covers(v))
<1>1. v.prevIndex \in Nat /\ v.prevTerm \in Nat /\ Len(v.entries) \in Nat
  BY LenProperties DEF IsView
<1>2. CASE k = v.prevIndex
  BY <1>1, <1>2 DEF TermIn
<1>3. CASE k # v.prevIndex
  <2>1. k \in Covers(v)
    BY <1>1, <1>3 DEF Covers, EndOf
  <2>2. At(v, k) \in Entry /\ TermIn(v, k) = At(v, k).term
    BY <2>1, ViewTypes
  <2>3. At(v, k).term \in Nat
    BY <2>2 DEF Entry, Term
  <2> QED BY <1>1, <2>1, <2>2, <2>3
<1> QED
  BY <1>2, <1>3

\* A stretch of a view has the terms of the view.
LEMMA PieceTerms ==
    ASSUME NEW u, NEW v, IsView(u), IsView(v), Piece(u, v), u.entries # <<>>,
           NEW x \in u.prevIndex..EndOf(u)
    PROVE  x \in v.prevIndex..EndOf(v) /\ TermIn(u, x) = TermIn(v, x)
<1>1. /\ u.prevIndex \in Nat /\ Len(u.entries) \in Nat /\ v.prevIndex \in Nat
      /\ Len(v.entries) \in Nat
  BY LenProperties DEF IsView
<1>2. /\ v.prevIndex <= u.prevIndex /\ EndOf(u) <= EndOf(v)
      /\ u.prevTerm = TermIn(v, u.prevIndex)
      /\ \A k \in Covers(u) : At(u, k) = At(v, k)
  BY DEF Piece, EndOf
<1>3. x \in v.prevIndex..EndOf(v)
  BY <1>1, <1>2 DEF EndOf
<1>4. CASE x = u.prevIndex
  BY <1>2, <1>3, <1>4 DEF TermIn
<1>5. CASE x # u.prevIndex
  <2>1. x \in Covers(u) /\ x # v.prevIndex
    BY <1>1, <1>2, <1>5 DEF Covers, EndOf
  <2> QED BY <1>2, <1>3, <1>5, <2>1 DEF TermIn
<1> QED
  BY <1>4, <1>5

\* Every view after the step is a stretch of one before it, or of a log that
\* the step has changed.
LEMMA ViewsFrom ==
    ASSUME GoodStep, NEW u \in Views'
    PROVE  /\ IsView(u)
           /\ \E v : /\ IsView(v) /\ Piece(u, v)
                     /\ \/ v \in Views
                        \/ \E i \in Node : log'[i] # log[i] /\ v = LogView(log'[i])
<1>1. /\ \A v \in Views : IsView(v)
      /\ \A i \in Node : LogView(log[i]) \in Views
      /\ \A i \in Node : IsView(LogView(log'[i]))
      /\ \A r \in appendRpcs' : IsView(r)
  <2>1. /\ \A v \in Views : IsView(v)
        /\ \A i \in Node : LogView(log[i]) \in Views
    BY AreViews DEF GoodStep, Logs
  <2>2. \A i \in Node : IsView(LogView(log'[i]))
    BY StepTypes, LogTerms
  <2>3. \A r \in appendRpcs' : IsView(r)
    BY DEF GoodStep, Logs, Shape, TypeOK, AppendRpc, Requests, GoodRequest, IsView, Index, Term
  <2> QED BY <2>1, <2>2, <2>3
<1>2. \A x, y : Carries(x, y) /\ IsView(y) => Piece(x, y)
  BY ViewTypes DEF Carries, Piece, Covers, At, TermIn
<1>3. ASSUME NEW i \in Node, NEW x, Piece(x, LogView(log'[i]))
      PROVE  \E v : /\ IsView(v) /\ Piece(x, v)
                    /\ v \in Views \/ \E j \in Node : log'[j] # log[j] /\ v = LogView(log'[j])
  BY <1>1, <1>3
<1>4. CASE u \in appendRpcs'
  <2>1. CASE \E p \in appendRpcs : Carries(u, p)
    BY <1>1, <1>2, <1>4, <2>1 DEF Views
  <2>2. CASE u.from \in Node /\ Piece(u, LogView(log'[u.from]))
    BY <1>1, <1>3, <1>4, <2>2
  <2> QED BY <1>4, <2>1, <2>2 DEF GoodStep, LogStep, RequestsKept
<1>5. CASE u \notin appendRpcs'
  <2>1. PICK i \in Node : u = LogView(log'[i])
    BY <1>5 DEF Views
  <2>2. Piece(u, LogView(log'[i]))
    BY <1>1, <1>2, <2>1 DEF Carries
  <2> QED BY <1>1, <1>3, <2>1, <2>2
<1> QED
  BY <1>4, <1>5

\* The terms of a log into which a request has been taken over.
LEMMA AcceptedTerms ==
    ASSUME GoodStep, NEW r \in appendRpcs, Accepted(r), NEW k \in 0..EndOf(r)
    PROVE  /\ k <= r.prevIndex => /\ k \in 0..Len(log[r.to])
                                  /\ TermAt(log'[r.to], k) = TermAt(log[r.to], k)
           /\ k >= r.prevIndex => /\ k \in r.prevIndex..EndOf(r)
                                  /\ TermAt(log'[r.to], k) = TermIn(r, k)
<1>1. /\ r.to \in Node /\ r.prevIndex \in Nat /\ Len(r.entries) \in Nat /\ IsView(r)
      /\ EndOf(r) = r.prevIndex + Len(r.entries)
  BY CallTypes DEF GoodStep, EndOf
<1>2. Len(log[r.to]) \in Nat /\ Len(log'[r.to]) \in Nat
  BY <1>1, StepTypes
<1>3. /\ r.prevIndex <= Len(log[r.to])
      /\ r.prevIndex = 0 \/ log[r.to][r.prevIndex].term = r.prevTerm
      /\ EndOf(r) <= Len(log'[r.to])
      /\ \A m \in 1..r.prevIndex : log'[r.to][m] = log[r.to][m]
      /\ \A j \in 1..Len(r.entries) : log'[r.to][r.prevIndex + j] = r.entries[j]
  BY AcceptedLog
<1>4. ASSUME k <= r.prevIndex
      PROVE  k \in 0..Len(log[r.to]) /\ TermAt(log'[r.to], k) = TermAt(log[r.to], k)
  <2>1. k \in 0..Len(log[r.to]) /\ (k = 0 \/ k \in 1..r.prevIndex) /\ k \in 0..Len(log'[r.to])
    BY <1>1, <1>2, <1>3, <1>4
  <2> QED BY <1>2, <1>3, <2>1 DEF TermAt
<1>5. ASSUME k >= r.prevIndex
      PROVE  k \in r.prevIndex..EndOf(r) /\ TermAt(log'[r.to], k) = TermIn(r, k)
  <2>1. k \in r.prevIndex..EndOf(r)
    BY <1>1, <1>5
  <2>2. CASE k = r.prevIndex
    <3>1. TermAt(log[r.to], k) = r.prevTerm
      <4>1. CASE k = 0
        BY <1>1, <2>2, <4>1 DEF TermAt, IsView
      <4>2. CASE k # 0
        BY <1>1, <1>2, <1>3, <2>2, <4>2 DEF TermAt
      <4> QED BY <4>1, <4>2
    <3> QED BY <1>1, <1>4, <2>1, <2>2, <3>1 DEF TermIn
  <2>3. CASE k # r.prevIndex
    <3>1. k - r.prevIndex \in 1..Len(r.entries) /\ r.prevIndex + (k - r.prevIndex) = k
          /\ k \in 1..Len(log'[r.to])
      BY <1>1, <1>2, <1>3, <1>5, <2>3
    <3>2. log'[r.to][k] = r.entries[k - r.prevIndex]
      BY <1>3, <3>1
    <3> QED BY <2>1, <2>3, <3>1, <3>2 DEF TermAt, TermIn, At
  <2> QED BY <2>1, <2>2, <2>3
<1> QED
  BY <1>4, <1>5

\* The terms of a log to which an entry has been added.
LEMMA WrittenTerms ==
    ASSUME GoodStep, NEW i \in Node, Writes(i)
    PROVE  /\ \A k \in 0..Len(log[i]) : TermAt(log'[i], k) = TermAt(log[i], k)
           /\ TermAt(log'[i], Len(log'[i])) = node[i].currentTerm
           /\ Len(log'[i]) = Len(log[i]) + 1
           /\ LastTerm(log'[i]) = node[i].currentTerm
<1>1. Len(log[i]) \in Nat
  BY StepTypes
<1>2. /\ Len(log'[i]) = Len(log[i]) + 1
      /\ \A m \in 1..Len(log[i]) : log'[i][m] = log[i][m]
      /\ log'[i][Len(log'[i])].term = node[i].currentTerm
  BY WrittenLog
<1>3. \A k \in 0..Len(log[i]) : k = 0 \/ (k \in 1..Len(log[i]) /\ k \in 1..Len(log'[i]))
  BY <1>1, <1>2
<1>4. TermAt(log'[i], Len(log'[i])) = node[i].currentTerm
  BY <1>1, <1>2 DEF TermAt
<1> QED
  BY <1>1, <1>2, <1>3, <1>4 DEF TermAt, LastTerm

\* A winner takes no request over in the term it has won.
LEMMA WinnerAcceptsNothing ==
    ASSUME GoodStep, NEW i \in Node, Won(node'[i].currentTerm, i),
           NEW r \in appendRpcs, Accepted(r)
    PROVE  r.to # i
<1> SUFFICES ASSUME r.to = i PROVE FALSE
  OBVIOUS
<1>1. Won(r.term, r.from) /\ r.from # r.to
  BY CallTypes DEF GoodStep
<1>2. Won(r.term, i)
  BY AcceptedLog
<1> QED
  BY <1>1, <1>2, OneWinner DEF GoodStep, Votes

\* i will not win its term: another has, or too many have left it unasked.
Unwinnable(i) ==
    \/ \E w \in Node \ {i} : Won(node[i].currentTerm, w)
    \/ \E Q \in Quorum : \A v \in Q : /\ node[v].currentTerm > node[i].currentTerm
                                      /\ <<v, node[i].currentTerm, i>> \notin ballots

\* Whoever has won a term was able to.
LEMMA WinnerIsWinnable ==
    ASSUME Votes, NEW i \in Node, Won(node[i].currentTerm, i)
    PROVE  ~Unwinnable(i)
<1>1. ASSUME NEW w \in Node \ {i}, Won(node[i].currentTerm, w) PROVE FALSE
  BY <1>1, OneWinner DEF Votes
<1>2. ASSUME NEW Q \in Quorum, \A v \in Q : <<v, node[i].currentTerm, i>> \notin ballots
      PROVE  FALSE
  <2>1. PICK v \in Node : v \in Q /\ v \in Voters(node[i].currentTerm, i)
    BY <1>2, QuorumsMeet DEF Won
  <2> QED BY <1>2, <2>1 DEF Voters
<1> QED
  BY <1>1, <1>2 DEF Unwinnable

\* A new ballot is in its voter's term.
LEMMA NewBallot ==
    ASSUME GoodStep, NEW v, NEW t, NEW c, <<v, t, c>> \in ballots', <<v, t, c>> \notin ballots
    PROVE  t = node'[v].currentTerm
<1>1. PICK x \in ballots' : x = <<v, t, c>>
  OBVIOUS
<1>2. x[1] = v /\ x[2] = t
  BY <1>1
<1>3. x[2] = node'[x[1]].currentTerm
  BY <1>1 DEF GoodStep, VoteStep, BallotsMove
<1> QED
  BY <1>2, <1>3

\* An old one is in a term that its candidate has reached.
LEMMA OldBallot ==
    ASSUME Shape, Started, NEW v, NEW t, NEW c, <<v, t, c>> \in ballots
    PROVE  v \in Node /\ c \in Node /\ t \in Nat /\ t > 0 /\ t <= node[c].currentTerm
<1>1. PICK x \in ballots : x = <<v, t, c>>
  OBVIOUS
<1>2. x[1] = v /\ x[2] = t /\ x[3] = c
  BY <1>1
<1> QED
  BY <1>2, BallotType DEF Started

\* The voters of a term have reached it.
LEMMA VotersReach ==
    ASSUME Shape, Votes, NEW v, NEW t, NEW c, <<v, t, c>> \in ballots
    PROVE  t \in Nat /\ v \in Node /\ t <= node[v].currentTerm
<1>1. PICK x \in ballots : x = <<v, t, c>>
  OBVIOUS
<1>2. x[1] = v /\ x[2] = t /\ x[3] = c
  BY <1>1
<1>3. v \in Node /\ t \in Nat
  BY <1>2, BallotType
<1>4. node[v].currentTerm \in Nat
  BY <1>3 DEF Shape, TypeOK, NodeState, Term
<1> QED
  BY <1>2, <1>3, <1>4 DEF Votes, BallotsBelow

\* The same after a step.
LEMMA VotersReachNext ==
    ASSUME GoodStep, NEW v, NEW t, NEW c, <<v, t, c>> \in ballots'
    PROVE  t \in Nat /\ v \in Node /\ t <= node'[v].currentTerm
<1>1. PICK x \in ballots' : x = <<v, t, c>>
  OBVIOUS
<1>2. x[1] = v /\ x[2] = t /\ x[3] = c
  BY <1>1
<1>3. v \in Node /\ t \in Nat
  <2>1. x \in Node \X Nat \X Node
    BY DEF GoodStep, Shape, TypeOK, Term
  <2> QED BY <1>2, <2>1
<1>4. node'[v].currentTerm \in Nat
  BY <1>3, StepTypes
<1> QED
  BY <1>2, <1>3, <1>4 DEF GoodStep, Votes, BallotsBelow

\* A node that stays in a term it will not win will not win it.
LEMMA UnwinnableStays ==
    ASSUME GoodStep, NEW i \in Node, node'[i].currentTerm = node[i].currentTerm, Unwinnable(i)
    PROVE  Unwinnable(i)'
<1>0. PICK t : t = node[i].currentTerm
  OBVIOUS
<1>1. ASSUME NEW w \in Node \ {i}, Won(t, w) PROVE Unwinnable(i)'
  <2>1. Won(t, w)'
    BY <1>1, WonStays DEF GoodStep, LogStep
  <2>2. {v \in Node : <<v, node'[i].currentTerm, w>> \in ballots'} \in Quorum
    BY <1>0, <2>1 DEF Won, Voters
  <2> QED BY <2>2 DEF Unwinnable, Won, Voters
<1>2. ASSUME NEW Q \in Quorum,
             \A v \in Q : node[v].currentTerm > t /\ <<v, t, i>> \notin ballots
      PROVE  Unwinnable(i)'
  <2>1. t \in Nat
    BY <1>0, StepTypes
  <2>2. ASSUME NEW v \in Q PROVE node'[v].currentTerm > t /\ <<v, t, i>> \notin ballots'
    <3>1. v \in Node
      BY DEF Quorum
    <3>2. /\ node[v].currentTerm \in Nat /\ node'[v].currentTerm \in Nat
          /\ node[v].currentTerm <= node'[v].currentTerm
      BY <3>1, StepTypes
    <3>0. node[v].currentTerm > t
      BY <1>2
    <3>3. node'[v].currentTerm > t
      BY <2>1, <3>0, <3>2
    <3>4. <<v, t, i>> \notin ballots'
      BY <1>2, <2>1, <3>2, <3>3, NewBallot
    <3> QED BY <3>3, <3>4
  <2> QED BY <1>0, <2>2 DEF Unwinnable
<1> QED
  BY <1>0, <1>1, <1>2 DEF Unwinnable

\* A node that moves to a term when a later one has been won.
LEMMA RisenUnwinnable ==
    ASSUME GoodStep, Started, NEW i \in Node, node'[i].currentTerm > node[i].currentTerm,
           NEW u \in Nat, u > node'[i].currentTerm, NEW w, Won(u, w)'
    PROVE  Unwinnable(i)'
<1> DEFINE t == node'[i].currentTerm
           Q == {v \in Node : <<v, u, w>> \in ballots'}
<1>1. t \in Nat /\ node[i].currentTerm \in Nat /\ node[i].currentTerm <= t
  BY StepTypes
<1>2. Q \in Quorum
  BY DEF Won, Voters
<1>3. ASSUME NEW v \in Q PROVE node'[v].currentTerm > t /\ <<v, t, i>> \notin ballots'
  <2>1. u <= node'[v].currentTerm /\ node'[v].currentTerm \in Nat
    BY VotersReachNext, StepTypes
  <2>2. node'[v].currentTerm > t
    BY <1>1, <2>1
  <2> HIDE DEF t
  <2>3. ASSUME <<v, t, i>> \in ballots' PROVE FALSE
    <3>1. CASE <<v, t, i>> \in ballots
      <4>1. t <= node[i].currentTerm
        BY <3>1, OldBallot DEF GoodStep
      <4> QED BY <1>1, <4>1 DEF t
    <3>2. CASE <<v, t, i>> \notin ballots
      <4>1. t = node'[v].currentTerm
        BY <2>3, <3>2, NewBallot
      <4> QED BY <1>1, <2>1, <2>2, <4>1
    <3> QED BY <3>1, <3>2
  <2> QED BY <2>2, <2>3
<1> QED
  BY <1>2, <1>3 DEF Unwinnable

\* A node whose log runs ahead of its term will not win that term.
LateLogs ==
    \A i \in Node : \A k \in 1..Len(log[i]) :
      log[i][k].term > node[i].currentTerm => Unwinnable(i)

\* LateLogs stays true: a request that brings an entry of a later term shows
\* that another node has won the receiver's term.
LEMMA LateLogsStay ==
    ASSUME GoodStep, Started, LateLogs
    PROVE  LateLogs'
<1> SUFFICES ASSUME NEW i \in Node, NEW k \in 1..Len(log'[i]), NEW u, u = log'[i][k].term,
                    u > node'[i].currentTerm
             PROVE  Unwinnable(i)'
  BY DEF LateLogs
<1>1. /\ node[i].currentTerm \in Nat /\ node'[i].currentTerm \in Nat
      /\ node[i].currentTerm <= node'[i].currentTerm
      /\ log'[i] \in Seq(Entry) /\ Len(log[i]) \in Nat /\ Len(log'[i]) \in Nat
  BY StepTypes
<1>2. CASE node'[i].currentTerm > node[i].currentTerm
  <2>1. LogView(log'[i]) \in Views' /\ k \in Covers(LogView(log'[i])) /\ At(LogView(log'[i]), k).term = u
        /\ u \in Nat
    BY <1>1, LogTerms DEF Views
  <2>2. Origin(u, k)'
    BY <2>1 DEF GoodStep, Logs, Origins
  <2>3. PICK w \in Node : Won(u, w)'
    BY <2>2 DEF Origin
  <2> QED BY <1>2, <2>1, <2>3, RisenUnwinnable
<1>3. CASE node'[i].currentTerm = node[i].currentTerm
  <2>1. CASE k <= Len(log[i]) /\ log'[i][k] = log[i][k]
    <3>1. k \in 1..Len(log[i])
      BY <1>1, <2>1
    <3>2. Unwinnable(i)
      BY <1>3, <2>1, <3>1 DEF LateLogs
    <3> QED BY <1>3, <3>2, UnwinnableStays
  <2>2. CASE Writes(i)
    <3>1. /\ Len(log'[i]) = Len(log[i]) + 1
          /\ \A m \in 1..Len(log[i]) : log'[i][m] = log[i][m]
          /\ log'[i][Len(log'[i])].term = node[i].currentTerm
      BY <2>2, WrittenLog
    <3>2. k # Len(log'[i])
      BY <1>1, <1>3, <3>1
    <3>3. k \in 1..Len(log[i])
      BY <1>1, <3>1, <3>2
    <3> QED BY <1>1, <2>1, <3>1, <3>3
  <2>3. ASSUME NEW r \in appendRpcs, Accepted(r), r.to = i PROVE Unwinnable(i)'
    <3>1. r.term = node'[i].currentTerm /\ Won(r.term, r.from) /\ r.from \in Node \ {i}
      BY <2>3, AcceptedLog, CallTypes DEF GoodStep
    <3>2. Won(r.term, r.from)'
      <4>1. PICK t, w : t = r.term /\ w = r.from
        OBVIOUS
      <4>2. Won(t, w)'
        BY <3>1, <4>1, WonStays DEF GoodStep, LogStep
      <4> QED BY <4>1, <4>2 DEF Won, Voters
    <3> QED BY <3>1, <3>2 DEF Unwinnable, Won, Voters
  <2>4. CASE log'[i] = log[i]
    BY <1>1, <2>1, <2>4
  <2> QED BY <2>2, <2>3, <2>4, LogChanges
<1> QED
  BY <1>1, <1>2, <1>3

\* The log of a winner does not run ahead of its term.
LEMMA WinnerNotAhead ==
    ASSUME Shape, Votes, LateLogs, NEW i \in Node, Won(node[i].currentTerm, i),
           NEW k \in 1..Len(log[i])
    PROVE  log[i][k].term <= node[i].currentTerm
<1>1. log[i][k].term \in Nat /\ node[i].currentTerm \in Nat
  BY LogTerms DEF Shape, TypeOK, NodeState, Term
<1> QED
  BY <1>1, WinnerIsWinnable DEF LateLogs

\* The log of a leader ends with an entry of the leader's term.
LeaderWrote == \A i \in Node : node[i].role = "leader" => LastTerm(log[i]) = node[i].currentTerm

\* A winner's log changes only by what it writes itself.
LEMMA WinnerWrites ==
    ASSUME GoodStep, NEW i \in Node, Won(node[i].currentTerm, i),
           node'[i].currentTerm = node[i].currentTerm, log'[i] # log[i]
    PROVE  Writes(i)
  BY LogChanges, WinnerAcceptsNothing

\* LeaderWrote stays true: a new leader writes a no-op, and a leader only adds.
LEMMA LeaderWroteStays ==
    ASSUME GoodStep, LeaderWrote
    PROVE  LeaderWrote'
<1> SUFFICES ASSUME NEW i \in Node, node'[i].role = "leader"
             PROVE  LastTerm(log'[i]) = node'[i].currentTerm
  BY DEF LeaderWrote, LastTerm, TermAt
<1>1. CASE Writes(i)
  BY <1>1, WrittenTerms DEF Writes
<1>2. CASE node[i].role = "leader" /\ node'[i].currentTerm = node[i].currentTerm
  <2>1. Won(node[i].currentTerm, i)
    BY <1>2, LeaderWon DEF GoodStep
  <2> QED BY <1>1, <1>2, <2>1, WinnerWrites DEF LeaderWrote
<1> QED
  BY <1>1, <1>2 DEF GoodStep, CommitStep, OfficesMove, NewObject

\* No request is cut off by the batch limit.
BatchesFit == \A r \in appendRpcs : Len(r.entries) < MaxBatchEntries

\* No request has an entry of a later term than its own.
RequestHasLeadersTerm ==
    \A r \in appendRpcs : \A k \in 1..Len(r.entries) : r.entries[k].term <= r.term

\* A request ends with an entry of its term or of a later one.
FullRequests == \A r \in appendRpcs : Hopeless(r) \/ TermIn(r, EndOf(r)) >= r.term

\* The end of a log that its owner sends as a leader.
LEMMA FreshEnds ==
    ASSUME GoodStep, Started, LeaderWrote, BatchesFit', NEW q \in appendRpcs', Fresh(q), ~Hopeless(q)
    PROVE  /\ Won(node[q.from].currentTerm, q.from)
           /\ node'[q.from].currentTerm = node[q.from].currentTerm
           /\ q.term <= node[q.from].currentTerm /\ q.term \in Nat
           /\ EndOf(q) = Len(log'[q.from])
           /\ TermIn(q, EndOf(q)) = LastTerm(log'[q.from])
           /\ LastTerm(log'[q.from]) = node[q.from].currentTerm
<1> DEFINE i == q.from
<1>1. /\ i \in Node /\ q.prevIndex \in Nat /\ q.entries \in Seq(Entry) /\ Len(q.entries) \in Nat
      /\ q.term \in Nat
  BY LenProperties DEF GoodStep, Shape, TypeOK, AppendRpc, Index, Term
<1>2. CutFrom(q, log'[i]) /\ node'[i].currentTerm = node[i].currentTerm
  BY DEF Fresh
<1>3. log'[i] \in Seq(Entry) /\ Len(log'[i]) \in Nat /\ node[i].currentTerm \in Nat
  BY <1>1, StepTypes
<1>4. /\ Won(node[i].currentTerm, i) /\ q.term <= node[i].currentTerm
      /\ LastTerm(log'[i]) = node[i].currentTerm
  <2>1. CASE node[i].role = "leader" /\ LiveObj(i, q.obj, q.term)
    <3>1. Won(node[i].currentTerm, i)
      BY <1>1, <2>1, LeaderWon DEF GoodStep
    <3>2. q.term <= node[i].currentTerm
      BY <1>1, <2>1, LiveWon DEF GoodStep
    <3>3. LastTerm(log'[i]) = node[i].currentTerm
      BY <1>1, <1>2, <2>1, <3>1, WinnerWrites, WrittenTerms DEF LeaderWrote
    <3> QED BY <3>1, <3>2, <3>3
  <2>2. CASE NewObject(i, q.obj, q.term)
    <3>1. Writes(i) /\ q.term = node[i].currentTerm
      BY <2>2 DEF NewObject
    <3>2. LastTerm(log'[i]) = node[i].currentTerm
      BY <1>1, <3>1, WrittenTerms
    <3> HIDE DEF i
    <3> QED BY <1>3, <3>1, <3>2 DEF Writes
  <2> QED BY <2>1, <2>2 DEF Fresh
<1>5. Stretch(q, log'[i])
  BY <1>1, <1>2, <1>3, CutIsStretch
<1>6. EndOf(q) = Len(log'[i])
  <2>1. Len(q.entries) < MaxBatchEntries
    BY DEF BatchesFit
  <2>2. q.prevIndex <= Len(log'[i])
    BY <1>1, <1>3, <1>5 DEF Stretch, EndOf
  <2> QED BY <1>1, <1>2, <1>3, <2>1, <2>2 DEF CutFrom
<1>7. TermIn(q, EndOf(q)) = LastTerm(log'[i])
  <2>1. CASE Len(q.entries) = 0
    BY <1>1, <1>5, <1>6, <2>1 DEF TermIn, EndOf, Stretch, LastTerm
  <2>2. CASE Len(q.entries) > 0
    <3>1. /\ Len(q.entries) \in 1..Len(q.entries) /\ EndOf(q) # q.prevIndex
          /\ EndOf(q) - q.prevIndex = Len(q.entries) /\ EndOf(q) \in 1..Len(log'[i])
      BY <1>1, <1>3, <1>6, <2>2 DEF EndOf
    <3>2. q.entries[Len(q.entries)] = log'[i][EndOf(q)]
      BY <1>5, <3>1 DEF Stretch, EndOf
    <3> QED BY <1>6, <3>1, <3>2 DEF TermIn, At, LastTerm, TermAt
  <2> QED BY <1>1, <2>1, <2>2
<1> QED
  BY <1>1, <1>2, <1>4, <1>6, <1>7

\* FullRequests stays true: a leader that is not cut off by the batch limit
\* sends the end of its log, which it wrote itself.
LEMMA FullRequestsStay ==
    ASSUME GoodStep, Started, LeaderWrote, BatchesFit', FullRequests
    PROVE  FullRequests'
<1> SUFFICES ASSUME NEW q \in appendRpcs', ~Hopeless(q) PROVE TermIn(q, EndOf(q)) >= q.term
  BY DEF FullRequests, Hopeless, TermIn, EndOf, At
<1>1. CASE Fresh(q)
  <2>1. /\ q.term <= node[q.from].currentTerm /\ q.term \in Nat
        /\ TermIn(q, EndOf(q)) = node[q.from].currentTerm
    BY <1>1, FreshEnds
  <2>2. node[q.from].currentTerm \in Nat
    BY <1>1, StepTypes DEF Fresh
  <2> QED BY <2>1, <2>2
<1>2. ASSUME NEW p \in appendRpcs, SameCall(q, p) PROVE TermIn(q, EndOf(q)) >= q.term
  BY <1>2 DEF SameCall, Carries, FullRequests, Hopeless, TermIn, EndOf, At
<1> QED
  BY <1>1, <1>2 DEF GoodStep, CommitStep, CallsMove

\* Where a request ends, its receiver has an entry of the request's term or of
\* a later one.
LEMMA AcceptedEnds ==
    ASSUME GoodStep, Started, FullRequests, NEW r \in appendRpcs, Accepted(r)
    PROVE  /\ EndOf(r) \in 1..Len(log'[r.to])
           /\ TermAt(log'[r.to], EndOf(r)) >= r.term
           /\ TermAt(log'[r.to], EndOf(r)) = TermIn(r, EndOf(r))
<1>1. /\ EndOf(r) \in Nat /\ r.to \in Node /\ r.prevIndex \in Nat /\ Len(r.entries) \in Nat
      /\ r.term \in Nat /\ r.term > 0 /\ r.prevIndex <= EndOf(r)
  BY CallTypes, WonStarted DEF GoodStep, EndOf
<1>2. EndOf(r) <= Len(log'[r.to]) /\ Len(log'[r.to]) \in Nat
  BY <1>1, AcceptedLog, StepTypes
<1>3. TermIn(r, EndOf(r)) >= r.term
  BY AcceptedHasPrev DEF FullRequests
<1>4. TermAt(log'[r.to], EndOf(r)) = TermIn(r, EndOf(r))
  BY <1>1, AcceptedTerms
<1>5. EndOf(r) # 0
  <2>1. TermAt(log'[r.to], 0) = 0
    BY <1>1, StepTypes, LogTerms
  <2> QED BY <1>1, <1>3, <1>4, <2>1
<1> QED
  BY <1>1, <1>2, <1>3, <1>4, <1>5

\* A log that changes ends with an entry of its owner's term or a later one.
LEMMA ChangedEnds ==
    ASSUME GoodStep, Started, FullRequests, NEW j \in Node, log'[j] # log[j]
    PROVE  /\ Len(log'[j]) \in Nat \ {0} /\ LastTerm(log'[j]) \in Nat
           /\ LastTerm(log'[j]) >= node'[j].currentTerm
<1>1. /\ log'[j] \in Seq(Entry) /\ Len(log'[j]) \in Nat /\ Len(log[j]) \in Nat
      /\ node[j].currentTerm \in Nat
  BY StepTypes
<1>2. LastTerm(log'[j]) \in Nat
  BY <1>1, LastType
<1>3. CASE Writes(j)
  <2>1. Len(log'[j]) = Len(log[j]) + 1 /\ LastTerm(log'[j]) = node[j].currentTerm
    BY <1>3, WrittenTerms
  <2>2. node'[j].currentTerm = node[j].currentTerm
    BY <1>3 DEF Writes
  <2>3. Len(log'[j]) # 0
    BY <1>1, <2>1
  <2> QED BY <1>1, <1>2, <2>1, <2>2, <2>3
<1>4. ASSUME NEW r \in appendRpcs, Accepted(r), r.to = j
      PROVE  Len(log'[j]) # 0 /\ LastTerm(log'[j]) >= node'[j].currentTerm
  BY <1>1, <1>4, AcceptedLog, AcceptedEnds DEF LastTerm
<1> QED
  BY <1>1, <1>2, <1>3, <1>4, LogChanges

\* Terms do not fall along a view.
Ordered(v) ==
    \A x, y \in v.prevIndex..EndOf(v) : x <= y => TermIn(v, x) <= TermIn(v, y)

\* In all of them.
TermsOrdered == \A v \in Views : Ordered(v)

\* Terms do not fall along a log.
LEMMA LogOrdered ==
    ASSUME NEW lg \in Seq(Entry), Ordered(LogView(lg)),
           NEW x \in 0..Len(lg), NEW y \in 0..Len(lg), x <= y
    PROVE  TermAt(lg, x) <= TermAt(lg, y)
  BY LogTerms DEF Ordered

\* And conversely.
LEMMA OrderedLog ==
    ASSUME NEW lg \in Seq(Entry),
           \A x, y \in 0..Len(lg) : x <= y => TermAt(lg, x) <= TermAt(lg, y)
    PROVE  Ordered(LogView(lg))
  BY LogTerms DEF Ordered

\* A log that the step changes is ordered.
LEMMA NewLogOrdered ==
    ASSUME GoodStep, Started, LateLogs, TermsOrdered, NEW i \in Node, log'[i] # log[i]
    PROVE  Ordered(LogView(log'[i]))
<1> DEFINE lg == log[i]
           new == log'[i]
<1>1. /\ lg \in Seq(Entry) /\ new \in Seq(Entry) /\ Len(lg) \in Nat /\ Len(new) \in Nat
      /\ node[i].currentTerm \in Nat
  BY StepTypes
<1>2. Ordered(LogView(lg))
  BY DEF TermsOrdered, Views
<1>3. SUFFICES ASSUME NEW x \in 0..Len(new), NEW y \in 0..Len(new), x <= y
               PROVE  TermAt(new, x) <= TermAt(new, y)
  BY <1>1, OrderedLog
<1>4. CASE Writes(i)
  <2>1. /\ \A k \in 0..Len(lg) : TermAt(new, k) = TermAt(lg, k)
        /\ TermAt(new, Len(new)) = node[i].currentTerm /\ Len(new) = Len(lg) + 1
    BY <1>4, WrittenTerms
  <2>2. CASE y \in 0..Len(lg)
    <3>1. x \in 0..Len(lg)
      BY <1>1, <1>3, <2>2
    <3> QED BY <1>1, <1>2, <1>3, <2>1, <2>2, <3>1, LogOrdered
  <2>3. CASE y \notin 0..Len(lg)
    <3>1. y = Len(new)
      BY <1>1, <2>1, <2>3
    <3>2. CASE x = y
      <4>1. TermAt(new, x) \in Nat
        BY <1>1, TermAtType
      <4> QED BY <3>2, <4>1
    <3>3. CASE x # y
      <4>1. x \in 0..Len(lg)
        BY <1>1, <1>3, <2>1, <3>1, <3>3
      <4>2. TermAt(lg, x) <= node[i].currentTerm
        <5>1. CASE x = 0
          BY <1>1, <5>1, LogTerms
        <5>2. CASE x # 0
          <6>1. x \in 1..Len(lg)
            BY <4>1, <5>2
          <6>2. Won(node[i].currentTerm, i)
            BY <1>4 DEF Writes
          <6> QED BY <1>1, <6>1, <6>2, WinnerNotAhead, LogTerms DEF GoodStep
        <5> QED BY <5>1, <5>2
      <4> QED BY <2>1, <3>1, <4>1, <4>2
    <3> QED BY <3>2, <3>3
  <2> QED BY <2>2, <2>3
<1>5. ASSUME NEW r \in appendRpcs, Accepted(r), r.to = i
      PROVE  TermAt(new, x) <= TermAt(new, y)
  <2>1. /\ Len(new) = EndOf(r) /\ EndOf(r) \in Nat /\ r.prevIndex \in Nat
        /\ r.prevIndex <= EndOf(r) /\ r \in Views
    BY <1>5, AcceptedLog, CallTypes DEF GoodStep, EndOf
  <2>2. \A k \in 0..EndOf(r) :
          /\ k <= r.prevIndex => k \in 0..Len(lg) /\ TermAt(new, k) = TermAt(lg, k)
          /\ k >= r.prevIndex => k \in r.prevIndex..EndOf(r) /\ TermAt(new, k) = TermIn(r, k)
    BY <1>5, AcceptedTerms
  <2>3. \A k : TermAt(new, k) \in Nat
    BY <1>1, TermAtType
  <2>4. Ordered(r)
    BY <2>1 DEF TermsOrdered
  <2> HIDE DEF lg, new
  <2>5. ASSUME NEW a \in 0..EndOf(r), NEW b \in 0..EndOf(r), a <= b, b <= r.prevIndex
        PROVE  TermAt(new, a) <= TermAt(new, b)
    <3>1. a <= r.prevIndex
      BY <2>1, <2>5
    <3>2. /\ a \in 0..Len(lg) /\ TermAt(new, a) = TermAt(lg, a)
          /\ b \in 0..Len(lg) /\ TermAt(new, b) = TermAt(lg, b)
      BY <2>2, <2>5, <3>1
    <3>3. TermAt(lg, a) <= TermAt(lg, b)
      BY <1>1, <1>2, <2>5, <3>2, LogOrdered
    <3> QED BY <3>2, <3>3
  <2>6. ASSUME NEW a \in 0..EndOf(r), NEW b \in 0..EndOf(r), a <= b, a >= r.prevIndex
        PROVE  TermAt(new, a) <= TermAt(new, b)
    <3>1. b >= r.prevIndex
      BY <2>1, <2>6
    <3>2. /\ a \in r.prevIndex..EndOf(r) /\ TermAt(new, a) = TermIn(r, a)
          /\ b \in r.prevIndex..EndOf(r) /\ TermAt(new, b) = TermIn(r, b)
      BY <2>2, <2>6, <3>1
    <3> QED BY <2>4, <2>6, <3>2 DEF Ordered
  <2>7. x \in 0..EndOf(r) /\ y \in 0..EndOf(r)
    BY <2>1
  <2>8. CASE y <= r.prevIndex
    BY <1>3, <2>5, <2>7, <2>8
  <2>9. CASE x >= r.prevIndex
    BY <1>3, <2>6, <2>7, <2>9
  <2>10. CASE x <= r.prevIndex /\ r.prevIndex <= y
    <3>1. r.prevIndex \in 0..EndOf(r) /\ r.prevIndex <= r.prevIndex /\ r.prevIndex >= r.prevIndex
      BY <2>1
    <3>2. TermAt(new, x) <= TermAt(new, r.prevIndex) /\ TermAt(new, r.prevIndex) <= TermAt(new, y)
      BY <2>5, <2>6, <2>7, <2>10, <3>1
    <3> QED BY <2>3, <3>2
  <2> QED BY <2>1, <2>8, <2>9, <2>10
<1> QED
  BY <1>4, <1>5, LogChanges

\* TermsOrdered stays true.
LEMMA TermsOrderedStays ==
    ASSUME GoodStep, Started, LateLogs, TermsOrdered
    PROVE  TermsOrdered'
<1> SUFFICES ASSUME NEW u \in Views' PROVE Ordered(u)
  BY DEF TermsOrdered, Ordered, TermIn, EndOf, At
<1>1. IsView(u)
  BY ViewsFrom
<1>2. PICK v : IsView(v) /\ Piece(u, v) /\ Ordered(v)
  BY ViewsFrom, NewLogOrdered DEF TermsOrdered
<1>3. CASE u.entries = <<>>
  <2>1. Len(u.entries) = 0 /\ u.prevIndex \in Nat
    BY <1>1, <1>3 DEF IsView
  <2>2. EndOf(u) = u.prevIndex
    BY <2>1 DEF EndOf
  <2>3. \A x \in u.prevIndex..EndOf(u) : x = u.prevIndex /\ TermIn(u, x) \in Nat
    BY <1>1, <2>1, <2>2, TermInType
  <2> QED BY <2>3 DEF Ordered
<1>4. CASE u.entries # <<>>
  BY <1>1, <1>2, <1>4, PieceTerms DEF Ordered
<1> QED
  BY <1>3, <1>4

\* The entries of one term are a run that starts at the same index wherever
\* they are: a view that has one of them at y has no other term between the
\* place where any view has one and y.
SameRun(v, w) ==
    \A x \in Covers(v), y \in Covers(w) :
      (x <= y /\ At(v, x).term = At(w, y).term) =>
        \A z \in w.prevIndex..y : z >= x => TermIn(w, z) = At(w, y).term

\* Of any two of them.
RunsAgree == \A v, w \in Views : SameRun(v, w)

\* Stretches of views with this property have it.
LEMMA PieceRuns ==
    ASSUME NEW u, NEW v, NEW a, NEW b, IsView(u), IsView(v), IsView(a), IsView(b),
           Piece(u, a), Piece(v, b), SameRun(a, b)
    PROVE  SameRun(u, v)
<1> SUFFICES ASSUME NEW x \in Covers(u), NEW y \in Covers(v), x <= y,
                    At(u, x).term = At(v, y).term,
                    NEW z \in v.prevIndex..y, z >= x
             PROVE  TermIn(v, z) = At(v, y).term
  BY DEF SameRun
<1>1. /\ x \in Covers(a) /\ At(u, x) = At(a, x)
      /\ y \in Covers(b) /\ At(v, y) = At(b, y)
  BY PieceCovers
<1>2. /\ v.prevIndex \in Nat /\ y \in Nat /\ y > v.prevIndex /\ EndOf(v) \in Nat /\ y <= EndOf(v)
      /\ b.prevIndex \in Nat
  BY ViewTypes DEF EndOf
<1>3. v.entries # <<>>
  <2>1. v.entries = <<>> => Len(v.entries) = 0
    OBVIOUS
  <2> QED BY <1>2, <2>1 DEF EndOf
<1>4. z \in v.prevIndex..EndOf(v)
  BY <1>2
<1>5. z \in b.prevIndex..EndOf(b) /\ TermIn(v, z) = TermIn(b, z)
  BY <1>3, <1>4, PieceTerms
<1>6. z \in b.prevIndex..y
  BY <1>2, <1>5
<1> QED
  BY <1>1, <1>5, <1>6 DEF SameRun

\* Where some view has an entry of term t.
EntryOf(t, x) == \E v \in Views : x \in Covers(v) /\ At(v, x).term = t

\* lg has no other term than t between an entry of t anywhere and its own y.
RunIn(lg) ==
    \A t \in Nat : \A x \in Nat, y \in 1..Len(lg) :
      (x <= y /\ EntryOf(t, x) /\ TermAt(lg, y) = t) =>
        \A z \in x..y : TermAt(lg, z) = t

\* The logs are such.
LEMMA RunInLog ==
    ASSUME Shape, Requests, RunsAgree, NEW i \in Node
    PROVE  RunIn(log[i])
<1> DEFINE lg == log[i]
<1>1. lg \in Seq(Entry) /\ LogView(lg) \in Views
  BY AreViews
<1> SUFFICES ASSUME NEW t \in Nat, NEW x \in Nat, NEW y \in 1..Len(lg), x <= y,
                    EntryOf(t, x), TermAt(lg, y) = t, NEW z \in x..y
             PROVE  TermAt(lg, z) = t
  BY DEF RunIn
<1>2. PICK v \in Views : x \in Covers(v) /\ At(v, x).term = t
  BY DEF EntryOf
<1>3. SameRun(v, LogView(lg))
  BY <1>1 DEF RunsAgree
<1>4. /\ Covers(LogView(lg)) = 1..Len(lg) /\ LogView(lg).prevIndex = 0
      /\ At(LogView(lg), y).term = t /\ Len(lg) \in Nat
      /\ \A k \in 0..Len(lg) : TermIn(LogView(lg), k) = TermAt(lg, k)
  BY <1>1, LogTerms
<1> HIDE DEF lg
<1>5. z \in LogView(lg).prevIndex..y /\ z >= x /\ z \in 0..Len(lg)
  BY <1>4
<1>6. TermIn(LogView(lg), z) = t
  BY <1>2, <1>3, <1>4, <1>5 DEF SameRun
<1> QED
  BY <1>4, <1>5, <1>6

\* And so is a log that the step changes.
LEMMA NewRun ==
    ASSUME GoodStep, Started, LateLogs, TermsOrdered, RunsAgree, NEW i \in Node, log'[i] # log[i]
    PROVE  RunIn(log'[i])
<1> DEFINE lg == log[i]
           new == log'[i]
<1>1. /\ lg \in Seq(Entry) /\ new \in Seq(Entry) /\ Len(lg) \in Nat /\ Len(new) \in Nat
      /\ node[i].currentTerm \in Nat
  BY StepTypes
<1>2. Ordered(LogView(lg)) /\ RunIn(lg)
  BY RunInLog DEF TermsOrdered, Views, GoodStep, Logs
<1> SUFFICES ASSUME NEW t \in Nat, NEW x \in Nat, NEW y \in 1..Len(new), x <= y,
                    EntryOf(t, x), TermAt(new, y) = t, NEW z \in x..y
             PROVE  TermAt(new, z) = t
  BY DEF RunIn
<1>3. PICK v \in Views : x \in Covers(v) /\ At(v, x).term = t
  BY DEF EntryOf
<1>4. x > 0
  <2>1. IsView(v)
    BY AreViews DEF GoodStep, Logs
  <2>2. v.prevIndex \in Nat /\ x > v.prevIndex
    BY <1>3, <2>1, ViewTypes
  <2> QED BY <2>2
<1>5. CASE Writes(i)
  <2>1. /\ \A k \in 0..Len(lg) : TermAt(new, k) = TermAt(lg, k)
        /\ TermAt(new, Len(new)) = node[i].currentTerm /\ Len(new) = Len(lg) + 1
    BY <1>5, WrittenTerms
  <2>2. CASE y <= Len(lg)
    <3>1. y \in 1..Len(lg) /\ z \in 0..Len(lg) /\ y \in 0..Len(lg)
      BY <1>1, <2>2
    <3>2. TermAt(lg, y) = t
      BY <2>1, <3>1
    <3> HIDE DEF lg, new
    <3> QED BY <1>2, <2>1, <3>1, <3>2 DEF RunIn
  <2>3. CASE y = Len(new)
    <3>1. t = node[i].currentTerm /\ Won(t, i)
      BY <1>5, <2>1, <2>3 DEF Writes
    <3>2. Origin(t, x)
      BY <1>3 DEF GoodStep, Logs, Origins
    <3>3. x <= Len(lg) /\ lg[x].term = t
      <4>1. PICK w \in Node : /\ Won(t, w)
                              /\ \/ node[w].currentTerm > t
                                 \/ x <= Len(log[w]) /\ log[w][x].term = t
        BY <3>2 DEF Origin
      <4>2. w = i
        BY <3>1, <4>1, OneWinner DEF GoodStep, Votes
      <4> QED BY <1>1, <3>1, <4>1, <4>2
    <3>4. x \in 1..Len(lg) /\ TermAt(lg, x) = t
      BY <1>1, <1>4, <3>3 DEF TermAt
    <3>5. CASE z = Len(new)
      BY <2>3, <3>5
    <3>6. CASE z # Len(new)
      <4>1. z \in 1..Len(lg) /\ z \in 0..Len(lg) /\ x \in 0..Len(lg) /\ x <= z
        BY <1>1, <1>4, <2>1, <2>3, <3>4, <3>6
      <4>2. TermAt(lg, x) <= TermAt(lg, z)
        BY <1>1, <1>2, <4>1, LogOrdered
      <4>3. TermAt(lg, z) <= t /\ TermAt(lg, z) \in Nat
        BY <1>1, <3>1, <4>1, WinnerNotAhead, LogTerms DEF GoodStep
      <4>4. TermAt(lg, z) = t
        BY <3>4, <4>2, <4>3
      <4> QED BY <2>1, <4>1, <4>4
    <3> QED BY <3>5, <3>6
  <2> QED BY <1>1, <2>1, <2>2, <2>3
<1>6. ASSUME NEW r \in appendRpcs, Accepted(r), r.to = i PROVE TermAt(new, z) = t
  <2>1. /\ Len(new) = EndOf(r) /\ EndOf(r) \in Nat /\ r.prevIndex \in Nat
        /\ r.prevIndex <= EndOf(r) /\ r \in Views /\ IsView(r)
    BY <1>6, AcceptedLog, CallTypes DEF GoodStep, EndOf
  <2>2. \A k \in 0..EndOf(r) :
          /\ k <= r.prevIndex => k \in 0..Len(lg) /\ TermAt(new, k) = TermAt(lg, k)
          /\ k >= r.prevIndex => k \in r.prevIndex..EndOf(r) /\ TermAt(new, k) = TermIn(r, k)
    BY <1>6, AcceptedTerms
  <2>3. SameRun(v, r)
    BY <2>1 DEF RunsAgree
  <2> HIDE DEF lg, new
  <2>4. ASSUME NEW b \in 0..EndOf(r), b <= r.prevIndex, TermAt(new, b) = t, z <= b
        PROVE  TermAt(new, z) = t
    <3>1. b \in 0..Len(lg) /\ TermAt(lg, b) = t /\ b >= x /\ z \in x..b
      BY <2>1, <2>2, <2>4
    <3>2. b \in 1..Len(lg) /\ z \in 0..EndOf(r) /\ z <= r.prevIndex
      BY <1>1, <1>4, <2>1, <2>4, <3>1
    <3>3. TermAt(lg, z) = t
      BY <1>2, <3>1, <3>2 DEF RunIn
    <3> QED BY <2>2, <3>2, <3>3
  <2>5. CASE y <= r.prevIndex
    BY <2>1, <2>4, <2>5
  <2>6. CASE y > r.prevIndex
    <3>1. y \in Covers(r) /\ TermIn(r, y) = t /\ At(r, y).term = t
      <4>1. y \in Covers(r)
        BY <2>1, <2>6, InCovers DEF EndOf
      <4>2. TermIn(r, y) = t
        BY <2>1, <2>2, <2>6
      <4> QED BY <2>1, <4>1, <4>2, ViewTypes
    <3>2. ASSUME NEW c \in r.prevIndex..y, c >= x PROVE TermAt(new, c) = t
      <4>1. TermIn(r, c) = t
        BY <1>3, <2>3, <3>1, <3>2 DEF SameRun
      <4>2. c \in 0..EndOf(r) /\ c >= r.prevIndex
        BY <2>1
      <4> QED BY <2>2, <4>1, <4>2
    <3>3. CASE z >= r.prevIndex
      BY <2>1, <3>2, <3>3
    <3>4. CASE z < r.prevIndex
      <4>1. r.prevIndex \in r.prevIndex..y /\ r.prevIndex >= x /\ r.prevIndex \in 0..EndOf(r)
            /\ z <= r.prevIndex /\ r.prevIndex <= r.prevIndex
        BY <2>1, <2>6, <3>4
      <4> QED BY <2>4, <3>2, <4>1
    <3> QED BY <2>1, <3>3, <3>4
  <2> QED BY <2>1, <2>5, <2>6
<1> QED
  BY <1>5, <1>6, LogChanges

\* The entries of a log that has changed are old, but for the one its owner
\* has written.
LEMMA NewLogEntries ==
    ASSUME GoodStep, NEW i \in Node, log'[i] # log[i], NEW x \in 1..Len(log'[i])
    PROVE  EntryOf(TermAt(log'[i], x), x) \/ (Writes(i) /\ x = Len(log'[i]))
<1> DEFINE lg == log[i]
           new == log'[i]
<1>1. /\ lg \in Seq(Entry) /\ new \in Seq(Entry) /\ Len(lg) \in Nat /\ Len(new) \in Nat
      /\ LogView(lg) \in Views /\ x \in 0..Len(new)
  BY StepTypes DEF Views
<1>2. ASSUME x \in 0..Len(lg), TermAt(new, x) = TermAt(lg, x) PROVE EntryOf(TermAt(new, x), x)
  <2>1. x \in 1..Len(lg)
    BY <1>2
  <2>2. x \in Covers(LogView(lg)) /\ At(LogView(lg), x).term = TermAt(lg, x)
    BY <1>1, <2>1, LogTerms
  <2> QED BY <1>1, <1>2, <2>2 DEF EntryOf
<1>3. CASE Writes(i) /\ x # Len(new)
  <2>1. \A k \in 0..Len(lg) : TermAt(new, k) = TermAt(lg, k)
    BY <1>3, WrittenTerms
  <2>2. Len(new) = Len(lg) + 1
    BY <1>3, WrittenTerms
  <2>3. x \in 0..Len(lg)
    BY <1>1, <1>3, <2>2
  <2> QED BY <1>2, <2>1, <2>3
<1>4. ASSUME NEW r \in appendRpcs, Accepted(r), r.to = i PROVE EntryOf(TermAt(new, x), x)
  <2>1. /\ Len(new) = EndOf(r) /\ EndOf(r) \in Nat /\ r.prevIndex \in Nat
        /\ r.prevIndex <= EndOf(r) /\ r \in Views /\ IsView(r)
    BY <1>4, AcceptedLog, CallTypes DEF GoodStep, EndOf
  <2>2. x \in 0..EndOf(r)
    BY <1>1, <2>1
  <2>3. /\ x <= r.prevIndex => x \in 0..Len(lg) /\ TermAt(new, x) = TermAt(lg, x)
        /\ x >= r.prevIndex => TermAt(new, x) = TermIn(r, x)
    BY <1>4, <2>2, AcceptedTerms
  <2>4. CASE x <= r.prevIndex
    BY <1>2, <2>3, <2>4
  <2>5. CASE x > r.prevIndex
    <3>1. x \in Covers(r)
      BY <2>1, <2>2, <2>5, InCovers DEF EndOf
    <3>2. At(r, x).term = TermIn(r, x)
      BY <2>1, <3>1, ViewTypes
    <3>3. TermAt(new, x) = TermIn(r, x)
      BY <2>1, <2>2, <2>3, <2>5
    <3> QED BY <2>1, <3>1, <3>2, <3>3 DEF EntryOf
  <2> QED BY <2>1, <2>2, <2>4, <2>5
<1> QED
  BY <1>3, <1>4, LogChanges

\* The views of RunsAgree and the logs that have changed.
NewViews == Views \cup {LogView(log'[i]) : i \in {j \in Node : log'[j] # log[j]}}

\* A run of an old entry's term, in any of them.
LEMMA OldRuns ==
    ASSUME GoodStep, Started, LateLogs, TermsOrdered, RunsAgree, NEW b \in NewViews,
           NEW t \in Nat, NEW x \in Nat, EntryOf(t, x), NEW y \in Covers(b), x <= y,
           At(b, y).term = t, NEW z \in b.prevIndex..y, z >= x
    PROVE  TermIn(b, z) = t
<1>1. CASE b \in Views
  BY <1>1 DEF EntryOf, RunsAgree, SameRun
<1>2. ASSUME NEW i \in Node, log'[i] # log[i], b = LogView(log'[i]) PROVE TermIn(b, z) = t
  <2>1. log'[i] \in Seq(Entry)
    BY StepTypes
  <2>2. RunIn(log'[i])
    BY <1>2, NewRun
  <2>3. /\ b.prevIndex = 0 /\ Len(log'[i]) \in Nat /\ Covers(b) = 1..Len(log'[i])
        /\ \A k \in 0..Len(log'[i]) : TermIn(b, k) = TermAt(log'[i], k)
        /\ \A k \in 1..Len(log'[i]) : /\ TermAt(log'[i], k) = log'[i][k].term
                                      /\ At(b, k) = log'[i][k]
    BY <1>2, <2>1, LogTerms
  <2>4. y \in 1..Len(log'[i]) /\ TermAt(log'[i], y) = t /\ z \in x..y /\ z \in 0..Len(log'[i])
    BY <2>3
  <2>5. TermAt(log'[i], z) = t
    BY <2>2, <2>4 DEF RunIn
  <2> QED BY <2>3, <2>4, <2>5
<1> QED
  BY <1>1, <1>2 DEF NewViews

\* An entry that a winner has just written is in no other view.
LEMMA WrittenIsNew ==
    ASSUME GoodStep, NEW i \in Node, Writes(i), NEW b \in NewViews, NEW y \in Covers(b),
           At(b, y).term = node[i].currentTerm
    PROVE  y <= Len(log'[i])
<1>1. /\ Len(log[i]) \in Nat /\ Len(log'[i]) = Len(log[i]) + 1 /\ node[i].currentTerm \in Nat
      /\ \A j \in Node \ {i} : log'[j] = log[j]
  BY StepTypes, WrittenLog
<1>2. CASE b \in Views
  <2>1. PICK t : t = node[i].currentTerm
    OBVIOUS
  <2>2. Won(t, i)
    BY <2>1 DEF Writes
  <2>3. Origin(t, y) /\ y \in Nat
    BY <1>2, <2>1, AreViews, ViewTypes DEF GoodStep, Logs, Origins
  <2>4. PICK w \in Node : /\ Won(t, w)
                          /\ node[w].currentTerm > t \/ y <= Len(log[w])
    BY <2>3 DEF Origin
  <2>5. w = i
    BY <2>2, <2>4, OneWinner DEF GoodStep, Votes
  <2> QED BY <1>1, <2>1, <2>3, <2>4, <2>5
<1>3. ASSUME NEW j \in Node, log'[j] # log[j], b = LogView(log'[j]) PROVE y <= Len(log'[i])
  <2>1. j = i
    BY <1>1, <1>3
  <2>2. log'[i] \in Seq(Entry)
    BY StepTypes
  <2>3. y \in 1..Len(log'[i])
    BY <1>3, <2>1, <2>2, LogTerms
  <2> QED BY <1>1, <2>3
<1> QED
  BY <1>2, <1>3 DEF NewViews

\* So any two of these views have their runs in the same places.
LEMMA NewViewsRun ==
    ASSUME GoodStep, Started, LateLogs, TermsOrdered, RunsAgree, NEW a \in NewViews, NEW b \in NewViews
    PROVE  SameRun(a, b)
<1> SUFFICES ASSUME NEW x \in Covers(a), NEW y \in Covers(b), x <= y,
                    At(a, x).term = At(b, y).term, NEW z \in b.prevIndex..y, z >= x
             PROVE  TermIn(b, z) = At(b, y).term
  BY DEF SameRun
<1>1. IsView(a) /\ IsView(b)
  BY AreViews, StepTypes, LogTerms DEF NewViews, GoodStep, Logs
<1>2. /\ x \in Nat /\ y \in Nat /\ b.prevIndex \in Nat /\ y > b.prevIndex
      /\ At(a, x) \in Entry /\ TermIn(b, y) = At(b, y).term
  BY <1>1, ViewTypes
<1>3. PICK t \in Nat : t = At(a, x).term
  BY <1>2 DEF Entry, Term
<1>4. CASE EntryOf(t, x)
  BY <1>2, <1>3, <1>4, OldRuns
<1>5. ASSUME NEW i \in Node, log'[i] # log[i], a = LogView(log'[i])
      PROVE  TermIn(b, z) = At(b, y).term
  <2>1. log'[i] \in Seq(Entry)
    BY StepTypes
  <2>2. x \in 1..Len(log'[i]) /\ TermAt(log'[i], x) = t /\ Len(log'[i]) \in Nat
    BY <1>3, <1>5, <2>1, LogTerms
  <2>3. CASE Writes(i) /\ x = Len(log'[i])
    <3>1. t = node[i].currentTerm
      BY <2>2, <2>3, WrittenTerms
    <3>2. y <= Len(log'[i])
      BY <1>3, <2>3, <3>1, WrittenIsNew
    <3>3. z = y
      BY <1>2, <2>2, <2>3, <3>2
    <3> QED BY <1>2, <3>3
  <2> QED BY <1>4, <1>5, <2>2, <2>3, NewLogEntries
<1>6. CASE a \in Views
  BY <1>3, <1>4, <1>6 DEF EntryOf
<1> QED
  BY <1>5, <1>6 DEF NewViews

\* RunsAgree stays true.
LEMMA RunsAgreeStays ==
    ASSUME GoodStep, Started, LateLogs, TermsOrdered, RunsAgree
    PROVE  RunsAgree'
<1> SUFFICES ASSUME NEW u \in Views', NEW v \in Views' PROVE SameRun(u, v)
  BY DEF RunsAgree, SameRun, Covers, At, TermIn
<1>1. IsView(u) /\ IsView(v)
  BY ViewsFrom
<1>2. PICK a \in NewViews : IsView(a) /\ Piece(u, a)
  BY ViewsFrom DEF NewViews
<1>3. PICK b \in NewViews : IsView(b) /\ Piece(v, b)
  BY ViewsFrom DEF NewViews
<1> QED
  BY <1>1, <1>2, <1>3, NewViewsRun, PieceRuns

----------------------------------------------------------------------------
(* Logs that reach an entry.                                               *)

\* The end (index, term) of a log is not before entry k of term t.
EndsAt(index, term, t, k) == term > t \/ (term = t /\ index >= k)

\* The log lg ends so.
Reaches(lg, t, k) == EndsAt(LastIndex(lg), LastTerm(lg), t, k)

\* A call for votes of a node that is still in the call's term says no more
\* than what the node's log reaches.
VoteCallsTrue ==
    \A r \in voteRpcs : r.term = node[r.from].currentTerm =>
      \A t, k \in Nat : (t < r.term /\ EndsAt(r.lastIndex, r.lastTerm, t, k))
                          => Reaches(log[r.from], t, k)

\* VoteCallsTrue stays true.
LEMMA VoteCallsTrueStays ==
    ASSUME GoodStep, Started, FullRequests, VoteCallsTrue
    PROVE  VoteCallsTrue'
<1> SUFFICES ASSUME NEW q \in voteRpcs', q.term = node'[q.from].currentTerm,
                    NEW t \in Nat, NEW k \in Nat, t < q.term,
                    EndsAt(q.lastIndex, q.lastTerm, t, k)
             PROVE  Reaches(log'[q.from], t, k)
  BY DEF VoteCallsTrue, EndsAt, Reaches, LastIndex, LastTerm, TermAt
<1>1. q.from \in Node /\ q.term \in Nat
  BY DEF GoodStep, Shape, TypeOK, VoteRpc, Term
<1>2. PICK i \in Node : i = q.from
  BY <1>1
<1>3. /\ node[i].currentTerm \in Nat /\ node'[i].currentTerm \in Nat
      /\ node[i].currentTerm <= node'[i].currentTerm
  BY StepTypes
<1>4. ASSUME NEW p \in voteRpcs, SameVoteCall(q, p) PROVE Reaches(log'[i], t, k)
  <2>1. /\ p.from = i /\ p.term = q.term /\ p.lastIndex = q.lastIndex /\ p.lastTerm = q.lastTerm
    BY <1>2, <1>4 DEF SameVoteCall
  <2>2. p.term <= node[i].currentTerm
    BY <2>1 DEF Started
  <2>3. p.term = node[i].currentTerm
    BY <1>1, <1>2, <1>3, <2>1, <2>2
  <2>4. Reaches(log[i], t, k)
    BY <2>1, <2>3 DEF VoteCallsTrue
  <2>5. CASE log'[i] # log[i]
    <3>1. LastTerm(log'[i]) \in Nat /\ LastTerm(log'[i]) >= node'[i].currentTerm
      BY <2>5, ChangedEnds
    <3>2. LastTerm(log'[i]) > t
      BY <1>1, <1>2, <1>3, <3>1
    <3> QED BY <3>2 DEF Reaches, EndsAt
  <2> QED BY <2>4, <2>5
<1>5. CASE /\ log' = log
           /\ q.lastIndex = LastIndex(log[q.from]) /\ q.lastTerm = LastTerm(log[q.from])
  BY <1>5 DEF Reaches
<1> QED
  BY <1>2, <1>4, <1>5 DEF GoodStep, VoteStep, VoteCallsMove

\* A view that goes past term t does so after an entry of t, and not before
\* index k.
Crosses(v, t, k) ==
    \A m \in Covers(v) : (At(v, m).term > t /\ TermIn(v, m - 1) <= t)
                           => (TermIn(v, m - 1) = t /\ m - 1 >= k)

\* Every one of them.
Crossing(t, k) == \A v \in Views : Crosses(v, t, k)

\* So a log with an entry of a later term has an entry of t before it.
LEMMA CrossIndex ==
    ASSUME NEW lg \in Seq(Entry), NEW t \in Nat \ {0}, NEW k \in Nat \ {0},
           Crosses(LogView(lg), t, k), NEW m0 \in 1..Len(lg), TermAt(lg, m0) > t
    PROVE  \E y \in 1..Len(lg) : y >= k /\ y < m0 /\ TermAt(lg, y) = t
<1> DEFINE S == {m \in 1..Len(lg) : TermAt(lg, m) > t}
           m == Min(S)
<1>1. /\ Len(lg) \in Nat /\ Covers(LogView(lg)) = 1..Len(lg)
      /\ \A x \in 0..Len(lg) : TermIn(LogView(lg), x) = TermAt(lg, x)
      /\ \A x \in 1..Len(lg) : /\ TermAt(lg, x) = lg[x].term /\ TermAt(lg, x) \in Nat
                               /\ At(LogView(lg), x) = lg[x]
      /\ TermAt(lg, 0) = 0
  BY LogTerms
<1>2. m \in S /\ \A y \in S : m <= y
  <2>1. S \subseteq Nat /\ S # {}
    BY <1>1
  <2> HIDE DEF S
  <2> QED BY <2>1, MinOfNats
<1>3. m \in 1..Len(lg) /\ TermAt(lg, m) > t /\ m <= m0
  BY <1>2
<1>4. m - 1 \in 0..Len(lg) /\ ~(m - 1 \in S)
  <2> HIDE DEF S
  <2>1. m - 1 \in 0..Len(lg) /\ ~(m <= m - 1)
    <3> HIDE DEF m
    <3> QED BY <1>1, <1>3
  <2> QED BY <1>2, <2>1
<1>5. TermAt(lg, m - 1) <= t
  <2>1. CASE m - 1 = 0
    <3> HIDE DEF m
    <3> QED BY <1>1, <2>1
  <2>2. CASE m - 1 # 0
    <3>1. m - 1 \in 1..Len(lg)
      <4> HIDE DEF m
      <4> QED BY <1>3, <1>4, <2>2
    <3>2. ~(TermAt(lg, m - 1) > t)
      BY <1>4, <3>1
    <3> HIDE DEF m
    <3> QED BY <1>1, <3>1, <3>2
  <2> QED BY <2>1, <2>2
<1> HIDE DEF m, S
<1>6. TermAt(lg, m - 1) = t /\ m - 1 >= k
  BY <1>1, <1>3, <1>4, <1>5 DEF Crosses
<1>7. m - 1 \in 1..Len(lg) /\ m - 1 < m0
  BY <1>1, <1>3, <1>4, <1>6
<1> QED
  BY <1>6, <1>7

\* A log that reaches (t, k) has an entry of t at k or later.
LEMMA ReachIndex ==
    ASSUME NEW lg \in Seq(Entry), NEW t \in Nat \ {0}, NEW k \in Nat \ {0},
           Crosses(LogView(lg), t, k), Reaches(lg, t, k)
    PROVE  \E y \in 1..Len(lg) : y >= k /\ TermAt(lg, y) = t
<1>1. Len(lg) \in Nat /\ TermAt(lg, 0) = 0
  BY LogTerms
<1>2. LastTerm(lg) = TermAt(lg, Len(lg)) /\ LastIndex(lg) = Len(lg)
  BY DEF LastTerm, LastIndex
<1>3. Len(lg) # 0
  BY <1>1, <1>2 DEF Reaches, EndsAt
<1>4. Len(lg) \in 1..Len(lg)
  BY <1>1, <1>3
<1>5. CASE TermAt(lg, Len(lg)) > t
  BY <1>4, <1>5, CrossIndex
<1>6. CASE TermAt(lg, Len(lg)) = t /\ Len(lg) >= k
  BY <1>4, <1>6
<1> QED
  BY <1>2, <1>5, <1>6 DEF Reaches, EndsAt

\* A run of term t in two logs.
LEMMA RunBetween ==
    ASSUME NEW a \in Seq(Entry), NEW b \in Seq(Entry), SameRun(LogView(a), LogView(b)),
           NEW x \in 1..Len(a), NEW y \in 1..Len(b), x <= y, NEW t,
           TermAt(a, x) = t, TermAt(b, y) = t, NEW z \in x..y
    PROVE  z \in 1..Len(b) /\ TermAt(b, z) = t
<1>1. /\ Covers(LogView(a)) = 1..Len(a) /\ Len(a) \in Nat
      /\ At(LogView(a), x).term = t
  BY LogTerms
<1>2. /\ Covers(LogView(b)) = 1..Len(b) /\ Len(b) \in Nat /\ LogView(b).prevIndex = 0
      /\ At(LogView(b), y).term = t
      /\ \A k \in 0..Len(b) : TermIn(LogView(b), k) = TermAt(b, k)
  BY LogTerms
<1>3. z \in 1..Len(b) /\ z \in 0..Len(b) /\ z \in LogView(b).prevIndex..y /\ z >= x
  BY <1>1, <1>2
<1> QED
  BY <1>1, <1>2, <1>3 DEF SameRun

\* Two logs with the same term at k.
LEMMA SameBelow ==
    ASSUME NEW a \in Seq(Entry), NEW b \in Seq(Entry), Agree(LogView(a), LogView(b)),
           NEW k \in 1..Len(a), k <= Len(b), TermAt(a, k) = TermAt(b, k), NEW m \in 1..k
    PROVE  m \in 1..Len(b) /\ a[m] = b[m]
<1>1. /\ Covers(LogView(a)) = 1..Len(a) /\ Len(a) \in Nat
      /\ \A x \in 1..Len(a) : At(LogView(a), x) = a[x] /\ TermAt(a, x) = a[x].term
  BY LogTerms
<1>2. /\ Covers(LogView(b)) = 1..Len(b) /\ Len(b) \in Nat
      /\ \A x \in 1..Len(b) : At(LogView(b), x) = b[x] /\ TermAt(b, x) = b[x].term
  BY LogTerms
<1>3. k \in 1..Len(b) /\ m \in 1..Len(a) /\ m \in 1..Len(b) /\ m <= k
  BY <1>1, <1>2
<1> QED
  BY <1>1, <1>2, <1>3 DEF Agree

\* What is proved about terms and logs so far.
Runs == LateLogs /\ LeaderWrote /\ FullRequests /\ TermsOrdered /\ RunsAgree /\ VoteCallsTrue

\* A step with all of that before and after it.
SafeStep == GoodStep /\ Counts /\ Counts' /\ Runs /\ Runs' /\ BatchesFit /\ BatchesFit'

\* Runs stays true.
LEMMA RunsStay ==
    ASSUME GoodStep, Started, Runs, BatchesFit'
    PROVE  Runs'
  BY LateLogsStay, LeaderWroteStays, FullRequestsStay, TermsOrderedStays, RunsAgreeStays,
     VoteCallsTrueStays DEF Runs

\* An index inside a request.
LEMMA IndexInside ==
    ASSUME NEW a \in Nat, NEW n \in Nat, NEW e, e = a + n, NEW l \in Nat, e <= l,
           NEW x \in Nat, x >= 1, x <= n
    PROVE  /\ a + x \in 1..l /\ a + x <= e /\ a + x \in Nat /\ a + x > a /\ (a + x) - a = x
  OBVIOUS

\* A node that does not fall behind t keeps what it reaches.
LEMMA ReachStays ==
    ASSUME SafeStep, NEW t \in Nat \ {0}, NEW k \in Nat \ {0}, Crossing(t, k), NEW j \in Node,
           Reaches(log[j], t, k), node'[j].currentTerm >= t
    PROVE  Reaches(log'[j], t, k)
<1> DEFINE lg == log[j]
           new == log'[j]
<1>1. GoodStep /\ Started /\ FullRequests /\ TermsOrdered' /\ RunsAgree /\ RunsAgree'
  BY DEF SafeStep, Counts, Runs
<1>2. /\ lg \in Seq(Entry) /\ new \in Seq(Entry) /\ Len(lg) \in Nat /\ Len(new) \in Nat
      /\ node'[j].currentTerm \in Nat /\ node[j].currentTerm \in Nat
  BY <1>1, StepTypes
<1>3. CASE lg = new
  BY <1>3
<1>4. CASE lg # new
  <2>1. /\ Len(new) \in Nat \ {0} /\ LastTerm(new) \in Nat
        /\ LastTerm(new) >= node'[j].currentTerm
    BY <1>1, <1>4, ChangedEnds
  <2>2. CASE LastTerm(new) > t
    BY <2>2 DEF Reaches, EndsAt
  <2>3. CASE LastTerm(new) = t
    <3>1. TermAt(new, Len(new)) = t /\ LastIndex(new) = Len(new) /\ Len(new) \in 1..Len(new)
      BY <2>1, <2>3 DEF LastTerm, LastIndex
    <3>2. Crosses(LogView(lg), t, k)
      BY DEF Crossing, Views
    <3>3. PICK y \in 1..Len(lg) : y >= k /\ TermAt(lg, y) = t
      BY <1>2, <3>2, ReachIndex
    <3>4. CASE Writes(j)
      <4>1. Len(new) = Len(lg) + 1
        BY <1>1, <3>4, WrittenTerms
      <4>2. Len(new) >= k
        BY <1>2, <3>3, <4>1
      <4> QED BY <2>3, <3>1, <4>2 DEF Reaches, EndsAt
    <3>5. ASSUME NEW r \in appendRpcs, Accepted(r), r.to = j PROVE Len(new) >= k
      <4>1. /\ Len(new) = EndOf(r) /\ r \in Views /\ IsView(r)
            /\ r.prevIndex \in Nat /\ Len(r.entries) \in Nat
            /\ EndOf(r) = r.prevIndex + Len(r.entries)
            /\ \E x \in 1..Len(r.entries) : \/ r.prevIndex + x > Len(lg)
                                            \/ lg[r.prevIndex + x].term # r.entries[x].term
        BY <1>1, <1>4, <3>5, AcceptedLog, CallTypes DEF GoodStep, EndOf
      <4>2. SUFFICES ASSUME Len(new) < k PROVE FALSE
        BY <1>2
      <4>3. PICK x \in 1..Len(r.entries) : \/ r.prevIndex + x > Len(lg)
                                           \/ lg[r.prevIndex + x].term # r.entries[x].term
        BY <4>1
      <4>4. EndOf(r) \in Covers(r) /\ At(r, EndOf(r)).term = t /\ EndOf(r) <= y /\ EndOf(r) \in 1..Len(lg)
        <5>1. EndOf(r) > r.prevIndex /\ EndOf(r) \in Nat /\ EndOf(r) <= y
          BY <1>2, <3>3, <4>1, <4>2
        <5>2. EndOf(r) \in Covers(r)
          BY <4>1, <5>1, InCovers
        <5>3. TermIn(r, EndOf(r)) = t
          BY <1>1, <3>1, <3>5, <4>1, AcceptedEnds
        <5>4. At(r, EndOf(r)).term = t
          BY <4>1, <5>2, <5>3, ViewTypes
        <5> QED BY <1>2, <4>1, <5>1, <5>2, <5>4
      <4>5. TermAt(lg, EndOf(r)) = t
        <5>1. RunIn(lg)
          BY <1>1, RunInLog DEF GoodStep, Logs
        <5>2. EntryOf(t, EndOf(r)) /\ EndOf(r) \in Nat
          BY <4>1, <4>4 DEF EntryOf
        <5>3. EndOf(r) \in EndOf(r)..y
          BY <3>3, <4>4, <5>2
        <5> QED BY <3>3, <4>4, <5>1, <5>2, <5>3 DEF RunIn
      <4>6. Agree(LogView(lg), r) /\ LogView(lg) \in Views
        BY <1>1, <4>1 DEF GoodStep, Logs, ViewsAgree, AllAgree, Views
      <4>7. /\ Covers(LogView(lg)) = 1..Len(lg)
            /\ \A z \in 1..Len(lg) : At(LogView(lg), z) = lg[z] /\ TermAt(lg, z) = lg[z].term
        BY <1>2, LogTerms
      <4>8. /\ r.prevIndex + x \in 1..Len(lg) /\ r.prevIndex + x <= EndOf(r)
            /\ r.prevIndex + x \in Covers(r) /\ At(r, r.prevIndex + x) = r.entries[x]
        <5>1. /\ r.prevIndex + x \in 1..Len(lg) /\ r.prevIndex + x <= EndOf(r)
              /\ r.prevIndex + x \in Nat /\ r.prevIndex + x > r.prevIndex
              /\ (r.prevIndex + x) - r.prevIndex = x
          <6>1. x \in Nat /\ x >= 1 /\ x <= Len(r.entries)
            BY <4>1
          <6>2. EndOf(r) <= Len(lg)
            BY <4>4
          <6>3. r.prevIndex \in Nat /\ Len(r.entries) \in Nat /\ EndOf(r) = r.prevIndex + Len(r.entries)
            BY <4>1
          <6> QED BY <1>2, <6>1, <6>2, <6>3, IndexInside
        <5>2. r.prevIndex + x \in Covers(r)
          BY <4>1, <5>1, InCovers
        <5> QED BY <5>1, <5>2 DEF At
      <4>9. lg[r.prevIndex + x] = r.entries[x]
        <5> HIDE DEF lg
        <5> QED BY <4>4, <4>5, <4>6, <4>7, <4>8 DEF Agree
      <4> QED BY <1>2, <4>3, <4>8, <4>9
    <3> QED BY <1>1, <1>4, <2>3, <3>1, <3>4, <3>5, LogChanges DEF Reaches, EndsAt
  <2> QED BY <1>2, <2>1, <2>2, <2>3
<1> QED
  BY <1>3, <1>4

\* p will let nobody lead after t whose log does not reach entry k of t.
Kept(t, k, p) ==
    /\ node[p].currentTerm >= t
    /\ Reaches(log[p], t, k)
    /\ \A j \in Node : (node[j].currentTerm > t /\ <<p, node[j].currentTerm, j>> \in ballots)
                         => Reaches(log[j], t, k)

\* Kept stays true: p gives its vote only to a log that reaches what its own
\* reaches.
LEMMA KeptStays ==
    ASSUME SafeStep, NEW t \in Nat \ {0}, NEW k \in Nat \ {0}, Crossing(t, k), NEW p \in Node,
           Kept(t, k, p)
    PROVE  Kept(t, k, p)'
<1>1. GoodStep /\ Started /\ VoteCallsTrue /\ Shape
  BY DEF SafeStep, Counts, Runs, GoodStep
<1>2. \A i \in Node : /\ node[i].currentTerm \in Nat /\ node'[i].currentTerm \in Nat
                      /\ node[i].currentTerm <= node'[i].currentTerm
  BY <1>1, StepTypes
<1>3. node[p].currentTerm >= t /\ Reaches(log[p], t, k)
  BY DEF Kept
<1>4. node'[p].currentTerm >= t
  BY <1>2, <1>3
<1>5. Reaches(log'[p], t, k)
  BY <1>3, <1>4, ReachStays
<1>6. ASSUME NEW j \in Node, NEW u, u = node'[j].currentTerm, u > t, <<p, u, j>> \in ballots'
      PROVE  Reaches(log'[j], t, k)
  <2>1. u >= t /\ u \in Nat
    BY <1>2, <1>6
  <2>2. CASE <<p, u, j>> \in ballots
    <3>1. u <= node[j].currentTerm
      BY <1>1, <2>2, OldBallot
    <3>2. node[j].currentTerm = u
      BY <1>2, <1>6, <3>1
    <3>3. Reaches(log[j], t, k)
      BY <1>6, <2>2, <3>2 DEF Kept
    <3> QED BY <1>6, <2>1, <3>3, ReachStays
  <2>3. CASE <<p, u, j>> \notin ballots
    <3>1. PICK x \in ballots' : x = <<p, u, j>>
      BY <1>6
    <3>2. x[1] = p /\ x[2] = u /\ x[3] = j /\ x \notin ballots
      BY <2>3, <3>1
    <3>3. CASE j = p
      BY <1>5, <3>3
    <3>4. CASE j # p
      <4>1. /\ log' = log
            /\ \E r \in voteRpcs :
                 /\ r.to = p /\ r.term = u /\ r.from = j
                 /\ IsLogEqualOrMoreRecent(log[p], r.lastIndex, r.lastTerm)
        BY <1>1, <3>2, <3>4 DEF GoodStep, VoteStep, BallotsMove
      <4>2. PICK r \in voteRpcs :
              /\ r.term = u /\ r.from = j
              /\ IsLogEqualOrMoreRecent(log[p], r.lastIndex, r.lastTerm)
        BY <4>1
      <4>3. r.lastIndex \in Nat /\ r.lastTerm \in Nat /\ LastTerm(log[p]) \in Nat /\ LastIndex(log[p]) \in Nat
        BY <1>1, LastType DEF Shape, TypeOK, VoteRpc, Index, Term
      <4>4. EndsAt(r.lastIndex, r.lastTerm, t, k)
        <5>1. \/ LastTerm(log[p]) > t
              \/ LastTerm(log[p]) = t /\ LastIndex(log[p]) >= k
          BY <1>3 DEF Reaches, EndsAt
        <5>2. \/ r.lastTerm > LastTerm(log[p])
              \/ r.lastTerm = LastTerm(log[p]) /\ r.lastIndex >= LastIndex(log[p])
          BY <4>2 DEF IsLogEqualOrMoreRecent
        <5> QED BY <4>3, <5>1, <5>2 DEF EndsAt
      <4>5. r.term <= node[j].currentTerm
        BY <1>1, <4>2 DEF Started
      <4>6. r.term = node[r.from].currentTerm /\ t < r.term
        BY <1>2, <1>6, <4>2, <4>5
      <4>7. Reaches(log[j], t, k)
        BY <1>1, <4>2, <4>4, <4>6 DEF VoteCallsTrue
      <4> QED BY <4>1, <4>7
    <3> QED BY <3>3, <3>4
  <2> QED BY <2>2, <2>3
<1> QED
  BY <1>4, <1>5, <1>6 DEF Kept, Reaches, EndsAt, LastIndex, LastTerm, TermAt

\* The step is the beginning of an office, after t, of a node whose log does
\* not reach entry k of t.
Overruled(t, k) ==
    \E j \in Node : /\ Writes(j) /\ node[j].currentTerm > t
                    /\ ~Reaches(log[j], t, k)

\* A stretch of a view that crosses so crosses so.
LEMMA PieceCrosses ==
    ASSUME NEW u, NEW v, IsView(u), IsView(v), Piece(u, v), NEW t, NEW k, Crosses(v, t, k)
    PROVE  Crosses(u, t, k)
<1> SUFFICES ASSUME NEW m \in Covers(u), At(u, m).term > t, TermIn(u, m - 1) <= t
             PROVE  TermIn(u, m - 1) = t /\ m - 1 >= k
  BY DEF Crosses
<1>1. m \in Covers(v) /\ At(u, m) = At(v, m)
  BY PieceCovers
<1>2. /\ u.prevIndex \in Nat /\ m \in Nat /\ m > u.prevIndex /\ EndOf(u) \in Nat /\ m <= EndOf(u)
  BY ViewTypes DEF EndOf
<1>3. u.entries # <<>>
  <2>1. u.entries = <<>> => Len(u.entries) = 0
    OBVIOUS
  <2> QED BY <1>2, <2>1 DEF EndOf
<1>4. m - 1 \in u.prevIndex..EndOf(u)
  BY <1>2
<1>5. TermIn(u, m - 1) = TermIn(v, m - 1)
  BY <1>3, <1>4, PieceTerms
<1> QED
  BY <1>1, <1>5 DEF Crosses

\* Crosses, for a log.
LEMMA LogCrosses ==
    ASSUME NEW lg \in Seq(Entry), NEW t, NEW k
    PROVE  Crosses(LogView(lg), t, k) <=>
             \A m \in 1..Len(lg) : (TermAt(lg, m) > t /\ TermAt(lg, m - 1) <= t)
                                     => (TermAt(lg, m - 1) = t /\ m - 1 >= k)
<1>1. /\ Len(lg) \in Nat /\ Covers(LogView(lg)) = 1..Len(lg)
      /\ \A x \in 0..Len(lg) : TermIn(LogView(lg), x) = TermAt(lg, x)
      /\ \A x \in 1..Len(lg) : At(LogView(lg), x).term = TermAt(lg, x)
  BY LogTerms
<1>2. \A m \in 1..Len(lg) : m - 1 \in 0..Len(lg)
  BY <1>1
<1> QED
  BY <1>1, <1>2 DEF Crosses

\* A log that the step changes crosses so, unless the step begins an office
\* that overrules.
LEMMA NewLogCrosses ==
    ASSUME SafeStep, NEW t \in Nat, NEW k \in Nat, Crossing(t, k), ~Overruled(t, k),
           NEW i \in Node, log'[i] # log[i]
    PROVE  Crosses(LogView(log'[i]), t, k)
<1> DEFINE lg == log[i]
           new == log'[i]
<1>1. GoodStep /\ Started
  BY DEF SafeStep, Counts
<1>2. /\ lg \in Seq(Entry) /\ new \in Seq(Entry) /\ Len(lg) \in Nat /\ Len(new) \in Nat
      /\ node[i].currentTerm \in Nat
  BY <1>1, StepTypes
<1>3. \A m \in 1..Len(lg) : (TermAt(lg, m) > t /\ TermAt(lg, m - 1) <= t)
                              => (TermAt(lg, m - 1) = t /\ m - 1 >= k)
  <2>1. Crosses(LogView(lg), t, k)
    BY DEF Crossing, Views
  <2> HIDE DEF lg
  <2> QED BY <1>2, <2>1, LogCrosses
<1>4. SUFFICES ASSUME NEW m \in 1..Len(new), TermAt(new, m) > t, TermAt(new, m - 1) <= t
               PROVE  TermAt(new, m - 1) = t /\ m - 1 >= k
  BY <1>2, LogCrosses
<1>5. CASE Writes(i)
  <2>1. /\ \A x \in 0..Len(lg) : TermAt(new, x) = TermAt(lg, x)
        /\ TermAt(new, Len(new)) = node[i].currentTerm /\ Len(new) = Len(lg) + 1
    BY <1>1, <1>5, WrittenTerms
  <2>2. m - 1 \in 0..Len(lg) /\ (m \in 1..Len(lg) \/ m = Len(new))
    BY <1>2, <2>1
  <2>3. CASE m \in 1..Len(lg)
    <3>1. m \in 0..Len(lg)
      BY <2>3
    <3> QED BY <1>3, <1>4, <2>1, <2>2, <2>3, <3>1
  <2>4. CASE m = Len(new)
    <3>1. node[i].currentTerm > t
      BY <1>4, <2>1, <2>4
    <3>2. Reaches(lg, t, k)
      BY <1>5, <3>1 DEF Overruled
    <3>3. m - 1 = Len(lg) /\ TermAt(new, m - 1) = LastTerm(lg) /\ LastIndex(lg) = Len(lg)
      BY <1>2, <2>1, <2>2, <2>4 DEF LastTerm, LastIndex
    <3>4. LastTerm(lg) \in Nat
      BY <1>2, LastType
    <3> HIDE DEF lg, new
    <3>5. LastTerm(lg) <= t
      BY <1>4, <3>3
    <3> QED BY <3>2, <3>3, <3>4, <3>5 DEF Reaches, EndsAt
  <2> QED BY <2>2, <2>3, <2>4
<1>6. ASSUME NEW r \in appendRpcs, Accepted(r), r.to = i
      PROVE  TermAt(new, m - 1) = t /\ m - 1 >= k
  <2>1. /\ Len(new) = EndOf(r) /\ EndOf(r) \in Nat /\ r.prevIndex \in Nat
        /\ r.prevIndex <= EndOf(r) /\ r \in Views /\ IsView(r)
    BY <1>1, <1>6, AcceptedLog, CallTypes DEF GoodStep, EndOf
  <2>2. \A x \in 0..EndOf(r) :
          /\ x <= r.prevIndex => x \in 0..Len(lg) /\ TermAt(new, x) = TermAt(lg, x)
          /\ x >= r.prevIndex => x \in r.prevIndex..EndOf(r) /\ TermAt(new, x) = TermIn(r, x)
    BY <1>1, <1>6, AcceptedTerms
  <2> HIDE DEF lg, new
  <2>3. m \in 0..EndOf(r) /\ m - 1 \in 0..EndOf(r)
    BY <2>1
  <2>4. CASE m <= r.prevIndex
    <3>1. m - 1 <= r.prevIndex
      BY <2>1, <2>4
    <3>2. /\ m \in 0..Len(lg) /\ TermAt(new, m) = TermAt(lg, m)
          /\ TermAt(new, m - 1) = TermAt(lg, m - 1)
      BY <2>2, <2>3, <2>4, <3>1
    <3>3. m \in 1..Len(lg)
      BY <3>2
    <3> QED BY <1>3, <1>4, <3>2, <3>3
  <2>5. CASE m > r.prevIndex
    <3>1. m >= r.prevIndex /\ m - 1 >= r.prevIndex
      BY <2>1, <2>5
    <3>2. TermAt(new, m) = TermIn(r, m) /\ TermAt(new, m - 1) = TermIn(r, m - 1)
      BY <2>2, <2>3, <3>1
    <3>3. m \in Covers(r)
      BY <2>1, <2>3, <2>5, InCovers DEF EndOf
    <3>4. TermIn(r, m) = At(r, m).term
      BY <2>1, <3>3, ViewTypes
    <3>5. Crosses(r, t, k)
      BY <2>1 DEF Crossing
    <3> QED BY <1>4, <3>2, <3>3, <3>4, <3>5 DEF Crosses
  <2> QED BY <2>1, <2>4, <2>5
<1> QED
  BY <1>1, <1>5, <1>6, LogChanges

\* And so does every view.
LEMMA CrossingStays ==
    ASSUME SafeStep, NEW t \in Nat, NEW k \in Nat, Crossing(t, k), ~Overruled(t, k)
    PROVE  Crossing(t, k)'
<1> SUFFICES ASSUME NEW u \in Views' PROVE Crosses(u, t, k)
  BY DEF Crossing, Crosses, Covers, At, TermIn
<1>1. GoodStep
  BY DEF SafeStep
<1>2. IsView(u)
  BY <1>1, ViewsFrom
<1>3. PICK v : IsView(v) /\ Piece(u, v) /\ Crosses(v, t, k)
  BY <1>1, ViewsFrom, NewLogCrosses DEF Crossing
<1> QED
  BY <1>2, <1>3, PieceCrosses

----------------------------------------------------------------------------
(* What a tally is worth.                                                  *)

\* Object o of i will not count a majority for k entries: too many have left
\* its term without being counted.
Blocked(i, o, t, k) ==
    \E Q \in Quorum : \A p \in Q : ~Acked(i, o, p, k) /\ node[p].currentTerm > t

\* Whoever a tally in use counts will keep what it is counted for, unless the
\* tally will never count a majority for it.
Tallies ==
    \A i \in Node : \A o, t \in Nat : \A k \in Nat \ {0} :
      LiveObj(i, o, t) =>
        \/ Blocked(i, o, t, k)
        \/ Crossing(t, k) /\ \A p \in Node : Acked(i, o, p, k) => Kept(t, k, p)

\* A node that is counted in this very step is in the tally's term, and its
\* log reaches what it is counted for.
LEMMA JustAckedReaches ==
    ASSUME SafeStep, NEW i \in Node, NEW o \in Nat, NEW t \in Nat, LiveObj(i, o, t),
           NEW k \in Nat \ {0}, NEW p \in Node, JustAcked(i, o, t, p, k)
    PROVE  node'[p].currentTerm = t /\ Reaches(log'[p], t, k)
<1>1. GoodStep /\ Started /\ OneTerm /\ FullRequests /\ TermsOrdered' /\ LeaderWrote'
  BY DEF SafeStep, Counts, Runs
<1>2. log'[p] \in Seq(Entry) /\ Len(log'[p]) \in Nat
  BY <1>1, StepTypes
<1>3. CASE /\ p = i /\ node'[i].role = "leader" /\ node'[i].currentTerm = t /\ k <= Len(log'[i])
  <2>1. LastTerm(log'[p]) = t /\ LastIndex(log'[p]) >= k
    BY <1>1, <1>2, <1>3 DEF LeaderWrote, LastIndex, LastTerm, TermAt
  <2> QED BY <1>3, <2>1 DEF Reaches, EndsAt
<1>4. ASSUME NEW r \in appendRpcs, Accepted(r), r.phase # "orphan",
             r.from = i, r.obj = o, r.to = p, EndOf(r) >= k
      PROVE  node'[p].currentTerm = t /\ Reaches(log'[p], t, k)
  <2>1. r.term \in Nat /\ LiveObj(i, o, r.term) /\ EndOf(r) \in Nat
    BY <1>1, <1>4, CallTypes DEF GoodStep, LiveObj
  <2>2. r.term = t
    BY <1>1, <2>1 DEF OneTerm
  <2>3. node'[p].currentTerm = t
    BY <1>1, <1>4, <2>2, AcceptedLog
  <2>4. EndOf(r) \in 1..Len(log'[p]) /\ TermAt(log'[p], EndOf(r)) >= t
    BY <1>1, <1>4, <2>2, AcceptedEnds
  <2>5. Ordered(LogView(log'[p]))
    BY <1>1 DEF TermsOrdered, Views, Ordered, TermIn, EndOf, At
  <2>6. TermAt(log'[p], EndOf(r)) <= LastTerm(log'[p])
    <3>1. EndOf(r) \in 0..Len(log'[p]) /\ Len(log'[p]) \in 0..Len(log'[p]) /\ EndOf(r) <= Len(log'[p])
      BY <1>2, <2>4
    <3> QED BY <1>2, <2>5, <3>1, LogOrdered DEF LastTerm
  <2>7. TermAt(log'[p], EndOf(r)) \in Nat /\ LastTerm(log'[p]) \in Nat
    BY <1>2, TermAtType, LastType
  <2>8. LastTerm(log'[p]) >= t /\ LastIndex(log'[p]) >= k
    BY <1>2, <1>4, <2>1, <2>4, <2>6, <2>7 DEF LastIndex
  <2> QED BY <2>3, <2>7, <2>8 DEF Reaches, EndsAt
<1> QED
  BY <1>3, <1>4 DEF JustAcked

\* A node in term t has not voted in a later one.
LEMMA KeptInTerm ==
    ASSUME GoodStep, NEW t \in Nat, NEW k, NEW p \in Node, node'[p].currentTerm = t,
           Reaches(log'[p], t, k)
    PROVE  Kept(t, k, p)'
<1>1. ASSUME NEW j \in Node, NEW u, u = node'[j].currentTerm, u > t, <<p, u, j>> \in ballots'
      PROVE  FALSE
  <2>1. u \in Nat /\ u <= node'[p].currentTerm
    BY <1>1, VotersReachNext
  <2> QED BY <1>1, <2>1
<1>2. node'[p].currentTerm >= t
  OBVIOUS
<1> QED
  BY <1>1, <1>2 DEF Kept, Reaches, EndsAt, LastIndex, LastTerm, TermAt

\* A blocked tally stays blocked: whoever left the term takes no request of it
\* over any more.
LEMMA BlockedStays ==
    ASSUME SafeStep, NEW i \in Node, NEW o \in Nat, NEW t \in Nat, NEW k \in Nat \ {0},
           LiveObj(i, o, t), Blocked(i, o, t, k),
           \A p \in Node : Acked(i, o, p, k)' => Acked(i, o, p, k) \/ JustAcked(i, o, t, p, k)
    PROVE  Blocked(i, o, t, k)'
<1>1. PICK Q \in Quorum : \A p \in Q : ~Acked(i, o, p, k) /\ node[p].currentTerm > t
  BY DEF Blocked
<1>2. ASSUME NEW p \in Q PROVE ~Acked(i, o, p, k)' /\ node'[p].currentTerm > t
  <2>1. p \in Node
    BY DEF Quorum
  <2>2. /\ node[p].currentTerm \in Nat /\ node'[p].currentTerm \in Nat
        /\ node[p].currentTerm <= node'[p].currentTerm
    BY <2>1, StepTypes DEF SafeStep
  <2>3. node[p].currentTerm > t
    BY <1>1
  <2>4. node'[p].currentTerm > t
    BY <2>2, <2>3
  <2>5. ~JustAcked(i, o, t, p, k)
    BY <2>1, <2>2, <2>4, JustAckedReaches
  <2> QED BY <1>1, <2>1, <2>4, <2>5
<1> QED
  BY <1>2 DEF Blocked

\* A tally whose term is overruled is blocked.
LEMMA OverruledBlocks ==
    ASSUME SafeStep, NEW i \in Node, NEW o \in Nat, NEW t \in Nat, NEW k \in Nat \ {0},
           \A p \in Node : Acked(i, o, p, k) => Kept(t, k, p), Overruled(t, k)
    PROVE  Blocked(i, o, t, k)
<1>1. PICK j \in Node : Writes(j) /\ node[j].currentTerm > t /\ ~Reaches(log[j], t, k)
  BY DEF Overruled
<1>2. PICK u : u = node[j].currentTerm
  OBVIOUS
<1>3. Voters(u, j) \in Quorum
  BY <1>1, <1>2 DEF Writes, Won
<1>4. u \in Nat /\ u > t
  BY <1>1, <1>2, StepTypes DEF SafeStep
<1>5. ASSUME NEW p \in Voters(u, j) PROVE ~Acked(i, o, p, k) /\ node[p].currentTerm > t
  <2>1. p \in Node /\ <<p, u, j>> \in ballots
    BY DEF Voters
  <2>2. u <= node[p].currentTerm
    BY <2>1, VotersReach DEF SafeStep, GoodStep
  <2>3. node[p].currentTerm \in Nat
    BY <2>1, StepTypes DEF SafeStep
  <2>4. ~Kept(t, k, p)
    BY <1>1, <1>2, <2>1 DEF Kept
  <2> QED BY <1>4, <2>1, <2>2, <2>3, <2>4
<1> QED
  BY <1>3, <1>5 DEF Blocked

\* The tally of a new office.
LEMMA NewTally ==
    ASSUME SafeStep, NEW i \in Node, NEW o \in Nat, NEW t \in Nat, NEW k \in Nat \ {0},
           NewObject(i, o, t),
           \A p \in Node : Acked(i, o, p, k)' => p = i /\ k <= Len(log'[i])
    PROVE  \/ Blocked(i, o, t, k)'
           \/ Crossing(t, k)' /\ \A p \in Node : Acked(i, o, p, k)' => Kept(t, k, p)'
<1>1. GoodStep /\ Writes(i) /\ t = node[i].currentTerm /\ node'[i].currentTerm = t
  BY DEF SafeStep, NewObject, Writes
<1>2. /\ log'[i] \in Seq(Entry) /\ Len(log'[i]) \in Nat
  BY <1>1, StepTypes
<1>3. CASE \E v \in Views' : \E m \in Covers(v) : At(v, m).term > t
  <2>0. PICK v \in Views' : \E m \in Covers(v) : At(v, m).term > t
    BY <1>3
  <2>1. PICK m \in Covers(v) : At(v, m).term > t
    BY <2>0
  <2>2. PICK u : u = At(v, m).term
    OBVIOUS
  <2>3. Origin(u, m)'
    BY <1>1, <2>1, <2>2 DEF GoodStep, Logs, Origins, Covers, At
  <2>4. PICK w \in Node : Won(u, w)'
    BY <2>3 DEF Origin
  <2>5. {p \in Node : <<p, u, w>> \in ballots'} \in Quorum
    BY <2>4 DEF Won, Voters
  <2>6. ASSUME NEW p \in Node, <<p, u, w>> \in ballots'
        PROVE  ~Acked(i, o, p, k)' /\ node'[p].currentTerm > t
    <3>1. u \in Nat /\ u <= node'[p].currentTerm /\ node'[p].currentTerm \in Nat
      BY <1>1, <2>6, VotersReachNext, StepTypes
    <3>2. node'[p].currentTerm > t
      BY <2>1, <2>2, <3>1
    <3>3. p # i
      BY <1>1, <3>1, <3>2
    <3> QED BY <3>2, <3>3
  <2> QED BY <2>5, <2>6 DEF Blocked
<1>4. CASE ~\E v \in Views' : \E m \in Covers(v) : At(v, m).term > t
  <2>1. Crossing(t, k)'
    BY <1>4 DEF Crossing, Crosses, Covers, At
  <2>2. ASSUME NEW p \in Node, Acked(i, o, p, k)' PROVE Kept(t, k, p)'
    <3>1. p = i /\ k <= Len(log'[i])
      BY <2>2
    <3>2. LastTerm(log'[i]) = t
      BY <1>1, WrittenTerms
    <3>3. Reaches(log'[p], t, k)
      BY <1>2, <3>1, <3>2 DEF Reaches, EndsAt, LastIndex
    <3> QED BY <1>1, <3>1, <3>3, KeptInTerm
  <2> QED BY <2>1, <2>2
<1> QED
  BY <1>3, <1>4

\* Tallies stays true.
LEMMA TalliesStay ==
    ASSUME SafeStep, Tallies
    PROVE  Tallies'
<1> SUFFICES ASSUME NEW i \in Node, NEW o \in Nat, NEW t \in Nat, NEW k \in Nat \ {0},
                    LiveObj(i, o, t)'
             PROVE  \/ Blocked(i, o, t, k)'
                    \/ Crossing(t, k)' /\ \A p \in Node : Acked(i, o, p, k)' => Kept(t, k, p)'
  BY DEF Tallies
<1>1. GoodStep /\ Started /\ TalliesMove
  BY DEF SafeStep, Counts, GoodStep, CommitStep
<1>2. CASE NewObject(i, o, t) /\ \A p \in Node : Acked(i, o, p, k)' => p = i /\ k <= Len(log'[i])
  BY <1>2, NewTally
<1>3. CASE /\ LiveObj(i, o, t)
           /\ \A p \in Node : Acked(i, o, p, k)' => Acked(i, o, p, k) \/ JustAcked(i, o, t, p, k)
  <2>1. CASE Blocked(i, o, t, k)
    BY <1>3, <2>1, BlockedStays
  <2>2. CASE Crossing(t, k) /\ \A p \in Node : Acked(i, o, p, k) => Kept(t, k, p)
    <3>1. CASE Overruled(t, k)
      BY <1>3, <2>1, <2>2, <3>1, OverruledBlocks
    <3>2. CASE ~Overruled(t, k)
      <4>1. Crossing(t, k)'
        BY <2>2, <3>2, CrossingStays
      <4>2. t > 0
        BY <1>1, <1>3, LiveWon DEF GoodStep
      <4>3. t \in Nat \ {0}
        BY <4>2
      <4>4. ASSUME NEW p \in Node, Acked(i, o, p, k)' PROVE Kept(t, k, p)'
        <5>1. CASE Acked(i, o, p, k)
          BY <2>2, <4>3, <5>1, KeptStays
        <5>2. CASE JustAcked(i, o, t, p, k)
          BY <1>1, <1>3, <5>2, JustAckedReaches, KeptInTerm
        <5> QED BY <1>3, <4>4, <5>1, <5>2
      <4> QED BY <4>1, <4>4
    <3> QED BY <3>1, <3>2
  <2> QED BY <1>3, <2>1, <2>2 DEF Tallies
<1> QED
  BY <1>1, <1>2, <1>3 DEF TalliesMove

----------------------------------------------------------------------------
(* What is chosen stays.                                                   *)

\* The log of p has an entry of term t at k.
Holds(p, t, k) == k <= Len(log[p]) /\ TermAt(log[p], k) = t

\* Entry k of term t is in a log, no log goes past t without it, and a
\* majority will let nobody lead who has it not.
Chosen(t, k) ==
    /\ Crossing(t, k)
    /\ \E Q \in Quorum : \A p \in Q : Kept(t, k, p)
    /\ \E p \in Node : Holds(p, t, k)

\* What is known of any two logs.
LEMMA LogFacts ==
    ASSUME Shape, Logs, Runs, NEW i \in Node, NEW j \in Node
    PROVE  /\ log[i] \in Seq(Entry) /\ Len(log[i]) \in Nat
           /\ LogView(log[i]) \in Views
           /\ SameRun(LogView(log[i]), LogView(log[j]))
           /\ Agree(LogView(log[i]), LogView(log[j]))
<1>1. log[i] \in Seq(Entry) /\ Len(log[i]) \in Nat
  BY LenProperties DEF Shape, TypeOK
<1>2. LogView(log[i]) \in Views /\ LogView(log[j]) \in Views
  BY DEF Views
<1> QED
  BY <1>1, <1>2 DEF Runs, RunsAgree, Logs, ViewsAgree, AllAgree

\* And after a step.
LEMMA LogFactsNext ==
    ASSUME SafeStep, NEW i \in Node, NEW j \in Node
    PROVE  /\ log'[i] \in Seq(Entry) /\ Len(log'[i]) \in Nat
           /\ LogView(log'[i]) \in Views'
           /\ SameRun(LogView(log'[i]), LogView(log'[j]))
           /\ Agree(LogView(log'[i]), LogView(log'[j]))
<1>1. log'[i] \in Seq(Entry) /\ Len(log'[i]) \in Nat
  BY StepTypes DEF SafeStep
<1>2. LogView(log'[i]) \in Views' /\ LogView(log'[j]) \in Views'
  BY DEF Views
<1>3. \A v, w \in Views' : SameRun(v, w)
  BY DEF SafeStep, Runs, RunsAgree, SameRun, Covers, At, TermIn
<1>4. \A v, w \in Views' : Agree(v, w)
  BY DEF SafeStep, GoodStep, Logs, ViewsAgree, AllAgree, Agree, Covers, At, TermIn
<1> QED
  BY <1>1, <1>2, <1>3, <1>4

\* A log that reaches (t, k) has entry k of t, if another has.
LEMMA ReachHolds ==
    ASSUME NEW lg \in Seq(Entry), NEW hl \in Seq(Entry), NEW t \in Nat \ {0}, NEW k \in Nat \ {0},
           Crosses(LogView(lg), t, k), Reaches(lg, t, k),
           SameRun(LogView(hl), LogView(lg)), k <= Len(hl), TermAt(hl, k) = t
    PROVE  k <= Len(lg) /\ TermAt(lg, k) = t
<1>1. PICK y \in 1..Len(lg) : y >= k /\ TermAt(lg, y) = t
  BY ReachIndex
<1>2. Len(lg) \in Nat /\ Len(hl) \in Nat
  BY LenProperties
<1>3. k \in 1..Len(hl) /\ k <= y /\ k \in k..y
  BY <1>1, <1>2
<1>4. k \in 1..Len(lg) /\ TermAt(lg, k) = t
  BY <1>1, <1>3, RunBetween
<1> QED
  BY <1>2, <1>4

\* A log with an entry of term t or later at e agrees, up to e and k, with a
\* log that has entry k of t.
LEMMA HolderAgrees ==
    ASSUME NEW lg \in Seq(Entry), NEW hl \in Seq(Entry), NEW t \in Nat \ {0}, NEW k \in Nat \ {0},
           Crosses(LogView(lg), t, k), SameRun(LogView(hl), LogView(lg)),
           SameRun(LogView(lg), LogView(hl)), Agree(LogView(hl), LogView(lg)),
           k <= Len(hl), TermAt(hl, k) = t,
           NEW e \in 1..Len(lg), TermAt(lg, e) >= t, NEW c \in 1..e, c <= k
    PROVE  c <= Len(hl) /\ hl[c] = lg[c]
<1>1. Len(lg) \in Nat /\ Len(hl) \in Nat /\ TermAt(lg, e) \in Nat
  BY LenProperties, TermAtType
<1>2. k \in 1..Len(hl)
  BY <1>1
<1>3. ASSUME NEW y \in 1..Len(lg), y >= k, TermAt(lg, y) = t
      PROVE  c <= Len(hl) /\ hl[c] = lg[c]
  <2>1. k <= y /\ k \in k..y
    BY <1>1, <1>2, <1>3
  <2>2. k \in 1..Len(lg) /\ TermAt(lg, k) = t
    BY <1>2, <1>3, <2>1, RunBetween
  <2>3. k <= Len(lg) /\ TermAt(hl, k) = TermAt(lg, k) /\ c \in 1..k
    BY <1>1, <2>2
  <2>4. hl[c] = lg[c]
    BY <1>2, <2>3, SameBelow
  <2> QED BY <1>1, <1>2, <2>4
<1>4. CASE TermAt(lg, e) > t
  BY <1>3, <1>4, CrossIndex
<1>5. CASE TermAt(lg, e) = t /\ e >= k
  BY <1>3, <1>5
<1>6. CASE TermAt(lg, e) = t /\ e < k
  <2>1. e <= k /\ e \in e..k
    BY <1>1, <1>6
  <2>2. e \in 1..Len(hl) /\ TermAt(hl, e) = t
    BY <1>2, <1>6, <2>1, RunBetween
  <2>3. e <= Len(lg) /\ TermAt(hl, e) = TermAt(lg, e)
    BY <1>1, <1>6, <2>2
  <2>4. hl[c] = lg[c]
    BY <2>2, <2>3, SameBelow
  <2> QED BY <1>1, <2>2, <2>4
<1> QED
  BY <1>1, <1>4, <1>5, <1>6

\* Who keeps a chosen entry has it.
LEMMA KeepersHold ==
    ASSUME Shape, Logs, Runs, NEW t \in Nat \ {0}, NEW k \in Nat \ {0}, Chosen(t, k),
           NEW p \in Node, Kept(t, k, p)
    PROVE  Holds(p, t, k)
<1>1. PICK h \in Node : Holds(h, t, k)
  BY DEF Chosen
<1>2. Crosses(LogView(log[p]), t, k) /\ Reaches(log[p], t, k)
  BY LogFacts DEF Chosen, Crossing, Kept
<1> QED
  BY <1>1, <1>2, LogFacts, ReachHolds DEF Holds

\* The same after a step.
LEMMA KeepersHoldNext ==
    ASSUME SafeStep, NEW t \in Nat \ {0}, NEW k \in Nat \ {0}, Chosen(t, k)',
           NEW p \in Node, Kept(t, k, p)'
    PROVE  k <= Len(log'[p]) /\ TermAt(log'[p], k) = t
<1>1. PICK h \in Node : k <= Len(log'[h]) /\ TermAt(log'[h], k) = t
  BY DEF Chosen, Holds, TermAt
<1>2. Crosses(LogView(log'[p]), t, k)
  <2>1. \A v \in Views' : Crosses(v, t, k)
    BY DEF Chosen, Crossing, Crosses, Covers, At, TermIn
  <2> QED BY <2>1, LogFactsNext
<1>3. Reaches(log'[p], t, k)
  BY DEF Kept, Reaches, EndsAt, LastIndex, LastTerm, TermAt
<1> QED
  BY <1>1, <1>2, <1>3, LogFactsNext, ReachHolds

\* Nobody leads past what is chosen without having it.
LEMMA NotOverruled ==
    ASSUME SafeStep, NEW t \in Nat \ {0}, NEW k \in Nat \ {0}, Chosen(t, k)
    PROVE  ~Overruled(t, k)
<1> SUFFICES ASSUME Overruled(t, k) PROVE FALSE
  OBVIOUS
<1>1. PICK j \in Node : Writes(j) /\ node[j].currentTerm > t /\ ~Reaches(log[j], t, k)
  BY DEF Overruled
<1>2. PICK Q \in Quorum : \A p \in Q : Kept(t, k, p)
  BY DEF Chosen
<1>3. Voters(node[j].currentTerm, j) \in Quorum
  BY <1>1 DEF Writes, Won
<1>4. PICK v \in Node : v \in Q /\ v \in Voters(node[j].currentTerm, j)
  BY <1>3, QuorumsMeet
<1>5. Kept(t, k, v) /\ <<v, node[j].currentTerm, j>> \in ballots
  BY <1>2, <1>4 DEF Voters
<1> QED
  BY <1>1, <1>5 DEF Kept

\* The step leaves alone the log of one of a majority.
LEMMA SteadyLog ==
    ASSUME GoodStep, NEW Q \in Quorum
    PROVE  \E p \in Q : p \in Node /\ log'[p] = log[p]
<1>1. Q \subseteq Node
  BY DEF Quorum
<1>2. CASE \A j \in Node : log'[j] = log[j]
  BY <1>1, <1>2, QuorumHasTwo
<1>3. ASSUME NEW j \in Node, log'[j] # log[j]
      PROVE  \E p \in Q : p \in Node /\ log'[p] = log[p]
  <2>1. \A i \in Node \ {j} : log'[i] = log[i]
    BY <1>3, LogChanges, WrittenLog, AcceptedLog
  <2>2. PICK p \in Q : p # j
    BY QuorumHasTwo
  <2> QED BY <1>1, <2>1, <2>2
<1> QED
  BY <1>2, <1>3

\* So somebody who holds a chosen entry keeps its log in the step.
LEMMA SteadyHolder ==
    ASSUME SafeStep, NEW t \in Nat \ {0}, NEW k \in Nat \ {0}, Chosen(t, k)
    PROVE  \E p \in Node : Holds(p, t, k) /\ log'[p] = log[p]
<1>1. PICK Q \in Quorum : \A p \in Q : Kept(t, k, p)
  BY DEF Chosen
<1>2. PICK p \in Q : p \in Node /\ log'[p] = log[p]
  BY SteadyLog DEF SafeStep
<1>3. Holds(p, t, k)
  BY <1>1, <1>2, KeepersHold DEF SafeStep, GoodStep
<1> QED
  BY <1>2, <1>3

\* What is chosen stays chosen.
LEMMA ChosenStays ==
    ASSUME SafeStep, NEW t \in Nat \ {0}, NEW k \in Nat \ {0}, Chosen(t, k)
    PROVE  Chosen(t, k)'
<1>1. Crossing(t, k)'
  BY NotOverruled, CrossingStays DEF Chosen
<1>2. \E Q \in Quorum : \A p \in Q : Kept(t, k, p)'
  <2>1. PICK Q \in Quorum : \A p \in Q : Kept(t, k, p)
    BY DEF Chosen
  <2>2. Q \subseteq Node
    BY DEF Quorum
  <2> QED BY <2>1, <2>2, KeptStays DEF Chosen
<1>3. \E p \in Node : Holds(p, t, k)'
  <2>1. PICK p \in Node : Holds(p, t, k) /\ log'[p] = log[p]
    BY SteadyHolder
  <2> QED BY <2>1 DEF Holds, TermAt
<1> QED
  BY <1>1, <1>2, <1>3 DEF Chosen

----------------------------------------------------------------------------
(* What is committed is chosen.                                            *)

\* An entry that a leader of term t has declared committed at index is below
\* a chosen entry of t, and whoever holds that one holds it.
Backed(index, entry, t, k) ==
    /\ t \in Nat \ {0} /\ k \in Nat \ {0} /\ index \in 1..k
    /\ Chosen(t, k)
    /\ \A p \in Node : Holds(p, t, k) => log[p][index] = entry

\* All of them are.
Commits == \A x \in committed : \E k \in Nat : Backed(x.index, x.entry, x.term, k)

\* What is backed stays backed.
LEMMA BackedStays ==
    ASSUME SafeStep, NEW index, NEW entry, NEW t, NEW k, Backed(index, entry, t, k)
    PROVE  Backed(index, entry, t, k)'
<1>1. t \in Nat \ {0} /\ k \in Nat \ {0} /\ index \in 1..k /\ Chosen(t, k)
  BY DEF Backed
<1>2. PICK h \in Node : Holds(h, t, k) /\ log'[h] = log[h]
  BY <1>1, SteadyHolder
<1>3. log'[h][index] = entry /\ k <= Len(log'[h]) /\ TermAt(log'[h], k) = t
  BY <1>2 DEF Backed, Holds
<1>4. ASSUME NEW p \in Node, Holds(p, t, k)' PROVE log'[p][index] = entry
  <2>1. k <= Len(log'[p]) /\ TermAt(log'[p], k) = t
    BY <1>4 DEF Holds, TermAt
  <2>2. /\ log'[h] \in Seq(Entry) /\ log'[p] \in Seq(Entry) /\ Len(log'[h]) \in Nat
        /\ Agree(LogView(log'[h]), LogView(log'[p]))
    BY LogFactsNext
  <2>3. k \in 1..Len(log'[h])
    BY <1>1, <1>3, <2>2
  <2>4. log'[h][index] = log'[p][index]
    BY <1>1, <1>3, <2>1, <2>2, <2>3, SameBelow
  <2> QED BY <1>3, <2>4
<1> QED
  BY <1>1, <1>4, ChosenStays DEF Backed

\* What a leader advances its commit index to is chosen: the tally it counts
\* on, even that of an earlier office, counts for the leader's own term.
LEMMA AdvanceChosen ==
    ASSUME SafeStep, Tallies, NEW i \in Node, Advances(i), NEW k, k = node'[i].commitIndex
    PROVE  /\ k \in Nat \ {0} /\ node[i].currentTerm \in Nat \ {0}
           /\ Chosen(node[i].currentTerm, k) /\ Holds(i, node[i].currentTerm, k)
<1>1. GoodStep /\ Shape /\ Votes /\ Logs /\ Started /\ Runs
  BY DEF SafeStep, GoodStep, Counts
<1>2. /\ node[i].commitIndex \in Nat /\ node'[i].commitIndex \in Nat
      /\ node[i].currentTerm \in Nat /\ log[i] \in Seq(Entry) /\ Len(log[i]) \in Nat
  BY <1>1, StepTypes DEF GoodStep, Shape, TypeOK, NodeState, Index
<1>3. /\ k > node[i].commitIndex /\ k <= Len(log[i]) /\ log[i][k].term = node[i].currentTerm
      /\ \E o, t \in Nat : LiveObj(i, o, t) /\ {p \in Node : Acked(i, o, p, k)} \in Quorum
  BY DEF Advances
<1>4. k \in Nat \ {0} /\ k \in 1..Len(log[i])
  BY <1>2, <1>3
<1>5. PICK o \in Nat, t \in Nat : LiveObj(i, o, t) /\ {p \in Node : Acked(i, o, p, k)} \in Quorum
  BY <1>3
<1>6. t > 0 /\ t <= node[i].currentTerm
  BY <1>1, <1>5, LiveWon
<1>7. ASSUME Blocked(i, o, t, k) PROVE FALSE
  <2>1. PICK Q \in Quorum : \A p \in Q : ~Acked(i, o, p, k)
    BY <1>7 DEF Blocked
  <2>2. PICK v \in Node : v \in Q /\ v \in {p \in Node : Acked(i, o, p, k)}
    BY <1>5, QuorumsMeet
  <2> QED BY <2>1, <2>2
<1>8. Crossing(t, k) /\ \A p \in Node : Acked(i, o, p, k) => Kept(t, k, p)
  BY <1>4, <1>5, <1>7 DEF Tallies
<1>9. TermAt(log[i], k) = node[i].currentTerm
  BY <1>2, <1>3, <1>4, LogTerms
<1>10. t = node[i].currentTerm
  <2>1. SUFFICES ASSUME node[i].currentTerm > t PROVE FALSE
    BY <1>2, <1>6
  <2>2. Crosses(LogView(log[i]), t, k)
    BY <1>1, <1>8, LogFacts DEF Crossing
  <2>3. t \in Nat \ {0}
    BY <1>6
  <2>4. PICK y \in 1..Len(log[i]) : y >= k /\ y < k
    BY <1>2, <1>4, <1>9, <2>1, <2>2, <2>3, CrossIndex
  <2> QED BY <1>4, <2>4
<1>11. Holds(i, t, k)
  BY <1>3, <1>9, <1>10 DEF Holds
<1>12. \A p \in {x \in Node : Acked(i, o, x, k)} : Kept(t, k, p)
  BY <1>8
<1>13. Chosen(t, k)
  BY <1>5, <1>8, <1>11, <1>12 DEF Chosen
<1> QED
  BY <1>4, <1>6, <1>10, <1>11, <1>13

\* Commits stays true.
LEMMA CommitsStay ==
    ASSUME SafeStep, Tallies, Commits
    PROVE  Commits'
<1>1. ASSUME NEW x \in committed' PROVE \E k \in Nat : Backed(x.index, x.entry, x.term, k)
  <2>1. CASE x \in committed
    BY <2>1 DEF Commits
  <2>2. ASSUME NEW i \in Node, Advances(i), x \notin committed
        PROVE  \E k \in Nat : Backed(x.index, x.entry, x.term, k)
    <3>1. PICK k : k = node'[i].commitIndex
      OBVIOUS
    <3>2. PICK t : t = node[i].currentTerm
      OBVIOUS
    <3>3. k \in Nat \ {0} /\ t \in Nat \ {0} /\ Chosen(t, k) /\ Holds(i, t, k)
      BY <2>2, <3>1, <3>2, AdvanceChosen
    <3>4. x \in Declared(log[i], node[i].commitIndex, k, t)
      BY <1>1, <2>2, <3>1, <3>2 DEF Advances
    <3>5. PICK m \in (node[i].commitIndex + 1)..k : x = [index |-> m, entry |-> log[i][m], term |-> t]
      BY <3>4 DEF Declared
    <3>6. x.index = m /\ x.entry = log[i][m] /\ x.term = t
      BY <3>5
    <3>7. node[i].commitIndex \in Nat
      BY DEF SafeStep, GoodStep, Shape, TypeOK, NodeState, Index
    <3>8. m \in 1..k
      BY <3>3, <3>5, <3>7
    <3>9. ASSUME NEW p \in Node, Holds(p, t, k) PROVE log[p][m] = log[i][m]
      <4>1. /\ log[i] \in Seq(Entry) /\ log[p] \in Seq(Entry) /\ Len(log[i]) \in Nat
            /\ Agree(LogView(log[i]), LogView(log[p]))
        BY LogFacts DEF SafeStep, GoodStep
      <4>2. k \in 1..Len(log[i]) /\ k <= Len(log[p]) /\ TermAt(log[i], k) = TermAt(log[p], k)
        BY <3>3, <3>9, <4>1 DEF Holds
      <4> QED BY <3>8, <4>1, <4>2, SameBelow
    <3>10. Backed(m, log[i][m], t, k)
      BY <3>3, <3>8, <3>9 DEF Backed
    <3> QED BY <3>3, <3>6, <3>10
  <2>3. committed' = committed \/ \E i \in Node : Advances(i)
    BY DEF SafeStep, GoodStep, CommitStep, CommitsMove
  <2> QED BY <1>1, <2>1, <2>2, <2>3
<1>2. ASSUME NEW x \in committed' PROVE \E k \in Nat : Backed(x.index, x.entry, x.term, k)'
  BY <1>1, BackedStays
<1> QED
  BY <1>2 DEF Commits

\* The entries a leader has declared committed are in the logs of later
\* leaders.
LEMMA CommitsComplete ==
    ASSUME Shape, Logs, Runs, Commits
    PROVE  LeaderCompleteness
<1> SUFFICES ASSUME NEW c \in committed, NEW i \in Node, node[i].role = "leader",
                    node[i].currentTerm > c.term
             PROVE  c.index <= Len(log[i]) /\ log[i][c.index] = c.entry
  BY DEF LeaderCompleteness
<1>1. PICK t : t = c.term
  OBVIOUS
<1>2. PICK k \in Nat : Backed(c.index, c.entry, t, k)
  BY <1>1 DEF Commits
<1>3. t \in Nat \ {0} /\ k \in Nat \ {0} /\ c.index \in 1..k /\ Chosen(t, k)
  BY <1>2 DEF Backed
<1>4. PICK h \in Node : Holds(h, t, k)
  BY <1>3 DEF Chosen
<1>5. LastTerm(log[i]) > t
  BY <1>1 DEF Runs, LeaderWrote
<1>6. Reaches(log[i], t, k) /\ Crosses(LogView(log[i]), t, k)
  BY <1>3, <1>5, LogFacts DEF Reaches, EndsAt, Chosen, Crossing
<1>7. Holds(i, t, k)
  <2>1. /\ log[i] \in Seq(Entry) /\ log[h] \in Seq(Entry)
        /\ SameRun(LogView(log[h]), LogView(log[i]))
    BY LogFacts
  <2>2. k <= Len(log[h]) /\ TermAt(log[h], k) = t
    BY <1>4 DEF Holds
  <2>3. k <= Len(log[i]) /\ TermAt(log[i], k) = t
    BY <1>3, <1>6, <2>1, <2>2, ReachHolds
  <2> QED BY <2>3 DEF Holds
<1>8. log[i][c.index] = c.entry
  BY <1>2, <1>7 DEF Backed
<1>9. Len(log[i]) \in Nat
  BY LogFacts
<1> QED
  BY <1>3, <1>7, <1>8, <1>9 DEF Holds

----------------------------------------------------------------------------
(* Commit indexes.                                                         *)

\* A commit index is not beyond what is chosen, in a term that its node has
\* reached, unless the node will not win its own term.
CommitKnown ==
    \A i \in Node : node[i].commitIndex > 0 =>
      \E t, k \in Nat \ {0} :
        /\ Chosen(t, k) /\ node[i].commitIndex <= k
        /\ t <= node[i].currentTerm \/ Unwinnable(i)

\* Nor is the one in a request, which reaches that far and that late.
CallCommits ==
    \A r \in appendRpcs : r.commit > 0 =>
      \E t, k \in Nat \ {0} :
        /\ Chosen(t, k) /\ r.commit <= k
        /\ Hopeless(r) \/ (r.commit <= EndOf(r) /\ TermIn(r, EndOf(r)) >= t)

\* A chosen entry is of a term that has been won.
LEMMA ChosenWon ==
    ASSUME SafeStep, NEW t \in Nat \ {0}, NEW k \in Nat \ {0}, Chosen(t, k)
    PROVE  \E w \in Node : Won(t, w) /\ Won(t, w)'
<1>1. GoodStep /\ Shape /\ Logs /\ Started /\ ballots \subseteq ballots'
  BY DEF SafeStep, GoodStep, Counts, LogStep
<1>2. PICK h \in Node : Holds(h, t, k)
  BY DEF Chosen
<1>3. log[h] \in Seq(Entry) /\ Len(log[h]) \in Nat
  BY <1>1, StepTypes
<1>4. k \in 1..Len(log[h]) /\ log[h][k].term = t
  BY <1>2, <1>3, LogTerms DEF Holds
<1>5. PICK w \in Node : Won(t, w)
  BY <1>1, <1>4, LogEntryStarted
<1> QED
  BY <1>1, <1>5, WonStays

\* CommitKnown stays true.
LEMMA CommitKnownStays ==
    ASSUME SafeStep, Tallies, CommitKnown, CallCommits
    PROVE  CommitKnown'
<1> SUFFICES ASSUME NEW i \in Node, node'[i].commitIndex > 0
             PROVE  \E t, k \in Nat \ {0} :
                      /\ Chosen(t, k)' /\ node'[i].commitIndex <= k
                      /\ t <= node'[i].currentTerm \/ Unwinnable(i)'
  BY DEF CommitKnown
<1>1. GoodStep /\ Shape /\ Shape' /\ Logs /\ Started
  BY DEF SafeStep, GoodStep, Counts
<1>2. /\ node[i].currentTerm \in Nat /\ node'[i].currentTerm \in Nat
      /\ node[i].currentTerm <= node'[i].currentTerm
      /\ node[i].commitIndex \in Nat /\ node'[i].commitIndex \in Nat
  BY <1>1, StepTypes DEF Shape, TypeOK, NodeState, Index
<1>3. SUFFICES \E t, k \in Nat \ {0} : /\ Chosen(t, k) /\ node'[i].commitIndex <= k
                                       /\ t <= node'[i].currentTerm \/ Unwinnable(i)'
  BY ChosenStays
<1>4. CASE Advances(i)
  <2>1. PICK t : t = node[i].currentTerm
    OBVIOUS
  <2>2. PICK k : k = node'[i].commitIndex
    OBVIOUS
  <2>3. t \in Nat \ {0} /\ k \in Nat \ {0} /\ Chosen(t, k)
    BY <1>4, <2>1, <2>2, AdvanceChosen
  <2> QED BY <1>2, <2>1, <2>2, <2>3
<1>5. ASSUME NEW r \in appendRpcs, Accepted(r), r.to = i, node'[i].commitIndex <= r.commit
      PROVE  \E t, k \in Nat \ {0} : /\ Chosen(t, k) /\ node'[i].commitIndex <= k
                                     /\ t <= node'[i].currentTerm \/ Unwinnable(i)'
  <2>1. /\ r.commit \in Nat /\ r.from \in Node /\ r.from # i /\ Won(r.term, r.from)
        /\ r.term = node'[i].currentTerm
    BY <1>1, <1>5, CallTypes, AcceptedLog
  <2>2. r.commit > 0
    BY <1>2, <1>5, <2>1
  <2>3. PICK t \in Nat \ {0}, k \in Nat \ {0} : Chosen(t, k) /\ r.commit <= k
    BY <2>2 DEF CallCommits
  <2>4. Unwinnable(i)'
    <3>1. Won(r.term, r.from)'
      BY <1>1, <2>1, WonStays DEF GoodStep, LogStep
    <3>2. PICK w : w = r.from
      OBVIOUS
    <3>3. {x \in Node : <<x, node'[i].currentTerm, w>> \in ballots'} \in Quorum
      BY <2>1, <3>1, <3>2 DEF Won, Voters
    <3> QED BY <2>1, <3>2, <3>3 DEF Unwinnable, Won, Voters
  <2> QED BY <1>2, <1>5, <2>1, <2>3, <2>4
<1>6. CASE ~(node'[i].commitIndex > node[i].commitIndex)
  <2>1. node[i].commitIndex > 0
    BY <1>2, <1>6
  <2>2. PICK t \in Nat \ {0}, k \in Nat \ {0} :
               /\ Chosen(t, k) /\ node[i].commitIndex <= k
               /\ t <= node[i].currentTerm \/ Unwinnable(i)
    BY <2>1 DEF CommitKnown
  <2>3. node'[i].commitIndex <= k
    BY <1>2, <1>6, <2>2
  <2>4. t <= node'[i].currentTerm \/ Unwinnable(i)'
    <3>1. CASE node'[i].currentTerm = node[i].currentTerm
      BY <1>1, <2>2, <3>1, UnwinnableStays
    <3>2. CASE node'[i].currentTerm > node[i].currentTerm /\ t > node'[i].currentTerm
      BY <1>1, <2>2, <3>2, ChosenWon, RisenUnwinnable
    <3> QED BY <1>2, <3>1, <3>2
  <2> QED BY <2>2, <2>3, <2>4
<1> QED
  BY <1>4, <1>5, <1>6 DEF SafeStep, GoodStep, CommitStep, CommitsMove

\* A term has one winner after a step, too.
LEMMA OneWinnerNext ==
    ASSUME GoodStep, NEW t, NEW v, NEW w, Won(t, v)', Won(t, w)'
    PROVE  v = w
<1>1. {x \in Node : <<x, t, v>> \in ballots'} \in Quorum /\ {x \in Node : <<x, t, w>> \in ballots'} \in Quorum
  BY DEF Won, Voters
<1>2. PICK x \in Node : <<x, t, v>> \in ballots' /\ <<x, t, w>> \in ballots'
  BY <1>1, QuorumsMeet
<1> QED
  BY <1>2 DEF GoodStep, Votes, VoteOnce

\* And whoever has won it was able to.
LEMMA WinnerIsWinnableNext ==
    ASSUME GoodStep, NEW i \in Node, NEW t, t = node'[i].currentTerm, Won(t, i)'
    PROVE  ~Unwinnable(i)'
<1>1. ASSUME NEW w \in Node \ {i}, Won(t, w)' PROVE FALSE
  BY <1>1, OneWinnerNext
<1>2. ASSUME NEW Q \in Quorum, \A v \in Q : <<v, t, i>> \notin ballots' PROVE FALSE
  <2>1. {x \in Node : <<x, t, i>> \in ballots'} \in Quorum
    BY DEF Won, Voters
  <2>2. PICK v \in Node : v \in Q /\ v \in {x \in Node : <<x, t, i>> \in ballots'}
    BY <1>2, <2>1, QuorumsMeet
  <2> QED BY <1>2, <2>2
<1> QED
  BY <1>1, <1>2 DEF Unwinnable, Won, Voters

\* CallCommits stays true.
LEMMA CallCommitsStay ==
    ASSUME SafeStep, CallCommits, CommitKnown'
    PROVE  CallCommits'
<1> SUFFICES ASSUME NEW q \in appendRpcs', q.commit > 0
             PROVE  \E t, k \in Nat \ {0} :
                      /\ Chosen(t, k)' /\ q.commit <= k
                      /\ Hopeless(q) \/ (q.commit <= EndOf(q) /\ TermIn(q, EndOf(q)) >= t)
  BY DEF CallCommits, Hopeless, EndOf, TermIn, At
<1>1. GoodStep /\ Shape /\ Shape' /\ Logs /\ Started /\ LeaderWrote /\ BatchesFit'
  BY DEF SafeStep, GoodStep, Counts, Runs
<1>2. ASSUME NEW p \in appendRpcs, SameCall(q, p)
      PROVE  \E t, k \in Nat \ {0} :
               /\ Chosen(t, k)' /\ q.commit <= k
               /\ Hopeless(q) \/ (q.commit <= EndOf(q) /\ TermIn(q, EndOf(q)) >= t)
  <2>1. /\ q.commit = p.commit /\ q.prevIndex = p.prevIndex /\ q.prevTerm = p.prevTerm
        /\ q.entries = p.entries
    BY <1>2 DEF SameCall, Carries
  <2>2. PICK t \in Nat \ {0}, k \in Nat \ {0} :
               /\ Chosen(t, k) /\ p.commit <= k
               /\ Hopeless(p) \/ (p.commit <= EndOf(p) /\ TermIn(p, EndOf(p)) >= t)
    BY <1>2, <2>1 DEF CallCommits
  <2>3. Chosen(t, k)'
    BY <2>2, ChosenStays
  <2> QED BY <2>1, <2>2, <2>3 DEF Hopeless, EndOf, TermIn, At
<1>3. CASE Fresh(q)
  <2>1. PICK i \in Node : i = q.from
    BY <1>3 DEF Fresh
  <2>2. q.commit <= node'[i].commitIndex /\ node'[i].commitIndex \in Nat /\ q.commit \in Nat
    BY <1>1, <1>3, <2>1 DEF Fresh, Shape, TypeOK, NodeState, AppendRpc, Index
  <2>3. PICK t \in Nat \ {0}, k \in Nat \ {0} :
               /\ Chosen(t, k)' /\ node'[i].commitIndex <= k
               /\ t <= node'[i].currentTerm \/ Unwinnable(i)'
    BY <2>2 DEF CommitKnown
  <2>4. q.commit <= k
    BY <2>2, <2>3
  <2>5. CASE Hopeless(q)
    BY <2>3, <2>4, <2>5
  <2>6. CASE ~Hopeless(q)
    <3>1. PICK u : u = node'[i].currentTerm
      OBVIOUS
    <3>2. /\ Won(u, i) /\ EndOf(q) = Len(log'[i]) /\ TermIn(q, EndOf(q)) = LastTerm(log'[i])
          /\ LastTerm(log'[i]) = u
      BY <1>1, <1>3, <2>1, <2>6, <3>1, FreshEnds
    <3>3. Won(u, i)'
      BY <1>1, <3>2, WonStays DEF GoodStep, LogStep
    <3>4. t <= u /\ u \in Nat
      BY <1>1, <2>3, <3>1, <3>3, WinnerIsWinnableNext, StepTypes
    <3>5. log'[i] \in Seq(Entry) /\ Len(log'[i]) \in Nat
      BY <1>1, StepTypes
    <3>6. CASE u > t
      <4>1. TermAt(log'[i], Len(log'[i])) = u
        BY <3>2 DEF LastTerm
      <4>2. Len(log'[i]) \in 1..Len(log'[i])
        <5>1. CASE Len(log'[i]) = 0
          BY <3>4, <3>5, <3>6, <4>1, <5>1, LogTerms
        <5> QED BY <3>5, <5>1
      <4>3. Crosses(LogView(log'[i]), t, k)
        <5>1. \A v \in Views' : Crosses(v, t, k)
          BY <2>3 DEF Chosen, Crossing, Crosses, Covers, At, TermIn
        <5> QED BY <5>1, LogFactsNext
      <4>4. PICK y \in 1..Len(log'[i]) : y >= k
        BY <3>5, <3>6, <4>1, <4>2, <4>3, CrossIndex
      <4>5. k <= Len(log'[i])
        BY <3>5, <4>4
      <4> QED BY <2>2, <2>3, <2>4, <3>2, <3>4, <3>5, <4>5
    <3>7. CASE u = t
      <4>1. PICK h \in Node : k <= Len(log'[h]) /\ TermAt(log'[h], k) = t
        BY <2>3 DEF Chosen, Holds, TermAt
      <4>2. log'[h] \in Seq(Entry) /\ Len(log'[h]) \in Nat /\ LogView(log'[h]) \in Views'
        BY LogFactsNext
      <4>3. k \in Covers(LogView(log'[h])) /\ At(LogView(log'[h]), k).term = t
        <5>1. k \in 1..Len(log'[h])
          BY <4>1, <4>2
        <5> QED BY <4>1, <4>2, <5>1, LogTerms
      <4>4. Origin(t, k)'
        BY <1>1, <4>2, <4>3 DEF GoodStep, Logs, Origins, Covers, At
      <4>5. PICK w \in Node : /\ Won(t, w)'
                              /\ \/ node'[w].currentTerm > t
                                 \/ k <= Len(log'[w])
        BY <4>4 DEF Origin
      <4>6. w = i
        BY <1>1, <3>3, <3>7, <4>5, OneWinnerNext
      <4>7. k <= Len(log'[i])
        <5>1. node'[i].currentTerm = t /\ ~(t > t)
          BY <3>1, <3>7
        <5> QED BY <4>5, <4>6, <5>1
      <4> QED BY <2>2, <2>3, <2>4, <3>2, <3>4, <3>5, <3>7, <4>7
    <3> QED BY <3>4, <3>6, <3>7
  <2> QED BY <2>5, <2>6
<1> QED
  BY <1>1, <1>2, <1>3 DEF GoodStep, CommitStep, CallsMove

\* Those who keep a chosen entry agree, up to it, with every log that has an
\* entry of its term or of a later one.
LEMMA KeepersAgree ==
    ASSUME SafeStep, NEW t \in Nat \ {0}, NEW k \in Nat \ {0}, Chosen(t, k)',
           NEW i \in Node, NEW e \in 1..Len(log'[i]), TermAt(log'[i], e) >= t,
           NEW c \in 1..e, c <= k
    PROVE  {p \in Node : c <= Len(log'[p]) /\ log'[p][c] = log'[i][c]} \in Quorum
<1>1. PICK Q \in Quorum : \A p \in Q : Kept(t, k, p)'
  BY DEF Chosen
<1>2. Q \subseteq Node
  BY DEF Quorum
<1>3. Crosses(LogView(log'[i]), t, k)
  <2>1. \A v \in Views' : Crosses(v, t, k)
    BY DEF Chosen, Crossing, Crosses, Covers, At, TermIn
  <2> QED BY <2>1, LogFactsNext
<1>4. ASSUME NEW p \in Q PROVE p \in Node /\ c <= Len(log'[p]) /\ log'[p][c] = log'[i][c]
  <2>1. p \in Node
    BY <1>2
  <2>2. k <= Len(log'[p]) /\ TermAt(log'[p], k) = t
    BY <1>1, <2>1, KeepersHoldNext
  <2>3. /\ log'[i] \in Seq(Entry) /\ log'[p] \in Seq(Entry)
        /\ SameRun(LogView(log'[p]), LogView(log'[i])) /\ SameRun(LogView(log'[i]), LogView(log'[p]))
        /\ Agree(LogView(log'[p]), LogView(log'[i]))
    BY <2>1, LogFactsNext
  <2> QED BY <1>3, <2>1, <2>2, <2>3, HolderAgrees
<1> QED
  BY <1>4, QuorumGrows

\* So a leader that raises its commit index does so to an entry that a
\* majority of the logs hold.
LEMMA RaisedHasMajority ==
    ASSUME SafeStep, Tallies, CallCommits, NEW i \in Node, NEW c, c = node'[i].commitIndex,
           c > node[i].commitIndex
    PROVE  {p \in Node : c <= Len(log'[p]) /\ log'[p][c] = log'[i][c]} \in Quorum
<1>1. GoodStep /\ Shape /\ Shape' /\ Logs /\ Started /\ FullRequests
  BY DEF SafeStep, GoodStep, Counts, Runs
<1>2. c \in Nat \ {0} /\ Len(log'[i]) \in Nat /\ log'[i] \in Seq(Entry) /\ node[i].currentTerm \in Nat
  <2>1. node[i].commitIndex \in Nat /\ node'[i].commitIndex \in Nat
    BY <1>1 DEF Shape, TypeOK, NodeState, Index
  <2> QED BY <1>1, <2>1, StepTypes
<1>3. CASE Advances(i)
  <2>1. PICK t : t = node[i].currentTerm
    OBVIOUS
  <2>2. t \in Nat \ {0} /\ Chosen(t, c) /\ Holds(i, t, c)
    BY <1>3, <2>1, AdvanceChosen
  <2>3. Chosen(t, c)'
    BY <1>2, <2>2, ChosenStays
  <2>4. log' = log
    BY <1>3 DEF Advances
  <2>5. c \in 1..Len(log'[i]) /\ TermAt(log'[i], c) >= t /\ c \in 1..c /\ c <= c
    BY <1>2, <2>2, <2>4 DEF Holds
  <2> QED BY <1>2, <2>2, <2>3, <2>5, KeepersAgree
<1>4. ASSUME NEW r \in appendRpcs, Accepted(r), r.to = i, c <= r.commit
      PROVE  {p \in Node : c <= Len(log'[p]) /\ log'[p][c] = log'[i][c]} \in Quorum
  <2>1. r.commit \in Nat /\ EndOf(r) \in Nat /\ ~Hopeless(r)
    BY <1>1, <1>4, CallTypes, AcceptedHasPrev
  <2>2. r.commit > 0
    BY <1>2, <1>4, <2>1
  <2>3. PICK t \in Nat \ {0}, k \in Nat \ {0} :
               /\ Chosen(t, k) /\ r.commit <= k
               /\ r.commit <= EndOf(r) /\ TermIn(r, EndOf(r)) >= t
    BY <2>1, <2>2 DEF CallCommits
  <2>4. Chosen(t, k)'
    BY <2>3, ChosenStays
  <2>5. EndOf(r) \in 1..Len(log'[i]) /\ TermAt(log'[i], EndOf(r)) = TermIn(r, EndOf(r))
    BY <1>1, <1>4, AcceptedEnds
  <2>6. c \in 1..EndOf(r) /\ c <= k
    BY <1>2, <1>4, <2>1, <2>3
  <2> QED BY <2>3, <2>4, <2>5, <2>6, KeepersAgree
<1> QED
  BY <1>3, <1>4 DEF SafeStep, GoodStep, CommitStep, CommitsMove

----------------------------------------------------------------------------
(* The theorems.                                                           *)

\* The inductive invariant behind LeaderCompleteness, beyond Counts.
Safe == Runs /\ Tallies /\ Commits /\ CommitKnown /\ CallCommits

\* A cluster that starts is safe.
LEMMA InitSafe ==
    ASSUME Init PROVE Safe
<1>1. /\ appendRpcs = {} /\ voteRpcs = {} /\ ballots = {} /\ committed = {}
      /\ \A i \in Node : /\ log[i] = <<>> /\ node[i].role = "follower"
                         /\ node[i].commitIndex = 0
  BY DEF Init
<1>2. \A i \in Node : Len(log[i]) = 0
  BY <1>1
<1>3. \A v \in Views : v.prevIndex = 0 /\ v.prevTerm = 0 /\ Len(v.entries) = 0
  BY <1>1, <1>2 DEF Views, LogView
<1>4. \A v \in Views : Covers(v) = {} /\ EndOf(v) = 0
  BY <1>3 DEF Covers, EndOf
<1>5. TermsOrdered
  <2>1. ASSUME NEW v \in Views, NEW x \in 0..0, NEW y \in 0..0 PROVE TermIn(v, x) <= TermIn(v, y)
    <3>1. x = 0 /\ y = 0
      OBVIOUS
    <3>2. TermIn(v, x) = 0 /\ TermIn(v, y) = 0
      BY <1>3, <3>1 DEF TermIn
    <3> QED BY <3>2
  <2> QED BY <1>3, <1>4, <2>1 DEF TermsOrdered, Ordered
<1>6. RunsAgree
  BY <1>4 DEF RunsAgree, SameRun
<1>7. LateLogs /\ LeaderWrote /\ FullRequests /\ VoteCallsTrue
  BY <1>1, <1>2 DEF LateLogs, LeaderWrote, FullRequests, VoteCallsTrue
<1>8. Tallies
  BY <1>1 DEF Tallies, LiveObj
<1>9. Commits /\ CommitKnown /\ CallCommits
  BY <1>1 DEF Commits, CommitKnown, CallCommits
<1> QED
  BY <1>5, <1>6, <1>7, <1>8, <1>9 DEF Safe, Runs

\* The steps of this section: no log write fails, and the logs fit into one
\* request.
LEMMA NextSafeStep ==
    ASSUME Shape, Votes, Logs, Counts, Runs, NoLogFailure, NoLogFailure', BatchesFit, BatchesFit',
           [Next]_vars
    PROVE  SafeStep
<1>1. GoodStep
  BY NextGoodStep DEF Counts
<1>2. Counts'
  BY <1>1, NextCounts
<1>3. Runs'
  BY <1>1, RunsStay DEF Counts
<1> QED
  BY <1>1, <1>2, <1>3 DEF SafeStep

\* Such a step keeps the invariant.
LEMMA NextSafe ==
    ASSUME SafeStep, Safe
    PROVE  Safe'
<1>1. Runs'
  BY DEF SafeStep
<1>2. Tallies' /\ Commits' /\ CommitKnown'
  BY TalliesStay, CommitsStay, CommitKnownStays DEF Safe
<1>3. CallCommits'
  BY <1>2, CallCommitsStay DEF Safe
<1> QED
  BY <1>1, <1>2, <1>3 DEF Safe

\* As long as, besides, no request is cut off by the batch limit, Safe holds.
THEOREM SafeInvariant == Spec /\ []NoLogFailure /\ []BatchesFit => []Safe
<1>1. Init => Safe
  BY InitSafe
<1>2. Shape /\ Votes /\ Logs /\ Counts /\ Safe /\ NoLogFailure /\ NoLogFailure' /\ BatchesFit /\ BatchesFit'
        /\ [Next]_vars => Safe'
  BY NextSafeStep, NextSafe DEF Safe
<1> QED
  BY <1>1, <1>2, ShapeInvariant, VotesInvariant, LogsInvariant, CountsInvariant, PTL DEF Spec

\* An entry that a leader has declared committed is in the log of every leader
\* of a later term, as long as no log write fails and no request is cut off by
\* the batch limit.
THEOREM CommittedStaysInLeaders == Spec /\ []NoLogFailure /\ []BatchesFit => []LeaderCompleteness
<1>1. Shape /\ Logs /\ Safe => LeaderCompleteness
  BY CommitsComplete DEF Safe
<1> QED
  BY <1>1, SafeInvariant, ShapeInvariant, LogsInvariant, PTL

\* Under the same conditions, a leader that raises its commit index does so to
\* an entry that a majority of the logs hold at that moment, even where it
\* counts with the tally of an earlier office.
THEOREM CommitIsOnMajority == Spec /\ []NoLogFailure /\ []BatchesFit => CommitHasMajority
<1>1. ASSUME Shape, Votes, Logs, Counts, Safe, NoLogFailure, NoLogFailure', BatchesFit, BatchesFit',
             [Next]_vars
      PROVE  [\A i \in Node :
                (node[i].role = "leader" /\ node'[i].commitIndex > node[i].commitIndex)
                  => LET k == node'[i].commitIndex
                     IN  {p \in Node : k <= Len(log'[p]) /\ log'[p][k] = log'[i][k]} \in Quorum]_vars
  <2>1. SafeStep
    BY <1>1, NextSafeStep DEF Safe
  <2>2. ASSUME NEW i \in Node, node'[i].commitIndex > node[i].commitIndex
        PROVE  LET k == node'[i].commitIndex
               IN  {p \in Node : k <= Len(log'[p]) /\ log'[p][k] = log'[i][k]} \in Quorum
    <3>1. Tallies /\ CallCommits
      BY <1>1 DEF Safe
    <3> QED BY <2>1, <2>2, <3>1, RaisedHasMajority
  <2> QED BY <2>2
<1> QED
  BY <1>1, SafeInvariant, CountsInvariant, ShapeInvariant, VotesInvariant, LogsInvariant, PTL
     DEF CommitHasMajority, Spec

----------------------------------------------------------------------------
(* Logs agree up to the commit indexes.                                    *)

\* No entry of a log is of a later term than the log's owner.
LogsBelow ==
    \A i \in Node : \A k \in 1..Len(log[i]) : log[i][k].term <= node[i].currentTerm

\* LogsBelow stays true, as long as no request has an entry later than its
\* own term.
LEMMA LogsBelowStay ==
    ASSUME GoodStep, RequestHasLeadersTerm, LogsBelow
    PROVE  LogsBelow'
<1> SUFFICES ASSUME NEW i \in Node, NEW k \in 1..Len(log'[i])
             PROVE  log'[i][k].term <= node'[i].currentTerm
  BY DEF LogsBelow
<1>1. /\ node[i].currentTerm \in Nat /\ node'[i].currentTerm \in Nat
      /\ node[i].currentTerm <= node'[i].currentTerm
      /\ log[i] \in Seq(Entry) /\ Len(log[i]) \in Nat /\ Len(log'[i]) \in Nat
      /\ log'[i] \in Seq(Entry)
  BY StepTypes
<1>2. ASSUME k <= Len(log[i]), log'[i][k] = log[i][k]
      PROVE  log'[i][k].term <= node'[i].currentTerm
  <2>1. k \in 1..Len(log[i])
    BY <1>1, <1>2
  <2>2. log[i][k].term <= node[i].currentTerm /\ log[i][k].term \in Nat
    BY <1>1, <2>1, LogTerms DEF LogsBelow
  <2> QED BY <1>1, <1>2, <2>2
<1>3. CASE log'[i] = log[i]
  BY <1>1, <1>2, <1>3
<1>4. CASE Writes(i)
  <2>1. /\ Len(log'[i]) = Len(log[i]) + 1
        /\ \A m \in 1..Len(log[i]) : log'[i][m] = log[i][m]
        /\ log'[i][Len(log'[i])].term = node[i].currentTerm
    BY <1>4, WrittenLog
  <2>2. CASE k = Len(log'[i])
    BY <1>1, <2>1, <2>2
  <2>3. CASE k <= Len(log[i])
    BY <1>1, <1>2, <2>1, <2>3
  <2> QED BY <1>1, <2>1, <2>2, <2>3
<1>5. ASSUME NEW r \in appendRpcs, Accepted(r), r.to = i, log'[i] # log[i]
      PROVE  log'[i][k].term <= node'[i].currentTerm
  <2>1. /\ r.prevIndex \in Nat /\ Len(r.entries) \in Nat /\ EndOf(r) = r.prevIndex + Len(r.entries)
    BY <1>5, CallTypes DEF GoodStep, EndOf
  <2>2. /\ r.term = node'[i].currentTerm /\ r.prevIndex <= Len(log[i])
        /\ \A m \in 1..r.prevIndex : log'[i][m] = log[i][m]
        /\ \A j \in 1..Len(r.entries) : log'[i][r.prevIndex + j] = r.entries[j]
        /\ Len(log'[i]) = EndOf(r)
    BY <1>5, AcceptedLog
  <2>3. CASE k <= r.prevIndex
    BY <1>1, <1>2, <2>1, <2>2, <2>3
  <2>4. CASE k > r.prevIndex
    <3>1. k - r.prevIndex \in 1..Len(r.entries) /\ r.prevIndex + (k - r.prevIndex) = k
      BY <1>1, <2>1, <2>2, <2>4
    <3>2. PICK j \in 1..Len(r.entries) : r.prevIndex + j = k
      BY <3>1
    <3>3. r.entries[j].term <= r.term
      BY DEF RequestHasLeadersTerm
    <3> QED BY <2>2, <3>2, <3>3
  <2> QED BY <1>1, <2>1, <2>3, <2>4
<1> QED
  BY <1>3, <1>4, <1>5, LogChanges

\* A log that has an entry of term t or later at k or after reaches (t, k).
LEMMA EntryReaches ==
    ASSUME NEW lg \in Seq(Entry), Ordered(LogView(lg)), NEW t \in Nat, NEW k \in Nat,
           NEW e \in 1..Len(lg), e >= k, TermAt(lg, e) >= t
    PROVE  Reaches(lg, t, k)
<1>1. Len(lg) \in Nat /\ e \in 0..Len(lg) /\ Len(lg) \in 0..Len(lg) /\ e <= Len(lg)
  BY LenProperties
<1>2. TermAt(lg, e) <= TermAt(lg, Len(lg))
  BY <1>1, LogOrdered
<1>3. TermAt(lg, e) \in Nat /\ TermAt(lg, Len(lg)) \in Nat
  BY <1>1, TermAtType
<1>4. LastTerm(lg) = TermAt(lg, Len(lg)) /\ LastIndex(lg) = Len(lg)
  BY DEF LastTerm, LastIndex
<1> QED
  BY <1>1, <1>2, <1>3, <1>4 DEF Reaches, EndsAt

\* A log that crosses or reaches at k does so before.
LEMMA EarlierIndex ==
    ASSUME NEW k \in Nat, NEW c \in Nat, c <= k, NEW t \in Nat
    PROVE  /\ \A lg \in Seq(Entry) : Reaches(lg, t, k) => Reaches(lg, t, c)
           /\ \A v : IsView(v) /\ Crosses(v, t, k) => Crosses(v, t, c)
<1>1. ASSUME NEW lg \in Seq(Entry), Reaches(lg, t, k) PROVE Reaches(lg, t, c)
  <2>1. LastIndex(lg) \in Nat
    BY LenProperties DEF LastIndex
  <2> QED BY <1>1, <2>1 DEF Reaches, EndsAt
<1>2. ASSUME NEW v, IsView(v), Crosses(v, t, k) PROVE Crosses(v, t, c)
  <2>1. \A m \in Covers(v) : m \in Int
    BY <1>2 DEF Covers
  <2> QED BY <1>2, <2>1 DEF Crosses
<1> QED
  BY <1>1, <1>2

\* Nodes hold what they have committed: a chosen entry of a term they have
\* reached is at their commit index or after it, and their log reaches it.
CommitHeld ==
    \A i \in Node : node[i].commitIndex > 0 =>
      \E t, k \in Nat \ {0} :
        /\ Chosen(t, k) /\ node[i].commitIndex <= k /\ t <= node[i].currentTerm
        /\ Reaches(log[i], t, node[i].commitIndex)

\* CommitHeld stays true.
LEMMA CommitHeldStays ==
    ASSUME SafeStep, Tallies, CallCommits, LogsBelow', CommitHeld
    PROVE  CommitHeld'
<1> SUFFICES ASSUME NEW i \in Node, NEW c, c = node'[i].commitIndex, c > 0
             PROVE  \E t, k \in Nat \ {0} :
                      /\ Chosen(t, k)' /\ c <= k /\ t <= node'[i].currentTerm
                      /\ Reaches(log'[i], t, c)
  BY DEF CommitHeld, Reaches, EndsAt, LastIndex, LastTerm, TermAt
<1>1. GoodStep /\ Shape /\ Shape' /\ Logs /\ Started /\ FullRequests /\ TermsOrdered'
  BY DEF SafeStep, GoodStep, Counts, Runs
<1>2. /\ node[i].currentTerm \in Nat /\ node'[i].currentTerm \in Nat
      /\ node[i].currentTerm <= node'[i].currentTerm
      /\ node[i].commitIndex \in Nat /\ c \in Nat \ {0}
      /\ log[i] \in Seq(Entry) /\ log'[i] \in Seq(Entry) /\ Len(log'[i]) \in Nat
  BY <1>1, StepTypes DEF Shape, TypeOK, NodeState, Index
<1>3. Ordered(LogView(log'[i]))
  BY <1>1 DEF TermsOrdered, Views, Ordered, TermIn, EndOf, At
<1>4. CASE Advances(i)
  <2>1. PICK t : t = node[i].currentTerm
    OBVIOUS
  <2>2. t \in Nat \ {0} /\ Chosen(t, c) /\ Holds(i, t, c)
    BY <1>4, <2>1, AdvanceChosen
  <2>3. log' = log
    BY <1>4 DEF Advances
  <2>4. c \in 1..Len(log'[i]) /\ c >= c /\ TermAt(log'[i], c) >= t /\ c <= c
    BY <1>2, <2>2, <2>3 DEF Holds
  <2>5. Reaches(log'[i], t, c)
    BY <1>2, <1>3, <2>2, <2>4, EntryReaches
  <2>6. Chosen(t, c)'
    BY <1>2, <2>2, ChosenStays
  <2> QED BY <1>2, <2>1, <2>2, <2>4, <2>5, <2>6
<1>5. ASSUME NEW r \in appendRpcs, Accepted(r), r.to = i, c <= r.commit
      PROVE  \E t, k \in Nat \ {0} :
               /\ Chosen(t, k)' /\ c <= k /\ t <= node'[i].currentTerm
               /\ Reaches(log'[i], t, c)
  <2>1. r.commit \in Nat /\ EndOf(r) \in Nat /\ ~Hopeless(r)
    BY <1>1, <1>5, CallTypes, AcceptedHasPrev
  <2>2. r.commit > 0
    BY <1>2, <1>5, <2>1
  <2>3. PICK t \in Nat \ {0}, k \in Nat \ {0} :
               /\ Chosen(t, k) /\ r.commit <= k
               /\ r.commit <= EndOf(r) /\ TermIn(r, EndOf(r)) >= t
    BY <2>1, <2>2 DEF CallCommits
  <2>4. PICK e : e = EndOf(r)
    OBVIOUS
  <2>5. e \in 1..Len(log'[i]) /\ TermAt(log'[i], e) >= t
    BY <1>1, <1>5, <2>3, <2>4, AcceptedEnds
  <2>6. t <= node'[i].currentTerm
    <3>1. TermAt(log'[i], e) = log'[i][e].term /\ TermAt(log'[i], e) \in Nat
      BY <1>2, <2>5, LogTerms
    <3>2. log'[i][e].term <= node'[i].currentTerm
      BY <2>5 DEF LogsBelow
    <3> QED BY <1>2, <2>5, <3>1, <3>2
  <2>7. e >= c /\ c <= k
    BY <1>2, <1>5, <2>1, <2>3, <2>4
  <2>8. Reaches(log'[i], t, c)
    BY <1>2, <1>3, <2>5, <2>7, EntryReaches
  <2>9. Chosen(t, k)'
    BY <2>3, ChosenStays
  <2> QED BY <2>6, <2>7, <2>8, <2>9
<1>6. CASE ~(c > node[i].commitIndex)
  <2>1. node[i].commitIndex > 0 /\ c <= node[i].commitIndex
    BY <1>2, <1>6
  <2>2. PICK t \in Nat \ {0}, k \in Nat \ {0} :
               /\ Chosen(t, k) /\ node[i].commitIndex <= k /\ t <= node[i].currentTerm
               /\ Reaches(log[i], t, node[i].commitIndex)
    BY <2>1 DEF CommitHeld
  <2>3. c <= k
    BY <1>2, <2>1, <2>2
  <2>4. Reaches(log[i], t, c)
    BY <1>2, <2>1, <2>2, EarlierIndex
  <2>5. Crossing(t, c)
    <3>1. \A v \in Views : IsView(v)
      BY <1>1, AreViews DEF Logs
    <3> QED BY <1>2, <2>2, <2>3, <3>1, EarlierIndex DEF Chosen, Crossing
  <2>6. t <= node'[i].currentTerm
    BY <1>2, <2>2
  <2>7. Reaches(log'[i], t, c)
    BY <1>2, <2>4, <2>5, <2>6, ReachStays
  <2>8. Chosen(t, k)'
    BY <2>2, ChosenStays
  <2> QED BY <2>3, <2>6, <2>7, <2>8
<1> QED
  BY <1>4, <1>5, <1>6 DEF SafeStep, GoodStep, CommitStep, CommitsMove

\* A node agrees, up to its commit index, with whoever holds the chosen entry.
LEMMA CommittedLikeHolder ==
    ASSUME Shape, Logs, Runs, NEW i \in Node, NEW h \in Node, NEW t \in Nat \ {0}, NEW k \in Nat \ {0},
           Chosen(t, k), Holds(h, t, k), NEW n \in Nat \ {0}, n <= k, Reaches(log[i], t, n),
           NEW c \in 1..n
    PROVE  n <= Len(log[i]) /\ log[h][c] = log[i][c]
<1>1. /\ log[i] \in Seq(Entry) /\ log[h] \in Seq(Entry) /\ Len(log[i]) \in Nat
      /\ SameRun(LogView(log[h]), LogView(log[i])) /\ SameRun(LogView(log[i]), LogView(log[h]))
      /\ Agree(LogView(log[h]), LogView(log[i])) /\ LogView(log[i]) \in Views
  BY LogFacts
<1>2. Crosses(LogView(log[i]), t, k) /\ k <= Len(log[h]) /\ TermAt(log[h], k) = t
  BY <1>1 DEF Chosen, Crossing, Holds
<1>3. Crosses(LogView(log[i]), t, n)
  BY <1>1, <1>2, EarlierIndex, LogTerms
<1>4. PICK y \in 1..Len(log[i]) : y >= n /\ TermAt(log[i], y) = t
  BY <1>1, <1>3, ReachIndex
<1>5. n <= Len(log[i]) /\ c \in 1..y /\ c <= k /\ TermAt(log[i], y) >= t
  BY <1>1, <1>4
<1>6. log[h][c] = log[i][c]
  BY <1>1, <1>2, <1>4, <1>5, HolderAgrees
<1> QED
  BY <1>5, <1>6

\* Two holders of chosen entries agree up to the first of them.
LEMMA HoldersAgree ==
    ASSUME Shape, Logs, Runs, NEW g \in Node, NEW h \in Node,
           NEW t \in Nat \ {0}, NEW k \in Nat \ {0}, Chosen(t, k), Holds(g, t, k),
           NEW u \in Nat \ {0}, NEW m \in Nat \ {0}, Holds(h, u, m), t <= u,
           NEW c \in 1..k, c <= m
    PROVE  log[g][c] = log[h][c]
<1>1. /\ log[g] \in Seq(Entry) /\ log[h] \in Seq(Entry) /\ Len(log[h]) \in Nat
      /\ SameRun(LogView(log[g]), LogView(log[h])) /\ SameRun(LogView(log[h]), LogView(log[g]))
      /\ Agree(LogView(log[g]), LogView(log[h])) /\ LogView(log[h]) \in Views
  BY LogFacts
<1>2. /\ Crosses(LogView(log[h]), t, k) /\ k <= Len(log[g]) /\ TermAt(log[g], k) = t
      /\ m <= Len(log[h]) /\ TermAt(log[h], m) = u
  BY <1>1 DEF Chosen, Crossing, Holds
<1>3. m \in 1..Len(log[h]) /\ TermAt(log[h], m) >= t /\ c \in 1..m /\ c <= k
  BY <1>1, <1>2
<1> QED
  BY <1>1, <1>2, <1>3, HolderAgrees

\* So any two nodes agree up to the smaller of their commit indexes.
LEMMA HeldAgree ==
    ASSUME Shape, Logs, Runs, CommitHeld
    PROVE  CommittedEntriesAgree
<1>1. \A i \in Node : node[i].commitIndex \in Nat /\ Len(log[i]) \in Nat
  BY LogFacts DEF Shape, TypeOK, NodeState, Index
<1>2. ASSUME NEW i \in Node PROVE node[i].commitIndex <= Len(log[i])
  <2>1. CASE node[i].commitIndex = 0
    BY <1>1, <2>1
  <2>2. CASE node[i].commitIndex > 0
    <3>1. PICK t \in Nat \ {0}, k \in Nat \ {0} :
                 /\ Chosen(t, k) /\ node[i].commitIndex <= k
                 /\ Reaches(log[i], t, node[i].commitIndex)
      BY <2>2 DEF CommitHeld
    <3>2. PICK h \in Node : Holds(h, t, k)
      BY <3>1 DEF Chosen
    <3>3. node[i].commitIndex \in Nat \ {0} /\ 1 \in 1..node[i].commitIndex
      BY <1>1, <2>2
    <3> QED BY <3>1, <3>2, <3>3, CommittedLikeHolder
  <2> QED BY <1>1, <2>1, <2>2
<1>3. ASSUME NEW i \in Node, NEW j \in Node, NEW c \in 1..node[i].commitIndex, c <= node[j].commitIndex
      PROVE  log[i][c] = log[j][c]
  <2>1. /\ node[i].commitIndex \in Nat \ {0} /\ node[j].commitIndex \in Nat \ {0}
        /\ node[i].commitIndex > 0 /\ node[j].commitIndex > 0 /\ c \in 1..node[j].commitIndex
    BY <1>1, <1>3
  <2>2. PICK t \in Nat \ {0}, k \in Nat \ {0} :
               /\ Chosen(t, k) /\ node[i].commitIndex <= k
               /\ Reaches(log[i], t, node[i].commitIndex)
    BY <2>1 DEF CommitHeld
  <2>3. PICK u \in Nat \ {0}, m \in Nat \ {0} :
               /\ Chosen(u, m) /\ node[j].commitIndex <= m
               /\ Reaches(log[j], u, node[j].commitIndex)
    BY <2>1 DEF CommitHeld
  <2>4. PICK g \in Node : Holds(g, t, k)
    BY <2>2 DEF Chosen
  <2>5. PICK h \in Node : Holds(h, u, m)
    BY <2>3 DEF Chosen
  <2>6. log[g][c] = log[i][c]
    BY <1>3, <2>1, <2>2, <2>4, CommittedLikeHolder
  <2>7. log[h][c] = log[j][c]
    BY <2>1, <2>3, <2>5, CommittedLikeHolder
  <2>8. c \in 1..k /\ c \in 1..m /\ c <= k /\ c <= m
    BY <1>3, <2>1, <2>2, <2>3
  <2>9. log[g][c] = log[h][c]
    <3>1. CASE t <= u
      BY <2>2, <2>4, <2>5, <2>8, <3>1, HoldersAgree
    <3>2. CASE u <= t
      BY <2>3, <2>4, <2>5, <2>8, <3>2, HoldersAgree
    <3> QED BY <3>1, <3>2
  <2> QED BY <2>6, <2>7, <2>9
<1> QED
  BY <1>2, <1>3 DEF CommittedEntriesAgree

\* If, besides, no request carries an entry of a later term than its own,
\* which only the retry of a goroutine of an earlier office does, no two nodes
\* disagree up to their commit indexes, and none has lost what it committed.
THEOREM CommittedLogsAgree ==
    Spec /\ []NoLogFailure /\ []BatchesFit /\ []RequestHasLeadersTerm => []CommittedEntriesAgree
<1>1. Init => LogsBelow /\ CommitHeld
  BY DEF Init, LogsBelow, CommitHeld
<1>2. ASSUME Shape, Votes, Logs, Counts, Safe, NoLogFailure, NoLogFailure', BatchesFit, BatchesFit',
             RequestHasLeadersTerm, LogsBelow, CommitHeld, [Next]_vars
      PROVE  LogsBelow' /\ CommitHeld'
  <2>1. SafeStep
    BY <1>2, NextSafeStep DEF Safe
  <2>2. LogsBelow'
    BY <1>2, <2>1, LogsBelowStay DEF SafeStep
  <2> QED BY <1>2, <2>1, <2>2, CommitHeldStays DEF Safe
<1>3. Shape /\ Logs /\ Safe /\ CommitHeld => CommittedEntriesAgree
  BY HeldAgree DEF Safe
<1> QED
  BY <1>1, <1>2, <1>3, SafeInvariant, CountsInvariant, ShapeInvariant, VotesInvariant, LogsInvariant, PTL
     DEF Spec
=============================================================================
