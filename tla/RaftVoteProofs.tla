--------------------------- MODULE RaftVoteProofs ---------------------------
(***************************************************************************)
(* Election safety of Raft, for every cluster size and every number of     *)
(* timeouts, lost or late calls, failed store writes and crashes.          *)
(*                                                                         *)
(* The inductive invariant Votes follows a vote: it is in the voter's      *)
(* store (BallotsBelow) before the reply that carries it exists            *)
(* (GrantsAreBallots), which is before it is in a tally (VotesAreBallots), *)
(* and a leader has a quorum of them (LeadersHaveQuorum).                  *)
(*                                                                         *)
(* The same invariant makes each vote and each victory a step of           *)
(* Elections: the second half of the module proves that no handler,        *)
(* continuation, operator call, failed write or crash does anything to     *)
(* terms, ballots and offices that Elections does not allow.               *)
(***************************************************************************)
EXTENDS RaftShapeProofs

----------------------------------------------------------------------------
(* The way of a vote: from the voter's store to the candidate's tally.     *)

\* A node's store remembers its ballots: each is for a term it has left, or
\* for its current term and the candidate it has voted for.
BallotsBelow ==
    \A x \in ballots :
      \/ x[2] < node[x[1]].currentTerm
      \/ x[2] = node[x[1]].currentTerm /\ node[x[1]].votedFor = x[3]

\* A tally counts ballots of the candidate's current term only.
VotesAreBallots ==
    \A i \in Node : \A v \in node[i].votes : <<v, node[i].currentTerm, i>> \in ballots

\* So does an answer on its way back.
GrantsAreBallots ==
    \A r \in voteRpcs :
      (r.phase = "done" /\ r.reply.granted) => <<r.to, r.term, r.from>> \in ballots

\* A leader of a term has the votes of a quorum for it.
LeadersHaveQuorum ==
    \A i \in Node : node[i].role = "leader" => node[i].votes \in Quorum

\* The inductive invariant behind the theorems on elections.
Votes ==
    BallotsBelow /\ VoteOnce /\ VotesAreBallots /\ GrantsAreBallots /\ LeadersHaveQuorum

\* No vote is given, counted or turned into an office.
QuietStep ==
    /\ AllCalm
    /\ ballots' = ballots
    /\ \A r \in voteRpcs' : r \in voteRpcs \/ r.phase # "done" \/ ~r.reply.granted

\* A ballot is a voter, a term and a candidate.
LEMMA BallotType ==
    ASSUME Shape, NEW x \in ballots
    PROVE  x[1] \in Node /\ x[2] \in Nat /\ x[3] \in Node /\ x = <<x[1], x[2], x[3]>>
  BY DEF Shape, TypeOK, Term

\* A node whose store moved forward still remembers its old ballots.
LEMMA BallotsStayBelow ==
    ASSUME Shape, BallotsBelow, NEW x \in ballots, NEW m \in NodeState,
           StoreStep(node[x[1]], m)
    PROVE  x[2] < m.currentTerm \/ (x[2] = m.currentTerm /\ m.votedFor = x[3])
<1>1. x[1] \in Node /\ x[2] \in Nat /\ x[3] \in Node
  BY BallotType
<1>2. node[x[1]].currentTerm \in Nat /\ m.currentTerm \in Nat /\ x[3] # Nil
  BY <1>1, NodeAssumption DEF Shape, TypeOK, NodeState, Term
<1> QED
  BY <1>1, <1>2 DEF BallotsBelow, StoreStep

\* A quiet step preserves Votes.
LEMMA QuietVotes ==
    ASSUME Shape, Shape', Votes, QuietStep
    PROVE  Votes'
<1>1. BallotsBelow'
  <2> SUFFICES ASSUME NEW x \in ballots
               PROVE  \/ x[2] < node'[x[1]].currentTerm
                      \/ x[2] = node'[x[1]].currentTerm /\ node'[x[1]].votedFor = x[3]
    BY DEF QuietStep, BallotsBelow
  <2>1. x[1] \in Node
    BY BallotType
  <2>2. node'[x[1]] \in NodeState /\ StoreStep(node[x[1]], node'[x[1]])
    BY <2>1 DEF QuietStep, AllCalm, Calm, Shape, TypeOK
  <2> QED BY <2>2, BallotsStayBelow DEF Votes
<1>2. VoteOnce'
  BY DEF Votes, QuietStep, VoteOnce
<1>3. VotesAreBallots'
  BY DEF Votes, QuietStep, AllCalm, Calm, VotesAreBallots
<1>4. GrantsAreBallots'
  BY DEF Votes, QuietStep, GrantsAreBallots
<1>5. LeadersHaveQuorum'
  BY DEF Votes, QuietStep, AllCalm, Calm, LeadersHaveQuorum
<1> QED
  BY <1>1, <1>2, <1>3, <1>4, <1>5 DEF Votes

\* A new ballot: the voter had none in that term, or the same one.  The vote
\* is in the store when the ballot is cast.
LEMMA BallotCast ==
    ASSUME Shape, BallotsBelow, VoteOnce, NEW v \in Node, NEW c \in Node, NEW m \in NodeState,
           StoreStep(node[v], m), m.votedFor = c,
           node' = [node EXCEPT ![v] = m],
           ballots' = ballots \cup {<<v, m.currentTerm, c>>}
    PROVE  BallotsBelow' /\ VoteOnce'
<1>1. /\ node \in [Node -> NodeState] /\ m.currentTerm \in Nat
      /\ node' \in [Node -> NodeState]
  BY DEF Shape, TypeOK, NodeState, Term
<1>2. ASSUME NEW x \in ballots, x[1] = v
      PROVE  x[2] < m.currentTerm \/ (x[2] = m.currentTerm /\ c = x[3])
  BY <1>2, BallotsStayBelow
<1>3. BallotsBelow'
  <2> SUFFICES ASSUME NEW x \in ballots'
               PROVE  \/ x[2] < node'[x[1]].currentTerm
                      \/ x[2] = node'[x[1]].currentTerm /\ node'[x[1]].votedFor = x[3]
    BY DEF BallotsBelow
  <2>1. CASE x \in ballots /\ x[1] = v
    <3>1. node'[x[1]] = m
      BY <1>1, <2>1
    <3> QED BY <1>2, <2>1, <3>1
  <2>2. CASE x \in ballots /\ x[1] # v
    <3>1. node'[x[1]] = node[x[1]]
      BY <1>1, <2>2, BallotType
    <3> QED BY <2>2, <3>1 DEF BallotsBelow
  <2>3. CASE x = <<v, m.currentTerm, c>>
    BY <1>1, <2>3
  <2> QED BY <2>1, <2>2, <2>3
<1>4. VoteOnce'
  <2>1. ASSUME NEW x \in ballots, x[1] = v, x[2] = m.currentTerm
        PROVE  x = <<v, m.currentTerm, c>>
    <3>1. x[3] = c
      BY <1>1, <1>2, <2>1
    <3> QED BY <2>1, <3>1, BallotType
  <2> SUFFICES ASSUME NEW x \in ballots', NEW y \in ballots', x[1] = y[1], x[2] = y[2]
               PROVE  x = y
    BY DEF VoteOnce
  <2>2. CASE x \in ballots /\ y \in ballots
    BY <2>2 DEF VoteOnce
  <2>3. CASE x \notin ballots \/ y \notin ballots
    <3>1. x = <<v, m.currentTerm, c>> \/ y = <<v, m.currentTerm, c>>
      BY <2>3
    <3>2. x[1] = v /\ x[2] = m.currentTerm /\ y[1] = v /\ y[2] = m.currentTerm
      BY <3>1
    <3>3. x = <<v, m.currentTerm, c>> /\ y = <<v, m.currentTerm, c>>
      BY <2>1, <3>2
    <3> QED BY <3>3
  <2> QED BY <2>2, <2>3
<1> QED
  BY <1>3, <1>4

----------------------------------------------------------------------------
(* Votes is preserved.                                                     *)

\* Becoming a candidate is calm: no vote is cast before the pre-vote is won.
LEMMA ElectionTimeoutCalm ==
    ASSUME Shape, NEW i \in Node, ElectionTimeout(i)
    PROVE  AllCalm
<1> DEFINE m == [node[i] EXCEPT !.role = "candidate",
                                !.preVotes = Append(node[i].preVotes, {i})]
<1>1. node[i] \in NodeState /\ node \in [Node -> NodeState]
  BY DEF Shape, TypeOK
<1>2. \A tally \in Seq(SUBSET Node) :
        LET x == [node[i] EXCEPT !.role = "candidate", !.preVotes = tally]
        IN  x \in NodeState /\ Calm(node[i], x)
  BY <1>1 DEF NodeState, Calm, StoreStep, Term
<1>3. Append(node[i].preVotes, {i}) \in Seq(SUBSET Node)
  <2>1. node[i].preVotes \in Seq(SUBSET Node) /\ {i} \in SUBSET Node
    BY <1>1 DEF NodeState
  <2> QED BY <2>1, AppendProperties
<1>4. m \in NodeState /\ Calm(node[i], m)
  BY <1>2, <1>3
<1>5. node' = [node EXCEPT ![i] = m]
  BY DEF ElectionTimeout
<1> HIDE DEF m
<1> QED
  BY <1>1, <1>4, <1>5, OneCalm

\* startElection: the candidate's own vote is in its store and in its tally.
LEMMA StartElectionVotes ==
    ASSUME Shape, Votes, NEW r \in preVoteRpcs, NEW t, NEW granted,
           WinsPreVote(r, t, granted),
           StartElection(r.from, WithPreVote(node[r.from], r), "none")
    PROVE  Votes' /\ \A i \in Node : StoreStep(node[i], node'[i])
<1> DEFINE i == r.from
           w == WithPreVote(node[i], r)
           m == IncrementCurrentTerm(w)
           e == [m EXCEPT !.votedFor = i, !.votes = {i}]
<1>1. r \in PreVoteRpc /\ i \in Node /\ node \in [Node -> NodeState] /\ node[i] \in NodeState
  BY DEF Shape, TypeOK, PreVoteRpc
<1>2. w \in NodeState /\ w.role = node[i].role /\ w.role # "leader"
      /\ w.currentTerm = node[i].currentTerm
  <2>1. w.currentTerm = node[i].currentTerm
    BY <1>1 DEF WithPreVote, NodeState
  <2> QED
    BY <1>1, <2>1, WithPreVoteType, WithPreVoteCalm DEF WinsPreVote, PreVoteCounts
<1>3. m \in NodeState /\ m.role = w.role /\ m.currentTerm = node[i].currentTerm + 1
  <2>1. TRUE \in BOOLEAN /\ 0 \in Nat
    OBVIOUS
  <2> HIDE DEF w
  <2>2. m \in NodeState
    BY <1>2, <2>1, NodeOpsType
  <2> QED BY <1>2, <2>2 DEF IncrementCurrentTerm, NodeState
<1> HIDE DEF m, w
<1>4. e \in NodeState /\ e.votedFor = i /\ e.votes = {i} /\ e.role # "leader"
      /\ e.currentTerm = m.currentTerm
  BY <1>1, <1>2, <1>3 DEF NodeState
<1>5. StoreStep(node[i], e)
  BY <1>1, <1>3, <1>4 DEF StoreStep, NodeState, Term
<1>6. /\ node' = [node EXCEPT ![i] = e]
      /\ ballots' = ballots \cup {<<i, e.currentTerm, i>>}
      /\ \A q \in voteRpcs' : q \in voteRpcs \/ q.phase = "sent"
  <2>1. /\ node' = [node EXCEPT ![i] = e]
        /\ ballots' = ballots \cup {<<i, m.currentTerm, i>>}
        /\ voteRpcs' = voteRpcs \cup
             {[from |-> i, to |-> p, term |-> m.currentTerm,
               lastIndex |-> LastIndex(log[i]), lastTerm |-> LastTerm(log[i]),
               phase |-> "sent", reply |-> NoVote] : p \in Node \ {i}}
    BY DEF StartElection, m, w
  <2> QED BY <1>4, <2>1
<1> HIDE DEF e, i
<1>7. BallotsBelow' /\ VoteOnce'
  BY <1>1, <1>4, <1>5, <1>6, BallotCast DEF Votes
<1>8. \A j \in Node : node'[j] = IF j = i THEN e ELSE node[j]
  BY <1>1, <1>6
<1>9. VotesAreBallots'
  BY <1>1, <1>4, <1>6, <1>8 DEF Votes, VotesAreBallots
<1>10. GrantsAreBallots'
  BY <1>6 DEF Votes, GrantsAreBallots
<1>11. LeadersHaveQuorum'
  BY <1>4, <1>8 DEF Votes, LeadersHaveQuorum
<1>12. \A j \in Node : StoreStep(node[j], node'[j])
  BY <1>1, <1>5, <1>8 DEF StoreStep, NodeState
<1> QED
  BY <1>7, <1>9, <1>10, <1>11, <1>12 DEF Votes

\* A finished pre-vote: calm, or an election.
LEMMA PreVoteReturnsVotes ==
    ASSUME Shape, Shape', Votes, NEW r \in preVoteRpcs, PreVoteReturns(r) \/ PreVoteFails(r)
    PROVE  Votes' /\ \A i \in Node : StoreStep(node[i], node'[i])
<1>1. PICK t \in Nat, granted \in BOOLEAN, failing \in {"none", "term", "vote"} :
        PreVoteContinues(r, t, granted, failing)
  <2>1. r.term \in Nat /\ r.term + 1 \in Nat /\ r.reply.term \in Nat /\ r.reply.granted \in BOOLEAN
    BY DEF Shape, TypeOK, PreVoteRpc, VoteReply, Term
  <2>2. CASE PreVoteReturns(r)
    BY <2>1, <2>2 DEF PreVoteReturns
  <2>3. CASE PreVoteFails(r)
    BY <2>1, <2>3 DEF PreVoteFails
  <2> QED BY <2>2, <2>3
<1>2. CASE AllCalm /\ UNCHANGED <<ballots, voteRpcs>>
  <2>1. QuietStep
    BY <1>2 DEF QuietStep
  <2> QED BY <1>2, <2>1, QuietVotes DEF AllCalm, Calm
<1>3. CASE /\ WinsPreVote(r, t, granted)
           /\ StartElection(r.from, WithPreVote(node[r.from], r), "none")
  BY <1>3, StartElectionVotes
<1> QED
  BY <1>1, <1>2, <1>3, PreVoteContinuesCases

\* A vote is in the voter's store before the reply that carries it leaves.
LEMMA DeliverRequestVoteVotes ==
    ASSUME Shape, Shape', Votes, NEW r \in voteRpcs, DeliverRequestVote(r)
    PROVE  Votes' /\ \A i \in Node : StoreStep(node[i], node'[i])
<1>1. /\ r \in VoteRpc /\ r.to \in Node /\ r.from \in Node /\ r.term \in Nat
      /\ node \in [Node -> NodeState] /\ node[r.to] \in NodeState
  BY DEF Shape, TypeOK, VoteRpc, Term
<1>2. PICK n \in NodeState, m \in NodeState, granted \in BOOLEAN :
        /\ Calm(node[r.to], n) /\ n.currentTerm = r.term
        /\ granted => /\ n.votedFor \in {Nil, r.from}
                      /\ m = [n EXCEPT !.votedFor = r.from]
        /\ ~granted => Calm(n, m)
        /\ node' = [node EXCEPT ![r.to] = m]
        /\ ballots' = IF granted THEN ballots \cup {<<r.to, r.term, r.from>>} ELSE ballots
        /\ voteRpcs' = Answered(voteRpcs, r, [term |-> r.term, granted |-> granted])
  BY DeliverRequestVoteFacts
<1>3. \A q \in voteRpcs' : \/ q \in voteRpcs
                           \/ /\ q.to = r.to /\ q.term = r.term /\ q.from = r.from
                              /\ q.reply.granted = granted
  <2>1. \A reply : LET q == [r EXCEPT !.phase = "done", !.reply = reply]
                   IN  q.to = r.to /\ q.term = r.term /\ q.from = r.from /\ q.reply = reply
    BY <1>1 DEF VoteRpc
  <2>2. [term |-> r.term, granted |-> granted].granted = granted
    OBVIOUS
  <2> DEFINE reply == [term |-> r.term, granted |-> granted]
             done  == [r EXCEPT !.phase = "done", !.reply = reply]
  <2>3. voteRpcs' \subseteq voteRpcs \cup {done}
    <3>1. voteRpcs' = Answered(voteRpcs, r, reply)
      BY <1>2
    <3> HIDE DEF reply
    <3> QED BY <3>1, Zenon DEF Answered
  <2>4. /\ done.to = r.to /\ done.term = r.term /\ done.from = r.from
        /\ done.reply.granted = granted
    BY <2>1, <2>2, Zenon
  <2> HIDE DEF done
  <2> QED BY <2>3, <2>4
<1>4. CASE ~granted
  <2>1. Calm(node[r.to], m)
    BY <1>1, <1>2, <1>4, CalmTransitive
  <2>2. AllCalm
    BY <1>1, <1>2, <2>1, OneCalm
  <2>3. QuietStep
    BY <1>2, <1>3, <1>4, <2>2 DEF QuietStep
  <2> QED BY <2>2, <2>3, QuietVotes DEF AllCalm, Calm
<1>5. CASE granted
  <2>1. /\ m.votedFor = r.from /\ m.currentTerm = r.term
        /\ m.votes = n.votes /\ m.role = n.role
    BY <1>2, <1>5 DEF NodeState
  <2>2. StoreStep(node[r.to], m)
    <3>1. /\ n.currentTerm \in Nat /\ node[r.to].currentTerm \in Nat
          /\ n.votedFor \in {Nil, r.from} /\ StoreStep(node[r.to], n)
      BY <1>1, <1>2, <1>5 DEF NodeState, Term, Calm
    <3> QED BY <1>2, <2>1, <3>1 DEF StoreStep
  <2>3. ballots' = ballots \cup {<<r.to, m.currentTerm, r.from>>}
    BY <1>2, <1>5, <2>1
  <2>4. BallotsBelow' /\ VoteOnce'
    BY <1>1, <1>2, <2>1, <2>2, <2>3, BallotCast DEF Votes
  <2>5. \A j \in Node : node'[j] = IF j = r.to THEN m ELSE node[j]
    BY <1>1, <1>2
  <2>6. \/ m.votes = {}
        \/ m.votes = node[r.to].votes /\ m.currentTerm = node[r.to].currentTerm
    BY <1>2, <2>1 DEF Calm
  <2>7. VotesAreBallots'
    BY <1>1, <2>3, <2>5, <2>6 DEF Votes, VotesAreBallots
  <2>8. GrantsAreBallots'
    BY <1>2, <1>3, <1>5 DEF Votes, GrantsAreBallots
  <2>9. m.role = "leader" => node[r.to].role = "leader" /\ m.votes = node[r.to].votes
    BY <1>2, <2>1 DEF Calm
  <2>10. LeadersHaveQuorum'
    BY <1>1, <2>5, <2>9 DEF Votes, LeadersHaveQuorum
  <2>11. \A j \in Node : StoreStep(node[j], node'[j])
    BY <1>1, <2>2, <2>5 DEF StoreStep, NodeState
  <2> QED BY <2>4, <2>7, <2>8, <2>10, <2>11 DEF Votes
<1> QED
  BY <1>4, <1>5

\* A vote that is counted was given, in the candidate's current term; a node
\* becomes leader with a quorum of them.
LEMMA RequestVoteReturnsVotes ==
    ASSUME Shape, Shape', Votes, NEW r \in voteRpcs, RequestVoteReturns(r)
    PROVE  Votes' /\ \A i \in Node : StoreStep(node[i], node'[i])
<1> DEFINE i == r.from
           n == node[i]
           counted == [n EXCEPT !.votes = @ \cup {r.to}]
<1>1. /\ r \in VoteRpc /\ i \in Node /\ r.to \in Node /\ n \in NodeState
      /\ r.reply.term \in Nat /\ node \in [Node -> NodeState]
      /\ n.currentTerm \in Nat /\ n.votes \in SUBSET Node
  BY DEF Shape, TypeOK, VoteRpc, VoteReply, NodeState, Term
<1>2. ballots' = ballots /\ voteRpcs' = voteRpcs \ {r} /\ r.phase = "done"
  BY DEF RequestVoteReturns
<1>3. /\ counted \in NodeState /\ counted.role = n.role /\ counted.votes = n.votes \cup {r.to}
      /\ counted.currentTerm = n.currentTerm /\ counted.votedFor = n.votedFor
  <2> HIDE DEF n
  <2> QED BY <1>1 DEF NodeState
<1>4. VoteCounts(r) => <<r.to, n.currentTerm, i>> \in ballots
  BY <1>2 DEF VoteCounts, Votes, GrantsAreBallots
<1>5. ASSUME VoteCounts(r), NEW m \in NodeState, node' = [node EXCEPT ![i] = m],
             m.currentTerm = n.currentTerm, m.votedFor = n.votedFor,
             m.votes = n.votes \cup {r.to}, m.role = "leader" => m.votes \in Quorum
      PROVE  Votes' /\ \A j \in Node : StoreStep(node[j], node'[j])
  <2>1. \A j \in Node : node'[j] = IF j = i THEN m ELSE node[j]
    BY <1>1, <1>5
  <2>2. \A j \in Node : /\ node'[j].currentTerm = node[j].currentTerm
                        /\ node'[j].votedFor = node[j].votedFor
    BY <1>5, <2>1
  <2>3. BallotsBelow'
    BY <1>2, <2>2, BallotType DEF Votes, BallotsBelow
  <2>4. VoteOnce'
    BY <1>2 DEF Votes, VoteOnce
  <2>5. VotesAreBallots'
    <3> HIDE DEF i
    <3> QED BY <1>1, <1>2, <1>4, <1>5, <2>1 DEF Votes, VotesAreBallots
  <2>6. GrantsAreBallots'
    BY <1>2 DEF Votes, GrantsAreBallots
  <2>7. LeadersHaveQuorum'
    BY <1>5, <2>1 DEF Votes, LeadersHaveQuorum
  <2>8. \A j \in Node : StoreStep(node[j], node'[j])
    BY <1>1, <2>2 DEF StoreStep, NodeState
  <2> QED BY <2>3, <2>4, <2>5, <2>6, <2>7, <2>8 DEF Votes
<1>6. ASSUME NEW storeFails \in BOOLEAN,
             node' = [node EXCEPT ![i] = StepDown(n, r.reply.term, storeFails)]
      PROVE  Votes' /\ \A j \in Node : StoreStep(node[j], node'[j])
  <2>1. StepDown(n, r.reply.term, storeFails) \in NodeState
    BY <1>1, NodeOpsType
  <2>2. Calm(n, StepDown(n, r.reply.term, storeFails))
    BY <1>1, NodeOpsCalm
  <2>3. AllCalm
    BY <1>1, <1>6, <2>1, <2>2, OneCalm
  <2>4. QuietStep
    BY <1>2, <2>3 DEF QuietStep
  <2> QED BY <2>3, <2>4, QuietVotes DEF AllCalm, Calm
<1>7. ASSUME NEW logFails \in BOOLEAN, VoteCounts(r), counted.votes \in Quorum,
             BecomeLeader(i, counted, logFails)
      PROVE  Votes' /\ \A j \in Node : StoreStep(node[j], node'[j])
  <2> HIDE DEF counted
  <2>1. CASE logFails
    <3> DEFINE f == BecomeFollower(counted, counted.currentTerm)
    <3>1. node' = [node EXCEPT ![i] = f]
      BY <1>7, <2>1 DEF BecomeLeader
    <3>2. /\ f \in NodeState /\ f.role = "follower" /\ f.currentTerm = n.currentTerm
          /\ f.votedFor = n.votedFor /\ f.votes = n.votes \cup {r.to}
      <4>1. f \in NodeState
        BY <1>1, <1>3, <1>7, NodeOpsType
      <4>2. ~(counted.currentTerm > counted.currentTerm)
        BY <1>1, <1>3
      <4> QED BY <1>3, <4>1, <4>2 DEF BecomeFollower, NodeState
    <3> HIDE DEF f
    <3> QED BY <1>5, <1>7, <3>1, <3>2
  <2>2. CASE ~logFails
    <3>1. PICK commit :
            node' = [node EXCEPT ![i] = [[counted EXCEPT !.role = "leader", !.leaderId = i]
                                           EXCEPT !.commitIndex = commit]]
      BY <1>7, <2>2 DEF BecomeLeader
    <3> DEFINE m == [[counted EXCEPT !.role = "leader", !.leaderId = i] EXCEPT !.commitIndex = commit]
    <3>2. /\ m.currentTerm = n.currentTerm /\ m.votedFor = n.votedFor
          /\ m.votes = n.votes \cup {r.to}
      BY <1>3 DEF NodeState
    <3>3. m \in NodeState
      <4>1. m = node'[i]
        BY <1>1, <3>1
      <4> QED BY <1>1, <4>1 DEF Shape, TypeOK
    <3>4. m.votes \in Quorum
      BY <1>3, <1>7, <3>2
    <3> HIDE DEF m
    <3> QED BY <1>5, <1>7, <3>1, <3>2, <3>3, <3>4 DEF m
  <2> QED BY <2>1, <2>2
<1>8. CASE node' = [node EXCEPT ![i] = IF VoteCounts(r) THEN counted ELSE n]
           /\ ~(VoteCounts(r) /\ counted.votes \in Quorum)
  <2>1. CASE VoteCounts(r)
    <3>1. counted.role # "leader" /\ node' = [node EXCEPT ![i] = counted]
      BY <1>3, <1>8, <2>1 DEF VoteCounts
    <3> HIDE DEF counted
    <3> QED BY <1>3, <1>5, <2>1, <3>1
  <2>2. CASE ~VoteCounts(r)
    <3>1. AllCalm
      <4>1. UNCHANGED node
        BY <1>1, <1>8, <2>2
      <4> QED BY <1>1, <4>1, NoneCalm
    <3>2. QuietStep
      BY <1>2, <3>1 DEF QuietStep
    <3> QED BY <3>1, <3>2, QuietVotes DEF AllCalm, Calm
  <2> QED BY <2>1, <2>2
<1> QED
  BY <1>6, <1>7, <1>8 DEF RequestVoteReturns

\* Every other action is quiet.
LEMMA QuietActions ==
    ASSUME Shape,
           \/ \E i \in Node : \/ ElectionTimeout(i) \/ Disable(i) \/ Enable(i) \/ Restart(i)
                              \/ \E v \in Value : Propose(i, v)
                              \/ \E heartbeat, expired \in BOOLEAN : LeaderTick(i, heartbeat, expired)
           \/ \E r \in preVoteRpcs : DeliverPreVote(r) \/ CrashMidElection(r)
           \/ \E r \in voteRpcs : DeliverRequestVoteRefused(r) \/ RequestVoteFails(r)
           \/ \E r \in appendRpcs : \/ DeliverAppendRefused(r) \/ DeliverAppendEntries(r)
                                    \/ AppendEntriesReturns(r) \/ AppendEntriesFails(r)
           \/ UNCHANGED vars
    PROVE  QuietStep
<1>0. /\ node \in [Node -> NodeState] /\ voteRpcs \in SUBSET VoteRpc
      /\ \A q \in VoteRpc : /\ [q EXCEPT !.phase = "orphan"].phase = "orphan"
                            /\ \A reply : [q EXCEPT !.phase = "done", !.reply = reply].reply = reply
  BY DEF Shape, TypeOK, VoteRpc
<1>1. ASSUME NEW i \in Node, ElectionTimeout(i) PROVE QuietStep
  BY <1>1, ElectionTimeoutCalm DEF ElectionTimeout, QuietStep, histVars
<1>2. ASSUME NEW i \in Node, Disable(i) \/ Enable(i) PROVE QuietStep
  BY <1>2, DisableShape, EnableShape DEF Disable, Enable, QuietStep, histVars, rpcVars
<1>3. ASSUME NEW i \in Node, NEW n, Reboot(i, n), AllCalm PROVE QuietStep
  <2>1. voteRpcs' = CallerDied(voteRpcs, i) /\ ballots' = ballots
    BY <1>3 DEF Reboot, histVars
  <2>2. ASSUME NEW q \in voteRpcs' PROVE q \in voteRpcs \/ q.phase # "done"
    <3>1. CASE \E p \in voteRpcs : q = [p EXCEPT !.phase = "orphan"]
      BY <1>0, <3>1
    <3> QED BY <2>1, <3>1 DEF CallerDied
  <2> QED BY <1>3, <2>1, <2>2 DEF QuietStep
<1>4. ASSUME NEW i \in Node, Restart(i) PROVE QuietStep
  BY <1>3, <1>4, RestartShape DEF Restart
<1>5. ASSUME NEW r \in preVoteRpcs, CrashMidElection(r) PROVE QuietStep
  <2>1. r.from \in Node
    BY DEF Shape, TypeOK, PreVoteRpc
  <2> QED BY <1>3, <1>5, <2>1, CrashMidElectionShape DEF CrashMidElection
<1>6. ASSUME NEW i \in Node, NEW v \in Value, Propose(i, v) PROVE QuietStep
  BY <1>0, <1>6, NoneCalm DEF Propose, QuietStep, histVars
<1>7. ASSUME NEW i \in Node, NEW heartbeat \in BOOLEAN, NEW expired \in BOOLEAN,
             LeaderTick(i, heartbeat, expired) PROVE QuietStep
  BY <1>7, LeaderTickShape DEF LeaderTick, QuietStep, histVars
<1>8. ASSUME NEW r \in preVoteRpcs, DeliverPreVote(r) PROVE QuietStep
  BY <1>0, <1>8, NoneCalm DEF DeliverPreVote, QuietStep, nodeVars, histVars
<1>9. ASSUME NEW r \in voteRpcs, DeliverRequestVoteRefused(r) PROVE QuietStep
  <2> DEFINE reply == [term |-> node[r.to].currentTerm, granted |-> FALSE]
  <2>1. voteRpcs' = Answered(voteRpcs, r, reply) /\ ballots' = ballots /\ UNCHANGED node
    BY <1>9 DEF DeliverRequestVoteRefused, RequestVoteHandled
  <2>2. ~reply.granted
    OBVIOUS
  <2> HIDE DEF reply
  <2>3. ~([r EXCEPT !.phase = "done", !.reply = reply].reply.granted)
    BY <1>0, <2>2
  <2>4. \A q \in voteRpcs' : q \in voteRpcs \/ ~q.reply.granted
    BY <2>1, <2>3 DEF Answered
  <2> QED BY <1>0, <2>1, <2>4, NoneCalm DEF QuietStep
<1>10. ASSUME NEW r \in voteRpcs, RequestVoteFails(r) PROVE QuietStep
  <2>1. voteRpcs' = GivenUp(voteRpcs, r) /\ ballots' = ballots /\ UNCHANGED node
    BY <1>10 DEF RequestVoteFails, nodeVars, histVars
  <2>2. \A q \in voteRpcs' : q \in voteRpcs \/ q.phase # "done"
    BY <1>0, <2>1 DEF GivenUp
  <2> QED BY <1>0, <2>1, <2>2, NoneCalm DEF QuietStep
<1>11. ASSUME NEW r \in appendRpcs, DeliverAppendRefused(r) \/ DeliverAppendEntries(r)
       PROVE  QuietStep
  <2>1. PICK reply \in AppendReply : AppendHandled(r, reply)
    BY <1>11, DeliverAppendFacts
  <2>2. AllCalm
    BY <1>11, DeliverAppendFacts
  <2> QED BY <2>1, <2>2 DEF AppendHandled, QuietStep, histVars
<1>12. ASSUME NEW r \in appendRpcs, AppendEntriesReturns(r) \/ AppendEntriesFails(r)
       PROVE  QuietStep
  BY <1>12, AppendReturnsShape DEF AppendEntriesReturns, AppendEntriesFails, QuietStep
<1>13. CASE UNCHANGED vars
  BY <1>0, <1>13, NoneCalm DEF vars, nodeVars, rpcVars, histVars, QuietStep
<1> QED
  BY <1>1, <1>2, <1>4, <1>5, <1>6, <1>7, <1>8, <1>9, <1>10, <1>11, <1>12, <1>13

\* Nobody has voted yet.
LEMMA InitVotes == Init => Votes
  BY DEF Init, Votes, BallotsBelow, VoteOnce, VotesAreBallots, GrantsAreBallots,
         LeadersHaveQuorum

\* Every step preserves Votes and moves every store forward.
LEMMA NextVotes ==
    Shape /\ Shape' /\ Votes /\ [Next]_vars
      => Votes' /\ \A i \in Node : StoreStep(node[i], node'[i])
<1> SUFFICES ASSUME Shape, Shape', Votes, [Next]_vars
             PROVE  Votes' /\ \A i \in Node : StoreStep(node[i], node'[i])
  OBVIOUS
<1>1. CASE QuietStep
  BY <1>1, QuietVotes DEF QuietStep, AllCalm, Calm
<1>2. ASSUME NEW r \in preVoteRpcs, PreVoteReturns(r) \/ PreVoteFails(r)
      PROVE  Votes' /\ \A i \in Node : StoreStep(node[i], node'[i])
  BY <1>2, PreVoteReturnsVotes
<1>3. ASSUME NEW r \in voteRpcs, DeliverRequestVote(r)
      PROVE  Votes' /\ \A i \in Node : StoreStep(node[i], node'[i])
  BY <1>3, DeliverRequestVoteVotes
<1>4. ASSUME NEW r \in voteRpcs, RequestVoteReturns(r)
      PROVE  Votes' /\ \A i \in Node : StoreStep(node[i], node'[i])
  BY <1>4, RequestVoteReturnsVotes
<1>5. \/ QuietStep
      \/ \E r \in preVoteRpcs : PreVoteReturns(r) \/ PreVoteFails(r)
      \/ \E r \in voteRpcs : DeliverRequestVote(r) \/ RequestVoteReturns(r)
  BY QuietActions DEF Next
<1> QED
  BY <1>1, <1>2, <1>3, <1>4, <1>5

----------------------------------------------------------------------------
(* What the votes give.                                                    *)

\* A candidate has won a term when a quorum has voted for it.
Won(term, candidate) == Voters(term, candidate) \in Quorum

\* Two quorums share a node, who has voted for one candidate only: a term has
\* one winner.
LEMMA OneWinner ==
    ASSUME VoteOnce, NEW term, NEW i, NEW j, Won(term, i), Won(term, j)
    PROVE  i = j
<1> DEFINE S == Voters(term, i)
           T == Voters(term, j)
<1>1. S \in Quorum /\ T \in Quorum
  BY DEF Won
<1>2. S \subseteq Node /\ T \subseteq Node /\ IsFiniteSet(Node)
  BY NodeAssumption DEF Voters
<1>3. /\ Cardinality(Node) \in Nat /\ Cardinality(S) \in Nat /\ Cardinality(T) \in Nat
      /\ IsFiniteSet(S) /\ IsFiniteSet(T)
  <2>1. IsFiniteSet(S) /\ IsFiniteSet(T)
    BY <1>2, FS_Subset
  <2> QED BY <1>2, <2>1, FS_CardinalityType
<1>4. Cardinality(S) + Cardinality(T) > Cardinality(Node)
  <2>1. Cardinality(S) >= Majority /\ Cardinality(T) >= Majority
    BY <1>1 DEF Quorum
  <2> HIDE DEF S, T
  <2> QED BY <1>3, <2>1 DEF Majority
<1>5. PICK v \in S \cap T : TRUE
  <2>1. S \cap T # {}
    BY <1>2, <1>4, FS_MajoritiesIntersect
  <2> QED BY <2>1
<1>6. <<v, term, i>> \in ballots /\ <<v, term, j>> \in ballots
  BY <1>5 DEF Voters
<1>7. <<v, term, i>> = <<v, term, j>>
  BY <1>6 DEF VoteOnce
<1> QED
  BY <1>7

\* A set of nodes that contains a quorum is one.
LEMMA QuorumGrows ==
    ASSUME NEW Q \in Quorum, NEW R, Q \subseteq R, R \subseteq Node
    PROVE  R \in Quorum
<1>1. IsFiniteSet(R)
  BY NodeAssumption, FS_Subset
<1>2. IsFiniteSet(Q) /\ Cardinality(Q) <= Cardinality(R)
  BY <1>1, FS_Subset
<1>3. /\ Cardinality(Q) \in Nat /\ Cardinality(R) \in Nat /\ Cardinality(Node) \in Nat
      /\ Cardinality(Q) >= Majority
  BY <1>1, <1>2, NodeAssumption, FS_CardinalityType DEF Quorum
<1>4. Cardinality(R) >= Majority
  BY <1>2, <1>3 DEF Majority
<1> QED
  BY <1>4 DEF Quorum

\* A leader has won its term.
LEMMA LeaderWon ==
    ASSUME Shape, Votes, NEW i \in Node, node[i].role = "leader"
    PROVE  Won(node[i].currentTerm, i)
<1>1. node[i].votes \in Quorum
  BY DEF Votes, LeadersHaveQuorum
<1>2. node[i].votes \subseteq Voters(node[i].currentTerm, i)
  BY <1>1 DEF Votes, VotesAreBallots, Voters, Quorum
<1>3. Voters(node[i].currentTerm, i) \subseteq Node
  BY DEF Voters
<1> QED
  BY <1>1, <1>2, <1>3, QuorumGrows DEF Won

\* At most one leader per term.
LEMMA OneLeader == Shape /\ Votes => ElectionSafety
<1> SUFFICES ASSUME Shape, Votes, NEW i \in Node, NEW j \in Node,
                    node[i].role = "leader", node[j].role = "leader",
                    node[i].currentTerm = node[j].currentTerm
             PROVE  i = j
  BY DEF ElectionSafety
<1>1. Won(node[i].currentTerm, i) /\ Won(node[i].currentTerm, j)
  BY LeaderWon
<1> QED
  BY <1>1, OneWinner DEF Votes

\* The way of a vote holds at all times.
THEOREM VotesInvariant == Spec => []Votes
  BY InitVotes, NextVotes, ShapeInvariant, PTL DEF Spec

\* A node votes at most once per term over its whole life: crashes between
\* the two store writes of an election, failed writes and stale requests
\* included.
THEOREM OneVotePerTerm == Spec => []VoteOnce
<1>1. Votes => VoteOnce
  BY DEF Votes
<1> QED
  BY <1>1, VotesInvariant, PTL

\* At most one leader per term, whatever the size of the cluster.
THEOREM OneLeaderPerTerm == Spec => []ElectionSafety
  BY OneLeader, ShapeInvariant, VotesInvariant, PTL

\* No step of any handler, callback, operator call or restart takes back a
\* persisted term or a persisted vote.
THEOREM StoreIsMonotonic == Spec => StoreNeverForgets
<1>1. Shape /\ Shape' /\ Votes /\ [Next]_vars =>
        [\A i \in Node :
           \/ node'[i].currentTerm > node[i].currentTerm
           \/ /\ node'[i].currentTerm = node[i].currentTerm
              /\ node[i].votedFor \in {Nil, node'[i].votedFor}]_vars
  BY NextVotes DEF StoreStep
<1> QED
  BY <1>1, ShapeInvariant, VotesInvariant, PTL DEF Spec, StoreNeverForgets


----------------------------------------------------------------------------
(* The three kinds of steps.                                               *)

\* What Calm says of the offices: nobody enters one, or changes its term
\* while staying in one.
LEMMA CalmIsForward ==
    ASSUME Shape, Shape',
           \A i \in Node : /\ StoreStep(node[i], node'[i])
                           /\ node'[i].role = "leader" =>
                                /\ node[i].role = "leader"
                                /\ node'[i].currentTerm = node[i].currentTerm
    PROVE  Promised!Forward
<1>1. \A i \in Node : node[i].currentTerm \in Nat /\ node'[i].currentTerm \in Nat
  BY DEF Shape, TypeOK, NodeState, Term
<1>2. \A i \in Node : node'[i].currentTerm >= node[i].currentTerm
  BY <1>1 DEF StoreStep
<1> QED
  BY <1>2 DEF Promised!Forward

\* A quiet step changes no ballot and goes forward.
LEMMA QuietIsAdvance ==
    ASSUME Shape, Shape', QuietStep
    PROVE  Promised!Next
<1>1. Promised!Forward
  BY CalmIsForward DEF QuietStep, AllCalm, Calm
<1> QED
  BY <1>1 DEF QuietStep, Promised!Next, Promised!Advance

\* A ballot cast by v, whose store held neither another vote in this term nor
\* a later term.
LEMMA BallotIsVote ==
    ASSUME Shape, Shape', Votes, NEW v \in Node, NEW c \in Node, NEW m \in NodeState,
           StoreStep(node[v], m), m.votedFor = c,
           m.role = "leader" => /\ node[v].role = "leader"
                                /\ m.currentTerm = node[v].currentTerm,
           node' = [node EXCEPT ![v] = m],
           ballots' = ballots \cup {<<v, m.currentTerm, c>>}
    PROVE  Promised!Next
<1>1. /\ node \in [Node -> NodeState] /\ m.currentTerm \in Nat
      /\ \A j \in Node : node[j].currentTerm \in Nat
  BY DEF Shape, TypeOK, NodeState, Term
<1>2. \A j \in Node : node'[j] = IF j = v THEN m ELSE node[j]
  BY <1>1
<1>3. Promised!Forward
  <2>1. \A j \in Node : StoreStep(node[j], node'[j])
    BY <1>1, <1>2 DEF StoreStep
  <2> QED BY <1>2, <2>1, CalmIsForward
<1>4. \A j \in Node \ {v} : node'[j].currentTerm = node[j].currentTerm
  BY <1>2
<1>5. \A x \in ballots : (x[1] = v /\ x[2] >= m.currentTerm) => x = <<v, m.currentTerm, c>>
  <2> SUFFICES ASSUME NEW x \in ballots, x[1] = v, x[2] >= m.currentTerm
               PROVE  x = <<v, m.currentTerm, c>>
    OBVIOUS
  <2>1. x[2] \in Nat /\ x = <<x[1], x[2], x[3]>>
    BY BallotType
  <2>2. x[2] < m.currentTerm \/ (x[2] = m.currentTerm /\ m.votedFor = x[3])
    BY BallotsStayBelow DEF Votes
  <2> QED BY <1>1, <2>1, <2>2
<1>6. Promised!Vote(v, c)
  BY <1>2, <1>3, <1>4, <1>5 DEF Promised!Vote
<1> QED
  BY <1>6 DEF Promised!Next

\* A node that becomes leader has a tally of ballots, and the tally is a quorum.
LEMMA OfficeIsWin ==
    ASSUME Shape, Shape', Votes', NEW i \in Node, NEW m \in NodeState,
           node' = [node EXCEPT ![i] = m],
           m.currentTerm = node[i].currentTerm, m.role = "leader", ballots' = ballots
    PROVE  Promised!Next
<1>1. node \in [Node -> NodeState] /\ node' \in [Node -> NodeState]
  BY DEF Shape, TypeOK
<1>2. \A j \in Node : node'[j] = IF j = i THEN m ELSE node[j]
  BY <1>1
<1>3. \A j \in Node : node'[j].currentTerm = node[j].currentTerm
  BY <1>2
<1>4. m.votes \in Quorum /\ m.votes \subseteq Node
  BY <1>2 DEF Votes, LeadersHaveQuorum, NodeState
<1>5. \A v \in m.votes : <<v, node[i].currentTerm, i>> \in ballots
  BY <1>2 DEF Votes, VotesAreBallots
<1>6. {v \in Node : <<v, node[i].currentTerm, i>> \in ballots} \in Quorum
  <2> DEFINE S == {v \in Node : <<v, node[i].currentTerm, i>> \in ballots}
  <2>1. m.votes \subseteq S /\ S \subseteq Node
    BY <1>4, <1>5
  <2> HIDE DEF S
  <2>2. IsFiniteSet(S) /\ IsFiniteSet(m.votes)
    BY <2>1, NodeAssumption, FS_Subset
  <2>3. /\ Cardinality(m.votes) <= Cardinality(S)
        /\ Cardinality(S) \in Nat /\ Cardinality(m.votes) \in Nat
    BY <2>1, <2>2, FS_Subset, FS_CardinalityType
  <2>4. Majority \in Nat
    <3>1. Cardinality(Node) \in Nat
      BY NodeAssumption, FS_CardinalityType
    <3> QED BY <3>1 DEF Majority
  <2>5. Cardinality(m.votes) >= Majority
    BY <1>4 DEF Quorum
  <2>6. S \in Quorum
    BY <2>1, <2>3, <2>4, <2>5 DEF Quorum
  <2> QED BY <2>6 DEF S
<1>7. Promised!Win(i)
  BY <1>2, <1>3, <1>6 DEF Promised!Win, Promised!Supporters
<1> QED
  BY <1>7 DEF Promised!Next

----------------------------------------------------------------------------
(* Every step of Raft is one of them.                                      *)

\* startElection is a vote of the candidate for itself; every other outcome of
\* a pre-vote is quiet.
LEMMA PreVoteRefines ==
    ASSUME Shape, Shape', Votes, NEW r \in preVoteRpcs, PreVoteReturns(r) \/ PreVoteFails(r)
    PROVE  Promised!Next
<1>1. PICK t \in Nat, granted \in BOOLEAN, failing \in {"none", "term", "vote"} :
        PreVoteContinues(r, t, granted, failing)
  <2>1. r.term \in Nat /\ r.term + 1 \in Nat /\ r.reply.term \in Nat /\ r.reply.granted \in BOOLEAN
    BY DEF Shape, TypeOK, PreVoteRpc, VoteReply, Term
  <2>2. CASE PreVoteReturns(r)
    BY <2>1, <2>2 DEF PreVoteReturns
  <2>3. CASE PreVoteFails(r)
    BY <2>1, <2>3 DEF PreVoteFails
  <2> QED BY <2>2, <2>3
<1>2. CASE AllCalm /\ UNCHANGED <<ballots, voteRpcs>>
  <2>1. QuietStep
    BY <1>2 DEF QuietStep
  <2> QED BY <2>1, QuietIsAdvance
<1>3. CASE /\ WinsPreVote(r, t, granted)
           /\ StartElection(r.from, WithPreVote(node[r.from], r), "none")
  <2> DEFINE i == r.from
             w == WithPreVote(node[i], r)
             m == IncrementCurrentTerm(w)
             e == [m EXCEPT !.votedFor = i, !.votes = {i}]
  <2>1. r \in PreVoteRpc /\ i \in Node /\ node \in [Node -> NodeState] /\ node[i] \in NodeState
    BY DEF Shape, TypeOK, PreVoteRpc
  <2>2. w \in NodeState /\ w.role = node[i].role /\ w.role # "leader"
    BY <1>3, <2>1, WithPreVoteType, WithPreVoteCalm DEF WinsPreVote, PreVoteCounts
  <2>3. m \in NodeState /\ m.role = w.role
    <3>1. TRUE \in BOOLEAN /\ 0 \in Nat
      OBVIOUS
    <3> HIDE DEF w
    <3>2. m \in NodeState
      BY <2>2, <3>1, NodeOpsType
    <3> QED BY <2>2, <3>2 DEF IncrementCurrentTerm, NodeState
  <2>4. node' = [node EXCEPT ![i] = e] /\ ballots' = ballots \cup {<<i, m.currentTerm, i>>}
    BY <1>3 DEF StartElection
  <2> HIDE DEF m, w
  <2>5. e \in NodeState /\ e.votedFor = i /\ e.role # "leader" /\ e.currentTerm = m.currentTerm
    BY <2>1, <2>2, <2>3 DEF NodeState
  <2>6. StoreStep(node[i], node'[i]) /\ node'[i] = e
    <3>1. \A j \in Node : StoreStep(node[j], node'[j])
      BY <1>3, StartElectionVotes
    <3> QED BY <2>1, <2>4, <3>1
  <2> HIDE DEF e, i
  <2> QED BY <2>1, <2>4, <2>5, <2>6, BallotIsVote
<1> QED
  BY <1>1, <1>2, <1>3, PreVoteContinuesCases

\* A granted request is a vote; one refused after all is quiet.
LEMMA RequestVoteRefines ==
    ASSUME Shape, Shape', Votes, NEW r \in voteRpcs, DeliverRequestVote(r)
    PROVE  Promised!Next
<1>1. /\ r \in VoteRpc /\ r.to \in Node /\ r.from \in Node /\ r.term \in Nat
      /\ node \in [Node -> NodeState] /\ node[r.to] \in NodeState
  BY DEF Shape, TypeOK, VoteRpc, Term
<1>2. PICK n \in NodeState, m \in NodeState, granted \in BOOLEAN :
        /\ Calm(node[r.to], n) /\ n.currentTerm = r.term
        /\ granted => /\ n.votedFor \in {Nil, r.from}
                      /\ m = [n EXCEPT !.votedFor = r.from]
        /\ ~granted => Calm(n, m)
        /\ node' = [node EXCEPT ![r.to] = m]
        /\ ballots' = IF granted THEN ballots \cup {<<r.to, r.term, r.from>>} ELSE ballots
        /\ voteRpcs' = Answered(voteRpcs, r, [term |-> r.term, granted |-> granted])
  BY DeliverRequestVoteFacts
<1>3. \A j \in Node : node'[j] = IF j = r.to THEN m ELSE node[j]
  BY <1>1, <1>2
<1>4. \A j \in Node : StoreStep(node[j], node'[j])
  BY DeliverRequestVoteVotes
<1>5. CASE ~granted
  <2>1. Calm(node[r.to], m)
    BY <1>1, <1>2, <1>5, CalmTransitive
  <2>2. Promised!Forward
    BY <1>3, <1>4, <2>1, CalmIsForward DEF Calm
  <2> QED BY <1>2, <1>5, <2>2 DEF Promised!Next, Promised!Advance
<1>6. CASE granted
  <2>1. m.votedFor = r.from /\ m.currentTerm = r.term /\ m.role = n.role
    BY <1>2, <1>6 DEF NodeState
  <2>2. m.role = "leader" => /\ node[r.to].role = "leader"
                             /\ m.currentTerm = node[r.to].currentTerm
    BY <1>2, <2>1 DEF Calm
  <2>3. StoreStep(node[r.to], m)
    BY <1>1, <1>3, <1>4
  <2>4. ballots' = ballots \cup {<<r.to, m.currentTerm, r.from>>}
    BY <1>2, <1>6, <2>1
  <2> QED BY <1>1, <1>2, <2>1, <2>2, <2>3, <2>4, BallotIsVote
<1> QED
  BY <1>5, <1>6

\* A counted vote that completes a quorum is a victory; any other answer takes
\* nobody into office.
LEMMA RequestVoteReturnsRefines ==
    ASSUME Shape, Shape', Votes, NEW r \in voteRpcs, RequestVoteReturns(r)
    PROVE  Promised!Next
<1> DEFINE i == r.from
           n == node[i]
           counted == [n EXCEPT !.votes = @ \cup {r.to}]
<1>1. /\ i \in Node /\ r.to \in Node /\ n \in NodeState /\ node \in [Node -> NodeState]
      /\ r.reply.term \in Nat /\ n.currentTerm \in Nat /\ n.votes \in SUBSET Node
  BY DEF Shape, TypeOK, VoteRpc, VoteReply, NodeState, Term
<1>2. ballots' = ballots /\ Votes' /\ \A j \in Node : StoreStep(node[j], node'[j])
  BY RequestVoteReturnsVotes DEF RequestVoteReturns
<1>3. counted \in NodeState /\ counted.role = n.role /\ counted.currentTerm = n.currentTerm
  <2> HIDE DEF n
  <2> QED BY <1>1 DEF NodeState
<1>4. ASSUME NEW m \in NodeState, node' = [node EXCEPT ![i] = m],
             m.role = "leader" => n.role = "leader" /\ m.currentTerm = n.currentTerm
      PROVE  Promised!Next
  <2>1. \A j \in Node : node'[j] = IF j = i THEN m ELSE node[j]
    BY <1>1, <1>4
  <2>2. Promised!Forward
    BY <1>2, <1>4, <2>1, CalmIsForward
  <2> QED BY <1>2, <2>2 DEF Promised!Next, Promised!Advance
<1>5. ASSUME NEW storeFails \in BOOLEAN,
             node' = [node EXCEPT ![i] = StepDown(n, r.reply.term, storeFails)]
      PROVE  Promised!Next
  <2>1. StepDown(n, r.reply.term, storeFails) \in NodeState
    BY <1>1, NodeOpsType
  <2>2. Calm(n, StepDown(n, r.reply.term, storeFails))
    BY <1>1, NodeOpsCalm
  <2> QED BY <1>4, <1>5, <2>1, <2>2 DEF Calm
<1>6. ASSUME NEW logFails \in BOOLEAN, BecomeLeader(i, counted, logFails)
      PROVE  Promised!Next
  <2> HIDE DEF counted
  <2>1. CASE logFails
    <3>1. node' = [node EXCEPT ![i] = BecomeFollower(counted, counted.currentTerm)]
      BY <1>6, <2>1 DEF BecomeLeader
    <3>2. /\ BecomeFollower(counted, counted.currentTerm) \in NodeState
          /\ BecomeFollower(counted, counted.currentTerm).role = "follower"
      BY <1>1, <1>3, <1>6, NodeOpsType, NodeOpsCalm
    <3> QED BY <1>4, <3>1, <3>2
  <2>2. CASE ~logFails
    <3>1. PICK commit :
            node' = [node EXCEPT ![i] = [[counted EXCEPT !.role = "leader", !.leaderId = i]
                                           EXCEPT !.commitIndex = commit]]
      BY <1>6, <2>2 DEF BecomeLeader
    <3> DEFINE m == [[counted EXCEPT !.role = "leader", !.leaderId = i] EXCEPT !.commitIndex = commit]
    <3>2. m.currentTerm = n.currentTerm /\ m.role = "leader"
      BY <1>3 DEF NodeState
    <3>3. m \in NodeState
      <4>1. m = node'[i]
        BY <1>1, <3>1
      <4> QED BY <1>1, <4>1 DEF Shape, TypeOK
    <3> HIDE DEF m
    <3> QED BY <1>1, <1>2, <3>1, <3>2, <3>3, OfficeIsWin DEF m
  <2> QED BY <2>1, <2>2
<1>7. CASE node' = [node EXCEPT ![i] = IF VoteCounts(r) THEN counted ELSE n]
  BY <1>1, <1>3, <1>4, <1>7
<1> QED
  BY <1>5, <1>6, <1>7 DEF RequestVoteReturns

\* Every step of Raft is a step of Elections.
LEMMA NextRefines ==
    Shape /\ Shape' /\ Votes /\ [Next]_vars => Promised!Next
<1> SUFFICES ASSUME Shape, Shape', Votes, [Next]_vars
             PROVE  Promised!Next
  OBVIOUS
<1>1. CASE QuietStep
  BY <1>1, QuietIsAdvance
<1>2. ASSUME NEW r \in preVoteRpcs, PreVoteReturns(r) \/ PreVoteFails(r)
      PROVE  Promised!Next
  BY <1>2, PreVoteRefines
<1>3. ASSUME NEW r \in voteRpcs, DeliverRequestVote(r)
      PROVE  Promised!Next
  BY <1>3, RequestVoteRefines
<1>4. ASSUME NEW r \in voteRpcs, RequestVoteReturns(r)
      PROVE  Promised!Next
  BY <1>4, RequestVoteReturnsRefines
<1>5. \/ QuietStep
      \/ \E r \in preVoteRpcs : PreVoteReturns(r) \/ PreVoteFails(r)
      \/ \E r \in voteRpcs : DeliverRequestVote(r) \/ RequestVoteReturns(r)
  BY QuietActions DEF Next
<1> QED
  BY <1>1, <1>2, <1>3, <1>4, <1>5

\* Nobody has voted and nobody is in office.
LEMMA InitRefines == Init => Promised!Init
  BY DEF Init, Promised!Init

\* The consensus core implements the abstract elections, for every cluster
\* size and any number of timeouts, failures and crashes.
THEOREM RaftRefinesElections == Spec => Promised!Spec /\ ElectionsRefined
<1>1. Shape /\ Shape' /\ Votes /\ [Next]_vars => [Promised!Next]_(Promised!vars)
  BY NextRefines
<1> QED
  BY <1>1, InitRefines, ShapeInvariant, VotesInvariant, PTL
     DEF Spec, ElectionsRefined, Promised!Spec, Promised!Steps
=============================================================================
