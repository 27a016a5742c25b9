------------------------------- MODULE Raft -------------------------------
(***************************************************************************)
(* The consensus core of go-raft: a cluster of processes, each a Raft      *)
(* object (raft.go) holding a Store (store.go), a log (RaftLog) and one    *)
(* role object (follower_role.go, candidate_role.go, leader_role.go), that *)
(* talk through the HTTP transport (transport.go).                         *)
(*                                                                         *)
(* Every handler, timer tick and goroutine continuation runs under         *)
(* Raft.mu, so each is one action.  A goroutine that performs a remote     *)
(* call is a record in preVoteRpcs, voteRpcs or appendRpcs: it is created  *)
(* by the step that starts it, the remote handler answers it in a step of  *)
(* its own, and its continuation runs in a third step, whenever the answer *)
(* gets back.  What happens in between is any interleaving of all the      *)
(* others, so a continuation may find its node in another role, another    *)
(* term, or with another role object.                                      *)
(*                                                                         *)
(* A call can fail at any time (refused, reset, one-second timeout).  The  *)
(* transport then returns values of its own making, and the request may    *)
(* still reach the remote handler later.                                   *)
(*                                                                         *)
(* The module describes the cluster until the first snapshot is taken      *)
(* (snapshotIndex = 0 on every node), so sendInstallSnapshotToNode never   *)
(* runs.  What is applied to the state machine is not part of this module. *)
(***************************************************************************)
EXTENDS RaftLog, FiniteSets

CONSTANTS
    Node,            \* the members of the cluster (Raft.nodes)
    Nil,             \* the empty string of votedFor and leaderId
    Value,           \* what clients propose
    NoOp,            \* Data: nil, the entry a new leader writes
    MaxBatchEntries  \* config.MaxBatchEntries

\* How often each thing that nobody controls may happen in one behaviour: an
\* election timer or a heartbeat is due, a lease runs out, a client proposes, a
\* remote call, a store write or a log write fails, a process dies, an operator
\* disables a node.  Bounds of a model-checking instance; no proof depends on
\* their values.
CONSTANT MaxEvents

EventKind == {"timeout", "heartbeat", "lease", "propose",
              "rpc", "store", "log", "crash", "disable"}

ASSUME NodeAssumption  == /\ IsFiniteSet(Node)
                          /\ Cardinality(Node) >= 2
                          /\ Nil \notin Node
ASSUME DataAssumption  == NoOp \notin Value
ASSUME BatchAssumption == MaxBatchEntries \in Nat \ {0}
ASSUME EventAssumption == MaxEvents \in [EventKind -> Nat]

VARIABLES
    node,        \* node[i]: store, flags and candidate tallies of process i
    log,         \* log[i]: the log on i's disk
    lead,        \* lead[i]: the LeaderRole objects process i has created
    preVoteRpcs, \* sendPreVote goroutines and their requests
    voteRpcs,    \* sendRequestVote goroutines and their requests
    appendRpcs,  \* sendAppendEntriesToNode goroutines and their requests
    ballots,     \* history: <<voter, term, candidate>> of every vote given
    committed,   \* history: what leaders have declared committed
    events       \* how often each kind of event has happened

nodeVars == <<node, log, lead>>
rpcVars  == <<preVoteRpcs, voteRpcs, appendRpcs>>
histVars == <<ballots, committed>>
vars     == <<nodeVars, rpcVars, histVars, events>>

----------------------------------------------------------------------------
(* Types.                                                                  *)

Term  == Nat
Index == Nat
Entry == [term : Term, data : Value \cup {NoOp}]

\* The part of Raft and Store that lives in one process.  votes is the tally
\* of the candidate object whose election was for currentTerm: a node starts
\* at most one election per term, and a vote counts only while currentTerm is
\* that term, so older tallies can be forgotten.  preVotes[k] is the tally of
\* the k-th candidate object created in currentTerm, forgotten likewise.
\* stopped: the current leader object's applierStopCh is already closed.
NodeState ==
    [currentTerm : Term, votedFor : Node \cup {Nil}, leaderId : Node \cup {Nil},
     commitIndex : Index,
     role : {"follower", "candidate", "leader"},
     enabled : BOOLEAN, healthy : BOOLEAN, stopped : BOOLEAN,
     preVotes : Seq(SUBSET Node), votes : SUBSET Node]

\* A LeaderRole object.  Its callbacks keep it alive after the node has left
\* the role, so they are numbered: the current one is the last of lead[i].
LeaderState ==
    [nextIndex : [Node -> Index \ {0}], matchIndex : [Node -> Index], inflight : SUBSET Node]

\* sent: on its way; done: answered, the continuation has not run yet;
\* orphan: the caller has given up or died, the request may still arrive.
Phase == {"sent", "done", "orphan"}

VoteReply == [term : Term, granted : BOOLEAN]
NoVote    == [term |-> 0, granted |-> FALSE]

\* term is the caller's currentTerm; the request asks about term + 1.
PreVoteRpc ==
    [from : Node, to : Node, term : Term, round : Nat,
     lastIndex : Index, lastTerm : Term, phase : Phase, reply : VoteReply]

VoteRpc ==
    [from : Node, to : Node, term : Term, lastIndex : Index, lastTerm : Term,
     phase : Phase, reply : VoteReply]

AppendReply == [term : Term, success : BOOLEAN, conflictIndex : Index, conflictTerm : Term]
NoAppend    == [term |-> 0, success |-> FALSE, conflictIndex |-> 0, conflictTerm |-> 0]

\* obj: which of lead[from] the goroutine belongs to.
AppendRpc ==
    [from : Node, to : Node, obj : Nat, term : Term, leaderId : Node \cup {Nil},
     prevIndex : Index, prevTerm : Term, entries : Seq(Entry), commit : Index,
     phase : Phase, reply : AppendReply]

TypeOK ==
    /\ node \in [Node -> NodeState]
    /\ log \in [Node -> Seq(Entry)]
    /\ lead \in [Node -> Seq(LeaderState)]
    /\ preVoteRpcs \subseteq PreVoteRpc
    /\ voteRpcs \subseteq VoteRpc
    /\ appendRpcs \subseteq AppendRpc
    /\ ballots \subseteq Node \X Term \X Node
    /\ committed \subseteq [index : Index, entry : Entry, term : Term]
    /\ events \in [EventKind -> Nat]

----------------------------------------------------------------------------
(* Quorums, failures, and the life of a remote call.                       *)

Majority == Cardinality(Node) \div 2 + 1

Quorum == {Q \in SUBSET Node : Cardinality(Q) >= Majority}

\* A step in which the events in K happen.
Happen(K) ==
    /\ \A k \in K : events[k] < MaxEvents[k]
    /\ events' = [k \in EventKind |-> IF k \in K THEN events[k] + 1 ELSE events[k]]

\* The event k, if b holds.
When(b, k) == IF b THEN {k} ELSE {}

\* The handler has run: the caller will see the reply, unless it is gone.
Answered(rpcs, r, reply) ==
    (rpcs \ {r}) \cup (IF r.phase = "sent"
                         THEN {[r EXCEPT !.phase = "done", !.reply = reply]} ELSE {})

\* The caller gives the call up: the request may arrive all the same, but an
\* answer that is already on its way back is lost.
GivenUp(rpcs, r) ==
    (rpcs \ {r}) \cup (IF r.phase = "sent" THEN {[r EXCEPT !.phase = "orphan"]} ELSE {})

\* The process of i is gone, and all its goroutines with it.
CallerDied(rpcs, i) ==
    {r \in rpcs : r.from # i \/ r.phase = "orphan"}
      \cup {[r EXCEPT !.phase = "orphan"] : r \in {q \in rpcs : q.from = i /\ q.phase = "sent"}}

----------------------------------------------------------------------------
(* The state changes roles are made of, as functions of a node's state.    *)

\* markUnhealthy.  The role's OnExit does nothing here: it runs only while
\* the role is follower or candidate.
MarkUnhealthy(n) == [n EXCEPT !.enabled = FALSE, !.healthy = FALSE]

\* Store.SetCurrentTermAndVotedFor(term, "").
AdoptTerm(n, term) ==
    [n EXCEPT !.currentTerm = term, !.votedFor = Nil, !.preVotes = <<>>, !.votes = {}]

\* Wrong variant: the vote is forgotten on every return to follower.
BecomeFollowerForgetVote(n, term) ==
    [(IF term >= n.currentTerm THEN AdoptTerm(n, term) ELSE n)
       EXCEPT !.role = "follower", !.stopped = FALSE, !.leaderId = Nil]

\* Wrong variant: the leader of the old term is still taken for the leader.
BecomeFollowerKeepHint(n, term) ==
    [(IF term > n.currentTerm THEN AdoptTerm(n, term) ELSE n)
       EXCEPT !.role = "follower", !.stopped = FALSE]

\* becomeFollower(term) and FollowerRole.OnEnter, the store write succeeding.
BecomeFollower(n, term) ==
    [(IF term > n.currentTerm THEN AdoptTerm(n, term) ELSE n)
       EXCEPT !.role = "follower", !.stopped = FALSE, !.leaderId = Nil]

\* becomeFollower(term) when the store write fails: OnEnter returns early.
BecomeFollowerUnsaved(n) ==
    MarkUnhealthy([n EXCEPT !.role = "follower", !.stopped = FALSE])

\* becomeFollower from a goroutine's continuation.  A leader that Disable has
\* already stopped panics in OnExit (its channel is closed twice); the
\* goroutine recovers and nothing has changed.
StepDown(n, term, storeFails) ==
    IF n.stopped THEN n
    ELSE IF storeFails THEN BecomeFollowerUnsaved(n) ELSE BecomeFollower(n, term)

\* becomeFollower from a handler, which then goes on handling the request.
\* If the store write fails the new role's handler finds the old term again
\* and retries; we take the retry to succeed, because a failure that lasts
\* ends in exhausting the stack, which is Restart.
HandlerBecomesFollower(n, term, storeFails) ==
    IF storeFails THEN MarkUnhealthy(BecomeFollower(n, term)) ELSE BecomeFollower(n, term)

\* Store.IncrementCurrentTerm: votedFor stays what it was.
IncrementCurrentTerm(n) ==
    [n EXCEPT !.currentTerm = @ + 1, !.preVotes = <<>>, !.votes = {}]

\* Wrong variant: the vote is kept in memory only.
RebootedWithoutVote(n) ==
    [n EXCEPT !.votedFor = Nil, !.leaderId = Nil, !.commitIndex = 0, !.role = "follower",
              !.enabled = TRUE, !.healthy = TRUE, !.stopped = FALSE,
              !.preVotes = <<>>, !.votes = {}]

\* What NewRaft starts from: the persisted term and vote, nothing else.
Rebooted(n) ==
    [n EXCEPT !.leaderId = Nil, !.commitIndex = 0, !.role = "follower",
              !.enabled = TRUE, !.healthy = TRUE, !.stopped = FALSE,
              !.preVotes = <<>>, !.votes = {}]

----------------------------------------------------------------------------
(* Sending entries.                                                        *)

\* The request sendAppendEntriesToAllNodes and retrySendAppendEntriesToNode
\* build for p from leader object o of i (state l), log lg and store n.
AppendRequest(i, o, p, l, lg, n, term) ==
    LET next == IF l.nextIndex[p] = 0 THEN LastIndex(lg) + 1 ELSE l.nextIndex[p]
        last == IF LastIndex(lg) - next + 1 > MaxBatchEntries
                  THEN next + MaxBatchEntries - 1 ELSE LastIndex(lg)
    IN  [from |-> i, to |-> p, obj |-> o, term |-> term, leaderId |-> n.leaderId,
         prevIndex |-> next - 1, prevTerm |-> TermAt(lg, next - 1),
         entries |-> SubSeq(lg, next, last), commit |-> n.commitIndex,
         phase |-> "sent", reply |-> NoAppend]

\* sendAppendEntriesToAllNodes: one request to every peer that has none.
Idle(i, l) == Node \ ({i} \cup l.inflight)

AllInflight(i, l) == [l EXCEPT !.inflight = @ \cup Idle(i, l)]

AppendRequestsToAll(i, o, l, lg, n) ==
    {AppendRequest(i, o, p, l, lg, n, n.currentTerm) : p \in Idle(i, l)}

\* tryToAdvanceCommitIndex: the commit index that results.
AdvancedCommitIndex(n, lg, l) ==
    LET candidate == MajorityMatch(l.matchIndex, Majority)
    IN  IF candidate \in 1..LastIndex(lg) /\ TermAt(lg, candidate) = n.currentTerm
          THEN SetCommitIndex(lg, n.commitIndex, candidate) ELSE n.commitIndex

\* History of a commit index that rises from lo to hi on a leader.
Declared(lg, lo, hi, term) ==
    {[index |-> k, entry |-> lg[k], term |-> term] : k \in (lo + 1)..hi}

----------------------------------------------------------------------------
(* Elections.                                                              *)

\* Tick of a follower or candidate that reaches its deadline: becomeCandidate
\* and startPreElection.  The new candidate has its own pre-vote already; with
\* two nodes or more that is not a majority.
ElectionTimeout(i) ==
    LET n == [node[i] EXCEPT !.role = "candidate", !.preVotes = Append(@, {i})]
    IN  /\ Happen({"timeout"})
        /\ node[i].enabled /\ node[i].healthy /\ node[i].role # "leader"
        /\ node' = [node EXCEPT ![i] = n]
        /\ preVoteRpcs' = preVoteRpcs \cup
             {[from |-> i, to |-> p, term |-> n.currentTerm, round |-> Len(n.preVotes),
               lastIndex |-> LastIndex(log[i]), lastTerm |-> LastTerm(log[i]),
               phase |-> "sent", reply |-> NoVote] : p \in Node \ {i}}
        /\ UNCHANGED <<log, lead, voteRpcs, appendRpcs, histVars>>

\* HandlePreVote of the three roles, and the answer of a disabled node.  No
\* handler changes anything, so an abandoned request need not be delivered.
PreVoteGranted(n, lg, r) ==
    /\ n.enabled
    /\ n.role # "leader"
    /\ r.term + 1 >= n.currentTerm
    /\ IsLogEqualOrMoreRecent(lg, r.lastIndex, r.lastTerm)

DeliverPreVote(r) ==
    LET n == node[r.to]
    IN  /\ r.phase = "sent"
        /\ preVoteRpcs' = Answered(preVoteRpcs, r,
             [term |-> n.currentTerm, granted |-> PreVoteGranted(n, log[r.to], r)])
        /\ UNCHANGED <<nodeVars, voteRpcs, appendRpcs, histVars, events>>

\* startElection by a node in state n: the term and the vote are two store
\* writes, and either may fail.
StartElection(i, n, failing) ==
    LET m == IncrementCurrentTerm(n)
    IN  \/ /\ failing = "none"
           /\ node' = [node EXCEPT ![i] = [m EXCEPT !.votedFor = i, !.votes = {i}]]
           /\ ballots' = ballots \cup {<<i, m.currentTerm, i>>}
           /\ voteRpcs' = voteRpcs \cup
                {[from |-> i, to |-> p, term |-> m.currentTerm,
                  lastIndex |-> LastIndex(log[i]), lastTerm |-> LastTerm(log[i]),
                  phase |-> "sent", reply |-> NoVote] : p \in Node \ {i}}
        \/ /\ failing = "term"
           /\ node' = [node EXCEPT ![i] = MarkUnhealthy(n)]
           /\ UNCHANGED <<ballots, voteRpcs>>
        \/ /\ failing = "vote"
           /\ node' = [node EXCEPT ![i] = MarkUnhealthy(m)]
           /\ UNCHANGED <<ballots, voteRpcs>>

\* The pre-vote r brings home counts for its candidate object.
PreVoteCounts(r, t, granted) ==
    LET n == node[r.from]
    IN  /\ granted
        /\ t <= n.currentTerm
        /\ n.role = "candidate"
        /\ n.currentTerm = r.term
        /\ Cardinality(n.preVotes[r.round]) < Majority

WithPreVote(n, r) == [n EXCEPT !.preVotes[r.round] = @ \cup {r.to}]

WinsPreVote(r, t, granted) ==
    /\ PreVoteCounts(r, t, granted)
    /\ Cardinality(WithPreVote(node[r.from], r).preVotes[r.round]) >= Majority

\* The continuation of sendPreVote after PreVote returned (t, granted).
PreVoteContinues(r, t, granted, failing) ==
    LET i == r.from
        n == node[i]
    IN  \/ /\ t > n.currentTerm
           /\ failing # "none" => failing = "term" /\ ~n.stopped
           /\ node' = [node EXCEPT ![i] = StepDown(n, t, failing = "term")]
           /\ UNCHANGED <<ballots, voteRpcs>>
        \/ /\ WinsPreVote(r, t, granted)
           /\ StartElection(i, WithPreVote(n, r), failing)
        \/ /\ PreVoteCounts(r, t, granted) /\ ~WinsPreVote(r, t, granted)
           /\ failing = "none"
           /\ node' = [node EXCEPT ![i] = WithPreVote(n, r)]
           /\ UNCHANGED <<ballots, voteRpcs>>
        \/ /\ t <= n.currentTerm /\ ~PreVoteCounts(r, t, granted)
           /\ failing = "none"
           /\ UNCHANGED <<node, ballots, voteRpcs>>

PreVoteReturns(r) ==
    /\ r.phase = "done"
    /\ \E failing \in {"none", "term", "vote"} :
         /\ PreVoteContinues(r, r.reply.term, r.reply.granted, failing)
         /\ Happen(When(failing # "none", "store"))
    /\ preVoteRpcs' = preVoteRpcs \ {r}
    /\ UNCHANGED <<log, lead, appendRpcs, committed>>

\* Transport.PreVote fails: it answers with the term it was given, which is
\* the caller's term plus one.
PreVoteFails(r) ==
    /\ \E failing \in {"none", "term"} :
         /\ PreVoteContinues(r, r.term + 1, FALSE, failing)
         /\ Happen({"rpc"} \cup When(failing # "none", "store"))
    /\ preVoteRpcs' = preVoteRpcs \ {r}
    /\ UNCHANGED <<log, lead, appendRpcs, committed>>

\* HandleRequestVote of the three roles.  termFails, voteFails: which of the
\* store writes fails.  A disabled node refuses.
RefusesVote(n, r) ==
    \/ ~n.enabled
    \/ r.term < n.currentTerm
    \/ r.term = n.currentTerm /\ n.role # "follower"

VoterState(n, r, termFails) ==
    IF r.term > n.currentTerm THEN HandlerBecomesFollower(n, r.term, termFails) ELSE n

\* Wrong variant: the candidate's log does not matter.
GrantsVoteToAnyLog(n, lg, r) == n.votedFor = Nil \/ n.votedFor = r.from

\* Wrong variant: a second candidate of the same term gets a vote too.
GrantsVoteTwice(n, lg, r) == IsLogEqualOrMoreRecent(lg, r.lastIndex, r.lastTerm)

GrantsVote(n, lg, r) ==
    /\ n.votedFor = Nil \/ n.votedFor = r.from
    /\ IsLogEqualOrMoreRecent(lg, r.lastIndex, r.lastTerm)

RequestVoteHandled(r, reply) ==
    /\ voteRpcs' = Answered(voteRpcs, r, reply)
    /\ UNCHANGED <<log, lead, preVoteRpcs, appendRpcs, committed>>

DeliverRequestVoteRefused(r) ==
    /\ r.phase # "done"
    /\ RefusesVote(node[r.to], r)
    /\ RequestVoteHandled(r, [term |-> node[r.to].currentTerm, granted |-> FALSE])
    /\ UNCHANGED <<node, ballots, events>>

DeliverRequestVote(r) ==
    /\ r.phase # "done"
    /\ ~RefusesVote(node[r.to], r)
    /\ \E termFails, voteFails \in BOOLEAN :
         LET v == r.to
             n == VoterState(node[v], r, termFails)
             grants == GrantsVote(n, log[v], r)
         IN  /\ termFails => r.term > node[v].currentTerm
             /\ voteFails => grants
             /\ Happen(When(termFails \/ voteFails, "store"))
             /\ node' = [node EXCEPT ![v] =
                  IF voteFails THEN MarkUnhealthy(n)
                  ELSE IF grants THEN [n EXCEPT !.votedFor = r.from] ELSE n]
             /\ ballots' = IF grants /\ ~voteFails
                             THEN ballots \cup {<<v, r.term, r.from>>} ELSE ballots
             /\ RequestVoteHandled(r, [term |-> n.currentTerm, granted |-> grants /\ ~voteFails])

\* becomeLeader and LeaderRole.OnEnter for a node in state n.  If the no-op
\* cannot be written the node is a follower again.
BecomeLeader(i, n, logFails) ==
    LET written == Append(log[i], [term |-> n.currentTerm, data |-> NoOp])
        fresh   == [nextIndex  |-> [p \in Node |-> IF p = i THEN Len(written) + 1
                                                   ELSE LastIndex(log[i]) + 1],
                    matchIndex |-> [p \in Node |-> IF p = i THEN Len(written) ELSE 0],
                    inflight   |-> {}]
        elected == [n EXCEPT !.role = "leader", !.leaderId = i]
        commit  == AdvancedCommitIndex(elected, written, fresh)
        o       == Len(lead[i]) + 1
    IN  IF logFails
          THEN /\ node' = [node EXCEPT ![i] = BecomeFollower(n, n.currentTerm)]
               /\ UNCHANGED <<log, lead, appendRpcs, committed>>
          ELSE /\ node' = [node EXCEPT ![i] = [elected EXCEPT !.commitIndex = commit]]
               /\ log' = [log EXCEPT ![i] = written]
               /\ lead' = [lead EXCEPT ![i] = Append(@, AllInflight(i, fresh))]
               /\ appendRpcs' = appendRpcs
                                  \cup AppendRequestsToAll(i, o, fresh, written, elected)
               /\ committed' = committed
                                 \cup Declared(written, n.commitIndex, commit, n.currentTerm)

\* Wrong variant: a vote of an earlier election counts in the present one.
VoteCountsLate(r) ==
    r.reply.granted /\ r.reply.term = r.term /\ node[r.from].role = "candidate"

\* The continuation of sendRequestVote, whose candidate object is the one
\* that started the election of r.term.
VoteCounts(r) ==
    LET n == node[r.from]
    IN  /\ r.reply.granted
        /\ r.reply.term = r.term
        /\ n.role = "candidate"
        /\ n.currentTerm = r.term

RequestVoteReturns(r) ==
    LET i == r.from
        n == node[i]
        counted == [n EXCEPT !.votes = @ \cup {r.to}]
    IN  /\ r.phase = "done"
        /\ \/ \E storeFails \in BOOLEAN :
                /\ r.reply.term > n.currentTerm
                /\ storeFails => ~n.stopped
                /\ node' = [node EXCEPT ![i] = StepDown(n, r.reply.term, storeFails)]
                /\ Happen(When(storeFails, "store"))
                /\ UNCHANGED <<log, lead, appendRpcs, committed>>
           \/ \E logFails \in BOOLEAN :
                /\ r.reply.term <= n.currentTerm /\ VoteCounts(r)
                /\ counted.votes \in Quorum
                /\ BecomeLeader(i, counted, logFails)
                /\ Happen(When(logFails, "log"))
           \/ /\ r.reply.term <= n.currentTerm
              /\ ~(VoteCounts(r) /\ counted.votes \in Quorum)
              /\ node' = [node EXCEPT ![i] = IF VoteCounts(r) THEN counted ELSE n]
              /\ UNCHANGED <<log, lead, appendRpcs, committed, events>>
        /\ voteRpcs' = voteRpcs \ {r}
        /\ UNCHANGED <<preVoteRpcs, ballots>>

\* Transport.RequestVote fails: it answers (term, false), which is ignored.
RequestVoteFails(r) ==
    /\ r.phase # "orphan"
    /\ Happen({"rpc"})
    /\ voteRpcs' = GivenUp(voteRpcs, r)
    /\ UNCHANGED <<nodeVars, preVoteRpcs, appendRpcs, histVars>>

----------------------------------------------------------------------------
(* Replication.                                                            *)

\* Wrong variant: a request of an older term is taken for a current one.
RefusesAppendNever(n, r) == ~n.enabled

\* HandleAppendEntries of the three roles, up to the first return.
RefusesAppend(n, r) ==
    \/ ~n.enabled
    \/ r.term < n.currentTerm
    \/ r.term = n.currentTerm /\ n.role = "leader" /\ r.leaderId = r.to

AppendHandled(r, reply) ==
    /\ appendRpcs' = Answered(appendRpcs, r, reply)
    /\ UNCHANGED <<lead, preVoteRpcs, voteRpcs, histVars>>

DeliverAppendRefused(r) ==
    /\ r.phase # "done"
    /\ RefusesAppend(node[r.to], r)
    /\ AppendHandled(r, [NoAppend EXCEPT !.term = node[r.to].currentTerm])
    /\ UNCHANGED <<node, log, events>>

\* The rest of the handler, at a node that is or becomes a follower.
FollowerState(n, r, termFails) ==
    IF r.term > n.currentTerm \/ n.role # "follower"
      THEN HandlerBecomesFollower(n, r.term, termFails) ELSE n

\* The logs that appendEntries can leave behind.  It has no result: when a
\* write or the truncation fails, the handler carries on and reports success.
LogsAfterAppend(lg, r, logFails) ==
    IF logFails
      THEN {lg} \cup {AppendEntriesCut(lg, r.prevIndex, r.entries, k) :
                        k \in 0..(Cardinality(Unmatched(lg, r.prevIndex, r.entries)) - 1)}
      ELSE {AppendEntries(lg, r.prevIndex, r.entries)}

DeliverAppendEntries(r) ==
    /\ r.phase # "done"
    /\ ~RefusesAppend(node[r.to], r)
    /\ \E termFails, logFails \in BOOLEAN :
         LET v  == r.to
             lg == log[v]
             n  == FollowerState(node[v], r, termFails)
             check == CheckLogConsistency(lg, r.prevIndex, r.prevTerm)
         IN  /\ termFails => r.term > node[v].currentTerm
             /\ Happen(When(termFails, "store") \cup When(logFails, "log"))
             /\ \/ /\ r.prevIndex > LastIndex(lg)
                   /\ ~logFails
                   /\ node' = [node EXCEPT ![v] = n]
                   /\ AppendHandled(r, [term |-> n.currentTerm, success |-> FALSE,
                        conflictIndex |-> LastIndex(lg) + 1, conflictTerm |-> 0])
                   /\ UNCHANGED log
                \/ /\ r.prevIndex <= LastIndex(lg) /\ ~check.ok
                   /\ ~logFails
                   /\ node' = [node EXCEPT ![v] = n]
                   /\ AppendHandled(r, [term |-> n.currentTerm, success |-> FALSE,
                        conflictIndex |-> check.conflictIndex,
                        conflictTerm |-> check.conflictTerm])
                   /\ UNCHANGED log
                \/ /\ r.prevIndex <= LastIndex(lg) /\ check.ok
                   /\ logFails => Unmatched(lg, r.prevIndex, r.entries) # {}
                   /\ \E after \in LogsAfterAppend(lg, r, logFails) :
                        /\ log' = [log EXCEPT ![v] = after]
                        /\ node' = [node EXCEPT ![v] = [n EXCEPT !.leaderId = r.leaderId,
                             !.commitIndex = SetCommitIndex(after, @, r.commit)]]
                   /\ AppendHandled(r, [NoAppend EXCEPT !.term = n.currentTerm,
                                                        !.success = TRUE])

\* The continuation of sendAppendEntriesToNode: what it does to the leader
\* object l it belongs to, the call having been answered by reply.
Returned(l, r) == [l EXCEPT !.inflight = @ \ {r.to}]

\* Wrong variant: one entry more than was sent is taken as replicated.
AckedStateOneMore(l, r) ==
    LET lastSent == r.prevIndex + Len(r.entries) + 1
    IN  [Returned(l, r) EXCEPT
           !.matchIndex[r.to] = IF @ < lastSent THEN lastSent ELSE @,
           !.nextIndex[r.to]  = IF @ < lastSent + 1 THEN lastSent + 1 ELSE @]

AckedState(l, r) ==
    LET lastSent == r.prevIndex + Len(r.entries)
    IN  [Returned(l, r) EXCEPT
           !.matchIndex[r.to] = IF @ < lastSent THEN lastSent ELSE @,
           !.nextIndex[r.to]  = IF @ < lastSent + 1 THEN lastSent + 1 ELSE @]

\* Wrong variant: the result is not kept at 1 or more.
NackedStateNoFloor(l, r, lg, reply) ==
    LET lastOfTerm == GetLastLogEntryIndexOfTerm(lg, reply.conflictTerm)
        next == IF reply.conflictTerm # 0 /\ lastOfTerm > 0
                  THEN lastOfTerm + 1 ELSE reply.conflictIndex
    IN  IF l.nextIndex[r.to] > 1
          THEN [Returned(l, r) EXCEPT !.nextIndex[r.to] = next]
          ELSE Returned(l, r)

NackedState(l, r, lg, reply) ==
    LET lastOfTerm == GetLastLogEntryIndexOfTerm(lg, reply.conflictTerm)
        next == IF reply.conflictTerm # 0 /\ lastOfTerm > 0
                  THEN lastOfTerm + 1 ELSE reply.conflictIndex
    IN  IF l.nextIndex[r.to] > 1
          THEN [Returned(l, r) EXCEPT !.nextIndex[r.to] = IF next < 1 THEN 1 ELSE next]
          ELSE Returned(l, r)

\* A reply is used if the node leads, in whatever term, and the answer is for
\* the term of the request.  The commit index is advanced from the tally of
\* the object the goroutine belongs to, and a retry carries the term of the
\* original request.
UsesAppendReply(r, reply) ==
    LET n == node[r.from]
    IN  reply.term <= n.currentTerm /\ n.role = "leader" /\ reply.term = r.term

AppendContinues(r, reply, cause) ==
    LET i  == r.from
        n  == node[i]
        l  == lead[i][r.obj]
        lg == log[i]
        m  == IF reply.success THEN AckedState(l, r) ELSE NackedState(l, r, lg, reply)
        commit == IF reply.success THEN AdvancedCommitIndex(n, lg, m) ELSE n.commitIndex
        retry  == IF reply.success THEN m.nextIndex[r.to] <= LastIndex(lg)
                                   ELSE l.nextIndex[r.to] > 1
        after  == [n EXCEPT !.commitIndex = commit]
    IN  \/ \E storeFails \in BOOLEAN :
             /\ reply.term > n.currentTerm
             /\ storeFails => ~n.stopped
             /\ Happen(cause \cup When(storeFails, "store"))
             /\ node' = [node EXCEPT ![i] = StepDown(n, reply.term, storeFails)]
             /\ lead' = [lead EXCEPT ![i][r.obj] = Returned(l, r)]
             /\ appendRpcs' = GivenUp(appendRpcs, r)
             /\ UNCHANGED committed
        \/ /\ reply.term <= n.currentTerm /\ ~UsesAppendReply(r, reply)
           /\ Happen(cause)
           /\ lead' = [lead EXCEPT ![i][r.obj] = Returned(l, r)]
           /\ appendRpcs' = GivenUp(appendRpcs, r)
           /\ UNCHANGED <<node, committed>>
        \/ /\ UsesAppendReply(r, reply)
           /\ Happen(cause)
           /\ node' = [node EXCEPT ![i] = after]
           /\ lead' = [lead EXCEPT ![i][r.obj] =
                         IF retry THEN [m EXCEPT !.inflight = @ \cup {r.to}] ELSE m]
           /\ appendRpcs' = GivenUp(appendRpcs, r) \cup
                IF retry THEN {AppendRequest(i, r.obj, r.to, m, lg, after, r.term)} ELSE {}
           /\ committed' = committed
                             \cup Declared(lg, n.commitIndex, commit, n.currentTerm)

AppendEntriesReturns(r) ==
    /\ r.phase = "done"
    /\ AppendContinues(r, r.reply, {})
    /\ UNCHANGED <<log, preVoteRpcs, voteRpcs, ballots>>

\* Transport.AppendEntries fails: it answers (term, false, 0, 0), which the
\* continuation takes for a log conflict.
AppendEntriesFails(r) ==
    /\ r.phase # "orphan"
    /\ AppendContinues(r, [NoAppend EXCEPT !.term = r.term], {"rpc"})
    /\ UNCHANGED <<log, preVoteRpcs, voteRpcs, ballots>>

\* HandlePropose of the leader, accepted.  ProposeWithSession looks at the
\* enabled flag before, and in another critical section than, HandlePropose:
\* a leader that Disable has stopped in between still takes the proposal.
Propose(i, v) ==
    LET n == node[i]
        o == Len(lead[i])
        l == lead[i][o]
        written == Append(log[i], [term |-> n.currentTerm, data |-> v])
    IN  /\ n.role = "leader" /\ (n.enabled \/ n.stopped)
        /\ Happen({"propose"})
        /\ log' = [log EXCEPT ![i] = written]
        /\ appendRpcs' = appendRpcs \cup AppendRequestsToAll(i, o, l, written, n)
        /\ lead' = [lead EXCEPT ![i][o] = [AllInflight(i, l) EXCEPT
                      !.matchIndex[i] = IF @ < Len(written) THEN Len(written) ELSE @,
                      !.nextIndex[i] = IF @ < Len(written) + 1 THEN Len(written) + 1 ELSE @]]
        /\ UNCHANGED <<node, preVoteRpcs, voteRpcs, histVars>>

\* Tick of a leader: a heartbeat when it is due, then the lease.  Ticks are
\* not counted here, so either may be due at any tick.
LeaderTick(i, heartbeat, expired) ==
    LET n == node[i]
        o == Len(lead[i])
        l == lead[i][o]
    IN  /\ n.enabled /\ n.healthy /\ n.role = "leader"
        /\ heartbeat \/ expired
        /\ Happen(When(heartbeat, "heartbeat") \cup When(expired, "lease"))
        /\ lead' = IF heartbeat THEN [lead EXCEPT ![i][o] = AllInflight(i, l)] ELSE lead
        /\ appendRpcs' = IF heartbeat
                           THEN appendRpcs \cup AppendRequestsToAll(i, o, l, log[i], n)
                           ELSE appendRpcs
        /\ node' = IF expired THEN [node EXCEPT ![i] = BecomeFollower(n, n.currentTerm)]
                              ELSE node
        /\ UNCHANGED <<log, preVoteRpcs, voteRpcs, histVars>>

----------------------------------------------------------------------------
(* Operators and crashes.                                                  *)

\* /disable: a leader's applier is stopped, but the role object stays and so
\* do its goroutines.
Disable(i) ==
    LET n == node[i]
    IN  /\ n.enabled
        /\ Happen({"disable"})
        /\ node' = [node EXCEPT ![i] =
             [n EXCEPT !.enabled = FALSE, !.leaderId = Nil,
                       !.stopped = (n.stopped \/ n.role = "leader")]]
        /\ UNCHANGED <<log, lead, rpcVars, histVars>>

\* /enable: panics, and changes nothing, on a leader that was stopped.
Enable(i) ==
    /\ ~node[i].enabled
    /\ ~node[i].stopped
    /\ node' = [node EXCEPT ![i] =
                  [BecomeFollower(@, @.currentTerm) EXCEPT !.enabled = TRUE]]
    /\ UNCHANGED <<log, lead, rpcVars, histVars, events>>

\* The process dies and NewRaft runs again on what the disk holds: n is the
\* node's state at the moment it died.
Reboot(i, n) ==
    /\ Happen({"crash"})
    /\ node' = [node EXCEPT ![i] = Rebooted(n)]
    /\ lead' = [lead EXCEPT ![i] = <<>>]
    /\ preVoteRpcs' = {r \in preVoteRpcs : r.from # i}
    /\ voteRpcs' = CallerDied(voteRpcs, i)
    /\ appendRpcs' = CallerDied(appendRpcs, i)
    /\ UNCHANGED <<log, histVars>>

Restart(i) == Reboot(i, node[i])

\* The process dies in startElection, the new term being on disk and the vote
\* for itself not yet.
CrashMidElection(r) ==
    /\ r.phase = "done"
    /\ WinsPreVote(r, r.reply.term, r.reply.granted)
    /\ Reboot(r.from, IncrementCurrentTerm(node[r.from]))

----------------------------------------------------------------------------
Init ==
    /\ node = [i \in Node |->
         [currentTerm |-> 0, votedFor |-> Nil, leaderId |-> Nil, commitIndex |-> 0,
          role |-> "follower", enabled |-> TRUE, healthy |-> TRUE, stopped |-> FALSE,
          preVotes |-> <<>>, votes |-> {}]]
    /\ log = [i \in Node |-> <<>>]
    /\ lead = [i \in Node |-> <<>>]
    /\ preVoteRpcs = {} /\ voteRpcs = {} /\ appendRpcs = {}
    /\ ballots = {} /\ committed = {}
    /\ events = [k \in EventKind |-> 0]

Next ==
    \/ \E i \in Node : \/ ElectionTimeout(i)
                       \/ \E v \in Value : Propose(i, v)
                       \/ \E heartbeat, expired \in BOOLEAN : LeaderTick(i, heartbeat, expired)
                       \/ Disable(i)
                       \/ Enable(i)
                       \/ Restart(i)
    \/ \E r \in preVoteRpcs : \/ DeliverPreVote(r)
                              \/ PreVoteReturns(r)
                              \/ PreVoteFails(r)
                              \/ CrashMidElection(r)
    \/ \E r \in voteRpcs : \/ DeliverRequestVoteRefused(r)
                           \/ DeliverRequestVote(r)
                           \/ RequestVoteReturns(r)
                           \/ RequestVoteFails(r)
    \/ \E r \in appendRpcs : \/ DeliverAppendRefused(r)
                             \/ DeliverAppendEntries(r)
                             \/ AppendEntriesReturns(r)
                             \/ AppendEntriesFails(r)

Spec == Init /\ [][Next]_vars

----------------------------------------------------------------------------
(* Properties.                                                             *)

Voters(term, candidate) == {v \in Node : <<v, term, candidate>> \in ballots}

\* At most one leader per term: two nodes whose role is leader are never in
\* the same term, whatever votes are late, lost, or given around a crash.
ElectionSafety ==
    \A i, j \in Node :
      (/\ node[i].role = "leader" /\ node[j].role = "leader"
       /\ node[i].currentTerm = node[j].currentTerm) => i = j

\* A node gives at most one vote per term, counted over its whole life: over
\* crashes, failed store writes and elections cut short.
VoteOnce ==
    \A x, y \in ballots : (x[1] = y[1] /\ x[2] = y[2]) => x = y

\* The persisted term never falls and, within a term, the persisted vote never
\* changes once it is cast: no handler, callback, operator call or restart
\* undoes either.
StoreNeverForgets ==
    [][\A i \in Node :
         \/ node'[i].currentTerm > node[i].currentTerm
         \/ /\ node'[i].currentTerm = node[i].currentTerm
            /\ node[i].votedFor \in {Nil, node'[i].votedFor}]_vars

\* The leader a healthy follower forwards proposals to was elected by a
\* majority in the follower's own term.
LeaderHint ==
    \A i \in Node :
      (node[i].role = "follower" /\ node[i].healthy /\ node[i].leaderId # Nil)
        => Voters(node[i].currentTerm, node[i].leaderId) \in Quorum

\* Two logs that hold an entry of the same term at the same index are equal
\* up to that index.
LogMatching ==
    \A i, j \in Node : \A k \in 1..Len(log[i]) :
      (k <= Len(log[j]) /\ log[i][k].term = log[j][k].term)
        => SubSeq(log[i], 1, k) = SubSeq(log[j], 1, k)

\* While a node stays in a term it has won, nothing it has logged is removed
\* or replaced, even after it has stepped down.
WinnerAppendsOnly ==
    [][\A i \in Node :
         (/\ Voters(node[i].currentTerm, i) \in Quorum
          /\ node'[i].currentTerm = node[i].currentTerm)
           => /\ Len(log[i]) <= Len(log'[i])
              /\ SubSeq(log'[i], 1, Len(log[i])) = log[i]]_vars

\* What the leader counts as replicated on a peer is there: up to matchIndex,
\* a peer that has not left the leader's term holds the leader's log.
MatchIndexSound ==
    \A i, p \in Node :
      (node[i].role = "leader" /\ node[p].currentTerm = node[i].currentTerm)
        => LET k == lead[i][Len(lead[i])].matchIndex[p]
           IN  k <= Len(log[p]) /\ SubSeq(log[p], 1, k) = SubSeq(log[i], 1, k)

\* An entry that a leader has declared committed is in the log of every
\* leader of a later term.
LeaderCompleteness ==
    \A c \in committed : \A i \in Node :
      (node[i].role = "leader" /\ node[i].currentTerm > c.term)
        => c.index <= Len(log[i]) /\ log[i][c.index] = c.entry

\* Up to their commit indexes, no two nodes disagree, and no node has lost
\* an entry it has committed.
CommittedEntriesAgree ==
    \A i, j \in Node :
      /\ node[i].commitIndex <= Len(log[i])
      /\ \A k \in 1..node[i].commitIndex :
           k <= node[j].commitIndex => log[i][k] = log[j][k]

\* When a leader advances its commit index, a majority of the logs hold the
\* entry it advances to, at that moment and not only at the time of the acks.
CommitHasMajority ==
    [][\A i \in Node :
         (node[i].role = "leader" /\ node'[i].commitIndex > node[i].commitIndex)
           => LET k == node'[i].commitIndex
              IN  {p \in Node : k <= Len(log'[p]) /\ log'[p][k] = log'[i][k]} \in Quorum]_vars

----------------------------------------------------------------------------
(* Refinement.                                                             *)

Promised ==
    INSTANCE Elections WITH
      term    <- [i \in Node |-> node[i].currentTerm],
      leaders <- {i \in Node : node[i].role = "leader"}

\* Every step of the handlers, continuations, operator calls and restarts is,
\* seen from the terms, the ballots and the offices alone, one vote, one
\* election won, or no more than terms left behind and offices laid down; and
\* a cluster in which nobody has voted yet is where Elections begins.
ElectionsRefined == (ballots = {} => Promised!Init) /\ Promised!Steps
============================================================================
