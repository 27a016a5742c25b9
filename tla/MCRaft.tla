------------------------------ MODULE MCRaft ------------------------------
(* Instances of Raft for TLC.                                              *)
EXTENDS Raft, TLC

CONSTANTS a, b, c

Symmetry == Permutations(Node)

----------------------------------------------------------------------------
(* How many events of each kind a run allows; kinds not named: none.       *)

Allow(bounds) == [k \in EventKind |-> IF k \in DOMAIN bounds THEN bounds[k] ELSE 0]

ClusterEvents    == Allow([timeout |-> 2, store |-> 1, crash |-> 1, rpc |-> 1,
                           propose |-> 1, lease |-> 1, disable |-> 1])
SmallBatchEvents == Allow([timeout |-> 1, propose |-> 1, rpc |-> 1])
OldTallyEvents   == Allow([timeout |-> 2])
UnsavedAckEvents == Allow([propose |-> 1, log |-> 1])

\* The counts of events from which just those in `bounds` are left.
Left(bounds) == [k \in EventKind |-> MaxEvents[k] - Allow(bounds)[k]]

----------------------------------------------------------------------------
(* Where a run about replication starts.  Elected: x has won term 1 with the *)
(* vote of y, that of z coming later, its no-op is on every node and         *)
(* committed, and nothing is under way.                                      *)
Entry1 == [term |-> 1, data |-> NoOp]

Process(term, vote, leader, commit, role, votes) ==
    [currentTerm |-> term, votedFor |-> vote, leaderId |-> leader, commitIndex |-> commit,
     role |-> role, enabled |-> TRUE, healthy |-> TRUE, stopped |-> FALSE,
     preVotes |-> <<>>, votes |-> votes]

Decided1 == {[index |-> 1, entry |-> Entry1, term |-> 1]}

Start(proc, logs, objs, rpcs, votes, decided) ==
    /\ node = proc /\ log = logs /\ lead = objs
    /\ preVoteRpcs = {} /\ voteRpcs = {} /\ appendRpcs = rpcs
    /\ ballots = votes
    /\ committed = decided

NoneYet == events = [k \in EventKind |-> 0]

Elected(x, y) ==
    Start([i \in Node |-> IF i = x THEN Process(1, x, x, 1, "leader", {x, y})
                                   ELSE Process(1, x, x, 0, "follower", {})],
          [i \in Node |-> <<Entry1>>],
          [i \in Node |-> IF i # x THEN <<>> ELSE
             <<[nextIndex |-> [p \in Node |-> 2], matchIndex |-> [p \in Node |-> 1],
                inflight |-> {}]>>],
          {},
          {<<i, 1, x>> : i \in Node},
          Decided1)

(* Contested, later: y has won term 2 with the vote of z, has logged its     *)
(* no-op and sent it to x and z.  x had logged v in term 1 and sent it to y  *)
(* and z; y has refused it, which made x a follower in term 2, and z has not *)
(* received it.                                                              *)
Entry2 == [term |-> 2, data |-> NoOp]

Replicate(i, p, term, e, commit) ==
    [from |-> i, to |-> p, obj |-> 1, term |-> term, leaderId |-> i, prevIndex |-> 1,
     prevTerm |-> 1, entries |-> <<e>>, commit |-> commit, phase |-> "sent",
     reply |-> NoAppend]

Contested(x, y, z) ==
    \E v \in Value :
      LET Pending == [term |-> 1, data |-> v]
      IN  Start([i \in Node |-> CASE i = x -> Process(2, Nil, Nil, 1, "follower", {})
                                  [] i = y -> Process(2, y, y, 0, "leader", {y, z})
                                  [] OTHER -> Process(2, y, Nil, 0, "follower", {})],
                [i \in Node |-> CASE i = x -> <<Entry1, Pending>>
                                  [] i = y -> <<Entry1, Entry2>>
                                  [] OTHER -> <<Entry1>>],
                [i \in Node |->
                   CASE i = x -> <<[nextIndex |-> [p \in Node |-> IF p = x THEN 3 ELSE 2],
                                    matchIndex |-> [p \in Node |-> IF p = x THEN 2 ELSE 1],
                                    inflight |-> {z}]>>
                     [] i = y -> <<[nextIndex |-> [p \in Node |-> IF p = y THEN 3 ELSE 2],
                                    matchIndex |-> [p \in Node |-> IF p = y THEN 2 ELSE 0],
                                    inflight |-> {x, z}]>>
                     [] OTHER -> <<>>],
                {Replicate(x, z, 1, Pending, 1), Replicate(y, x, 2, Entry2, 0),
                 Replicate(y, z, 2, Entry2, 0)},
                {<<i, 1, x>> : i \in Node} \cup {<<y, 2, y>>, <<z, 2, y>>},
                Decided1)

(* A cluster at its very beginning, with two elections and a failing store   *)
(* write or a crash to come, or one election and both; a contested one, with *)
(* two of a further election, a failing call and a crash; one with a leader, *)
(* with three of an election, a proposal, a lost lease and an operator.  The *)
(* nodes may have the parts in any order, so that Symmetry is sound.         *)
New == Start([i \in Node |-> Process(0, Nil, Nil, 0, "follower", {})],
             [i \in Node |-> <<>>], [i \in Node |-> <<>>], {}, {}, {})

\* One event less than one of each kind in K is left.
LeftOfEach(K) == {Left([k \in K \ {x} |-> 1]) : x \in K}

InitCluster ==
    \/ /\ New
       /\ events \in {Left([timeout |-> 2, store |-> 1]), Left([timeout |-> 2, crash |-> 1]),
                     Left([timeout |-> 1, store |-> 1, crash |-> 1])}
    \/ \E x, y, z \in Node :
         /\ {x, y, z} = Node
         /\ \/ Contested(x, y, z) /\ events \in LeftOfEach({"timeout", "rpc", "crash"})
            \/ Elected(x, y) /\ events \in LeftOfEach({"timeout", "propose", "lease", "disable"})

InitElected == Elected(a, b) /\ NoneYet

(* Another history, with one entry per request: a won term 1 with b and       *)
(* logged its no-op and v, which reached nobody before a restart; c won term  *)
(* 2 with b and was restarted in turn; a won term 3 with b, which has taken   *)
(* both entries and acknowledged the first, the second acknowledgement being  *)
(* on its way; c has won term 4 with the votes of all, and a's log is now c's *)
(* up to index 1.                                                            *)
InitOverruled ==
    \E v \in Value :
      LET Pending == [term |-> 1, data |-> v]
          Entry4  == [term |-> 4, data |-> NoOp]
          LateAck == [Replicate(a, b, 3, Pending, 0) EXCEPT
                        !.phase = "done",
                        !.reply = [NoAppend EXCEPT !.term = 3, !.success = TRUE]]
      IN  Start([i \in Node |-> CASE i = a -> Process(4, c, c, 0, "follower", {})
                                  [] i = b -> Process(4, c, Nil, 0, "follower", {})
                                  [] OTHER -> Process(4, c, c, 0, "leader", {b, c})],
                [i \in Node |-> CASE i = a -> <<Entry2>>
                                  [] i = b -> <<Entry1, Pending>>
                                  [] OTHER -> <<Entry2, Entry4>>],
                [i \in Node |->
                   CASE i = a -> <<[nextIndex |-> (a :> 4 @@ b :> 2 @@ c :> 3),
                                    matchIndex |-> (a :> 3 @@ b :> 1 @@ c :> 0),
                                    inflight |-> {b}]>>
                     [] i = c -> <<[nextIndex |-> (a :> 2 @@ b :> 2 @@ c :> 3),
                                    matchIndex |-> (a :> 1 @@ b :> 0 @@ c :> 2),
                                    inflight |-> {a, b}]>>
                     [] OTHER -> <<>>],
                {LateAck} \cup {[Replicate(c, p, 4, Entry4, 0) EXCEPT !.prevTerm = 2] : p \in {a, b}},
                {<<a, 1, a>>, <<b, 1, a>>, <<b, 2, c>>, <<c, 2, c>>, <<a, 3, a>>, <<b, 3, a>>}
                  \cup {<<i, 4, c>> : i \in Node},
                {}) /\ NoneYet

----------------------------------------------------------------------------
(* The view under which TLC compares states.  It forgets what can no longer *)
(* influence any later step.                                               *)

\* i is a follower and no election timer will fire any more, so i will never
\* again be a candidate or a leader.
Retired(i) == node[i].role = "follower" /\ events["timeout"] = MaxEvents["timeout"]

Settled(i) == node[i].role # "candidate" /\ events["timeout"] = MaxEvents["timeout"]

\* Continuations that will do nothing (their node's term never falls), and
\* abandoned requests that will be refused.
IdleVoteReply(r) ==
    /\ r.phase = "done"
    /\ r.reply.term <= node[r.from].currentTerm
    /\ ~r.reply.granted \/ r.term < node[r.from].currentTerm \/ Settled(r.from)

IdleAppendReply(r) ==
    r.phase = "done" /\ r.reply.term <= node[r.from].currentTerm /\ Retired(r.from)

IdleOrphan(r) == r.phase = "orphan" /\ r.term < node[r.to].currentTerm

Forgotten(i) == [node[i] EXCEPT !.preVotes = <<>>, !.votes = {}]

View ==
    <<[i \in Node |-> IF Settled(i) THEN Forgotten(i) ELSE node[i]],
      log,
      [i \in Node |-> IF Retired(i) THEN <<>> ELSE lead[i]],
      {r \in preVoteRpcs : ~IdleVoteReply(r)},
      {r \in voteRpcs : ~IdleVoteReply(r) /\ ~IdleOrphan(r)},
      {r \in appendRpcs : ~IdleAppendReply(r) /\ ~IdleOrphan(r)},
      {x \in ballots : \E i \in Node : node[i].currentTerm <= x[2]},
      committed, events>>
============================================================================
