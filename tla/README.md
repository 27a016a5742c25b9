# A TLA+ model of go-raft

go-raft is a Raft implementation in Go: a cluster of processes that elect a
leader, replicate a log through it, apply the committed entries to a state
machine and compact the log into snapshots. This directory holds models of its
consensus core, of how one process serves and applies, of compaction, and of the
counter service, the instances TLC checks, and proofs checked by TLAPS. All
definitions are translated from `src/internal/`; `PROJECT.json` names, for each,
the lines it stands for.

## The system

| Component | Source | State | Operations | Correct when |
|---|---|---|---|---|
| Raft object | `raft.go` | role, role epoch, enabled, healthy, snapshot boundary; everything under one mutex `mu` | `Tick`, `HandleX`, `becomeX`, `Disable`, `Enable`, `Shutdown`, `TakeSnapshot` | the roles change only in the ways Raft allows |
| Follower | `follower_role.go` | election ticks | answers append, vote, pre-vote and snapshot requests; times out | one vote per term; its log becomes a prefix-match of the leader's |
| Candidate | `candidate_role.go` | pre-vote and vote tallies | pre-election, election, one goroutine per peer and round | one leader per term; a failed pre-vote disturbs nobody |
| Leader | `leader_role.go` | nextIndex, matchIndex, inflight, pending, lease ticks | proposals, heartbeats, replication goroutines with retry, commit, applier goroutine | commits only what a majority holds; never loses a committed entry |
| Store | `store.go` | term and vote (on disk), leaderId, commitIndex, lastApplied (memory) | setters that write the file and roll back on error | term and vote survive crashes and never go back |
| Log | `log.go`, library go-log | entries on disk | read, append, truncate, compact | see follower and leader |
| Transport | `transport.go` | none | one HTTP call per request, one-second timeout, invented answers on failure | the invented answers do no harm |
| State machine | `fsm.go`, `counter/` | the counter | `Apply`, `Snapshot`, `Restore` | every node applies the same committed entries, once, in order |
| Snapshots | `snapshot.go`, `raft.go` | one file | `TakeSnapshot`, `InstallSnapshot` | a snapshot replaces exactly the prefix it covers |
| Sessions | `session.go` | last sequence number and result per client | `IsDuplicate`, `Record` | a retried command is applied once |
| Shell | `main.go`, `config.go`, scripts | none | HTTP routes, flags, tickers | pure I/O, not modelled |

**Interaction.** A handler, a tick or the continuation of a goroutine takes `mu`
and runs to completion; it starts goroutines that make remote calls without
holding `mu` and come back through it. So the atomic steps are known, and the
hard part is what lies between a call and its continuation: the node may have
changed role, term and role object, and a continuation keeps the object it
started with. The applier goroutine and `TakeSnapshot` work partly outside `mu`.

**What is hard.** Late continuations; requests that are executed after the caller has given them
up; two store writes per election with a crash or an error in between; a store or log write that
fails; values the transport makes up when a call fails; an operator who disables a leader whose
goroutines go on; a stopped applier that runs beside the handler of a follower or the applier of
a later office; a snapshot whose three phases are spread over two critical sections and a file,
taken by a ticker and by operators at once; a request that arrives after its receiver's log was
compacted. `PROJECT.json` lists each under `hazards`, at its line, with the properties that
watch it.

## Modules

| Module | What it is |
|---|---|
| `RaftLog` | the pure functions on the log: the vote criterion, the consistency check and its conflict hints, append with truncation and what a failing write leaves, the commit index and the majority index |
| `Raft` | the cluster: all three roles, the store, the transport, operators, crashes; the properties |
| `Elections` | what elections promise, without roles, calls or stores; `Raft` implements it |
| `MCRaft`, `MCRaftFive` | instances of `Raft` for TLC: event bounds, starting states, symmetry and the view; one with five nodes |
| `LogEntries` | how an entry is stored in one of two formats and read back by a heuristic |
| `Sessions` | the table that recognises a client's retries |
| `Counter` | the state machine: a counter that counts an id once a day, with its ring of minutes |
| `CounterService` | the counter over the days: entries, the clock, snapshot and restore |
| `Serving` | one process: proposals and their waiters, applier goroutines, the follower's apply loop, the replay at start; composes `LogEntries`, `Sessions` and `Counter` |
| `MCServing` | the requests and bounds of its instances |
| `Compaction`, `MCCompaction` | a leader and a follower with compacted logs: `TakeSnapshot`, `InstallSnapshot`, recovery; the bounds of its instances |
| `RaftShapeProofs` | type correctness of `Raft` for every instance |
| `RaftVoteProofs` | election safety, store monotonicity and that `Raft` implements `Elections`, for every instance |
| `RaftLogProofs` | log matching, the leader hint and that winners only append, for every instance; what one step may do to tallies, commit indexes and votes |
| `RaftCommitProofs` | what a leader counts and commits, and that it is never lost, for every instance |
| `ClockProofs` | arithmetic of the clock's face and of the minutes that clearing passes, for the next two |
| `CounterProofs` | type correctness, slots and dates of the counter, for every number of slots |
| `CompactionProofs` | what compaction keeps, for any number of entries, failures and crashes |
| `ServingProofs` | what is stored is read back; what is applied, counted and answered, for any requests and any number of leader objects |

The three state machines look at one system from three sides. `Raft` has the whole
cluster, diverging logs and all elections, but no state machine. `Serving` has one
process with all its goroutines, and takes the cluster as what `Raft` shows it to be:
other leaders bring logs that agree with what is committed. `Compaction` has one leader
and asks where logs begin, what stands for the part that is gone, and where an entry
comes to stand in a log that no longer begins where its sender believes.

### State and actions of `Raft`

`node[i]` is the process state (store fields, role, flags, tallies), `log[i]` the
log on disk, `lead[i]` the sequence of `LeaderRole` objects process *i* has created
(the last one is current, callbacks hold on to older ones). A goroutine that calls
a peer is a record in `preVoteRpcs`, `voteRpcs` or `appendRpcs` with a phase:
`sent` (on its way), `done` (the remote handler has answered, the continuation has
not run), `orphan` (the caller has given up or died, the request may still arrive).
`ballots` and `committed` are history: every vote ever given, and every entry a
leader has declared committed. Nothing reads them but the properties.

| Action | Code |
|---|---|
| `ElectionTimeout` | `Tick` of follower and candidate at the deadline, `becomeCandidate`, `startPreElection` |
| `DeliverPreVote` / `PreVoteReturns` / `PreVoteFails` | `HandlePreVote` of the three roles / `sendPreVote` after the call, `startElection` included, with either store write failing / the same after a failed call, which answers with the term it was asked about |
| `DeliverRequestVote`, `DeliverRequestVoteRefused` / `RequestVoteReturns` / `RequestVoteFails` | `HandleRequestVote` of the three roles, store writes failing or not / `sendRequestVote` after the call, `becomeLeader` and `LeaderRole.OnEnter` included / a failed call |
| `DeliverAppendEntries`, `DeliverAppendRefused` / `AppendEntriesReturns` / `AppendEntriesFails` | `HandleAppendEntries` of the three roles, log and store writes failing or not / `sendAppendEntriesToNode` after the call: tallies, commit index, retry / the same after a failed call, which reads as a conflict at index 0 |
| `Propose` | `HandlePropose` of the leader, accepted |
| `LeaderTick` | heartbeat, then the lease check |
| `Disable`, `Enable` | the operator's endpoints, with the double close of `applierStopCh` |
| `Restart`, `CrashMidElection` | the process dies, at any point between two steps or between the two store writes of `startElection`, and `NewRaft` runs on what the disk holds |

### State and actions of `Serving`

`threads[0]` is the apply loop at the end of `HandleAppendEntries` (and of `NewRaft`),
which holds `Raft.mu`; `threads[k]` the applier goroutine of the k-th leader object,
which does not. A thread stops between any two accesses to shared state: loading
`commitIndex`, loading `lastApplied`, reading the entry and the session table, applying,
taking the waiters under the lock, storing `lastApplied`. `calls[r]` follows one call of
`ProposeWithSession` over its two critical sections and its wait. `objs` are the leader
objects of the present process life: the last is in office, but the appliers and calls of
earlier ones go on. `match` is an object's `matchIndex` of its own node. `chosen`,
`executed`, `replayed`, `starts` and `since` are history.

| Action | Code |
|---|---|
| `Check`, `Lookup`, `Submit`, `Reject`, `GiveUp` | `ProposeWithSession` under its lock / the session lookup without one / `HandlePropose` under its lock, accepted or not (stepped down, lease, failed write) / the caller's context ends. The HTTP handlers pass a context that does not end with the request, so `GiveUp` is about other callers |
| `Elect`, `Commit`, `StepDown`, `Receive` | `OnEnter` with the no-op / `tryToAdvanceCommitIndex` with `triggerApplier`, in a continuation of the present or of an earlier leader object, whose own applier it wakes / `OnExit` by lease or higher term / `HandleAppendEntries`, accepted, up to its apply loop |
| `ThreadStep(k)`: `Wake`, `Exit`, `LoadCommitIndex`, `LoadLastApplied`, `Look`, `Run`, `TellWaiters`, `StoreLastApplied` | `applier` and both `applyToFiniteStateMachine` |
| `Disable`, `Enable`, `Restart`, `MinutePasses` | the operator (and `Shutdown`) / `NewRaft` over the log / the clock |

`Run` joins `FSM.Apply` and `SessionTable.Record`: another loop that looks the session up
in between sees what it sees before both. An unhealthy process behaves, for its callers,
like a disabled one. `Receive` always raises the term, although another leader's requests of
one term may be several: no step of the module compares the terms of two requests.
An earlier object can only advance the commit index to an entry it had itself: its calls
carry its own term, and the nodes that still answer in that term are fewer than a majority.

### State and actions of `Compaction`

A log is a first index and the entries from there; an entry is named by the index at which
the leader wrote it, so that one sees when it stands at another. A term is named by any of
its entries, and `opened` says where terms begin. A state machine is the sequence of
entries it has executed. Of the third node there is the index up to which it stores the log
and the one it has acknowledged. One call to the follower is in flight at most, as `inflight`
has it; the requests of calls that have failed, or whose leader has died, are in
`late` and may be handled at any time.

| Action | Code |
|---|---|
| `Capture`, `Save`, `Adopt` | the three phases of `TakeSnapshot`, on either node, by each member of `Taker` (the ticker and the operator's requests), several at a time |
| `Propose`, `Heartbeat`, `LoadFile`, `ReplyArrives`, `CallFails` | the leader's sends, which pick an append or an install by `nextIndex` and cut a batch at `MaxBatchEntries`, the loading of the file, and both continuations, after an answer or a failure |
| `RequestArrives`, `LateRequestArrives` | the follower's handlers with `checkLogConsistency`, `appendEntries`, `setCommitIndex`, apply, `installSnapshot`, for a request that is waited for or one that is not |
| `Apply`, `RecordApplied`, `ThirdAcknowledges` | the two steps of the applier; the rest of the cluster |
| `RestartFollower`, `RestartLeader` | `NewRaft` on file and log; a leader is elected again and writes its no-op |

`mishaps` is history: it notes four things that the code lets happen and that the
properties then speak about. `ahead`: a capture between the applier's `Apply` and its store of
`lastApplied`. `overwritten`: a snapshot file replaced by one of a lower index.
`rewound`: a snapshot restored over a state machine that was beyond it. `misplaced`: entries
written at other indexes than their own.

Of the log library the module assumes what the code uses it for: `TruncateTo(k)` drops the
entries up to k, `TruncateFrom(k)` those from k on, a log whose only segment is empty and
named k+1 has last index k, reading an index outside the log fails, and writing is possible
at the end only. Elections with another winner are left to `Raft`.

### State and actions of `CounterService`

`counter` is the `Counter`, `saved` the snapshot last taken, `now` the clock in minutes
since the first midnight; `ApplyEntry`, `Snapshot` and `Restore` are the three methods of
`FSM`. `countedAt`, `appliedAt` and `longIdle` are history, and go with the snapshot.

### Abstractions of `Raft`

- **No snapshots.** The module is the cluster until the first snapshot
  (`snapshotIndex = 0` everywhere), which is where every cluster is until
  `SnapshotThreshold` entries are applied. `sendInstallSnapshotToNode` never runs there.
- **Time.** Ticks are not counted: an election timer, a heartbeat or a lease may be
  due at any tick. This allows more than the code does, never less. The lease
  check of `HandlePropose` is covered the same way: a proposal may be accepted or
  not happen.
- **Tallies are sets.** A candidate object asks each peer once, so counting answers
  and collecting the peers that gave them is the same. A node starts at most one
  election per term and votes count only in that term, so `votes` is the tally of
  the current term's election; `preVotes` has one tally per candidate object of the term.
- **Requests are a set.** Two abandoned requests that are equal in every field merge;
  delivering the second changes nothing the first has not changed.
  Abandoned pre-vote requests are dropped, because their handlers change nothing.
- **Store failure in a handler.** `becomeFollower` inside a handler is followed by
  the new role's handler, which retries while the term is not stored. The model
  takes the retry to succeed and the node to be unhealthy; a failure that lasts
  exhausts the stack, which is `Restart`.
- **Log library.** `Read` and `GetLastIndex` do not fail within the log, and entries
  read back as they were written. A failing `Write` leaves a prefix of the new
  entries, a failing truncation leaves the log. A crash loses no entry of the log
  (each handler commits what it has written before it answers).
- **Two nodes or more.** In a cluster of one the elections are won without a call;
  that path is not modelled.
- **Not in this module:** `lastApplied`, the applier, waiting clients, sessions
  (`Serving`), compacted logs (`Compaction`).

## Properties

| Property | Says | Result |
|---|---|---|
| `TypeOK` | every field has its type; among others nextIndex stays positive | checked, proved |
| `VoteOnce` | one vote per node and term, over its whole life | checked, proved |
| `ElectionSafety` | one leader per term | checked, proved |
| `StoreNeverForgets` | persisted term and vote never go back | checked, proved |
| `LeaderHint` | the leader a healthy follower forwards to was elected in the follower's own term | checked, proved |
| `LogMatching` | same index and term: same prefix | checked, proved |
| `MatchIndexSound` | what the leader counts as replicated is there | checked, proved while no log write fails; violated when one does (`unsaved_ack`) |
| `LeaderCompleteness` | later leaders hold what was committed | checked, proved if besides no request is cut off by the batch limit; violated when one is (see `InitOverruled` below) |
| `CommittedEntriesAgree` | commit indexes never cover different entries | checked for three nodes, proved for any number if besides no request has entries newer than its term; violated with small batches (`small_batch`) and, with five nodes, by such a request (`stale_retry`) |
| `WinnerAppendsOnly` | in a term it has won, a node's log only grows | checked, proved |
| `CommitHasMajority` | at the moment of a commit a majority of logs holds the entry | checked, proved under the hypotheses of `LeaderCompleteness` |
| `ElectionsRefined` | the cluster implements `Elections` | checked, proved |

`Serving`:

| Property | Says | Result |
|---|---|---|
| `AppliedOnlyCommitted` | an applier or handler executes only the committed entry of an index | checked, proved |
| `StateMachineSafety` | the same of the replay at start | violated (`replay`) |
| `NothingSkipped` | up to `lastApplied` every committed entry was executed or repeats one that was | checked, proved |
| `AnswersAreCommitted` | a caller that gets a result has its request committed, at the index it waited for | checked, proved for readable requests |
| `RetriesNotApplied` | a request that is in the log twice is executed at one index | checked, proved |
| `CountedOnce` | for a day from the start an entry that two loops apply is counted once | checked, proved |
| `FirstOfficeApplies` | in the first office of a process no wake-up of the applier is lost | checked (liveness) |
| `FirstOfficeAnswers` | nor does a waiter of that office, its object not stopped, wait for ever | checked (liveness) |
| `WaitersAnswered` | no caller waits for ever | violated (`waiters`) |

`NothingSkipped` and the second part of `AnswersAreCommitted` are stated for processes whose
replay did no harm (`ReplayHarmless`): a session recorded for an uncommitted entry makes
the committed retry a duplicate, which is one more consequence of what `replay` shows.

`CounterService`:

| Property | Says | Result |
|---|---|---|
| `EveryIdHasItsSlot` | a remembered id is in the slot of its minute and in no other | checked, proved |
| `CountedOncePerDay` | an id is not counted twice within a day | checked, proved |
| `ForgottenAfterADay` | nor remembered longer, if there is an entry at least once a day | checked, proved |

`Compaction`:

| Property | Says | Result |
|---|---|---|
| `LeaderMissesNothing` | the leader's state machine, files and snapshots have every entry up to their index, in order, whatever happens | checked, proved |
| `ExactUnlessMishap` | state machines have executed each entry up to `lastApplied` once, unless there was a capture between the applier's steps, a rewind or a misplaced entry | checked, proved |
| `CompleteUnlessOverwritten` | file and log together lose nothing in a crash at this moment, unless a file was replaced by an older one | checked, proved |
| `MajorityUnlessMishap` | a commit of the leader's term rests on a majority although failed installs count as success, unless the follower has misplaced entries or lost a file | checked, proved |
| `FollowerMissesNothing` | the follower's state machine has every entry up to `lastApplied` | violated (`stale_install`) |
| `CommitHasMajority` | a commit of the leader's term rests on a majority | violated (`misplaced`) |
| `FollowerCatchesUp` | leader and follower do not send each other in circles | violated (`catch_up`) |

`FollowerHolds`, on which the majority rests, asks for the entry itself at its index, not
for a log that is long enough.

**Fairness.** `Raft` and `CounterService` assume none and state no liveness. `Serving`
assumes weak fairness of each thread (`ThreadStep(k)`: a goroutine that can run runs, and
a lock is not withheld from it for ever) and of `CommitOrLease`: an enabled leader with
uncommitted entries either gets them acknowledged or, when its lease runs out at some tick
(`main.go` ticks every 350 ms), steps down; this is one action because neither half is
certain alone. `Compaction` assumes weak fairness of `CallStep`, the heartbeat, the handlers
and the continuations: in every state one of them is the next, failures and crashes are
finitely many. It is what makes `catch_up` a failure of the code and not of its network.
Nothing is assumed of clients, operators, snapshots, late requests or the third node.
Where a behaviour may end because its events are used up the configuration turns the
deadlock check off; in the runs of `Compaction` and in `counter` it is on.

## Runs

For `Raft`, three nodes in all runs but one: the smallest cluster with a majority that is not
everyone, so one node can be behind, cut off or dead while the others go on. `MaxEvents` bounds
how often each uncontrolled event happens in one behaviour; everything else (every delivery,
continuation and retry, in every order) is unbounded. An event kind that is not named in a run
does not happen in it.

| Run | Start | Events | Checks |
|---|---|---|---|
| `cluster` | the empty cluster | 2 timeouts and 1 failing store write, or 2 timeouts and 1 crash, or 1 of each | all properties of `Raft` |
| | `Contested`: y leads term 2, x was leader of term 1 and holds an entry nobody else has, whose request to z is still on its way | 1 timeout, 1 failing call, 1 crash | |
| | `Elected`: x leads term 1, its no-op is everywhere | 1 timeout, 1 proposal, 1 lost lease, 1 disable | |
| `small_batch` | `InitElected`, batches of 1 | 1 timeout, 1 proposal, 1 failing call | violates `CommittedEntriesAgree` |
| `stale_retry` | `InitOvertaken`, five nodes: a leads term 3, c led term 2, b has heard of neither | none | violates `CommittedEntriesAgree` |
| `unsaved_ack` | `InitElected` | 1 proposal, 1 failing log write | violates `MatchIndexSound` |
| `serving` | a process with an empty log | any 4 of: 2 calls, 2 elections, 2 step-downs, 2 requests of another leader, 2 minutes, 1 disable, 1 lost caller, 2 crashes; logs of 3 entries | all properties of `Serving` but the violated ones |
| `replay` | the same | 1 call, 1 election, 1 crash | violates `StateMachineSafety` |
| `waiters` | the same | 1 call, 2 elections, 1 step-down | violates `WaitersAnswered` |
| `counter` | a new counter | 3 ids, 3 slots, 7 minutes | the properties of `CounterService` |
| `compaction` | a leader just elected over logs of 0, 1 or 2 entries | any 3 of: 2 proposals, 1 failed call, 1 crash, 2 snapshots; threshold 1, batches of 2, two callers of `TakeSnapshot` | all properties of `Compaction` but the violated ones |
| `stale_install` | the same over logs of 1 entry | 2 of: 2 proposals, 1 failed call, 1 snapshot | violates `FollowerMissesNothing` |
| `misplaced` | the same over empty logs | 2 proposals, 1 failed call, 1 snapshot | violates `CommitHasMajority` |
| `catch_up` | the same over empty logs | 3 of: 2 proposals, 1 failed call, 1 snapshot | violates `FollowerCatchesUp` |

Why the bounds are enough to be interesting: two timeouts are two candidates in
one term, or one node standing twice; the crash or failing write may fall on
either side of any vote. The contested start saves the steps that lead to two
diverging logs, and the further timeout brings a third term that may be won by
any log. Batches of 4 never cut a request in `cluster`. Every starting state is reachable
from `Init` by the steps its comment names; a request that is left out of one is a request that
never arrives.

In `serving` the client's request comes through this node and, as a retry, through another
leader, so the log can hold it twice; the other request has no session and data that begins like
one. Four events are enough for an office, a call in it, and then a second office, another
leader's request, a crash or a minute while the first applier is paused anywhere; a day has two
minutes, so it can pass. Seven minutes of `counter` are two days and a start of the third, with
every gap between two entries shorter or longer than a day. In `compaction` the opening entry of
the leader counts besides the proposals, so two snapshots of one node, one of each, or one and
an install overlap, and a crash or a failed call falls in any phase of them. `MaxStored` is
there because misplaced entries can be misplaced again with each heartbeat: the follower's log
then grows without end, and the bound cuts that off at 6.

`Symmetry` permutes the nodes of `cluster`, whose starting states give the parts to the nodes in
every order, and the callers of `TakeSnapshot` in `compaction`; no property names one of them.
`View` drops what no later step can use: tallies and leader objects of nodes that will never be
candidates or leaders again (no timeout is left), continuations that can only return, abandoned
requests of a term the receiver has left, and ballots of terms everybody has left. The
properties read the present leaders' objects and the votes of present terms, and a bad vote or
request is seen in the step that adds it, so nothing is missed.

### What the violations show

- `small_batch`: `setCommitIndex` clamps the leader's commit index to the end of the follower's
  own log and not to the last entry the request confirmed. After a failed call nextIndex is 1
  again; a batch that ends before a conflicting old entry lets the follower commit that entry.
  With the default `MaxBatchEntries` it takes a backlog longer than a batch.
- `stale_retry`: the continuation of an append call checks that the node leads, not that it
  still leads the term of the call. A node re-elected in a later term retries in the old term
  with entries of the new one. The receivers refuse it (their term is higher) or, if they are
  behind, take entries of a term they have not seen. In the run such a receiver takes an entry
  of term 3 in a request of term 1, with a commit index that covers it, and stays in term 1. A
  late request of term 2 is then newer than anything it knows, and `appendEntries` truncates
  without looking at the commit index. Three nodes rule this out: without the receiver the
  winner of term 3 needs the vote of the leader of term 2, and so has its entry.
  `CommittedLogsAgree` says that, but for failing log writes and requests cut off, there is no
  other way.
- `unsaved_ack`: `appendEntries` returns nothing, so a follower that could not write
  acknowledges all the same.
- `replay`: `NewRaft` applies the whole log. An entry that was written by a leader nobody
  acknowledged is executed at the next start, and stays executed when another leader replaces
  it.
- `waiters`: a leader commits its first entry and lays its office down before its applier has
  taken the token; `OnExit` closes `applierStopCh`, but the applier may take the token all the
  same. The node is elected again, takes a proposal and commits it. Now the first applier runs:
  it applies the proposal, finds no waiter in its own object and stores `lastApplied`. The
  second applier is woken and has nothing to apply. The caller has no answer although its entry
  is executed, and the HTTP handlers give it a context without an end. There are two more ways:
  an earlier applier puts `lastApplied` back or is woken instead of the present one, and a
  proposal that has passed the enabled check is registered with a leader that `Disable` has
  stopped in between.
- `stale_install`: after a failed append `nextIndex` is 1, which is not beyond the leader's
  snapshot, so it sends the snapshot to a follower that may be ahead of it. `installSnapshot`
  restores the state machine and leaves `lastApplied`: what was applied in between is gone.
- `misplaced`: a request with `prevLogIndex` 0 always passes the consistency check, and an entry
  that cannot be read counts as not there yet. In the run the follower has taken a snapshot of
  entry 1 and cut it off its log when an abandoned first request arrives: entry 1 is written a
  second time, behind entry 2. The entry at index 3 has the right term, so the real entry 3
  counts as present and is acknowledged, and the leader commits what it alone holds. The same
  happens without a snapshot of the follower's own when the late request arrives after an
  installed one.
- `catch_up`: a snapshot installed on an empty log, which is what a new server has, leaves the
  log where it is. The append behind the snapshot is refused because the log ends at 0, the hint
  sends `nextIndex` below the snapshot, and the snapshot is sent again and ignored.

Three more departures have no run of their own.

- A failed pre-vote returns the term it was asked about, one above the caller's, and the
  continuation adopts it (`candidate_role.go:189`, action `PreVoteFails`). Every election
  timeout of a cut-off node raises its term, which pre-voting is there to prevent
  (`src/README.md:286`). The properties of `Raft` hold in spite of it.
- From `InitOverruled` with `OldTallyEvents` and batches of 1, three nodes, TLC reports
  `LeaderCompleteness` violated: the continuation of `stale_retry` also advances the commit
  index, from the tally of the office it belongs to, which says how far the node's log reached
  then. The log was overwritten since and the node leads again, so one late acknowledgement
  makes a majority for an index where only this node has the entry it has now. If every request
  reaches the end of the log this cannot happen (`CommittedStaysInLeaders`).
- Two overlapping `TakeSnapshot`s, or one and an installed snapshot, leave the older file and
  the shorter log (`overwritten`), and a capture between the applier's two steps has an entry
  executed twice after a crash (`ahead`). Both happen in `compaction`, whose properties except
  them by name; without the exceptions TLC reports `CompleteUnlessOverwritten` and
  `ExactUnlessMishap` violated.

One more is kept out by what a property says. The commit index a process starts with is the
index of its snapshot (`raft.go:103-105`), and that snapshot may be of entries which an
earlier start replayed and nobody else holds. Without its first line `CommitHasMajority` of
`Compaction` says that such entries are on a majority, and fails after two crashes of the
leader; with it, it speaks of what the leader has committed since it was elected.

## Proofs

The theorems of the four `Raft...Proofs` modules are about `Raft`'s `Spec`, for every set of
nodes, batch size, set of values and event bounds that satisfy the assumptions of `Raft`: at
least two nodes, finitely many, `Nil` not a node (`NodeAssumption`), the no-op not a client
value (`DataAssumption`), batches of at least one entry (`BatchAssumption`), bounds that are
naturals (`EventAssumption`). As the bounds are arbitrary, they bound nothing in the proofs.

**`TypeCorrect`** (`Spec => []TypeOK`). `TypeOK` is not inductive: the continuation of
an append call reads `lead[i][r.obj]`, and a leader `lead[i][Len(lead[i])]`. `Shape` adds
that these exist (`LiveObjects`, `LeaderHasObject`). The lemmas below it say that the
functions of `RaftLog` return logs, indexes and terms, that a batch is a sequence of
entries even when nextIndex lies beyond the log, and that nextIndex stays at 1 or more
whatever a reply claims. There is one lemma per action.

**`OneVotePerTerm`, `OneLeaderPerTerm`, `StoreIsMonotonic`.** The invariant `Votes` follows
a vote: it is in the voter's store (`BallotsBelow`: every ballot is of a term the voter
has left, or is its current vote) before the answer that carries it (`GrantsAreBallots`),
which is before the tally (`VotesAreBallots`), and a leader's tally is a quorum
(`LeadersHaveQuorum`). `BallotsBelow` makes `VoteOnce` inductive; two quorums of one
cluster meet, and the voter they share voted once, hence one leader. The point that
needs care is `startElection`: between its two store writes the vote of the old term
stands beside the new term, and a crash there leaves it so. The node then votes for
nobody but that earlier candidate in the new term, and `BallotsBelow` still holds because
no ballot of the new term exists. Most steps neither give nor count a vote; they
satisfy `QuietStep`, for which the invariant is preserved once and for all.

**`RaftRefinesElections`** (`Spec => Promised!Spec /\ ElectionsRefined`; the second is what the run
checks, whose other starting states are none of `Elections`). Terms, ballots and the set of
leaders of `Raft` are read as the variables of `Elections`. `Votes` and `Shape` hold in every
state, so each action is shown to be a step of `Elections` from them: a `QuietStep` is
`Advance` when terms only rise and no office outlives its term; a granted request and a
candidate's own ballot are `Vote`, where `BallotsBelow` gives that no ballot of a later
term exists; `becomeLeader` is `Win`, where `VotesAreBallots` gives the quorum.

**`LogsMatch`, `HintIsElected`, `WinnersOnlyAppend`.** `LogMatching` alone is not inductive: it
says nothing of the requests under way, and a request is not a piece of its sender's log
for long. The retry of an append call carries its old term with entries read later, the
sender may have been overwritten since, and an abandoned request arrives at any time. `Logs`
therefore speaks of *views*: a log is one, and so is the previous entry and the batch
of a request. `ViewsAgree`: where two views have the same term at the same index they
agree up to it. Splicing a batch into a log that passed the consistency check gives a log
whose every entry is seen by one of two views that already agree. What makes new entries
safe is `Origins`: the term of each entry was won by a node that has left the term or
still holds an entry of that term at that index, so the leader that appends at the end of
its log creates the first entry of its term there. `Requests` gives who sent a request
and that the sender has won its term, `LeadersKnow` and `LeaderHint` that the leader a
node knows has won the node's own term, which is why a winner truncates nothing in it: the
only request of that term is its own, and none is sent to itself. Each action is shown
to satisfy `LogStep`, which preserves `Logs`; `Shape` and `Votes` come from the
theorems above.

**`CountedIsReplicated`, `CommittedStaysInLeaders`, `CommitIsOnMajority`, `CommittedLogsAgree`.**
These are the commit properties, for every number of nodes, odd or even. They have hypotheses,
each of which the program does not ensure and TLC shows to be needed; they are written in
the theorems, as `[]H` beside `Spec`, and are no assumptions of a module:

| Hypothesis | Says | Without it | Needed for |
|---|---|---|---|
| `NoLogFailure` | no write to a log has failed | `unsaved_ack` | all four |
| `BatchesFit` | every request has fewer entries than the batch limit (2048 by default), so none is cut off | `small_batch`, and `InitOverruled` above | the last three |
| `RequestHasLeadersTerm` | no request has an entry newer than its own term | `stale_retry` | `CommittedLogsAgree` |

The first two hold in every state of the passing run `cluster`, the third in most of them.
Nothing is assumed of elections, late or lost calls, store failures, operators and crashes.
Together with the runs the theorems say that these three are the only ways the code departs from
Raft's guarantees, as far as `Raft` models it.

The argument uses of the actions only what `RaftLogProofs` says of every step (`LogStep`,
`CommitStep`, `VoteStep`), and has two invariants.

- `Counts`, for `MatchIndexSound`. An acknowledgement says what was in a request, not what is in
  two logs. `CallsFromLog`: as long as its sender is in the request's term, the request is a
  stretch of the sender's log, because a winner only appends; `OneTerm`: a leader object counts
  for one term; `Synced`: whoever the tally of the present term counts is in that term with the
  same entries, or has left it. `Started`: no vote is given in a term that has not begun.
- `Safe`, for the others. Raft's own argument, that a committed entry is on a majority and so in
  the log of every later winner, is about one office. Here an office may be counted for in a
  later one. So `Tallies` follows every tally that can still be used (`LiveObj`), together with
  the answers on their way to it (`Acked`): either whoever it counts for k entries will vote for
  nobody whose log does not reach entry k of its term (`Kept`), or so many have left the term
  uncounted that it will never reach a majority for k (`Blocked`). A step that could make the
  first false, an office won by a shorter log (`Overruled`), makes the second true, since the
  winner's voters have left the term. A majority that is counted makes its entry `Chosen`: some
  log has it, no log goes past its term without it (`Crossing`), and a majority is `Kept`.
  `Commits`, `CommitKnown` and `CallCommits` tie what leaders declared, commit indexes and the
  ones in requests to chosen entries. `Runs` has the facts on logs that this needs: terms do not
  fall along a log, and the entries of one term are one run that starts at one index wherever it
  is (`RunsAgree`); both need that requests reach the end of a log, which is where `BatchesFit`
  enters.
- `CommitHeld` and `LogsBelow`, for `CommittedEntriesAgree`: a node holds what it has committed,
  and no log is ahead of its owner's term. With the latter a late request cannot replace a
  chosen entry, as every log that goes past the entry's term has the entry.

**`CounterTypeOK`, `IdsKeepTheirSlots`** (`CounterService`, any `Id`, any positive
`NumberOfSlots`). The invariant must hold of the saved counter too, or `Restore` would break
it: `IInv` is `TypeOK` and `Sound` of the live counter and of the snapshot. The lemmas say that
`ClearMinutes`, `MoveTo` and `Apply` preserve `Sound`.

**`IdsCountedOncePerDay`, `IdsForgottenAfterADay`** (the same constants). `Sound` says in which
slot an id is, not when it was put there. `Dated` relates the two: the counter's minute is
the time of its last entry on the clock's face, an id counted within the last day is
present, and one that is present is younger than a day unless no entry came for one.
It holds of the live counter and of the saved one, with the history that was saved beside it.
The arithmetic is in lemmas about the face (`ModUnique`, `MinutesLater`,
`RecentMinuteStays`, `OldMinutePassed`): a minute less than a day old is not among those that
clearing passes, and one that is exactly a day old is.

**`TypesHold`, `DisksComplete`, `LeaderComplete`, `StateMachinesExact`, `CommitsHaveMajority`**
(`Compaction`, any callers of `TakeSnapshot`, threshold, batch size, initial logs, number of
entries, failed and late calls and crashes). No hypothesis: what the code does not
exclude is named in the properties. The layers of the invariant:

- `TypeOK` itself is inductive; the lemmas say that batches, splices and hints are what the
  functions on logs return.
- `Disks`: a node's file is never behind anything that relies on it, the log's beginning, the
  snapshot index or a `TakeSnapshot` that has saved, as long as it was not replaced by an older
  one.
- `Terms`: the leader's log has every entry at its index, an append request carries the entries
  behind its index, and late requests are of the leader's term or an earlier one.
- `Copies`: whatever can become the leader's state (state machine, file, captures, installs
  under way or late) covers its index, and is exact while no capture was `ahead`. Afterwards an
  entry may be there twice, but none missing or out of order.
- `FollowerRight`, `FollowerExact`: while nothing was misplaced the follower's log has the
  entries at their indexes; while nothing was rewound and no capture ahead either, its state
  machine, file and captures are exact.
- `OnlySettled`: what the leader applies, saves and sends as a snapshot is `Settled`, committed
  or from before its term, so a failed install that counts as an acknowledgement acknowledges
  nothing its term has written. `Acknowledged`: what an append has acknowledged lies within what
  the follower holds (`Extent`), which never shrinks (`FollowerKeeps`), unless entries were
  misplaced or a file lost; `FollowerRight` makes that the entries themselves.

So `rewound`, `misplaced`, `ahead` and `overwritten` are the only ways in which the module, that is
one leader with any failures and crashes, departs from what compaction promises; each
is reachable.

**`ServingTypes`, `OnlyCommittedApplied`, `NoEntrySkipped`, `RetriesOnce`, `AnswersRight`,
`OnceCounted`** (`Serving`, any requests, any number of leader objects, crashes, received
requests and minutes, any `NumberOfSlots`). So any number of appliers that were stopped may
still run beside the current one and the handler, and the trigger may go to any of them. The
assumptions are those of `Serving` and `Counter`: `Id` contains what is read back as data,
nothing else. The layers:

- `Shape`: the types, that an applier has its leader object, and that the replay runs alone.
- `Order`: a loop's limit was a commit index when it was read, so whatever is truncated and
  rewritten while the loop is paused, the entries up to it are the committed ones
  (`OnCommitted`); the replay is on the log as the process has found it (`Replaying`).
  `AppliedOnlyCommitted` follows from where executed entries come from (`Origins`).
- `Coverage`: everything before the entry a loop is at has been executed, has no data or repeats
  a request, and so has everything up to `lastApplied`. This is what makes a `lastApplied` that
  goes backwards harmless: the stored value is behind, never ahead. It needs to know that the
  session table has exactly the highest number executed of each client (`SessionsRight`), since
  a loop passes over an entry on the table's word.
- `Retries`: `RetriesNotApplied` is not inductive, because a loop looks a request up in one step
  and records it in another. The invariant adds the loops between the two. If two of them had
  the same request at different indexes, the one further on would have the other's index behind
  it, covered, and the request would have been found in the table.
- `Answers`: only the object in office has waiters, each registered at the index of its own
  entry; an applier tells those of an index it has committed. `AnswersRight` has the hypothesis
  `Readable` (every request is `Unambiguous`), which the code does not check, as for
  `RoundTrip`. The part about answers from the session table speaks of processes all of whose
  starts did no harm (`starts`, `ReplayHarmless`), as an answer may be older than the last
  start.
- `Count`: the slots in use are of minutes since the start (`Young`), and within a day of it the
  clock does not come round to one of them (`ClockProofs`), so nothing is forgotten and the
  value is the number of payloads executed. Afterwards this is false of the code, as it
  should be; what happens over days is `CounterService`'s.

**`RoundTrip`** (`LogEntries`, in `ServingProofs`): `Deserialize(Serialize(e)) = e` for every
entry that is `Unambiguous`: its client id is not longer than the limit, or it has no session at
all and its data does not begin like one. The hypothesis is needed, and the program does not
guarantee it: proposals are not checked for it.

**Model-checked only.** Every safety property that a passing run checks is the statement of a
theorem, some under hypotheses. What stays with TLC: `CommittedEntriesAgree` for three nodes
without `RequestHasLeadersTerm`, which no proof for every number of nodes can have, as
`stale_retry` shows; and the liveness properties `FirstOfficeApplies` and `FirstOfficeAnswers`.
Liveness, `ENABLED` and facts that need induction over data are out of the prover's reach.

## Not modelled, and the plan

- **Ticks and the lease** as numbers: a timer may be due at any tick. Whether the lease
  outlasts an election elsewhere depends on the ratio of two processes' tickers.
- **Clusters of one**, which elect themselves without a call.
- **Snapshots with sessions.** The session table is not saved, so a node that starts from a
  snapshot forgets its clients; needs `Serving` with a compacted log.
- **Two replicas' clocks.** `Apply` reads the local clock, so replicas forget at different times.
- **A candidate's leaderId**, to which it forwards and which may be of an older term.
- **Inside `SaveSnapshot` and `installSnapshot`**: the shared temporary file, a crash
  between the file and the log, the older file format.
- **Code without a caller**: the session table's serialization, the entry format with a
  checksum, `Config.Validate`.
- **Forwarded proposals**: `Transport.Propose` leaves the model.

Next: sessions in compacted logs, that is `Serving` over the logs of `Compaction`; then
`installSnapshot` in its steps.

The HTTP server, flags, load scripts and infrastructure hold no logic of their own
and are left out.
