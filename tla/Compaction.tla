----------------------------- MODULE Compaction -----------------------------
(***************************************************************************)
(* Snapshots and the compacted log: TakeSnapshot in its three phases, the  *)
(* snapshot file, installSnapshot and resetLog, the choice between         *)
(* AppendEntries and InstallSnapshot, the follower's consistency check at  *)
(* the snapshot boundary, and the recovery in NewRaft.                     *)
(*                                                                         *)
(* One leader and one follower of a cluster of three are modelled in full; *)
(* of the third node only the index up to which it stores the log and the  *)
(* one it has acknowledged.  The leader stays the only one to win          *)
(* elections, so its log is only ever cut at the beginning, and an entry   *)
(* is named by the index at which the leader wrote it.  In the follower's  *)
(* log it may come to stand at another one.  A term is named by any entry  *)
(* of it: SameTerm says which entries belong together.  Raft is about      *)
(* diverging logs, this module about where a compacted log begins and what *)
(* state stands for the part that is gone.                                 *)
(*                                                                         *)
(* A call that fails for the leader may reach the follower all the same:   *)
(* its request stays in `late` and is handled at any time or never.        *)
(*                                                                         *)
(* The log library is external: as the code uses it, TruncateTo(k) drops   *)
(* the entries up to k, TruncateFrom(k) those from k on, an empty segment  *)
(* file named k begins a log whose first entry will be k, GetLastIndex is  *)
(* the index before the next one to be written, and Write knows no other   *)
(* place than that.                                                        *)
(***************************************************************************)
EXTENDS Integers, Sequences, FiniteSets

CONSTANTS
    SnapshotThreshold,   \* config.SnapshotThreshold
    MaxBatchEntries,     \* config.MaxBatchEntries
    Taker,               \* those who call TakeSnapshot: the ticker, requests to /snapshot
    InitialLogs          \* how many entries all nodes may hold at the beginning

\* Bounds for TLC: the last index up to which a follower may write, misplaced
\* entries included (they make its log grow without end), how often each of
\* these events happens, and how often all of them together.
CONSTANTS MaxStored, MaxEvents, MaxTotal

\* A client proposes, a call fails, a process dies, a snapshot is taken.
EventKind == {"propose", "failure", "crash", "snapshot"}

L == "leader"
F == "follower"
Node == {L, F}

ASSUME CompactionAssumption ==
    /\ SnapshotThreshold \in Nat /\ MaxBatchEntries \in Nat
    /\ InitialLogs \subseteq Nat
    /\ MaxStored \in Nat /\ MaxEvents \in [EventKind -> Nat] /\ MaxTotal \in Nat

VARIABLES
    log,             \* log[n]: the first index still stored, and the entries
    file,            \* file[n]: snapshot.data; index 0 when there is none
    snapshotIndex,
    snapshotTerm,    \* an entry of the term, as in file[n].term; 0 when there is none
    commitIndex, lastApplied,
    fsm,             \* fsm[n]: what the state machine has executed, in order
    applying,        \* the leader's applier has applied an entry it has not recorded
    taking,          \* taking[n][t]: how far the TakeSnapshot of t has got
    nextIndex, matchIndex,   \* of the follower, at the leader
    opened,          \* the entries that opened a term of the leader
    term,            \* the leader's term: the entry that opened it
    followerTerm,    \* the follower's currentTerm, 0 before it has heard of any
    third,           \* the third node: the index it stores, and the one acknowledged
    call,            \* the call to the follower that is in flight
    late,            \* requests whose caller has given up
    mishaps,         \* history: <<what, node>>, see Mishap
    events           \* events[e]: how often e has happened

snapVars   == <<file, snapshotIndex, snapshotTerm>>
logVars    == <<log, commitIndex, lastApplied, fsm>>
nodeVars   == <<logVars, snapVars>>
leaderVars == <<nextIndex, matchIndex, opened, term, third>>
netVars    == <<call, late>>
vars == <<nodeVars, applying, taking, leaderVars, followerTerm, netVars, mishaps, events>>

Total == events["propose"] + events["failure"] + events["crash"] + events["snapshot"]

Happen(e) ==
    /\ events[e] < MaxEvents[e] /\ Total < MaxTotal
    /\ events' = [events EXCEPT ![e] = @ + 1]

\* What the histories of `mishaps` tell.  ahead: a snapshot was captured
\* between the two steps of the applier; overwritten: a snapshot file was
\* replaced by an older one; rewound: a snapshot older than lastApplied was
\* restored; misplaced: entries were written at other indexes than their own.
Mishap == {"ahead", "overwritten", "rewound", "misplaced"}

Happened(what, n) == <<what, n>> \in mishaps

\* The histories after a step in which `what` happens to n if P holds.
Noted(what, n, P) == IF P THEN mishaps \cup {<<what, n>>} ELSE mishaps

Larger(a, b)  == IF a > b THEN a ELSE b
Smaller(a, b) == IF a < b THEN a ELSE b

----------------------------------------------------------------------------
(* The log of one node.                                                    *)

LastIndex(lg) == lg.first + Len(lg.entries) - 1

Held(lg, k) == k \in lg.first .. LastIndex(lg)

EntryAt(lg, k) == lg.entries[k - lg.first + 1]

\* Entries a and b have the same term: no term was opened between them.
SameTerm(a, b) == \A s \in opened : (s <= a) = (s <= b)

\* The entries from index a to the end; none when a is past the end.
EntriesFrom(lg, a) == SubSeq(lg.entries, a - lg.first + 1, Len(lg.entries))

Written(lg, entries) == [lg EXCEPT !.entries = @ \o entries]

TruncateTo(lg, k) ==
    IF k < lg.first THEN lg ELSE [first |-> k + 1, entries |-> EntriesFrom(lg, k + 1)]

TruncateFrom(lg, k) == [lg EXCEPT !.entries = SubSeq(@, 1, k - lg.first)]

\* resetLog(k + 1), as installSnapshot calls it.
ResetLog(k) == [first |-> k + 1, entries |-> <<>>]

\* What installSnapshot does to the log.  An empty log is left where it is.
LogAfterInstall(lg, k) ==
    IF LastIndex(lg) > 0 /\ LastIndex(lg) <= k THEN ResetLog(k)
    ELSE IF LastIndex(lg) > k THEN TruncateTo(lg, k)
    ELSE lg

\* The entries of a request that the log cannot read at their index, or reads
\* with another term.
Absent(lg, prev, entries) ==
    {i \in 1..Len(entries) : ~(/\ Held(lg, prev + i)
                               /\ SameTerm(EntryAt(lg, prev + i), entries[i]))}

\* appendEntries: at the first absent entry the log is cut if it reads one of
\* another term there; then the rest is written, which means at the end of the
\* log.  That is where it belongs unless those indexes were compacted away.
Base(lg, k) == IF Held(lg, k) THEN TruncateFrom(lg, k) ELSE lg

FirstAbsent(lg, prev, entries) ==
    CHOOSE i \in Absent(lg, prev, entries) : \A j \in Absent(lg, prev, entries) : i <= j

AppendEntries(lg, prev, entries) ==
    LET from == FirstAbsent(lg, prev, entries)
    IN  IF Absent(lg, prev, entries) = {} THEN lg
        ELSE Written(Base(lg, prev + from), SubSeq(entries, from, Len(entries)))

\* Those entries do not get the index they have in the request.
Misplaces(lg, prev, entries) ==
    LET from == FirstAbsent(lg, prev, entries)
    IN  Absent(lg, prev, entries) # {} /\ LastIndex(Base(lg, prev + from)) + 1 # prev + from

SetCommitIndex(lg, current, index) ==
    IF LastIndex(lg) = 0 THEN current
    ELSE Larger(current, Smaller(index, LastIndex(lg)))

\* How far a loop over the log from index k + 1 gets that ends at limit or at
\* the first entry it cannot read.
Reached(lg, k, limit) ==
    IF Held(lg, k + 1) THEN Larger(k, Smaller(limit, LastIndex(lg))) ELSE k

\* The state machine after that loop.
Executed(done, lg, k, limit) ==
    done \o [i \in 1 .. Reached(lg, k, limit) - k |-> EntryAt(lg, k + i)]

UpTo(k) == [i \in 1..k |-> i]

----------------------------------------------------------------------------
(* Calls.                                                                  *)

NoCall == [at |-> "none", kind |-> "append", term |-> 0, index |-> 0, prev |-> 0,
           entries |-> <<>>, commit |-> 0, ok |-> FALSE, hint |-> 0, conflict |-> 0, id |-> 0]

\* An entry of the term that the leader has for its entry k: from snapshotTerm
\* or from the log, 0 if it cannot be read.
TermAt(lg, snap, snapTerm, k) ==
    IF k = snap THEN snapTerm ELSE IF Held(lg, k) THEN EntryAt(lg, k) ELSE 0

\* sendAppendEntriesToAllNodes and retrySendAppendEntriesToNode, for the
\* follower: what is sent in term t when nextIndex is next (0 would mean
\* unset), up to the first entry that cannot be read.  The goroutine that
\* installs a snapshot has yet to load the file.
Sent(t, next, lg, snap, snapTerm, commit) ==
    LET from == IF next = 0 THEN LastIndex(lg) + 1 ELSE next
        to   == IF Held(lg, from) THEN Smaller(LastIndex(lg), from + MaxBatchEntries - 1)
                ELSE from - 1
    IN  IF snap > 0 /\ next <= snap
          THEN [NoCall EXCEPT !.at = "loading", !.kind = "install", !.term = t]
          ELSE [NoCall EXCEPT !.at = "request", !.term = t, !.index = from - 1,
                              !.prev = TermAt(lg, snap, snapTerm, from - 1),
                              !.entries = [i \in 1 .. to - from + 1 |->
                                             EntryAt(lg, from + i - 1)],
                              !.commit = commit]

\* tryToAdvanceCommitIndex, with the match indexes of the leader, the follower
\* and the third node: as the leader's own is never below the others, the
\* middle one of the three is the larger of those.  An entry of an earlier
\* term, or one that cannot be read any more, changes nothing.
Advanced(lg, current, match, ack) ==
    LET candidate == Larger(match, ack)
    IN  IF Held(lg, candidate) /\ SameTerm(EntryAt(lg, candidate), term)
          THEN SetCommitIndex(lg, current, candidate) ELSE current

\* Wrong variant: an acknowledgement counts for the whole log of the leader.
LastSentEverything(c) == LastIndex(log[L])

\* The last index a successful append request has shown the follower to hold.
LastSent(c) == c.index + Len(c.entries)

----------------------------------------------------------------------------
(* The leader.                                                             *)

Commit(c) == commitIndex' = [commitIndex EXCEPT ![L] = c]

\* HandlePropose: the entry is written and sent, unless a call is in flight.
Propose ==
    LET lg == Written(log[L], <<LastIndex(log[L]) + 1>>)
    IN  /\ Happen("propose")
        /\ log' = [log EXCEPT ![L] = lg]
        /\ call' = IF call.at # "none" THEN call
                   ELSE Sent(term, nextIndex, lg, snapshotIndex[L], snapshotTerm[L],
                             commitIndex[L])
        /\ UNCHANGED <<commitIndex, lastApplied, fsm, snapVars, applying, taking, leaderVars,
                       followerTerm, late, mishaps>>

\* Tick: a heartbeat goes out unless a call is in flight.
Heartbeat ==
    /\ call.at = "none"
    /\ call' = Sent(term, nextIndex, log[L], snapshotIndex[L], snapshotTerm[L], commitIndex[L])
    /\ UNCHANGED <<nodeVars, applying, taking, leaderVars, followerTerm, late, mishaps,
                   events>>

\* The third node has everything up to k and the leader learns of it.
ThirdAcknowledges(k) ==
    /\ k > third.acked
    /\ third' = [stored |-> Larger(third.stored, k), acked |-> k]
    /\ Commit(Advanced(log[L], commitIndex[L], matchIndex, k))
    /\ UNCHANGED <<log, lastApplied, fsm, snapVars, applying, taking, nextIndex, matchIndex,
                   opened, term, followerTerm, netVars, mishaps, events>>

\* The applier: the entry after lastApplied is applied ...
Apply ==
    /\ ~applying
    /\ lastApplied[L] < commitIndex[L] /\ Held(log[L], lastApplied[L] + 1)
    /\ applying' = TRUE
    /\ fsm' = [fsm EXCEPT ![L] = Executed(@, log[L], lastApplied[L], lastApplied[L] + 1)]
    /\ UNCHANGED <<log, commitIndex, lastApplied, snapVars, taking, leaderVars, followerTerm,
                   netVars, mishaps, events>>

\* Wrong variant: after one entry the whole commit is taken for applied.
RecordCommitted ==
    /\ applying
    /\ applying' = FALSE
    /\ lastApplied' = [lastApplied EXCEPT ![L] = commitIndex[L]]
    /\ UNCHANGED <<log, commitIndex, fsm, snapVars, taking, leaderVars, followerTerm, netVars,
                   mishaps, events>>

\* ... and lastApplied is stored afterwards, without Raft.mu.
RecordApplied ==
    /\ applying
    /\ applying' = FALSE
    /\ lastApplied' = [lastApplied EXCEPT ![L] = @ + 1]
    /\ UNCHANGED <<log, commitIndex, fsm, snapVars, taking, leaderVars, followerTerm, netVars,
                   mishaps, events>>

\* sendInstallSnapshotToNode loads the file, outside Raft.mu, and calls.
LoadFile ==
    /\ call.at = "loading"
    /\ call' = [call EXCEPT !.at = "request", !.index = file[L].index,
                            !.prev = file[L].term, !.entries = file[L].data]
    /\ UNCHANGED <<nodeVars, applying, taking, leaderVars, followerTerm, late, mishaps,
                   events>>

\* Wrong variant: the hint is taken as it is.
HintAsIs(hint, conflict) == hint

\* GetLastLogEntryIndexOfTerm, for the term of entry e.
IndexesOfTerm(lg, e) == {i \in lg.first .. LastIndex(lg) : SameTerm(EntryAt(lg, i), e)}

\* The new nextIndex after a refusal: behind the last entry of the conflicting
\* term, if the leader has one, and otherwise the hint, never below 1.
NextAfterRefusal(hint, conflict) ==
    LET same == IndexesOfTerm(log[L], conflict)
    IN  IF conflict # 0 /\ same # {} THEN (CHOOSE i \in same : \A j \in same : j <= i) + 1
        ELSE Larger(hint, 1)

\* The continuation of sendAppendEntriesToNode.
AppendReturns(ok, hint, conflict) ==
    LET match  == IF ok THEN Larger(matchIndex, LastSent(call)) ELSE matchIndex
        next   == IF ok THEN Larger(nextIndex, LastSent(call) + 1)
                  ELSE IF nextIndex > 1 THEN NextAfterRefusal(hint, conflict) ELSE nextIndex
        commit == IF ok THEN Advanced(log[L], commitIndex[L], match, third.acked)
                  ELSE commitIndex[L]
        retry  == IF ok THEN next <= LastIndex(log[L]) ELSE nextIndex > 1
    IN  /\ matchIndex' = match
        /\ nextIndex' = next
        /\ Commit(commit)
        /\ call' = IF ~retry THEN NoCall
                   ELSE Sent(term, next, log[L], snapshotIndex[L], snapshotTerm[L], commit)

\* The continuation of sendInstallSnapshotToNode: no reply can say no.
InstallReturns ==
    LET match == Larger(matchIndex, call.index)
    IN  /\ matchIndex' = match
        /\ nextIndex' = Larger(nextIndex, call.index + 1)
        /\ Commit(Advanced(log[L], commitIndex[L], match, third.acked))
        /\ call' = NoCall

ReplyArrives ==
    /\ call.at = "reply"
    /\ \/ call.kind = "append" /\ AppendReturns(call.ok, call.hint, call.conflict)
       \/ call.kind = "install" /\ InstallReturns
    /\ UNCHANGED <<log, lastApplied, fsm, snapVars, applying, taking, opened, term, third,
                   followerTerm, late, mishaps, events>>

\* Nobody waits for the request any more, but it may still arrive.  The id
\* tells equal requests apart.
Abandoned ==
    IF call.at = "request" THEN late \cup {[call EXCEPT !.id = Total + 1]} ELSE late

\* The call fails, before or after the follower has handled it: Transport
\* answers (term, false, 0, 0) to an append request and the caller's own term,
\* which is what success looks like, to an install request.
CallFails ==
    /\ call.at \in {"request", "reply"} /\ Happen("failure")
    /\ late' = Abandoned
    /\ \/ call.kind = "append" /\ AppendReturns(FALSE, 0, 0)
       \/ call.kind = "install" /\ InstallReturns
    /\ UNCHANGED <<log, lastApplied, fsm, snapVars, applying, taking, opened, term, third,
                   followerTerm, mishaps>>

----------------------------------------------------------------------------
(* The follower.                                                           *)

\* The first check of HandleAppendEntries, and checkLogConsistency.
PredecessorHeld(index, prev) ==
    /\ index <= LastIndex(log[F])
    /\ \/ index = 0
       \/ index = snapshotIndex[F] /\ SameTerm(snapshotTerm[F], prev)
       \/ /\ index > snapshotIndex[F] /\ Held(log[F], index)
          /\ SameTerm(EntryAt(log[F], index), prev)

\* The first index behind the snapshot of the entries before k that have the
\* term of entry k.
RunStart(lg, snap, k) ==
    CHOOSE j \in Larger(snap + 1, lg.first) .. k :
        /\ \A i \in j .. k : SameTerm(EntryAt(lg, i), EntryAt(lg, k))
        /\ j > Larger(snap + 1, lg.first) => ~SameTerm(EntryAt(lg, j - 1), EntryAt(lg, k))

\* A refusal: where the leader is told to go on, and an entry of the term that
\* is in the way, 0 if none is.
Refusal(r) ==
    LET lg == log[F]
        sn == snapshotIndex[F]
        no == [r EXCEPT !.at = "reply", !.ok = FALSE]
    IN  IF r.index > LastIndex(lg) THEN [no EXCEPT !.hint = LastIndex(lg) + 1]
        ELSE IF r.index <= sn THEN [no EXCEPT !.hint = sn + 1]
        ELSE IF ~Held(lg, r.index) THEN [no EXCEPT !.hint = r.index]
        ELSE [no EXCEPT !.hint = RunStart(lg, sn, r.index), !.conflict = EntryAt(lg, r.index)]

\* What is answered to r; an InstallSnapshot has only one answer.  Requests of
\* a term that is over are answered to nobody.
Answer(r) ==
    IF r.kind = "append" /\ ~PredecessorHeld(r.index, r.prev) THEN Refusal(r)
    ELSE [r EXCEPT !.at = "reply", !.ok = TRUE]

\* HandleAppendEntries, from the consistency check on: append, take over the
\* commit index, apply.
HandleAppendEntries(r) ==
    LET lg == AppendEntries(log[F], r.index, r.entries)
        c  == SetCommitIndex(lg, commitIndex[F], r.commit)
    IN  /\ \/ /\ ~PredecessorHeld(r.index, r.prev)
              /\ UNCHANGED <<logVars, mishaps>>
           \/ /\ PredecessorHeld(r.index, r.prev) /\ LastIndex(lg) <= MaxStored
              /\ log' = [log EXCEPT ![F] = lg]
              /\ commitIndex' = [commitIndex EXCEPT ![F] = c]
              /\ lastApplied' = [lastApplied EXCEPT ![F] = Reached(lg, @, c)]
              /\ fsm' = [fsm EXCEPT ![F] = Executed(@, lg, lastApplied[F], c)]
              /\ mishaps' = Noted("misplaced", F, Misplaces(log[F], r.index, r.entries))
        /\ UNCHANGED snapVars

\* Wrong variant: lastApplied is left where it was.
AppliedKept(current, k) == current

AppliedAfterInstall(current, k) == Larger(current, k)

\* installSnapshot: the state machine is restored whatever it has applied;
\* the commit index and lastApplied are only ever raised.
Install(k, t, data) ==
    /\ file' = [file EXCEPT ![F] = [index |-> k, term |-> t, data |-> data]]
    /\ fsm' = [fsm EXCEPT ![F] = data]
    /\ snapshotIndex' = [snapshotIndex EXCEPT ![F] = k]
    /\ snapshotTerm' = [snapshotTerm EXCEPT ![F] = t]
    /\ commitIndex' = [commitIndex EXCEPT ![F] = Larger(@, k)]
    /\ lastApplied' = [lastApplied EXCEPT ![F] = AppliedAfterInstall(@, k)]
    /\ log' = [log EXCEPT ![F] = LogAfterInstall(@, k)]
    /\ mishaps' = Noted("rewound", F, k < lastApplied[F])
                     \cup Noted("overwritten", F, k < file[F].index)

\* HandleInstallSnapshot, behind the comparison of the terms.
HandleInstallSnapshot(r) ==
    \/ /\ r.index <= snapshotIndex[F]
       /\ UNCHANGED <<nodeVars, mishaps>>
    \/ /\ r.index > snapshotIndex[F]
       /\ Install(r.index, r.prev, r.entries)

\* Both handlers take over a higher term and do nothing in a lower one.
Handle(r) ==
    \/ /\ r.term < followerTerm
       /\ UNCHANGED <<nodeVars, followerTerm, mishaps>>
    \/ /\ r.term >= followerTerm
       /\ followerTerm' = r.term
       /\ \/ r.kind = "append" /\ HandleAppendEntries(r)
          \/ r.kind = "install" /\ HandleInstallSnapshot(r)

RequestArrives ==
    /\ call.at = "request"
    /\ Handle(call)
    /\ call' = Answer(call)
    /\ UNCHANGED <<applying, taking, leaderVars, late, events>>

\* The follower handles a request that its caller has given up.
LateRequestArrives(r) ==
    /\ Handle(r)
    /\ late' = late \ {r}
    /\ UNCHANGED <<applying, taking, leaderVars, call, events>>

----------------------------------------------------------------------------
(* TakeSnapshot, on a ticker of its own or by a request of the operator.   *)
(* Nothing keeps two of them apart.                                        *)

NotTaking == [at |-> "idle", index |-> 0, term |-> 0, data |-> <<>>]

Take(n, t, s) == taking' = [taking EXCEPT ![n] = [@ EXCEPT ![t] = s]]

\* Phase 1, under Raft.mu: lastApplied and the state machine are read.  The
\* leader's applier does not hold Raft.mu.
Capture(n, t) ==
    /\ taking[n][t].at = "idle"
    /\ lastApplied[n] > snapshotIndex[n]
    /\ lastApplied[n] - snapshotIndex[n] >= SnapshotThreshold
    /\ Held(log[n], lastApplied[n])
    /\ Take(n, t, [at |-> "captured", index |-> lastApplied[n],
                   term |-> EntryAt(log[n], lastApplied[n]), data |-> fsm[n]])
    /\ Happen("snapshot")
    /\ mishaps' = Noted("ahead", n, n = L /\ applying)
    /\ UNCHANGED <<nodeVars, applying, leaderVars, followerTerm, netVars>>

\* Phase 2, outside Raft.mu: SaveSnapshot writes a temporary file and renames
\* it over snapshot.data.
Save(n, t) ==
    LET s == taking[n][t]
    IN  /\ s.at = "captured"
        /\ file' = [file EXCEPT ![n] = [index |-> s.index, term |-> s.term, data |-> s.data]]
        /\ Take(n, t, [s EXCEPT !.at = "saved"])
        /\ mishaps' = Noted("overwritten", n, s.index < file[n].index)
        /\ UNCHANGED <<logVars, snapshotIndex, snapshotTerm, applying, leaderVars, followerTerm,
                       netVars, events>>

\* Wrong variant: the log is cut without waiting for the file.
CapturedAlready(s) == s.at # "idle"

FileWritten(s) == s.at = "saved"

\* Phase 3, under Raft.mu: the boundary moves unless a newer snapshot was
\* taken or installed, and the log is cut if it goes on behind the snapshot.
Adopt(n, t) ==
    LET s   == taking[n][t]
        new == s.index > snapshotIndex[n]
        cut == new /\ LastIndex(log[n]) > s.index
    IN  /\ FileWritten(s)
        /\ snapshotIndex' = [snapshotIndex EXCEPT ![n] = IF new THEN s.index ELSE @]
        /\ snapshotTerm' = [snapshotTerm EXCEPT ![n] = IF new THEN s.term ELSE @]
        /\ log' = [log EXCEPT ![n] = IF cut THEN TruncateTo(@, s.index) ELSE @]
        /\ Take(n, t, NotTaking)
        /\ UNCHANGED <<commitIndex, lastApplied, fsm, file, applying, leaderVars, followerTerm,
                       netVars, mishaps, events>>

----------------------------------------------------------------------------
(* Crash and recovery.                                                     *)

\* NewRaft after a crash: the state machine is restored from the file and all
\* the log behind it is replayed; commitIndex and lastApplied start from the
\* file.
Recover(n) ==
    LET k  == file[n].index
        lg == log[n]
    IN  /\ Happen("crash")
        /\ snapshotIndex' = [snapshotIndex EXCEPT ![n] = k]
        /\ snapshotTerm' = [snapshotTerm EXCEPT ![n] = file[n].term]
        /\ commitIndex' = [commitIndex EXCEPT ![n] = k]
        /\ lastApplied' = [lastApplied EXCEPT ![n] = Reached(lg, k, LastIndex(lg))]
        /\ fsm' = [fsm EXCEPT ![n] = Executed(file[n].data, lg, k, LastIndex(lg))]
        /\ taking' = [taking EXCEPT ![n] = [t \in Taker |-> NotTaking]]

RestartFollower ==
    /\ Recover(F)
    /\ UNCHANGED <<log, file, applying, leaderVars, followerTerm, netVars, mishaps>>

\* The leader restarts and is elected again, with or without the follower's
\* knowledge: OnEnter resets nextIndex and matchIndex, writes the entry that
\* opens the term and sends it.
RestartLeader ==
    LET last == LastIndex(log[L])
        lg   == Written(log[L], <<last + 1>>)
    IN  /\ Recover(L)
        /\ log' = [log EXCEPT ![L] = lg]
        /\ applying' = FALSE
        /\ nextIndex' = last + 1 /\ matchIndex' = 0
        /\ opened' = opened \cup {last + 1} /\ term' = last + 1
        /\ followerTerm' \in {followerTerm, last + 1}
        /\ third' = [third EXCEPT !.acked = 0]
        /\ call' = Sent(last + 1, last + 1, lg, file[L].index, file[L].term, file[L].index)
        /\ late' = Abandoned
        /\ UNCHANGED <<file, mishaps>>

----------------------------------------------------------------------------
(* The specification.                                                      *)

\* A leader that has just been elected, over logs of k entries of one earlier
\* term, none of which is known to be committed.
InitWith(k) ==
    /\ log = [n \in Node |-> [first |-> 1, entries |-> UpTo(IF n = L THEN k + 1 ELSE k)]]
    /\ file = [n \in Node |-> [index |-> 0, term |-> 0, data |-> <<>>]]
    /\ snapshotIndex = [n \in Node |-> 0] /\ snapshotTerm = [n \in Node |-> 0]
    /\ commitIndex = [n \in Node |-> 0] /\ lastApplied = [n \in Node |-> 0]
    /\ fsm = [n \in Node |-> <<>>] /\ applying = FALSE
    /\ taking = [n \in Node |-> [t \in Taker |-> NotTaking]]
    /\ nextIndex = k + 1 /\ matchIndex = 0
    /\ opened = {1, k + 1} /\ term = k + 1 /\ followerTerm \in {Smaller(k, 1), k + 1}
    /\ third = [stored |-> k, acked |-> 0]
    /\ call = Sent(k + 1, k + 1, log[L], 0, 0, 0) /\ late = {}
    /\ mishaps = {} /\ events = [e \in EventKind |-> 0]

Init == \E k \in InitialLogs : InitWith(k)

\* The leader's ticks and the course of a call.
CallStep == Heartbeat \/ LoadFile \/ RequestArrives \/ ReplyArrives

Next ==
    \/ CallStep \/ CallFails
    \/ \E r \in late : LateRequestArrives(r)
    \/ Propose \/ \E k \in 1..LastIndex(log[L]) : ThirdAcknowledges(k)
    \/ Apply \/ RecordApplied
    \/ \E n \in Node : \E t \in Taker : Capture(n, t) \/ Save(n, t) \/ Adopt(n, t)
    \/ RestartFollower \/ RestartLeader

\* The leader ticks, goroutines run, and a call that does not fail is handled
\* and answered: in every state exactly one of these steps is the next.
\* Failures and crashes come to an end.
Fairness == WF_vars(CallStep)

Spec == Init /\ [][Next]_vars /\ Fairness

----------------------------------------------------------------------------
(* Properties.                                                             *)

Entry   == Nat \ {0}
Entries == Seq(Entry)

CallType ==
    [at : {"none", "loading", "request", "reply"}, kind : {"append", "install"}, term : Nat,
     index : Nat, prev : Nat, entries : Entries, commit : Nat, ok : BOOLEAN, hint : Nat,
     conflict : Nat, id : Nat]

TypeOK ==
    /\ log \in [Node -> [first : Nat \ {0}, entries : Entries]]
    /\ file \in [Node -> [index : Nat, term : Nat, data : Entries]]
    /\ {snapshotIndex, snapshotTerm, commitIndex, lastApplied} \subseteq [Node -> Nat]
    /\ fsm \in [Node -> Entries]
    /\ applying \in BOOLEAN /\ mishaps \subseteq Mishap \X Node
    /\ taking \in [Node -> [Taker -> [at : {"idle", "captured", "saved"}, index : Nat,
                                     term : Nat, data : Entries]]]
    /\ nextIndex \in Nat \ {0} /\ matchIndex \in Nat
    /\ opened \subseteq Entry /\ term \in opened /\ followerTerm \in Nat
    /\ third \in [stored : Nat, acked : Nat]
    /\ call \in CallType /\ late \subseteq CallType
    /\ events \in [EventKind -> Nat]

\* x holds every entry up to k, in the order of the log, some perhaps more
\* than once, and none behind k + 1.
Covers(x, k) ==
    /\ \A i \in 1..k : \E j \in 1..Len(x) : x[j] = i
    /\ \A i, j \in 1..Len(x) : i <= j => x[i] <= x[j]
    /\ \A j \in 1..Len(x) : x[j] <= k + 1

\* Whatever else happens, the leader's state machine and every snapshot of it,
\* taken, saved or sent, has all entries up to the index that is said of it, in
\* order; what a capture between the applier's two steps can do is to have one
\* entry executed again (leader_role.go:350-387, raft.go:253-298, 90-141).
LeaderMissesNothing ==
    /\ Covers(fsm[L], lastApplied[L])
    /\ Covers(file[L].data, file[L].index)
    /\ \A t \in Taker :
         taking[L][t].at # "idle" => Covers(taking[L][t].data, taking[L][t].index)
    /\ \A r \in late \cup {call} :
         (r.kind = "install" /\ r.at \in {"request", "reply"}) => Covers(r.entries, r.index)

\* The same of the follower's state machine (follower_role.go:221-262,
\* raft.go:330-373).
FollowerMissesNothing == Covers(fsm[F], lastApplied[F])

\* A node's state machine has executed the entries up to lastApplied, each
\* once and in order; between the two steps of the applier one more.
ExactlyApplied(n) == fsm[n] = UpTo(lastApplied[n] + IF n = L /\ applying THEN 1 ELSE 0)

\* Through restored snapshots, the log behind them, and recovery from a crash
\* in any phase of any TakeSnapshot (raft.go:90-141, 253-373), the state
\* machines are exact, unless one of these has happened: a capture between the
\* applier's two steps, the restoration of an older snapshot, entries written
\* at other indexes than theirs.  The last two happen to followers only.
ExactUnlessMishap ==
    /\ Happened("ahead", L) \/ ExactlyApplied(L)
    /\ \/ Happened("ahead", L) \/ Happened("rewound", F) \/ Happened("misplaced", F)
       \/ ExactlyApplied(F)

\* What a crash at this moment would leave on disk has no gap: the log begins
\* no later than behind the file, and no index the node has announced as its
\* snapshot is missing from it (raft.go:309-326: the file is in place before
\* the log is cut) - unless a newer file was replaced by an older one.
CompleteUnlessOverwritten ==
    \A n \in Node : Happened("overwritten", n) \/ (/\ log[n].first <= file[n].index + 1
                                                  /\ snapshotIndex[n] <= file[n].index)

\* Entry k is in the follower's log, at its index, or in its snapshot.
FollowerHolds(k) ==
    \/ k <= snapshotIndex[F]
    \/ Held(log[F], k) /\ EntryAt(log[F], k) = k

\* What the leader has committed in its term is on a majority, although a
\* failed InstallSnapshot counts as an acknowledgement (leader_role.go:731-738)
\* and a compacted log cannot show the entry.  A commit index below the term
\* comes from the snapshot file (raft.go:103-105) and need not be: recovery
\* replays entries nobody else holds, a snapshot of them may be taken, and the
\* next recovery takes its index for committed.
CommitHasMajority ==
    commitIndex[L] >= term =>
        third.stored >= commitIndex[L] \/ FollowerHolds(commitIndex[L])

\* So it is unless the follower has written entries at other indexes than
\* theirs or lost a snapshot file to an older one.
MajorityUnlessMishap ==
    Happened("misplaced", F) \/ Happened("overwritten", F) \/ CommitHasMajority

\* The follower comes, again and again, to have applied whatever the leader has
\* committed, by entries or by a snapshot, once calls stop failing: leader and
\* follower do not send each other in circles (leader_role.go:445-738).
FollowerCatchesUp == []<>(lastApplied[F] >= commitIndex[L])
=============================================================================
