------------------------------ MODULE Serving ------------------------------
(***************************************************************************)
(* How one process of go-raft serves proposals and applies committed       *)
(* entries: ProposeWithSession and HandlePropose with their waiters, the   *)
(* applier goroutine of each leader object, the apply loop at the end of   *)
(* the follower's HandleAppendEntries, the session table, the counter, and *)
(* the replay of the log in NewRaft.                                       *)
(*                                                                         *)
(* Applying is done without Raft.mu by an applier, which only takes it to  *)
(* collect the waiters of an entry, and under Raft.mu by the handler.  An  *)
(* applier that was stopped finishes what it has begun, so it and the      *)
(* handler can run over the same entries.  lastApplied, commitIndex, the   *)
(* session table and the counter are each accessed atomically, one at a    *)
(* time.                                                                   *)
(*                                                                         *)
(* The rest of the cluster is the environment: it acknowledges entries of  *)
(* this leader (Commit), elects it (Elect), and sends entries of other     *)
(* leaders, which agree with what is committed (Receive).  Raft is about   *)
(* that side.                                                              *)
(***************************************************************************)
EXTENDS LogEntries, Sessions, Counter, FiniteSets

CONSTANTS
    Request,    \* calls of ProposeWithSession, one per member
    Command,    \* Command[r]: its clientId, seq and data
    Elsewhere   \* the requests that other leaders may have in their logs

\* Bounds for TLC: the leader objects one process may create, the entries the
\* log may have, how often each of the things happens that nobody controls, and
\* how often all of them together.
CONSTANTS MaxOffices, MaxLog, MaxEvents, MaxTotal

\* A client calls, the node is elected, it steps down, a request of another
\* leader arrives, the minute changes, an operator disables the node, a caller's
\* context ends, the process dies.
EventKind == {"call", "elect", "stepdown", "receive", "minute", "disable", "giveup", "crash"}

Session == [clientId : Seq(Cell), seq : Cell, data : Seq(Cell)]

\* A request as an entry of term t.
Stored(session, t) ==
    Serialize([term |-> t, clientId |-> session.clientId, seq |-> session.seq,
               data |-> session.data])

\* Id has whatever is read back as the data of a request.
ASSUME ServingAssumption ==
    /\ Command \in [Request -> Session]
    /\ \A r \in Request : Deserialize(Stored(Command[r], 0)).data \in Id
    /\ Elsewhere \subseteq Request
    /\ MaxOffices \in Nat /\ MaxLog \in Nat
    /\ MaxEvents \in [EventKind -> Nat] /\ MaxTotal \in Nat

VARIABLES
    log,         \* the stored entries
    term,        \* Store.currentTerm
    commitIndex, lastApplied,
    role,        \* "leader" or "follower" (a candidate answers proposals alike)
    enabled,
    starting,    \* NewRaft is replaying the log; nothing else runs yet
    objs,        \* the LeaderRole objects of the process; the last is the current
    threads,     \* threads[0]: the handler's loop; threads[k]: applier of objs[k]
    calls,       \* calls[r]: how far the call r has got
    sessions, counter, minute,
    chosen,      \* history: the committed entries, as far as this node knew them
    replayed,    \* history: the log as it was when the process last started
    starts,      \* history: the logs of all starts of the process
    since,       \* history: the minute of the last start
    executed,    \* history: what the present state machine has executed
    events       \* events[e]: how often e has happened

storeVars  == <<log, term, commitIndex>>
roleVars   == <<role, enabled, starting>>
fsmVars    == <<sessions, counter, executed, replayed, starts, since>>
vars       == <<storeVars, lastApplied, roleVars, objs, threads, calls, fsmVars, minute,
                chosen, events>>

Thread == 0..MaxOffices

----------------------------------------------------------------------------
(* Types.                                                                  *)

\* pending: <<index, call>> pairs; wake: applierCh holds its token; stopped:
\* applierStopCh is closed; match: its matchIndex of this node itself.
LeaderObject ==
    [pending : SUBSET ((Nat \ {0}) \X Request), wake : BOOLEAN, stopped : BOOLEAN, match : Nat]

\* off: no such goroutine; wait: in the applier's select; load, from: reading
\* commitIndex and lastApplied; look: about to read entry idx and the session
\* table; run: about to apply it; tell: to answer its waiters; store: to store
\* lastApplied.
ThreadState ==
    [at : {"off", "wait", "load", "from", "look", "run", "tell", "store"},
     idx : Nat, limit : Nat, entry : Seq(Cell)]

\* checked, looked: between the locks of ProposeWithSession and HandlePropose;
\* done: the applier answered; cached: the session table did; forwarded: sent
\* to another node; refused: an error.  office: the leader object captured.
CallState ==
    [at : {"idle", "checked", "looked", "waiting", "done", "cached", "forwarded", "refused"},
     office : Nat, index : Nat]

Execution == [index : Nat, entry : Seq(Cell), by : {"apply", "replay"}]

TypeOK ==
    /\ {log, chosen} \subseteq Seq(Seq(Cell))
    /\ starts \subseteq Seq(Seq(Cell)) /\ replayed \in starts
    /\ term \in Nat /\ commitIndex \in Nat /\ lastApplied \in Nat
    /\ minute \in Nat /\ since \in Nat
    /\ role \in {"leader", "follower"} /\ enabled \in BOOLEAN /\ starting \in BOOLEAN
    /\ objs \in Seq(LeaderObject)
    /\ threads \in [Thread -> ThreadState]
    /\ calls \in [Request -> CallState]
    /\ DOMAIN sessions \subseteq Seq(Cell) /\ \A x \in DOMAIN sessions : sessions[x] \in Nat
    /\ counter \in CounterState
    /\ executed \subseteq Execution
    /\ events \in [EventKind -> Nat]

----------------------------------------------------------------------------
(* Locks, events, and the state changes actions are made of.               *)

\* Raft.mu is free: the handler's loop, which holds it, is not running.
MuFree == threads[0].at = "off"

Total == events["call"] + events["elect"] + events["stepdown"] + events["receive"]
           + events["minute"] + events["disable"] + events["giveup"] + events["crash"]

Happen(e) ==
    /\ events[e] < MaxEvents[e] /\ Total < MaxTotal
    /\ events' = [events EXCEPT ![e] = @ + 1]

Current == Len(objs)

Idle == [at |-> "off", idx |-> 0, limit |-> 0, entry |-> <<>>]

NoOp(t) == Serialize([term |-> t, clientId |-> <<>>, seq |-> 0, data |-> <<>>])

\* What is committed once the commit index of log lg is c.
Chosen(lg, c) == IF c > Len(chosen) THEN SubSeq(lg, 1, c) ELSE chosen

Refused == [at |-> "refused", office |-> 0, index |-> 0]

End(r, how) == [calls EXCEPT ![r] = [at |-> how, office |-> 0, index |-> 0]]

\* LeaderRole.OnExit: the applier is told to stop and every waiter's channel
\* is closed.
Stopped(o) == [objs EXCEPT ![o].stopped = TRUE, ![o].pending = {}]

\* Wrong variant: the waiters are forgotten and not told.
WaitersForgotten(o) == calls

WaitersRefused(o) ==
    [r \in Request |-> IF \E w \in objs[o].pending : w[2] = r
                         THEN Refused ELSE calls[r]]

\* The role is left: OnExit of a leader, nothing for a follower.
LeaveRole ==
    IF role = "leader" THEN objs' = Stopped(Current) /\ calls' = WaitersRefused(Current)
                       ELSE UNCHANGED <<objs, calls>>

----------------------------------------------------------------------------
(* Proposals.                                                              *)

\* ProposeWithSession: the flags, and the role object to go on with.  A
\* follower or candidate forwards the data or answers with an error; what it
\* forwards carries no session.
Check(r) ==
    /\ calls[r].at = "idle" /\ MuFree
    /\ Happen("call")
    /\ calls' = [calls EXCEPT ![r] =
         IF enabled /\ role = "leader" THEN [@ EXCEPT !.at = "checked", !.office = Current]
         ELSE [@ EXCEPT !.at = IF enabled THEN "forwarded" ELSE "refused"]]
    /\ UNCHANGED <<storeVars, lastApplied, roleVars, objs, threads, fsmVars, minute, chosen>>

\* HandlePropose of the leader, the part without the lock.
Lookup(r) ==
    LET c == Command[r]
    IN  /\ calls[r].at = "checked"
        /\ calls' = IF IsDuplicate(sessions, c.clientId, c.seq) THEN End(r, "cached")
                    ELSE [calls EXCEPT ![r].at = "looked"]
        /\ UNCHANGED <<storeVars, lastApplied, roleVars, objs, threads, fsmVars, minute,
                       chosen, events>>

\* The role epoch is the one captured: the object captured is still in office.
InOffice(r) == role = "leader" /\ calls[r].office = Current

\* Wrong variant: the waiter is registered one entry too early.
RegisteredEarly(r) ==
    [objs EXCEPT ![Current].pending = @ \cup {<<Len(log), r>>}, ![Current].match = Len(log) + 1]

Registered(r) ==
    [objs EXCEPT ![Current].pending = @ \cup {<<Len(log) + 1, r>>},
                 ![Current].match = Len(log) + 1]

\* The part under the lock: written and registered.
Submit(r) ==
    /\ calls[r].at = "looked" /\ MuFree
    /\ InOffice(r)
    /\ Len(log) < MaxLog
    /\ log' = Append(log, Stored(Command[r], term))
    /\ objs' = Registered(r)
    /\ calls' = [calls EXCEPT ![r].at = "waiting", ![r].index = Len(log) + 1]
    /\ UNCHANGED <<term, commitIndex, lastApplied, roleVars, threads, fsmVars, minute, chosen,
                   events>>

\* The leader has changed, its lease has run out, or the write fails.
Reject(r) ==
    /\ calls[r].at = "looked" /\ MuFree
    /\ calls' = End(r, "refused")
    /\ UNCHANGED <<storeVars, lastApplied, roleVars, objs, threads, fsmVars, minute, chosen,
                   events>>

\* The caller's context ends.  (The HTTP handlers pass one that never does.)
GiveUp(r) ==
    /\ calls[r].at = "waiting" /\ MuFree
    /\ Happen("giveup")
    /\ objs' = [objs EXCEPT ![calls[r].office].pending = {w \in @ : w[2] # r}]
    /\ calls' = End(r, "refused")
    /\ UNCHANGED <<storeVars, lastApplied, roleVars, threads, fsmVars, minute, chosen>>

----------------------------------------------------------------------------
(* The cluster.                                                            *)

\* becomeLeader and OnEnter: the no-op is written, the applier started.
Elect ==
    /\ role = "follower" /\ MuFree
    /\ Happen("elect")
    /\ Current < MaxOffices /\ Len(log) < MaxLog
    /\ term' = term + 1
    /\ log' = Append(log, NoOp(term + 1))
    /\ role' = "leader"
    /\ objs' = Append(objs, [pending |-> {}, wake |-> FALSE, stopped |-> FALSE,
                              match |-> Len(log) + 1])
    /\ threads' = [threads EXCEPT ![Current + 1].at = "wait"]
    /\ UNCHANGED <<commitIndex, lastApplied, enabled, starting, calls, fsmVars, minute, chosen>>

\* Wrong variant: the applier is not woken.
TriggerForgotten(o) == objs

\* triggerApplier: a token, unless there is one already.
Trigger(o) == [objs EXCEPT ![o].wake = TRUE]

\* tryToAdvanceCommitIndex in a continuation of object o, a majority having
\* acknowledged entry k.  A call of an earlier office may return in this one, and
\* it is the applier of its own object that it wakes.  Such an object counts the
\* entries it had itself: those nodes that still answer in its term are too few
\* to make a majority without this one.
Commit(k, o) ==
    /\ role = "leader" /\ MuFree
    /\ k > commitIndex /\ k <= objs[o].match /\ Deserialize(log[k]).term = term
    /\ commitIndex' = k
    /\ chosen' = Chosen(log, k)
    /\ objs' = Trigger(o)
    /\ UNCHANGED <<log, term, lastApplied, roleVars, threads, calls, fsmVars, minute, events>>

\* The lease runs out, or a request or an answer shows a higher term, which this
\* node has no use for before Elect and Receive raise it anyway.  On a leader
\* that Disable has stopped, OnExit panics and nothing changes.
StepDown ==
    /\ role = "leader" /\ ~objs[Current].stopped /\ MuFree
    /\ Happen("stepdown")
    /\ role' = "follower"
    /\ LeaveRole
    /\ UNCHANGED <<storeVars, lastApplied, enabled, starting, threads, fsmVars, minute, chosen>>

\* HandleAppendEntries, accepted: entries from j + 1 on are replaced by those
\* of another leader, which has everything that is committed; then the commit
\* index, and the apply loop, which keeps the lock.
Receive(j, new, c) ==
    LET lg == SubSeq(log, 1, j) \o new
    IN  /\ enabled /\ MuFree
        /\ Happen("receive")
        /\ j >= Len(chosen) /\ (new = <<>> => j = Len(log))
        /\ term' = term + 1
        /\ log' = lg
        /\ commitIndex' = IF c > commitIndex THEN c ELSE commitIndex
        /\ chosen' = Chosen(lg, c)
        /\ role' = "follower"
        /\ LeaveRole
        /\ threads' = [threads EXCEPT ![0].at = "load"]
        /\ UNCHANGED <<lastApplied, enabled, starting, fsmVars, minute>>

----------------------------------------------------------------------------
(* Applying.                                                               *)

Step(k, t) == threads' = [threads EXCEPT ![k] = t]

\* The loop over the entries is over, the leader objects being os: an applier
\* takes the next token if it is there, and waits otherwise; the handler
\* returns.
Rest(k, os) ==
    IF k = 0
      THEN Step(k, Idle) /\ starting' = FALSE /\ objs' = os
      ELSE /\ Step(k, [Idle EXCEPT !.at = IF os[k].wake THEN "load" ELSE "wait"])
           /\ objs' = [os EXCEPT ![k].wake = FALSE]
           /\ UNCHANGED starting

Wake(k) ==
    /\ threads[k].at = "wait" /\ objs[k].wake
    /\ Step(k, [Idle EXCEPT !.at = "load"])
    /\ objs' = [objs EXCEPT ![k].wake = FALSE]
    /\ UNCHANGED <<starting, lastApplied, calls, fsmVars>>

Exit(k) ==
    /\ threads[k].at = "wait" /\ objs[k].stopped
    /\ Step(k, Idle)
    /\ UNCHANGED <<starting, lastApplied, objs, calls, fsmVars>>

\* Wrong variant: the end of the log is taken for the commit index.
LoadLastIndex(k) ==
    /\ threads[k].at = "load"
    /\ Step(k, [threads[k] EXCEPT !.at = "from", !.limit = Len(log)])
    /\ UNCHANGED <<starting, lastApplied, objs, calls, fsmVars>>

LoadCommitIndex(k) ==
    /\ threads[k].at = "load"
    /\ Step(k, [threads[k] EXCEPT !.at = "from", !.limit = commitIndex])
    /\ UNCHANGED <<starting, lastApplied, objs, calls, fsmVars>>

LoadLastApplied(k) ==
    /\ threads[k].at = "from"
    /\ IF threads[k].limit <= lastApplied
         THEN Rest(k, objs)
         ELSE /\ Step(k, [threads[k] EXCEPT !.at = "look", !.idx = lastApplied + 1])
              /\ UNCHANGED <<starting, objs>>
    /\ UNCHANGED <<lastApplied, calls, fsmVars>>

\* Wrong variant: an entry without data is applied too.
ToApplyEmpty(raw) ==
    LET e == Deserialize(raw)
    IN  ~IsDuplicate(sessions, e.clientId, e.seq)

\* The entry has something to apply that is not a duplicate.
ToApply(raw) ==
    LET e == Deserialize(raw)
    IN  e.data # <<>> /\ ~IsDuplicate(sessions, e.clientId, e.seq)

\* What follows when the entry is applied or passed over.
Applied(k) == IF k = 0 THEN "store" ELSE "tell"

\* Read the entry, and look its session up; without it, leave the loop.
Look(k) ==
    LET t == threads[k]
    IN  /\ t.at = "look"
        /\ IF t.idx > Len(log)
             THEN Rest(k, objs)
             ELSE /\ Step(k, [t EXCEPT !.entry = log[t.idx],
                                       !.at = IF ToApply(log[t.idx]) THEN "run" ELSE Applied(k)])
                  /\ UNCHANGED <<starting, objs>>
        /\ UNCHANGED <<lastApplied, calls, fsmVars>>

\* FSM.Apply and SessionTable.Record.
Run(k) ==
    LET t == threads[k]
        e == Deserialize(t.entry)
    IN  /\ t.at = "run"
        /\ counter' = Apply(counter, e.data, minute)
        /\ sessions' = Record(sessions, e.clientId, e.seq)
        /\ executed' = executed \cup {[index |-> t.idx, entry |-> t.entry,
                                       by |-> IF starting THEN "replay" ELSE "apply"]}
        /\ Step(k, [t EXCEPT !.at = Applied(k)])
        /\ UNCHANGED <<starting, lastApplied, objs, calls, replayed, starts, since>>

\* Wrong variant: everything committed is taken as applied at once.
AppliedUpToLimit(t) == t.limit

AppliedUpTo(t) == t.idx

\* An applier takes the waiters of the entry from its own object, under the
\* lock, and answers them.  The handler's loop has none.
TellWaiters(k) ==
    LET t == threads[k]
        told == {r \in Request : <<t.idx, r>> \in objs[k].pending}
    IN  /\ t.at = "tell" /\ MuFree
        /\ calls' = [r \in Request |-> IF r \in told THEN [calls[r] EXCEPT !.at = "done"]
                                                     ELSE calls[r]]
        /\ objs' = [objs EXCEPT ![k].pending = {w \in @ : w[1] # t.idx}]
        /\ Step(k, [t EXCEPT !.at = "store"])
        /\ UNCHANGED <<starting, lastApplied, fsmVars>>

\* lastApplied is stored, without the lock by an applier, and the loop goes on
\* to the next entry if there is one.
StoreLastApplied(k) ==
    LET t == threads[k]
    IN  /\ t.at = "store"
        /\ lastApplied' = AppliedUpTo(t)
        /\ IF t.idx < t.limit
             THEN /\ Step(k, [t EXCEPT !.at = "look", !.idx = @ + 1, !.entry = <<>>])
                  /\ UNCHANGED <<starting, objs>>
             ELSE Rest(k, objs)
        /\ UNCHANGED <<calls, fsmVars>>

ThreadStep(k) ==
    /\ \/ k # 0 /\ (Wake(k) \/ Exit(k))
       \/ LoadCommitIndex(k)
       \/ LoadLastApplied(k)
       \/ Look(k)
       \/ Run(k)
       \/ k # 0 /\ TellWaiters(k)
       \/ StoreLastApplied(k)
    /\ UNCHANGED <<storeVars, role, enabled, minute, chosen, events>>

----------------------------------------------------------------------------
(* Operators, crashes and the clock.                                       *)

\* Disable and Shutdown: on a leader, OnExit runs, and the role stays.
Disable ==
    /\ enabled /\ MuFree
    /\ Happen("disable")
    /\ enabled' = FALSE
    /\ LeaveRole
    /\ UNCHANGED <<storeVars, lastApplied, role, starting, threads, fsmVars, minute, chosen>>

\* Enable: panics on a leader that was stopped, and changes nothing.
Enable ==
    /\ ~enabled /\ MuFree
    /\ role = "follower"
    /\ enabled' = TRUE
    /\ UNCHANGED <<storeVars, lastApplied, role, starting, objs, threads, calls, fsmVars,
                   minute, chosen, events>>

\* The process dies and NewRaft begins: it applies the whole log to a new
\* state machine before it serves.
Restart ==
    /\ Happen("crash")
    /\ commitIndex' = 0 /\ lastApplied' = 0
    /\ role' = "follower" /\ enabled' = TRUE /\ starting' = (log # <<>>)
    /\ objs' = <<>>
    /\ threads' = [k \in Thread |-> IF k = 0 /\ log # <<>>
                     THEN [Idle EXCEPT !.at = "look", !.idx = 1, !.limit = Len(log)]
                     ELSE Idle]
    /\ calls' = [r \in Request |-> IF calls[r].at \in {"checked", "looked", "waiting"}
                                     THEN Refused ELSE calls[r]]
    /\ sessions' = NewSessionTable /\ counter' = NewCounter /\ executed' = {}
    /\ replayed' = log /\ starts' = starts \cup {log} /\ since' = minute
    /\ UNCHANGED <<log, term, minute, chosen>>

MinutePasses ==
    /\ Happen("minute")
    /\ minute' = minute + 1
    /\ UNCHANGED <<storeVars, lastApplied, roleVars, objs, threads, calls, fsmVars, chosen>>

----------------------------------------------------------------------------
Init ==
    /\ log = <<>> /\ term = 0 /\ commitIndex = 0 /\ lastApplied = 0
    /\ role = "follower" /\ enabled = TRUE /\ starting = FALSE
    /\ objs = <<>>
    /\ threads = [k \in Thread |-> Idle]
    /\ calls = [r \in Request |-> [at |-> "idle", office |-> 0, index |-> 0]]
    /\ sessions = NewSessionTable /\ counter = NewCounter
    /\ minute = NumberOfSlots - 1 /\ since = minute
    /\ chosen = <<>> /\ executed = {} /\ replayed = <<>> /\ starts = {<<>>}
    /\ events = [e \in EventKind |-> 0]

\* Another leader sends nothing new, or a client's entry.
Foreign == {<<>>} \cup {<<Stored(Command[r], term + 1)>> : r \in Elsewhere}

Next ==
    \/ \E r \in Request : Check(r) \/ Lookup(r) \/ Submit(r) \/ Reject(r) \/ GiveUp(r)
    \/ Elect
    \/ \E k \in 1..Len(log), o \in 1..Current : Commit(k, o)
    \/ StepDown
    \/ \E j \in 0..Len(log) : \E new \in Foreign : \E c \in 0..(j + Len(new)) : Receive(j, new, c)
    \/ \E k \in Thread : ThreadStep(k)
    \/ Disable
    \/ Enable
    \/ Restart
    \/ MinutePasses

\* A leader with entries to commit either gets them acknowledged or, having
\* lost the majority, lays the office down when its lease runs out.
CommitOrLease ==
    /\ enabled /\ commitIndex < Len(log)
    /\ Commit(Len(log), Current) \/ StepDown

\* Goroutines that can run do run, and ticks do not end.
Fairness ==
    /\ \A k \in Thread : WF_vars(ThreadStep(k))
    /\ WF_vars(CommitOrLease)

Spec == Init /\ [][Next]_vars /\ Fairness

----------------------------------------------------------------------------
(* Properties.                                                             *)

IsChosen(x) == x.index <= Len(chosen) /\ chosen[x.index] = x.entry

SameClient(a, b) ==
    Deserialize(a).clientId = Deserialize(b).clientId /\ Deserialize(a).clientId # <<>>

\* What an applier or a follower's handler executes is the committed entry of
\* its index, whatever has been truncated or replaced in the meantime.
AppliedOnlyCommitted ==
    \A x \in executed : x.by = "apply" => IsChosen(x)

\* The same of everything the state machine executes.
StateMachineSafety ==
    \A x \in executed : IsChosen(x)

\* Everything the process has ever found in its log when it started is
\* committed by now.
ReplayHarmless ==
    \A lg \in starts : Len(lg) <= Len(chosen) /\ SubSeq(chosen, 1, Len(lg)) = lg

\* Up to lastApplied no committed entry was left out, even when two loops
\* run over the same entries and one stores an older lastApplied after the
\* other: each was executed, carries no data, or repeats an executed request.
NothingSkipped ==
    ReplayHarmless =>
      \A k \in 1..lastApplied :
        (k <= Len(chosen) /\ Deserialize(chosen[k]).data # <<>>) =>
          \E x \in executed :
            \/ x.index = k /\ x.entry = chosen[k]
            \/ /\ SameClient(x.entry, chosen[k])
               /\ Deserialize(x.entry).seq >= Deserialize(chosen[k]).seq

\* A caller that gets a result has its request committed: at the index it
\* waited for, or, when it was recognised as a retry, at some index.
AnswersAreCommitted ==
    \A r \in Request :
      /\ calls[r].at = "done" =>
           /\ calls[r].index <= Len(chosen)
           /\ LET e == Deserialize(chosen[calls[r].index])
              IN  Command[r] = [clientId |-> e.clientId, seq |-> e.seq, data |-> e.data]
      /\ (calls[r].at = "cached" /\ ReplayHarmless) =>
           \E k \in 1..Len(chosen) :
             LET e == Deserialize(chosen[k])
             IN  e.clientId = Command[r].clientId /\ e.seq >= Command[r].seq

\* A request of a client that is in the log twice is executed at one index
\* only, whichever loops apply the two entries and wherever they are paused.
RetriesNotApplied ==
    \A x, y \in executed :
      (SameClient(x.entry, y.entry) /\ Deserialize(x.entry).seq = Deserialize(y.entry).seq)
        => x.index = y.index

\* An entry that two loops both apply is counted once, also over midnight: for
\* a day from the start of the process the counter is the number of different
\* payloads executed.  (Later the day of a payload may be over, and then it is
\* counted again: CounterService.)
CountedOnce ==
    minute - since < NumberOfSlots =>
      counter.value = Cardinality({Deserialize(x.entry).data : x \in executed})

\* No wake-up is lost in the first office of a process: what the leader commits
\* it applies, unless it is stopped or leaves the role first.  (In a later one
\* an applier of an earlier office may still run, and set lastApplied back, or a
\* call of that office may wake it instead of the present one.)
FirstOfficeApplies ==
    (role = "leader" /\ Current = 1 /\ ~objs[Current].stopped /\ commitIndex > lastApplied)
      ~> (lastApplied >= commitIndex \/ role # "leader" \/ objs[Current].stopped)

\* A caller registered in the first office of a process with an object that is
\* not stopped is told the result or the end of the office.
FirstOfficeAnswers ==
    \A r \in Request :
      (calls[r].at = "waiting" /\ calls[r].office = 1 /\ ~objs[1].stopped)
        ~> calls[r].at # "waiting"

\* No caller waits for ever (raft.go:429-472, leader_role.go:199-292).
WaitersAnswered == \A r \in Request : calls[r].at = "waiting" ~> calls[r].at # "waiting"
============================================================================
