--------------------------- MODULE CounterService ---------------------------
(***************************************************************************)
(* One replica's state machine over the days: entries are applied at the   *)
(* minute the local clock shows, the clock moves on in between, and a      *)
(* snapshot is taken and restored (fsm.go, counter.go).  Snapshot and      *)
(* Restore carry all four fields, under the counter's lock.                *)
(***************************************************************************)
EXTENDS Counter

CONSTANT MaxMinutes  \* how long a behaviour lasts; a bound for TLC only

VARIABLES
    counter,   \* the Counter of the CounterFSM
    saved,     \* the snapshot last taken
    now,       \* minutes since the first midnight, never set back
    countedAt, \* history: when each id was last counted, -1 if never
    appliedAt, \* history: when an entry was last applied, -1 if never
    longIdle   \* history: a day or more has passed between two entries

history == <<countedAt, appliedAt, longIdle>>
vars    == <<counter, saved, now, history>>

Time == Nat \cup {-1}

Saved == [counter : CounterState, countedAt : [Id -> Time], appliedAt : Time,
          longIdle : BOOLEAN]

TypeOK ==
    /\ counter \in CounterState
    /\ saved \in Saved
    /\ now \in Nat
    /\ countedAt \in [Id -> Time] /\ appliedAt \in Time /\ longIdle \in BOOLEAN

ApplyEntry(id) ==
    /\ counter' = Apply(counter, id, now)
    /\ countedAt' = IF counter'.value > counter.value
                      THEN [countedAt EXCEPT ![id] = now] ELSE countedAt
    /\ appliedAt' = now
    /\ longIdle' = (longIdle \/ (appliedAt # -1 /\ now - appliedAt >= NumberOfSlots))
    /\ UNCHANGED <<saved, now>>

Tick ==
    /\ now < MaxMinutes
    /\ now' = now + 1
    /\ UNCHANGED <<counter, saved, history>>

Snapshot ==
    /\ saved' = [counter |-> counter, countedAt |-> countedAt, appliedAt |-> appliedAt,
                 longIdle |-> longIdle]
    /\ UNCHANGED <<counter, now, history>>

Restore ==
    /\ counter' = saved.counter
    /\ countedAt' = saved.countedAt
    /\ appliedAt' = saved.appliedAt
    /\ longIdle' = saved.longIdle
    /\ UNCHANGED <<saved, now>>

Init ==
    /\ counter = NewCounter
    /\ saved = [counter |-> NewCounter, countedAt |-> [id \in Id |-> -1], appliedAt |-> -1,
                longIdle |-> FALSE]
    /\ now = 0
    /\ countedAt = [id \in Id |-> -1] /\ appliedAt = -1 /\ longIdle = FALSE

Next ==
    \/ \E id \in Id : ApplyEntry(id)
    \/ Tick
    \/ Snapshot
    \/ Restore

Spec == Init /\ [][Next]_vars

----------------------------------------------------------------------------
(* Properties.                                                             *)

\* Every id the counter remembers is in the slot of the minute it was counted
\* in, and in no other, so clearing that minute forgets it, before and after a
\* snapshot is restored: no id is remembered for ever.
EveryIdHasItsSlot ==
    \A id \in Id : \A m \in Slot :
      id \in counter.slots[m]
        <=> id \in counter.present /\ m = countedAt[id] % NumberOfSlots

\* An id is not counted again within a day of the time it was counted,
\* whatever minutes were skipped in between and however often midnight passed.
CountedOncePerDay ==
    [][\A id \in Id :
         (ApplyEntry(id) /\ counter'.value > counter.value)
           => countedAt[id] = -1 \/ now - countedAt[id] >= NumberOfSlots]_vars

\* Nor is it remembered longer: an id whose day is over is forgotten with the
\* next entry, provided entries have come in at least once a day.
ForgottenAfterADay ==
    ~longIdle => \A id \in counter.present : appliedAt - countedAt[id] < NumberOfSlots
=============================================================================
