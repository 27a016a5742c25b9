------------------------------ MODULE Counter ------------------------------
(***************************************************************************)
(* counter.go: the state machine of the service, a counter that counts an  *)
(* id once and forgets it when the minute of the day it was counted in     *)
(* comes round again.  Ids stand for their hashes (no two collide).        *)
(***************************************************************************)
EXTENDS Integers

CONSTANTS
    Id,            \* what is counted: the payloads of log entries
    NumberOfSlots  \* numberOfSlots: the minutes of a day

ASSUME SlotsAssumption == NumberOfSlots \in Nat \ {0}

Slot == 0..(NumberOfSlots - 1)

CounterState ==
    [minute : Slot \cup {-1}, present : SUBSET Id, slots : [Slot -> SUBSET Id], value : Nat]

NewCounter ==
    [minute |-> -1, present |-> {}, slots |-> [m \in Slot |-> {}], value |-> 0]

\* Wrong variant: the minute reached is not cleared.
MinutesPassedButLast(from, to) ==
    {m \in Slot : IF from < to THEN from < m /\ m < to ELSE from < m \/ m < to}

\* The minutes after from up to to, round the clock.
MinutesPassed(from, to) ==
    {m \in Slot : IF from < to THEN from < m /\ m <= to ELSE from < m \/ m <= to}

\* Wrong variant: the ids stay in present.
ClearMinutesOfSlotsOnly(c, M) ==
    [c EXCEPT !.slots = [m \in Slot |-> IF m \in M THEN {} ELSE c.slots[m]]]

\* clearMinute of every minute in M.
ClearMinutes(c, M) ==
    [c EXCEPT !.slots = [m \in Slot |-> IF m \in M THEN {} ELSE c.slots[m]],
              !.present = {id \in c.present : \A m \in M : id \notin c.slots[m]}]

\* clearMinuteRange, and the minute the counter is then in.
MoveTo(c, m) ==
    IF m = c.minute THEN c
    ELSE [(IF c.minute = -1 THEN c ELSE ClearMinutes(c, MinutesPassed(c.minute, m)))
            EXCEPT !.minute = m]

\* Wrong variant: every minute of the day but the present one is cleared when
\* the minute changes.
IncrementForgetting(c, id, n, time) ==
    LET m == time % NumberOfSlots
        moved == [(IF m = c.minute THEN c ELSE ClearMinutes(c, Slot)) EXCEPT !.minute = m]
    IN  IF c.value + n < 0 THEN c
        ELSE IF id \in moved.present THEN moved
        ELSE [moved EXCEPT !.present = @ \cup {id}, !.slots[m] = @ \cup {id}, !.value = @ + n]

\* Wrong variant: minutes are not taken round the clock.
IncrementUnreduced(c, id, n, time) ==
    LET moved == MoveTo(c, time)
    IN  IF c.value + n < 0 THEN c
        ELSE IF id \in moved.present THEN moved
        ELSE [moved EXCEPT !.present = @ \cup {id}, !.slots[time] = @ \cup {id}, !.value = @ + n]

\* Increment(id, n, time).
Increment(c, id, n, time) ==
    LET m == time % NumberOfSlots
        moved == MoveTo(c, m)
    IN  IF c.value + n < 0 THEN c
        ELSE IF id \in moved.present THEN moved
        ELSE [moved EXCEPT !.present = @ \cup {id}, !.slots[m] = @ \cup {id}, !.value = @ + n]

\* CounterFSM.Apply, at the minute of the local clock.
Apply(c, id, now) == Increment(c, id, 1, now)
============================================================================
