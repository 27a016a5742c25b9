---------------------------- MODULE CounterProofs ----------------------------
(***************************************************************************)
(* The counter of the service for any set of ids and any number of slots:  *)
(* its state is well formed, every remembered id is in exactly the slot    *)
(* that will forget it, an id is counted at most once a day, and it is     *)
(* forgotten when its day is over.                                         *)
(***************************************************************************)
EXTENDS CounterService, ClockProofs

\* The correspondence of slots and present, for a counter c whose ids were
\* counted at the times at.
Sound(c, at) ==
    \A id \in Id : \A m \in Slot :
      id \in c.slots[m] <=> id \in c.present /\ m = at[id] % NumberOfSlots

\* Sound of the live counter and of the snapshot it may be restored from.
IInv ==
    /\ TypeOK
    /\ Sound(counter, countedAt)
    /\ Sound(saved.counter, saved.countedAt)

\* Clearing minutes keeps the counter well formed and every id that is left
\* in its slot.
LEMMA ClearMinutesSound ==
    ASSUME NEW c \in CounterState, NEW M, M \subseteq Slot, NEW at, Sound(c, at)
    PROVE  ClearMinutes(c, M) \in CounterState /\ Sound(ClearMinutes(c, M), at)
  <1> DEFINE d == ClearMinutes(c, M)
             P == {id \in c.present : \A m \in M : id \notin c.slots[m]}
             S == [m \in Slot |-> IF m \in M THEN {} ELSE c.slots[m]]
  <1>1. c.present \in SUBSET Id /\ c.slots \in [Slot -> SUBSET Id]
    BY DEF CounterState
  <1>2. P \in SUBSET Id /\ S \in [Slot -> SUBSET Id]
    BY <1>1
  <1>3. d = [c EXCEPT !.slots = S, !.present = P]
    BY DEF ClearMinutes
  <1> HIDE DEF P, S, d
  <1>4. d \in CounterState /\ d.slots = S /\ d.present = P
    BY <1>2, <1>3 DEF CounterState
  <1>5. ASSUME NEW id \in Id, NEW m \in Slot
        PROVE  id \in d.slots[m] <=> id \in d.present /\ m = at[id] % NumberOfSlots
    <2>1. \A k \in Slot : id \in c.slots[k]
                            <=> id \in c.present /\ k = at[id] % NumberOfSlots
      BY DEF Sound
    <2>2. d.slots[m] = IF m \in M THEN {} ELSE c.slots[m]
      BY <1>4 DEF S
    <2>3. id \in d.present <=> id \in c.present /\ \A k \in M : id \notin c.slots[k]
      BY <1>4 DEF P
    <2>4. CASE m \in M
      BY <2>1, <2>2, <2>3, <2>4
    <2>5. CASE m \notin M
      BY <2>1, <2>2, <2>3, <2>5
    <2> QED
      BY <2>4, <2>5
  <1> QED
    BY <1>4, <1>5 DEF Sound, d

\* So does moving to another minute.
LEMMA MoveToSound ==
    ASSUME NEW c \in CounterState, NEW m \in Slot, NEW at, Sound(c, at)
    PROVE  /\ MoveTo(c, m) \in CounterState /\ Sound(MoveTo(c, m), at)
           /\ MoveTo(c, m).value = c.value
  <1> DEFINE M == MinutesPassed(c.minute, m)
             d == IF c.minute = -1 THEN c ELSE ClearMinutes(c, M)
  <1>1. M \subseteq Slot
    BY DEF MinutesPassed
  <1>2. d \in CounterState /\ Sound(d, at) /\ d.value = c.value
    <2>1. ClearMinutes(c, M) \in CounterState /\ Sound(ClearMinutes(c, M), at)
      BY <1>1, ClearMinutesSound
    <2>2. ClearMinutes(c, M).value = c.value
      BY DEF ClearMinutes, CounterState
    <2> QED
      BY <2>1, <2>2
  <1>3. CASE m = c.minute
    BY <1>3 DEF MoveTo
  <1>4. CASE m # c.minute
    <2>1. MoveTo(c, m) = [d EXCEPT !.minute = m]
      BY <1>4 DEF MoveTo
    <2> HIDE DEF d
    <2>2. [d EXCEPT !.minute = m] \in CounterState
      BY <1>2 DEF CounterState
    <2>3. /\ [d EXCEPT !.minute = m].slots = d.slots
          /\ [d EXCEPT !.minute = m].present = d.present
          /\ [d EXCEPT !.minute = m].value = d.value
      BY <1>2 DEF CounterState
    <2> QED
      BY <2>1, <2>2, <2>3, <1>2 DEF Sound
  <1> QED
    BY <1>3, <1>4

\* Applying an entry keeps the counter well formed, and Sound for the time of
\* the id if it was counted.
LEMMA ApplySound ==
    ASSUME NEW c \in CounterState, NEW x \in Id, NEW t \in Nat,
           NEW at \in [Id -> Time], Sound(c, at)
    PROVE  LET d == Apply(c, x, t) IN
           /\ d \in CounterState
           /\ Sound(d, IF d.value > c.value THEN [at EXCEPT ![x] = t] ELSE at)
  <1> DEFINE m == t % NumberOfSlots
             moved == MoveTo(c, m)
             d == Apply(c, x, t)
             added == [moved EXCEPT !.present = @ \cup {x}, !.slots[m] = @ \cup {x},
                                    !.value = @ + 1]
  <1>1. m \in Slot
    BY MinuteIsASlot
  <1>2. c.value \in Nat /\ ~(c.value + 1 < 0)
    BY DEF CounterState
  <1> HIDE DEF m
  <1>3. moved \in CounterState /\ Sound(moved, at) /\ moved.value = c.value
    BY <1>1, MoveToSound
  <1>4. d = IF x \in moved.present THEN moved ELSE added
    BY <1>2 DEF Apply, Increment, m
  <1> HIDE DEF moved, d
  <1>5. CASE x \in moved.present
    BY <1>2, <1>3, <1>4, <1>5 DEF d
  <1>6. CASE x \notin moved.present
    <2> DEFINE P == moved.present \cup {x}
               S == [moved.slots EXCEPT ![m] = @ \cup {x}]
               v == moved.value + 1
    <2>1. moved.present \in SUBSET Id /\ moved.slots \in [Slot -> SUBSET Id]
      BY <1>3 DEF CounterState
    <2>2. P \in SUBSET Id /\ S \in [Slot -> SUBSET Id] /\ v \in Nat /\ v > c.value
      BY <2>1, <1>1, <1>2, <1>3
    <2>3. added = [moved EXCEPT !.present = P, !.slots = S, !.value = v]
      BY <1>3 DEF CounterState
    <2> HIDE DEF P, S, v, added
    <2>4. /\ added \in CounterState /\ added.present = P /\ added.slots = S
          /\ added.value = v
      BY <2>2, <2>3, <1>3 DEF CounterState
    <2>5. ASSUME NEW id \in Id, NEW k \in Slot
          PROVE  id \in added.slots[k]
                   <=> id \in added.present /\ k = [at EXCEPT ![x] = t][id] % NumberOfSlots
      <3>1. id \in moved.slots[k] <=> id \in moved.present /\ k = at[id] % NumberOfSlots
        BY <1>3 DEF Sound
      <3>2. id \in added.present <=> id \in moved.present \/ id = x
        BY <2>4 DEF P
      <3>3. id \in added.slots[k] <=> id \in moved.slots[k] \/ (k = m /\ id = x)
        BY <2>1, <2>4, <1>1 DEF S
      <3>4. CASE id = x
        BY <3>1, <3>2, <3>3, <3>4, <1>6 DEF m
      <3>5. CASE id # x
        BY <3>1, <3>2, <3>3, <3>5
      <3> QED
        BY <3>4, <3>5
    <2>6. Sound(added, [at EXCEPT ![x] = t])
      BY <2>5 DEF Sound
    <2> QED
      BY <2>2, <2>4, <2>6, <1>4, <1>6 DEF d
  <1> QED
    BY <1>5, <1>6

LEMMA InitIInv == Init => IInv
  <1> SUFFICES ASSUME Init PROVE IInv
    OBVIOUS
  <1>1. NewCounter \in CounterState
    BY DEF NewCounter, CounterState
  <1>2. Sound(NewCounter, [id \in Id |-> -1])
    BY DEF Sound, NewCounter
  <1>3. TypeOK
    BY <1>1 DEF Init, TypeOK, Saved, Time
  <1> QED
    BY <1>2, <1>3 DEF Init, IInv

LEMMA NextIInv == IInv /\ [Next]_vars => IInv'
  <1> SUFFICES ASSUME IInv, [Next]_vars PROVE IInv'
    OBVIOUS
  <1> USE DEF IInv
  <1>1. ASSUME NEW id \in Id, ApplyEntry(id) PROVE IInv'
    <2>1. /\ counter \in CounterState /\ countedAt \in [Id -> Time] /\ now \in Nat
          /\ Sound(counter, countedAt)
      BY DEF TypeOK
    <2>2. counter' = Apply(counter, id, now)
      BY <1>1 DEF ApplyEntry
    <2>3. countedAt' = IF counter'.value > counter.value
                         THEN [countedAt EXCEPT ![id] = now] ELSE countedAt
      BY <1>1 DEF ApplyEntry
    <2>4. counter' \in CounterState /\ Sound(counter', countedAt')
      BY <2>1, <2>2, <2>3, ApplySound
    <2>5. countedAt' \in [Id -> Time]
      BY <2>1, <2>3 DEF Time
    <2>6. appliedAt' \in Time /\ longIdle' \in BOOLEAN /\ now' \in Nat /\ saved' = saved
      BY <1>1, <2>1 DEF ApplyEntry, Time, TypeOK
    <2>7. TypeOK'
      BY <2>4, <2>5, <2>6 DEF TypeOK
    <2> QED
      BY <2>4, <2>6, <2>7
  <1>2. CASE Tick
    BY <1>2 DEF Tick, TypeOK, history
  <1>3. CASE Snapshot
    BY <1>3 DEF Snapshot, TypeOK, history, Saved
  <1>4. CASE Restore
    BY <1>4 DEF Restore, TypeOK, Saved
  <1>5. CASE UNCHANGED vars
    BY <1>5 DEF vars, history, TypeOK
  <1> QED
    BY <1>1, <1>2, <1>3, <1>4, <1>5 DEF Next

\* The counter and its snapshots stay well formed under entries, the clock,
\* snapshots and restores (counter.go:42-145).
THEOREM CounterTypeOK == Spec => []TypeOK
  <1>1. IInv => TypeOK
    BY DEF IInv
  <1> QED
    BY <1>1, InitIInv, NextIInv, PTL DEF Spec

\* For any number of ids and slots, an id is in present exactly while it is in
\* the slot of the minute it was counted in: clearMinute (counter.go:72-79)
\* forgets every id in the end, also after a restored snapshot.
THEOREM IdsKeepTheirSlots == Spec => []EveryIdHasItsSlot
  <1>1. IInv => EveryIdHasItsSlot
    BY DEF IInv, Sound, EveryIdHasItsSlot
  <1> QED
    BY <1>1, InitIInv, NextIInv, PTL DEF Spec

----------------------------------------------------------------------------
(* How long an id is remembered.                                           *)

\* For a counter c at time t, whose ids were counted at the times at and which
\* last applied an entry at last: it shows the minute of that entry, remembers
\* the ids counted in the day before it, and no others unless the entries
\* have left out a day.
Dated(c, at, last, idle, t) ==
    /\ last <= t
    /\ c.minute = (IF last = -1 THEN -1 ELSE last % NumberOfSlots)
    /\ \A id \in Id :
         /\ at[id] <= last
         /\ id \in c.present => at[id] # -1
         /\ (at[id] # -1 /\ last - at[id] < NumberOfSlots) => id \in c.present
         /\ (id \in c.present /\ ~idle) => last - at[id] < NumberOfSlots

\* The live counter and the snapshot, which the live one has gone on from.
DInv ==
    /\ Dated(counter, countedAt, appliedAt, longIdle, now)
    /\ Dated(saved.counter, saved.countedAt, saved.appliedAt, saved.longIdle, now)
    /\ saved.counter.value <= counter.value

\* What moving to the minute of t forgets: ids that are a day old, and all of
\* them if no day was left out.
LEMMA MoveToDated ==
    ASSUME NEW c \in CounterState, NEW at \in [Id -> Time], NEW last \in Time,
           NEW idle \in BOOLEAN, NEW t \in Nat, NEW id \in Id,
           Sound(c, at), Dated(c, at, last, idle, t)
    PROVE  LET d == MoveTo(c, t % NumberOfSlots) IN
           /\ d.minute = t % NumberOfSlots
           /\ id \in d.present => at[id] # -1
           /\ (at[id] # -1 /\ t - at[id] < NumberOfSlots) => id \in d.present
           /\ (id \in d.present /\ ~idle /\ (last = -1 \/ t - last < NumberOfSlots))
                => t - at[id] < NumberOfSlots
  <1> DEFINE N == NumberOfSlots
             m == t % N
             M == MinutesPassed(c.minute, m)
             d == MoveTo(c, m)
  <1>1. /\ m \in Slot /\ N \in Nat \ {0} /\ last \in Int /\ at[id] \in Int /\ last <= t
        /\ (at[id] = -1 \/ at[id] \in Nat) /\ (last = -1 \/ last \in Nat)
        /\ at[id] <= last
    BY MinuteIsASlot, SlotsAssumption DEF Time, Dated
  <1>2. d.minute = m
    BY DEF MoveTo, CounterState
  <1>3. /\ id \in c.present => at[id] # -1
        /\ (at[id] # -1 /\ last - at[id] < N) => id \in c.present
        /\ (id \in c.present /\ ~idle) => last - at[id] < N
        /\ c.minute = (IF last = -1 THEN -1 ELSE last % N)
    BY DEF Dated
  <1>4. CASE last = -1
    <2>1. at[id] = -1 /\ id \notin c.present
      BY <1>1, <1>3, <1>4
    <2>2. d.present = c.present
      BY <1>3, <1>4 DEF MoveTo, CounterState
    <2> QED BY <1>2, <2>1, <2>2
  <1>5. CASE last # -1
    <2>0. last \in Nat /\ c.minute = last % N /\ c.minute # -1
      <3>1. last \in Nat /\ c.minute = last % N
        BY <1>1, <1>3, <1>5
      <3>2. last % N \in Slot
        BY <3>1, MinuteIsASlot
      <3> QED BY <3>1, <3>2, SlotsAssumption DEF Slot
    <2>1. d.present = IF m = c.minute THEN c.present
                      ELSE {x \in c.present : \A k \in M : x \notin c.slots[k]}
      BY <2>0 DEF MoveTo, ClearMinutes, CounterState
    <2>2. ASSUME id \in c.present
          PROVE  /\ at[id] \in Nat /\ at[id] % N \in Slot
                 /\ \A k \in Slot : id \in c.slots[k] <=> k = at[id] % N
      <3>1. at[id] \in Nat
        BY <1>1, <1>3, <2>2
      <3>2. at[id] % N \in Slot
        BY <3>1, MinuteIsASlot
      <3> QED BY <2>2, <3>1, <3>2 DEF Sound
    <2>3. M \subseteq Slot
      BY DEF MinutesPassed
    <2>4. id \in d.present => id \in c.present
      BY <2>1
    <2>5. ASSUME at[id] # -1, t - at[id] < N PROVE id \in d.present
      <3>1. at[id] \in Nat /\ last - at[id] < N
        BY <1>1, <2>0, <2>5
      <3>2. id \in c.present
        BY <1>3, <2>5, <3>1
      <3>3. CASE m # c.minute
        <4>1. at[id] % N \notin M
          BY <1>1, <2>0, <2>5, <3>1, <3>3, RecentMinuteStays
        <4> QED BY <2>1, <2>2, <2>3, <3>2, <3>3, <4>1
      <3> QED BY <2>1, <3>2, <3>3
    <2>6. ASSUME id \in d.present, ~idle, t - last < N PROVE t - at[id] < N
      <3>1. /\ id \in c.present /\ at[id] \in Nat /\ last - at[id] < N
        BY <1>3, <2>2, <2>4, <2>6
      <3>2. CASE t - at[id] >= N
        <4>1. m # c.minute /\ at[id] % N \in M
          BY <1>1, <2>0, <2>6, <3>1, <3>2, OldMinutePassed
        <4>2. id \in c.slots[at[id] % N]
          BY <2>2, <3>1
        <4> QED BY <2>1, <2>6, <4>1, <4>2
      <3> QED BY <1>1, <3>1, <3>2
    <2> QED BY <1>2, <1>3, <1>5, <2>4, <2>5, <2>6
  <1> QED
    BY <1>4, <1>5

\* A counter an entry can be applied to, and what is left when one has been.
Ready(c, at, last, idle, t) ==
    /\ c \in CounterState /\ at \in [Id -> Time] /\ last \in Time /\ idle \in BOOLEAN /\ t \in Nat
    /\ Sound(c, at) /\ Dated(c, at, last, idle, t)

Entered(c, at, last, idle, x, t, d, when, later) ==
    /\ d = Apply(c, x, t)
    /\ when = IF d.value > c.value THEN [at EXCEPT ![x] = t] ELSE at
    /\ later \in BOOLEAN
    /\ later <=> idle \/ (last # -1 /\ t - last >= NumberOfSlots)

\* Applying an entry at t: an id is counted unless it was counted in the day
\* before, and the counter is up to date for t.
LEMMA ApplyDated ==
    ASSUME NEW c, NEW at, NEW last, NEW idle, NEW t, NEW x \in Id, NEW d, NEW when, NEW later,
           Ready(c, at, last, idle, t), Entered(c, at, last, idle, x, t, d, when, later)
    PROVE  /\ Dated(d, when, t, later, t)
           /\ d.value >= c.value
           /\ d.value > c.value => at[x] = -1 \/ t - at[x] >= NumberOfSlots
  <1> DEFINE N == NumberOfSlots
             m == t % N
             moved == MoveTo(c, m)
             added == [moved EXCEPT !.present = @ \cup {x}, !.slots[m] = @ \cup {x},
                                    !.value = @ + 1]
  <1>0. /\ c \in CounterState /\ at \in [Id -> Time] /\ last \in Time /\ idle \in BOOLEAN
        /\ t \in Nat /\ Sound(c, at) /\ Dated(c, at, last, idle, t)
        /\ d = Apply(c, x, t) /\ later \in BOOLEAN
        /\ when = IF d.value > c.value THEN [at EXCEPT ![x] = t] ELSE at
        /\ later <=> idle \/ (last # -1 /\ t - last >= NumberOfSlots)
    BY DEF Ready, Entered
  <1> USE <1>0
  <1>1. m \in Slot /\ N \in Nat \ {0}
    BY MinuteIsASlot, SlotsAssumption
  <1>2. c.value \in Nat /\ ~(c.value + 1 < 0)
    BY DEF CounterState
  <1>3. moved.minute = m
    BY MoveToDated
  <1>4. ASSUME NEW id \in Id
        PROVE  /\ id \in moved.present => at[id] # -1
               /\ (at[id] # -1 /\ t - at[id] < N) => id \in moved.present
               /\ (id \in moved.present /\ ~later) => t - at[id] < N
               /\ at[id] <= t
    <2>1. at[id] <= last /\ last <= t /\ at[id] \in Int /\ last \in Int
      BY DEF Dated, Time
    <2>2. ~later => ~idle /\ (last = -1 \/ t - last < N)
      BY <1>1, <2>1
    <2>3. at[id] <= t
      BY <2>1
    <2> QED BY <2>2, <2>3, MoveToDated
  <1> HIDE DEF m
  <1>5. moved \in CounterState /\ moved.value = c.value
    BY <1>1, MoveToSound
  <1>6. d = IF x \in moved.present THEN moved ELSE added
    BY <1>2 DEF Apply, Increment, m
  <1> HIDE DEF moved
  <1>7. CASE x \in moved.present
    <2>1. d = moved /\ d.value = c.value
      BY <1>5, <1>6, <1>7
    <2>2. when = at
      BY <1>2, <2>1
    <2>3. Dated(d, at, t, later, t)
      BY <1>3, <1>4, <2>1 DEF Dated, m
    <2> QED BY <1>2, <2>1, <2>2, <2>3
  <1>8. CASE x \notin moved.present
    <2>1. d = added
      BY <1>6, <1>8
    <2>2. d.minute = m /\ d.present = moved.present \cup {x} /\ d.value = c.value + 1
      BY <1>3, <1>5, <2>1 DEF CounterState
    <2>3. d.value > c.value
      BY <1>2, <2>2
    <2>4. \A id \in Id : when[id] = IF id = x THEN t ELSE at[id]
      BY <2>3
    <2>5. Dated(d, when, t, later, t)
      <3>1. d.minute = (IF t = -1 THEN -1 ELSE t % N)
        BY <2>2 DEF m
      <3>2. t <= t /\ t # -1 /\ t - t < N
        BY <1>1
      <3>3. ASSUME NEW id \in Id
            PROVE  /\ when[id] <= t
                   /\ id \in d.present => when[id] # -1
                   /\ (when[id] # -1 /\ t - when[id] < N) => id \in d.present
                   /\ (id \in d.present /\ ~later) => t - when[id] < N
        BY <1>4, <2>2, <2>4, <3>2
      <3> QED BY <3>1, <3>2, <3>3 DEF Dated
    <2>6. at[x] = -1 \/ t - at[x] >= N
      <3>1. at[x] \in Int
        BY DEF Time
      <3> QED BY <1>1, <1>4, <1>8, <3>1
    <2> QED BY <1>2, <2>2, <2>3, <2>5, <2>6
  <1> QED
    BY <1>7, <1>8

\* Nothing has been counted yet.
LEMMA InitDInv == Init => DInv
  <1> SUFFICES ASSUME Init PROVE DInv
    OBVIOUS
  <1>1. Dated(NewCounter, [id \in Id |-> -1], -1, FALSE, 0)
    BY DEF Dated, NewCounter
  <1>2. NewCounter.value <= NewCounter.value
    BY DEF NewCounter
  <1> QED
    BY <1>1, <1>2 DEF Init, DInv

\* The clock only adds to the age of a counter.
LEMMA DatedLater ==
    ASSUME NEW c, NEW at, NEW last \in Time, NEW idle, NEW t \in Nat,
           Dated(c, at, last, idle, t)
    PROVE  Dated(c, at, last, idle, t + 1)
  BY DEF Dated, Time

\* Every step keeps the dates right, and counts an id only if its day is over.
LEMMA NextDInv ==
    IInv /\ DInv /\ [Next]_vars
      => /\ DInv'
         /\ \A id \in Id :
              (ApplyEntry(id) /\ counter'.value > counter.value)
                => countedAt[id] = -1 \/ now - countedAt[id] >= NumberOfSlots
  <1> DEFINE OnlyAfterADay ==
               \A id \in Id :
                 (ApplyEntry(id) /\ counter'.value > counter.value)
                   => countedAt[id] = -1 \/ now - countedAt[id] >= NumberOfSlots
  <1> SUFFICES ASSUME IInv, DInv, [Next]_vars PROVE DInv' /\ OnlyAfterADay
    OBVIOUS
  <1>0. /\ counter \in CounterState /\ saved \in Saved /\ now \in Nat
        /\ countedAt \in [Id -> Time] /\ appliedAt \in Time /\ longIdle \in BOOLEAN
        /\ saved.appliedAt \in Time /\ saved.counter \in CounterState
        /\ counter.value \in Nat /\ saved.counter.value \in Nat
        /\ Sound(counter, countedAt)
    BY DEF IInv, TypeOK, Saved, CounterState
  <1>1. ASSUME NEW x \in Id, ApplyEntry(x)
        PROVE  /\ DInv'
               /\ counter'.value > counter.value
                    => countedAt[x] = -1 \/ now - countedAt[x] >= NumberOfSlots
    <2>1. /\ counter' = Apply(counter, x, now)
          /\ countedAt' = IF counter'.value > counter.value
                            THEN [countedAt EXCEPT ![x] = now] ELSE countedAt
          /\ appliedAt' = now /\ saved' = saved /\ now' = now
          /\ longIdle' = (longIdle \/ (appliedAt # -1 /\ now - appliedAt >= NumberOfSlots))
      BY <1>1 DEF ApplyEntry
    <2>2. /\ Dated(counter', countedAt', appliedAt', longIdle', now')
          /\ counter'.value >= counter.value
          /\ counter'.value > counter.value
               => countedAt[x] = -1 \/ now - countedAt[x] >= NumberOfSlots
      <3>1. Dated(counter, countedAt, appliedAt, longIdle, now)
        BY DEF DInv
      <3>2. longIdle' \in BOOLEAN
        BY <1>0, <2>1
      <3>3. Ready(counter, countedAt, appliedAt, longIdle, now)
        BY <1>0, <3>1 DEF Ready
      <3>4. Entered(counter, countedAt, appliedAt, longIdle, x, now, counter', countedAt', longIdle')
        BY <2>1, <3>2 DEF Entered
      <3>5. /\ Dated(counter', countedAt', now, longIdle', now)
            /\ counter'.value >= counter.value
            /\ counter'.value > counter.value
                 => countedAt[x] = -1 \/ now - countedAt[x] >= NumberOfSlots
        BY <3>3, <3>4, ApplyDated, Zenon
      <3> QED BY <2>1, <3>5
    <2>3. counter'.value \in Nat
      BY <1>0, <2>1, ApplySound DEF CounterState
    <2>4. saved'.counter.value <= counter'.value
      BY <1>0, <2>1, <2>2, <2>3 DEF DInv
    <2> QED BY <2>1, <2>2, <2>4 DEF DInv
  <1>2. CASE Tick
    <2>1. now' = now + 1 /\ UNCHANGED <<counter, saved, countedAt, appliedAt, longIdle>>
      BY <1>2 DEF Tick, history
    <2>2. Dated(counter, countedAt, appliedAt, longIdle, now + 1)
      BY <1>0, DatedLater DEF DInv
    <2>3. Dated(saved.counter, saved.countedAt, saved.appliedAt, saved.longIdle, now + 1)
      BY <1>0, DatedLater DEF DInv
    <2> QED BY <1>0, <2>1, <2>2, <2>3 DEF DInv
  <1>3. CASE Snapshot
    <2>1. /\ saved' = [counter |-> counter, countedAt |-> countedAt, appliedAt |-> appliedAt,
                       longIdle |-> longIdle]
          /\ UNCHANGED <<counter, now, countedAt, appliedAt, longIdle>>
      BY <1>3 DEF Snapshot, history
    <2>2. /\ saved'.counter = counter /\ saved'.countedAt = countedAt
          /\ saved'.appliedAt = appliedAt /\ saved'.longIdle = longIdle
      BY <2>1
    <2> QED BY <1>0, <2>1, <2>2 DEF DInv
  <1>4. CASE Restore
    <2>1. /\ counter' = saved.counter /\ countedAt' = saved.countedAt
          /\ appliedAt' = saved.appliedAt /\ longIdle' = saved.longIdle
          /\ saved' = saved /\ now' = now
      BY <1>4 DEF Restore
    <2>2. ~(counter'.value > counter.value)
      BY <1>0, <2>1 DEF DInv
    <2> QED BY <1>0, <2>1, <2>2 DEF DInv
  <1>5. CASE UNCHANGED vars
    BY <1>0, <1>5 DEF vars, history, DInv
  <1>6. OnlyAfterADay
    BY <1>1
  <1>7. DInv'
    BY <1>1, <1>2, <1>3, <1>4, <1>5 DEF Next
  <1> QED BY <1>6, <1>7

\* For any number of ids and slots: an id is counted at most once a day,
\* whatever minutes passed without an entry, over midnight and over restored
\* snapshots (counter.go:81-123).
THEOREM IdsCountedOncePerDay == Spec => CountedOncePerDay
  <1>1. IInv /\ DInv /\ [Next]_vars
          => [\A id \in Id :
                (ApplyEntry(id) /\ counter'.value > counter.value)
                  => countedAt[id] = -1 \/ now - countedAt[id] >= NumberOfSlots]_vars
    BY NextDInv
  <1> QED
    BY <1>1, InitIInv, NextIInv, InitDInv, NextDInv, PTL DEF Spec, CountedOncePerDay

\* And it is remembered no longer than a day, if entries come in every day.
THEOREM IdsForgottenAfterADay == Spec => []ForgottenAfterADay
  <1>1. IInv /\ DInv => ForgottenAfterADay
    BY DEF DInv, Dated, ForgottenAfterADay, IInv, TypeOK, CounterState
  <1> QED
    BY <1>1, InitIInv, NextIInv, InitDInv, NextDInv, PTL DEF Spec
=============================================================================
