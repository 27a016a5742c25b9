----------------------------- MODULE ClockProofs -----------------------------
(***************************************************************************)
(* The clock face of the counter, for any number of minutes in a day: which*)
(* minutes MinutesPassed passes when the clock goes on.                    *)
(***************************************************************************)
EXTENDS Counter, TLAPS

\* The minute of the day.
LEMMA MinuteIsASlot ==
    ASSUME NEW t \in Nat
    PROVE  t % NumberOfSlots \in Slot
  BY SlotsAssumption DEF Slot

\* Euclid's division, as far as the provers need it.
LEMMA DivMod ==
    ASSUME NEW N \in Nat \ {0}, NEW x \in Nat
    PROVE  /\ x \div N \in Int /\ x % N \in Int
           /\ x = N * (x \div N) + (x % N) /\ 0 <= x % N /\ x % N < N
  OBVIOUS

\* x is q whole turns and r of a clock with N hours.
Splits(x, N, q, r) ==
    N \in Nat \ {0} /\ q \in Int /\ r \in 0..(N - 1) /\ x \in Nat /\ x = N * q + r

\* The remainder is the only one.
LEMMA ModUnique ==
    ASSUME NEW x, NEW N, NEW q, NEW r, Splits(x, N, q, r)
    PROVE  x % N = r
  <1>0. N \in Nat \ {0} /\ q \in Int /\ r \in 0..(N - 1) /\ x \in Nat /\ x = N * q + r
    BY DEF Splits
  <1> USE <1>0
  <1>1. PICK d \in Int : d = x \div N
    BY DivMod
  <1>2. x = N * d + (x % N) /\ 0 <= x % N /\ x % N < N /\ x % N \in Int
    BY <1>1, DivMod
  <1>3. N * (d - q) = r - (x % N)
    <2>1. N * (d - q) = N * d - N * q
      OBVIOUS
    <2>2. PICK D \in Int, Q \in Int : D = N * d /\ Q = N * q
      OBVIOUS
    <2>3. x = D + (x % N) /\ x = Q + r
      BY <1>2, <2>2, Zenon
    <2>4. PICK m \in Int : m = x % N
      BY <1>2
    <2>5. x = D + m /\ x = Q + r /\ r \in Int
      BY <2>3, <2>4
    <2>6. D - Q = r - m
      BY <2>5
    <2> QED BY <2>1, <2>2, <2>4, <2>6, Zenon
  <1>4. \A k \in Int : (k >= 1 => N * k >= N) /\ (k <= -1 => N * k <= -N)
    OBVIOUS
  <1>5. d - q \in Int /\ N * (d - q) \in Int
    OBVIOUS
  <1>6. ~(d - q >= 1) /\ ~(d - q <= -1)
    <2>1. (d - q >= 1 => N * (d - q) >= N) /\ (d - q <= -1 => N * (d - q) <= -N)
      BY <1>4, <1>5
    <2> QED BY <1>2, <1>3, <2>1
  <1>7. d = q
    BY <1>6
  <1> QED
    BY <1>2, <1>7

\* Where the hand points less than a day later.
LEMMA MinutesLater ==
    ASSUME NEW a \in Nat, NEW t \in Nat, a <= t, t - a < NumberOfSlots
    PROVE  LET A == a % NumberOfSlots
           IN  t % NumberOfSlots = IF A + (t - a) < NumberOfSlots THEN A + (t - a)
                                   ELSE (A + (t - a)) - NumberOfSlots
  <1> DEFINE N == NumberOfSlots
             A == a % N
             s == A + (t - a)
  <1>1. N \in Nat \ {0}
    BY SlotsAssumption
  <1> HIDE DEF N
  <1>2. PICK q \in Int : q = a \div N
    BY <1>1, DivMod
  <1>3. a = N * q + A /\ A \in Int /\ 0 <= A /\ A < N
    BY <1>1, <1>2, DivMod
  <1> HIDE DEF A
  <1>4. s \in Int /\ 0 <= s /\ s - N < N /\ t = N * q + s
    <2>1. N * q \in Int
      BY <1>1
    <2> QED BY <1>1, <1>3, <2>1 DEF N
  <1> HIDE DEF s
  <1>5. CASE s < N
    <2>1. s \in 0..(N - 1)
      BY <1>1, <1>4, <1>5
    <2>2. Splits(t, N, q, s)
      BY <1>1, <1>4, <2>1 DEF Splits
    <2>3. t % N = s
      BY <2>2, ModUnique, Zenon
    <2> QED BY <1>5, <2>3 DEF N, A, s
  <1>6. CASE ~(s < N)
    <2>1. PICK r \in 0..(N - 1) : r = s - N
      BY <1>1, <1>4, <1>6
    <2>2. PICK p \in Int : p = q + 1
      OBVIOUS
    <2>3. N * p = N * q + N /\ N * q \in Int
      BY <1>1, <2>2
    <2>4. t = N * p + r
      BY <1>1, <1>4, <2>1, <2>3
    <2>5. Splits(t, N, p, r)
      BY <1>1, <2>1, <2>2, <2>4 DEF Splits
    <2>6. t % N = r
      BY <2>5, ModUnique, Zenon
    <2> QED BY <1>6, <2>1, <2>6, Zenon DEF N, A, s
  <1> QED
    BY <1>5, <1>6

\* A minute of the last day is not passed ...
LEMMA RecentMinuteStays ==
    ASSUME NEW a \in Nat, NEW l \in Nat, NEW t \in Nat, a <= l, l <= t, t - a < NumberOfSlots,
           l % NumberOfSlots # t % NumberOfSlots
    PROVE  a % NumberOfSlots \notin MinutesPassed(l % NumberOfSlots, t % NumberOfSlots)
  <1> DEFINE N == NumberOfSlots
  <1>1. /\ N \in Nat \ {0} /\ a % N \in 0..(N - 1) /\ l % N \in 0..(N - 1) /\ t % N \in 0..(N - 1)
    BY SlotsAssumption, MinuteIsASlot DEF Slot
  <1>2. l - a < N /\ a <= t
    BY <1>1
  <1>3. l % N = (IF (a % N) + (l - a) < N THEN (a % N) + (l - a) ELSE ((a % N) + (l - a)) - N)
    BY <1>2, MinutesLater
  <1>4. t % N = (IF (a % N) + (t - a) < N THEN (a % N) + (t - a) ELSE ((a % N) + (t - a)) - N)
    BY <1>2, MinutesLater
  <1>5. PICK A \in 0..(N - 1), B \in 0..(N - 1), C \in 0..(N - 1) :
          A = a % N /\ B = l % N /\ C = t % N
    BY <1>1
  <1>6. PICK u \in Nat, w \in Nat : u = l - a /\ w = t - a /\ u <= w /\ w < N
    BY <1>1, <1>2
  <1>7. /\ B = IF A + u < N THEN A + u ELSE (A + u) - N
        /\ C = IF A + w < N THEN A + w ELSE (A + w) - N
    BY <1>3, <1>4, <1>5, <1>6, Zenon
  <1>8. B # C
    BY <1>5
  <1> HIDE DEF N
  <1>9. ~(IF B < C THEN B < A /\ A <= C ELSE B < A \/ A <= C)
    BY <1>1, <1>6, <1>7, <1>8
  <1> QED
    BY <1>5, <1>9 DEF MinutesPassed, N

\* ... and one that is a day old or more is, if less than a day has passed.
LEMMA OldMinutePassed ==
    ASSUME NEW a \in Nat, NEW l \in Nat, NEW t \in Nat, a <= l, l <= t,
           l - a < NumberOfSlots, t - l < NumberOfSlots, t - a >= NumberOfSlots
    PROVE  /\ l % NumberOfSlots # t % NumberOfSlots
           /\ a % NumberOfSlots \in MinutesPassed(l % NumberOfSlots, t % NumberOfSlots)
  <1> DEFINE N == NumberOfSlots
  <1>1. /\ N \in Nat \ {0} /\ a % N \in 0..(N - 1) /\ l % N \in 0..(N - 1) /\ t % N \in 0..(N - 1)
    BY SlotsAssumption, MinuteIsASlot DEF Slot
  <1>3. l % N = (IF (a % N) + (l - a) < N THEN (a % N) + (l - a) ELSE ((a % N) + (l - a)) - N)
    BY MinutesLater
  <1>4. t % N = (IF (l % N) + (t - l) < N THEN (l % N) + (t - l) ELSE ((l % N) + (t - l)) - N)
    BY MinutesLater
  <1>5. PICK A \in 0..(N - 1), B \in 0..(N - 1), C \in 0..(N - 1) :
          A = a % N /\ B = l % N /\ C = t % N
    BY <1>1
  <1>6. PICK u \in Nat, w \in Nat : u = l - a /\ w = t - l /\ u < N /\ w < N /\ u + w >= N
    BY <1>1
  <1>7. /\ B = IF A + u < N THEN A + u ELSE (A + u) - N
        /\ C = IF B + w < N THEN B + w ELSE (B + w) - N
    BY <1>3, <1>4, <1>5, <1>6, Zenon
  <1> HIDE DEF N
  <1>8. B # C /\ (IF B < C THEN B < A /\ A <= C ELSE B < A \/ A <= C)
    BY <1>1, <1>6, <1>7
  <1> QED
    BY <1>5, <1>8 DEF MinutesPassed, N, Slot
==============================================================================
