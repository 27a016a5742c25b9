-------------------------- MODULE CompactionProofs --------------------------
(***************************************************************************)
(* Snapshots and compacted logs for any number of entries, failed calls,   *)
(* crashes, snapshots and callers of TakeSnapshot, on both nodes, and with *)
(* requests that arrive after their caller has given up.                   *)
(*                                                                         *)
(* Four of the five properties say what holds unless a mishap has          *)
(* happened.  Their proofs are layers on the types:                        *)
(*                                                                         *)
(*   Disk       the files and the beginnings of the logs;                  *)
(*   Terms      the leader's log and terms, and what requests carry;       *)
(*   Copies     what the leader's state machine and its copies cover;      *)
(*   Exact      what state machines, files and the follower's log contain; *)
(*   Majority   what the leader takes for acknowledged.                    *)
(***************************************************************************)
EXTENDS Compaction, SequenceTheorems, WellFoundedInduction, TLAPS

----------------------------------------------------------------------------
(* The operators on logs.                                                  *)

LogType == [first : Nat \ {0}, entries : Entries]

\* Every entry stands at the index it was written at.
Right(lg) == \A i \in 1..Len(lg.entries) : lg.entries[i] = lg.first + i - 1

\* A non-empty set of naturals has a least element.
LEMMA LeastOfNats ==
    ASSUME NEW S, S \subseteq Nat, S # {}
    PROVE  \E x \in S : \A y \in S : x <= y
  <1> DEFINE R == {ss \in Nat \X Nat : ss[1] < ss[2]}
  <1>1. IsWellFoundedOn(R, Nat)
    BY NatLessThanWellFounded, Zenon DEF OpToRel
  <1>2. PICK x \in S : \A y \in S : ~(<<y, x>> \in R)
    <2> HIDE DEF R
    <2> QED BY <1>1, WFMin
  <1>3. ASSUME NEW y \in S PROVE x <= y
    <2>1. x \in Nat /\ y \in Nat /\ ~(y < x)
      BY <1>2
    <2> QED BY <2>1
  <1> QED BY <1>3

\* A non-empty bounded one has a greatest.
LEMMA GreatestOfNats ==
    ASSUME NEW n \in Nat, NEW S, S \subseteq 0..n, S # {}
    PROVE  \E x \in S : \A y \in S : y <= x
  <1> DEFINE T == {n - x : x \in S}
  <1>1. T \subseteq Nat /\ T # {}
    <2>1. \A x \in S : n - x \in Nat
      OBVIOUS
    <2>2. T # {}
      BY Zenon
    <2> QED BY <2>1, <2>2
  <1>2. PICK m \in T : \A y \in T : m <= y
    <2> HIDE DEF T
    <2> QED BY <1>1, LeastOfNats
  <1>3. PICK x \in S : m = n - x
    BY <1>2
  <1>4. \A y \in S : n - x <= n - y
    BY <1>2, <1>3
  <1> QED BY <1>4

LEMMA Positive ==
    ASSUME NEW lg \in LogType
    PROVE  /\ lg.first \in Nat \ {0} /\ lg.entries \in Seq(Nat \ {0})
           /\ Len(lg.entries) \in Nat /\ LastIndex(lg) \in Nat
           /\ LastIndex(lg) = lg.first + Len(lg.entries) - 1
           /\ \A i \in 1..Len(lg.entries) : lg.entries[i] \in Nat \ {0}
  <1>1. lg.first \in Nat \ {0} /\ lg.entries \in Seq(Nat \ {0})
    BY DEF LogType, Entries, Entry
  <1>2. Len(lg.entries) \in Nat /\ \A i \in 1..Len(lg.entries) : lg.entries[i] \in Nat \ {0}
    BY <1>1, ElementOfSeq, LenProperties
  <1> QED BY <1>1, <1>2 DEF LastIndex

LEMMA EntryAtOK ==
    ASSUME NEW lg \in LogType, NEW k \in Int, Held(lg, k)
    PROVE  EntryAt(lg, k) \in Nat \ {0} /\ (Right(lg) => EntryAt(lg, k) = k)
  <1> DEFINE i == k - lg.first + 1
  <1>1. /\ lg.first \in Nat \ {0} /\ Len(lg.entries) \in Nat
        /\ LastIndex(lg) = lg.first + Len(lg.entries) - 1
        /\ \A j \in 1..Len(lg.entries) : lg.entries[j] \in Nat \ {0}
    BY Positive
  <1>2. i \in 1..Len(lg.entries) /\ k = lg.first + i - 1
    BY <1>1 DEF Held
  <1>3. EntryAt(lg, k) = lg.entries[i]
    BY DEF EntryAt
  <1> HIDE DEF i
  <1> QED BY <1>1, <1>2, <1>3 DEF Right

LEMMA WrittenOK ==
    ASSUME NEW lg \in LogType, NEW s \in Entries
    PROVE  /\ Written(lg, s) \in LogType /\ Written(lg, s).first = lg.first
           /\ LastIndex(Written(lg, s)) = LastIndex(lg) + Len(s)
           /\ (Right(lg) /\ \A i \in 1..Len(s) : s[i] = LastIndex(lg) + i) => Right(Written(lg, s))
  <1> DEFINE both == lg.entries \o s
  <1>1. /\ lg.first \in Nat \ {0} /\ lg.entries \in Seq(Nat \ {0}) /\ Len(lg.entries) \in Nat
        /\ LastIndex(lg) = lg.first + Len(lg.entries) - 1
    BY Positive
  <1>2. s \in Seq(Nat \ {0}) /\ Len(s) \in Nat
    BY LenProperties DEF Entries, Entry
  <1>3. /\ both \in Seq(Nat \ {0}) /\ Len(both) = Len(lg.entries) + Len(s)
        /\ \A i \in 1..(Len(lg.entries) + Len(s)) :
             both[i] = IF i <= Len(lg.entries) THEN lg.entries[i] ELSE s[i - Len(lg.entries)]
    BY <1>1, <1>2, ConcatProperties
  <1>4. Written(lg, s) = [lg EXCEPT !.entries = both]
    BY DEF Written
  <1> HIDE DEF both
  <1>5. Written(lg, s) \in LogType /\ Written(lg, s).first = lg.first /\ Written(lg, s).entries = both
    BY <1>1, <1>3, <1>4 DEF LogType, Entries, Entry
  <1>6. LastIndex(Written(lg, s)) = LastIndex(lg) + Len(s)
    <2>1. LastIndex(Written(lg, s)) = lg.first + Len(both) - 1
      BY <1>5 DEF LastIndex
    <2>2. Len(both) = Len(lg.entries) + Len(s)
      BY <1>3
    <2>3. lg.first \in Int /\ Len(lg.entries) \in Int /\ Len(s) \in Int
      BY <1>1, <1>2
    <2>4. LastIndex(lg) = lg.first + Len(lg.entries) - 1
      BY <1>1
    <2> QED BY <2>1, <2>2, <2>3, <2>4
  <1>7. ASSUME Right(lg), \A i \in 1..Len(s) : s[i] = LastIndex(lg) + i
        PROVE  Right(Written(lg, s))
    <2>1. SUFFICES ASSUME NEW i \in 1..Len(both) PROVE both[i] = lg.first + i - 1
      BY <1>5 DEF Right
    <2>2. CASE i <= Len(lg.entries)
      BY <1>1, <1>2, <1>3, <1>7, <2>2 DEF Right
    <2>3. CASE ~(i <= Len(lg.entries))
      <3>1. i - Len(lg.entries) \in 1..Len(s)
        BY <1>1, <1>2, <1>3, <2>3
      <3>2. both[i] = s[i - Len(lg.entries)]
        BY <1>1, <1>2, <1>3, <2>3
      <3>3. both[i] = LastIndex(lg) + (i - Len(lg.entries))
        BY <1>7, <3>1, <3>2
      <3> QED BY <1>1, <1>2, <1>3, <3>3
    <2> QED BY <2>2, <2>3
  <1> QED BY <1>5, <1>6, <1>7

LEMMA EntriesFromOK ==
    ASSUME NEW lg \in LogType, NEW a \in Nat, a >= lg.first
    PROVE  /\ EntriesFrom(lg, a) \in Entries
           /\ Len(EntriesFrom(lg, a)) = IF a <= LastIndex(lg) THEN LastIndex(lg) - a + 1 ELSE 0
           /\ Right(lg) => \A i \in 1..Len(EntriesFrom(lg, a)) : EntriesFrom(lg, a)[i] = a + i - 1
  <1> DEFINE m == a - lg.first + 1
             n == Len(lg.entries)
  <1>1. /\ lg.first \in Nat \ {0} /\ n \in Nat /\ LastIndex(lg) = lg.first + n - 1
        /\ \A i \in 1..n : lg.entries[i] \in Nat \ {0}
    BY Positive
  <1>2. m \in Int /\ m >= 1 /\ (m <= n <=> a <= LastIndex(lg))
    BY <1>1
  <1>3. \A i \in m..n : lg.entries[i] \in Nat \ {0}
    BY <1>1, <1>2
  <1>4. m = a - lg.first + 1
    OBVIOUS
  <1>5. EntriesFrom(lg, a) = SubSeq(lg.entries, m, n)
    BY DEF EntriesFrom
  <1> HIDE DEF m, n
  <1>6. /\ EntriesFrom(lg, a) \in Seq(Nat \ {0})
        /\ Len(EntriesFrom(lg, a)) = IF m <= n THEN n - m + 1 ELSE 0
        /\ \A i \in 1..(n - m + 1) : EntriesFrom(lg, a)[i] = lg.entries[m + i - 1]
    BY <1>1, <1>2, <1>3, <1>5, SubSeqProperties
  <1>7. ASSUME Right(lg), NEW i \in 1..Len(EntriesFrom(lg, a))
        PROVE  EntriesFrom(lg, a)[i] = a + i - 1
    <2>1. i \in 1..(n - m + 1) /\ m + i - 1 \in 1..n
      BY <1>1, <1>2, <1>6
    <2>2. EntriesFrom(lg, a)[i] = lg.entries[m + i - 1]
      BY <1>6, <2>1
    <2>3. lg.entries[m + i - 1] = lg.first + (m + i - 1) - 1
      BY <1>7, <2>1 DEF Right, n
    <2>4. lg.first \in Int /\ m \in Int /\ i \in Int
      BY <1>1, <1>2, <2>1
    <2> QED BY <1>4, <2>2, <2>3, <2>4, SMTT(20)
  <1>8. Len(EntriesFrom(lg, a)) = IF a <= LastIndex(lg) THEN LastIndex(lg) - a + 1 ELSE 0
    <2>1. Len(EntriesFrom(lg, a)) = IF m <= n THEN n - m + 1 ELSE 0
      BY <1>6
    <2>2. lg.first \in Int /\ n \in Int /\ LastIndex(lg) = lg.first + n - 1
      BY <1>1
    <2> QED BY <1>2, <1>4, <2>1, <2>2, SMTT(20)
  <1> QED BY <1>6, <1>7, <1>8 DEF Entries, Entry

LEMMA TruncateOK ==
    ASSUME NEW lg \in LogType, NEW k \in Nat, k <= LastIndex(lg)
    PROVE  /\ TruncateTo(lg, k) \in LogType
           /\ LastIndex(TruncateTo(lg, k)) = LastIndex(lg)
           /\ TruncateTo(lg, k).first = Larger(lg.first, k + 1)
           /\ Right(lg) => Right(TruncateTo(lg, k))
  <1>1. lg.first \in Nat \ {0} /\ LastIndex(lg) \in Nat
    BY Positive
  <1>2. CASE k < lg.first
    BY <1>1, <1>2 DEF TruncateTo, Larger
  <1>3. CASE ~(k < lg.first)
    <2> DEFINE es == EntriesFrom(lg, k + 1)
    <2>1. TruncateTo(lg, k) = [first |-> k + 1, entries |-> es]
      BY <1>3 DEF TruncateTo
    <2>2. /\ es \in Entries /\ Len(es) = IF k + 1 <= LastIndex(lg) THEN LastIndex(lg) - k ELSE 0
          /\ Right(lg) => \A i \in 1..Len(es) : es[i] = k + i
      BY <1>1, <1>3, EntriesFromOK
    <2> HIDE DEF es
    <2>3. TruncateTo(lg, k) \in LogType
      BY <2>1, <2>2 DEF LogType
    <2>4. LastIndex(TruncateTo(lg, k)) = LastIndex(lg)
      BY <1>1, <2>1, <2>2 DEF LastIndex
    <2>5. Right(lg) => Right(TruncateTo(lg, k))
      BY <2>1, <2>2 DEF Right
    <2> QED BY <1>1, <1>3, <2>1, <2>3, <2>4, <2>5 DEF Larger
  <1> QED BY <1>2, <1>3

\* installSnapshot leaves the log ending no earlier, and beginning no later
\* than behind the snapshot if it did so before.
LEMMA InstallOK ==
    ASSUME NEW lg \in LogType, NEW k \in Nat
    PROVE  /\ LogAfterInstall(lg, k) \in LogType
           /\ LastIndex(LogAfterInstall(lg, k)) >= LastIndex(lg)
           /\ lg.first <= k + 1 => LogAfterInstall(lg, k).first <= k + 1
           /\ Right(lg) => Right(LogAfterInstall(lg, k))
  <1>1. lg.first \in Nat \ {0} /\ LastIndex(lg) \in Nat
    BY Positive
  <1>2. CASE LastIndex(lg) > 0 /\ LastIndex(lg) <= k
    <2>1. LogAfterInstall(lg, k) = [first |-> k + 1, entries |-> <<>>]
      BY <1>2 DEF LogAfterInstall, ResetLog
    <2>2. <<>> \in Seq(Nat \ {0}) /\ Len(<<>>) = 0
      BY EmptySeq
    <2>3. LogAfterInstall(lg, k) \in LogType /\ Right(LogAfterInstall(lg, k))
      BY <2>1, <2>2 DEF LogType, Entries, Entry, Right
    <2>4. LastIndex(LogAfterInstall(lg, k)) = k
      BY <2>1, <2>2 DEF LastIndex
    <2> QED BY <1>1, <1>2, <2>1, <2>3, <2>4
  <1>3. CASE LastIndex(lg) > k
    <2>1. LogAfterInstall(lg, k) = TruncateTo(lg, k)
      BY <1>1, <1>3 DEF LogAfterInstall
    <2>2. k <= LastIndex(lg)
      BY <1>1, <1>3
    <2> QED BY <1>1, <2>1, <2>2, TruncateOK DEF Larger
  <1>4. CASE ~(LastIndex(lg) > 0 /\ LastIndex(lg) <= k) /\ ~(LastIndex(lg) > k)
    BY <1>1, <1>4 DEF LogAfterInstall
  <1> QED BY <1>2, <1>3, <1>4

LEMMA BaseOK ==
    ASSUME NEW lg \in LogType, NEW k \in Nat
    PROVE  /\ Base(lg, k) \in LogType /\ Base(lg, k).first = lg.first
           /\ Held(lg, k) => LastIndex(Base(lg, k)) = k - 1
           /\ ~Held(lg, k) => Base(lg, k) = lg
  <1>1. /\ lg.first \in Nat \ {0} /\ Len(lg.entries) \in Nat
        /\ LastIndex(lg) = lg.first + Len(lg.entries) - 1
        /\ \A i \in 1..Len(lg.entries) : lg.entries[i] \in Nat \ {0}
    BY Positive
  <1>2. CASE ~Held(lg, k)
    BY <1>2 DEF Base
  <1>3. CASE Held(lg, k)
    <2> DEFINE m == k - lg.first
               cut == SubSeq(lg.entries, 1, m)
    <2>1. m \in Nat /\ m <= Len(lg.entries) /\ k = lg.first + m
      BY <1>1, <1>3 DEF Held
    <2>2. Base(lg, k) = [lg EXCEPT !.entries = cut]
      BY <1>3 DEF Base, TruncateFrom
    <2> HIDE DEF m
    <2>3. \A i \in 1..m : lg.entries[i] \in Nat \ {0}
      BY <1>1, <2>1
    <2>4. cut \in Seq(Nat \ {0}) /\ Len(cut) = IF 1 <= m THEN m - 1 + 1 ELSE 0
      BY <2>1, <2>3, SubSeqProperties
    <2>5. Len(cut) = m
      BY <2>1, <2>4
    <2> HIDE DEF cut
    <2>6. /\ Base(lg, k) \in LogType /\ Base(lg, k).first = lg.first
          /\ Base(lg, k).entries = cut
      BY <1>1, <2>2, <2>4 DEF LogType, Entries, Entry
    <2>7. LastIndex(Base(lg, k)) = lg.first + m - 1
      BY <2>5, <2>6 DEF LastIndex
    <2> QED BY <1>1, <1>3, <2>1, <2>6, <2>7
  <1> QED BY <1>2, <1>3

\* appendEntries: unless entries are misplaced, a log that has the predecessor
\* has all the entries afterwards, and a log whose entries are at their places
\* only grows.
LEMMA AppendOK ==
    ASSUME NEW lg \in LogType, NEW prev \in Nat, NEW es \in Entries
    PROVE  LET new == AppendEntries(lg, prev, es)
           IN  /\ new \in LogType /\ new.first = lg.first
               /\ (prev <= LastIndex(lg) /\ ~Misplaces(lg, prev, es))
                     => prev + Len(es) <= LastIndex(new)
               /\ (Right(lg) /\ ~Misplaces(lg, prev, es) /\ \A i \in 1..Len(es) : es[i] = prev + i)
                     => Right(new) /\ LastIndex(new) >= LastIndex(lg)
  <1> DEFINE absent == Absent(lg, prev, es)
             from == FirstAbsent(lg, prev, es)
             new == AppendEntries(lg, prev, es)
             last == LastIndex(lg)
             n == Len(es)
             rest == SubSeq(es, from, n)
             base == Base(lg, prev + from)
  <1>1. lg.first \in Nat \ {0} /\ last \in Nat /\ lg.first - 1 <= last
    BY Positive
  <1>2. n \in Nat /\ \A i \in 1..n : es[i] \in Nat \ {0}
    BY LenProperties, ElementOfSeq DEF Entries, Entry
  <1>3. absent \subseteq 1..n /\ \A i \in 1..n : i \notin absent => Held(lg, prev + i)
    BY DEF Absent
  <1>4. CASE absent = {}
    <2>1. new = lg
      BY <1>4 DEF AppendEntries
    <2>2. ASSUME prev <= last PROVE prev + n <= last
      <3>1. CASE n = 0
        BY <1>1, <2>2, <3>1
      <3>2. CASE n # 0
        <4>1. Held(lg, prev + n)
          BY <1>2, <1>3, <1>4, <3>2
        <4> QED BY <1>1, <1>2, <4>1 DEF Held
      <3> QED BY <3>1, <3>2
    <2> QED BY <1>1, <2>1, <2>2
  <1>5. CASE absent # {}
    <2>1. from \in absent /\ \A j \in absent : from <= j
      <3>1. absent \subseteq Nat
        BY <1>2, <1>3
      <3> HIDE DEF absent
      <3>2. \E i \in absent : \A j \in absent : i <= j
        BY <1>5, <3>1, LeastOfNats
      <3>3. from = CHOOSE i \in absent : \A j \in absent : i <= j
        BY DEF FirstAbsent, absent
      <3> HIDE DEF from
      <3> QED BY <3>2, <3>3
    <2>2. from \in 1..n
      BY <1>3, <2>1
    <2>3. new = Written(base, rest)
      BY <1>5 DEF AppendEntries
    <2>4. Misplaces(lg, prev, es) <=> LastIndex(base) + 1 # prev + from
      BY <1>5 DEF Misplaces
    <2>5. Held(lg, prev + from) => ~SameTerm(EntryAt(lg, prev + from), es[from])
      BY <2>1 DEF Absent
    <2> HIDE DEF from, absent
    <2>6. /\ rest \in Entries /\ Len(rest) = n - from + 1
          /\ \A i \in 1..(n - from + 1) : rest[i] = es[from + i - 1]
      <3>1. \A i \in from..n : es[i] \in Nat \ {0}
        BY <1>2, <2>2
      <3> QED BY <1>2, <2>2, <3>1, SubSeqProperties DEF Entries, Entry
    <2> HIDE DEF rest, new
    <2>7. /\ base \in LogType /\ base.first = lg.first
          /\ ~Held(lg, prev + from) => base = lg
      BY <2>2, BaseOK
    <2> HIDE DEF base
    <2>8. LastIndex(base) \in Nat
      BY <2>7, Positive
    <2>9. /\ new \in LogType /\ new.first = lg.first /\ LastIndex(new) = LastIndex(base) + Len(rest)
          /\ (Right(base) /\ \A i \in 1..Len(rest) : rest[i] = LastIndex(base) + i) => Right(new)
      BY <2>3, <2>6, <2>7, WrittenOK
    <2>10. ASSUME ~Misplaces(lg, prev, es)
           PROVE  LastIndex(new) = prev + n /\ LastIndex(base) = prev + from - 1
      <3>1. LastIndex(base) + 1 = prev + from
        BY <2>4, <2>10
      <3>2. LastIndex(new) = LastIndex(base) + (n - from + 1)
        BY <2>6, <2>9
      <3>3. from \in Int /\ n \in Int /\ LastIndex(base) \in Int
        BY <1>2, <2>2, <2>8
      <3> QED BY <3>1, <3>2, <3>3
    <2>11. ASSUME Right(lg), ~Misplaces(lg, prev, es), \A i \in 1..n : es[i] = prev + i
           PROVE  Right(new) /\ LastIndex(new) >= last
      <3>1. ~Held(lg, prev + from)
        <4> SUFFICES ASSUME Held(lg, prev + from) PROVE FALSE
          OBVIOUS
        <4>3. EntryAt(lg, prev + from) = prev + from
          BY <2>2, <2>11, EntryAtOK
        <4>4. es[from] = prev + from
          BY <2>2, <2>11
        <4> QED BY <2>5, <4>3, <4>4 DEF SameTerm
      <3>2. base = lg /\ LastIndex(base) = prev + from - 1 /\ LastIndex(new) = prev + n
        BY <2>7, <2>10, <2>11, <3>1
      <3>3. ASSUME NEW i \in 1..Len(rest) PROVE rest[i] = LastIndex(base) + i
        <4>1. i \in 1..(n - from + 1) /\ from + i - 1 \in 1..n
          BY <1>2, <2>2, <2>6
        <4>2. rest[i] = prev + (from + i - 1)
          BY <2>6, <2>11, <4>1
        <4>3. from \in Int /\ i \in Int
          BY <2>2, <4>1
        <4> QED BY <3>2, <4>2, <4>3
      <3>4. Right(new)
        BY <2>9, <2>11, <3>2, <3>3
      <3> QED BY <1>1, <1>2, <2>2, <3>2, <3>4
    <2> QED BY <2>9, <2>10, <2>11, <1>2 DEF new
  <1> QED BY <1>4, <1>5

LEMMA UpToOK ==
    ASSUME NEW k \in Nat
    PROVE  UpTo(k) \in Entries /\ Len(UpTo(k)) = k /\ \A i \in 1..k : UpTo(k)[i] = i
  <1>1. UpTo(k) \in Seq(Nat \ {0})
    BY IsASeq DEF UpTo
  <1>2. Len(UpTo(k)) = k
    BY <1>1, LenProperties DEF UpTo
  <1> QED BY <1>1, <1>2 DEF UpTo, Entries, Entry

LEMMA ReachedOK ==
    ASSUME NEW lg \in LogType, NEW k \in Nat, NEW limit \in Nat
    PROVE  /\ Reached(lg, k, limit) \in Nat /\ Reached(lg, k, limit) >= k
           /\ Reached(lg, k, limit) <= Larger(k, limit)
           /\ Reached(lg, k, limit) <= Larger(k, LastIndex(lg))
           /\ Reached(lg, k, limit) > k => k + 1 >= lg.first
           /\ (Held(lg, k + 1) /\ limit = k + 1) => Reached(lg, k, limit) = k + 1
  <1>1. lg.first \in Nat \ {0} /\ LastIndex(lg) \in Nat
    BY Positive
  <1> QED BY <1>1 DEF Reached, Held, Larger, Smaller

\* The loop over the log appends what it reads.
LEMMA ExecutedOK ==
    ASSUME NEW lg \in LogType, NEW k \in Nat, NEW limit \in Nat, NEW done \in Entries
    PROVE  LET r == Reached(lg, k, limit)
               all == Executed(done, lg, k, limit)
           IN  /\ all \in Entries /\ Len(all) = Len(done) + (r - k)
               /\ \A i \in 1..Len(done) : all[i] = done[i]
               /\ Right(lg) => \A i \in 1..(r - k) : all[Len(done) + i] = k + i
               /\ (Right(lg) /\ done = UpTo(k)) => all = UpTo(r)
  <1> DEFINE r == Reached(lg, k, limit)
             more == [i \in 1..(r - k) |-> EntryAt(lg, k + i)]
             all == Executed(done, lg, k, limit)
  <1>1. lg.first \in Nat \ {0} /\ LastIndex(lg) \in Nat
    BY Positive
  <1>2. r \in Nat /\ r >= k /\ r <= Larger(k, LastIndex(lg)) /\ (r > k => k + 1 >= lg.first)
    BY ReachedOK
  <1>3. all = done \o more
    BY DEF Executed
  <1> HIDE DEF r
  <1>4. ASSUME NEW i \in 1..(r - k)
        PROVE  EntryAt(lg, k + i) \in Nat \ {0} /\ (Right(lg) => EntryAt(lg, k + i) = k + i)
    <2>1. Held(lg, k + i)
      BY <1>1, <1>2 DEF Held, Larger
    <2> QED BY <1>2, <2>1, EntryAtOK
  <1>5. more \in Seq(Nat \ {0})
    <2>1. r - k \in Nat
      BY <1>2
    <2> QED BY <1>4, <2>1, IsASeq
  <1>6. Len(more) = r - k
    BY <1>2, <1>5, LenProperties
  <1>7. done \in Seq(Nat \ {0}) /\ Len(done) \in Nat
    BY LenProperties DEF Entries, Entry
  <1>8. \A i \in 1..(r - k) : more[i] = EntryAt(lg, k + i)
    OBVIOUS
  <1> HIDE DEF more, all
  <1>9. /\ all \in Seq(Nat \ {0}) /\ Len(all) = Len(done) + Len(more)
        /\ \A i \in 1..(Len(done) + Len(more)) :
             all[i] = IF i <= Len(done) THEN done[i] ELSE more[i - Len(done)]
    BY <1>3, <1>5, <1>7, ConcatProperties
  <1>10. \A i \in 1..Len(done) : all[i] = done[i]
    BY <1>2, <1>6, <1>7, <1>9
  <1>11. ASSUME Right(lg), NEW i \in 1..(r - k) PROVE all[Len(done) + i] = k + i
    <2>1. Len(done) + i \in 1..(Len(done) + Len(more)) /\ ~(Len(done) + i <= Len(done))
      BY <1>2, <1>6, <1>7
    <2>2. all[Len(done) + i] = more[(Len(done) + i) - Len(done)]
      BY <1>9, <2>1
    <2>3. (Len(done) + i) - Len(done) = i
      BY <1>7
    <2> QED BY <1>4, <1>8, <1>11, <2>2, <2>3
  <1>12. ASSUME Right(lg), done = UpTo(k)
         PROVE  all = UpTo(r)
    <2>1. Len(done) = k /\ \A i \in 1..k : done[i] = i
      BY <1>12, UpToOK
    <2>2. Len(all) = r
      BY <1>2, <1>6, <1>9, <2>1
    <2>3. ASSUME NEW i \in 1..r PROVE all[i] = i
      <3>1. CASE i <= k
        <4>1. i \in 1..Len(done)
          BY <1>2, <2>1, <3>1
        <4> QED BY <1>10, <2>1, <4>1
      <3>2. CASE ~(i <= k)
        <4>1. PICK j \in 1..(r - k) : i = k + j
          <5>1. i - k \in 1..(r - k) /\ i = k + (i - k)
            BY <1>2, <3>2
          <5> QED BY <5>1
        <4> QED BY <1>11, <1>12, <2>1, <4>1
      <3> QED BY <3>1, <3>2
    <2>4. UpTo(r) \in Seq(Nat \ {0}) /\ Len(UpTo(r)) = r /\ \A i \in 1..r : UpTo(r)[i] = i
      BY <1>2, UpToOK DEF Entries, Entry
    <2> QED BY <1>9, <2>2, <2>3, <2>4, SeqEqual
  <1> QED BY <1>6, <1>9, <1>10, <1>11, <1>12 DEF r, all, Entries, Entry

----------------------------------------------------------------------------
(* The operators on calls.                                                 *)

LEMMA NoCallOK == NoCall \in CallType /\ <<>> \in Entries
  BY EmptySeq DEF NoCall, CallType, Entries, Entry

\* What the leader sends: nothing is answered yet, a snapshot not even loaded.
Fresh(c, t, lg) ==
    /\ c \in CallType /\ c.at \in {"loading", "request"} /\ c.term = t
    /\ c.kind = "install" => c.at = "loading" /\ c.index = 0
    /\ c.at = "loading" => c.kind = "install"
    /\ (c.kind = "append" /\ Right(lg)) => \A i \in 1..Len(c.entries) : c.entries[i] = c.index + i

LEMMA SentOK ==
    ASSUME NEW lg \in LogType, NEW t \in Nat, NEW next \in Nat \ {0}, NEW snap \in Nat,
           NEW snapTerm \in Nat, NEW commit \in Nat
    PROVE  Fresh(Sent(t, next, lg, snap, snapTerm, commit), t, lg)
  <1> DEFINE c == Sent(t, next, lg, snap, snapTerm, commit)
             to == IF Held(lg, next) THEN Smaller(LastIndex(lg), next + MaxBatchEntries - 1)
                   ELSE next - 1
             es == [i \in 1 .. to - next + 1 |-> EntryAt(lg, next + i - 1)]
             prev == TermAt(lg, snap, snapTerm, next - 1)
  <1>1. lg.first \in Nat \ {0} /\ LastIndex(lg) \in Nat /\ MaxBatchEntries \in Nat
    BY Positive, CompactionAssumption
  <1>2. CASE snap > 0 /\ next <= snap
    <2>1. c = [NoCall EXCEPT !.at = "loading", !.kind = "install", !.term = t]
      BY <1>2 DEF Sent
    <2>2. c \in CallType
      BY <2>1, NoCallOK DEF CallType
    <2>3. c.at = "loading" /\ c.kind = "install" /\ c.index = 0 /\ c.term = t
      BY <2>1 DEF NoCall
    <2> QED BY <2>2, <2>3 DEF Fresh
  <1>3. CASE ~(snap > 0 /\ next <= snap)
    <2>1. c = [NoCall EXCEPT !.at = "request", !.term = t, !.index = next - 1, !.prev = prev,
                             !.entries = es, !.commit = commit]
      BY <1>3 DEF Sent
    <2>2. prev \in Nat
      <3>1. Held(lg, next - 1) => EntryAt(lg, next - 1) \in Nat
        BY EntryAtOK
      <3> QED BY <3>1 DEF TermAt
    <2>3. to \in Int /\ to - next + 1 \in Nat /\ (to >= next => Held(lg, next) /\ to <= LastIndex(lg))
      BY <1>1 DEF Held, Smaller
    <2> HIDE DEF to, prev
    <2>4. ASSUME NEW i \in 1 .. to - next + 1
          PROVE  /\ EntryAt(lg, next + i - 1) \in Nat \ {0}
                 /\ Right(lg) => EntryAt(lg, next + i - 1) = next + i - 1
      <3>1. Held(lg, next + i - 1)
        BY <1>1, <2>3 DEF Held
      <3> QED BY <2>3, <3>1, EntryAtOK
    <2>5. es \in Seq(Nat \ {0})
      <3>1. to - next + 1 \in Nat
        BY <2>3
      <3>2. \A i \in 1 .. to - next + 1 : EntryAt(lg, next + i - 1) \in Nat \ {0}
        BY <2>4
      <3> QED BY <3>1, <3>2, IsASeq
    <2>6. Len(es) = to - next + 1
      BY <2>3, <2>5, LenProperties
    <2>7. \A i \in 1 .. to - next + 1 : es[i] = EntryAt(lg, next + i - 1)
      OBVIOUS
    <2> HIDE DEF es
    <2>8. c \in CallType
      <3>1. next - 1 \in Nat /\ es \in Entries
        BY <2>5 DEF Entries, Entry
      <3> QED BY <2>1, <2>2, <3>1, NoCallOK DEF CallType
    <2>9. c.at = "request" /\ c.kind = "append" /\ c.index = next - 1 /\ c.entries = es /\ c.term = t
      BY <2>1 DEF NoCall
    <2>10. ASSUME Right(lg), NEW i \in 1..Len(c.entries) PROVE c.entries[i] = c.index + i
      <3>1. i \in 1 .. to - next + 1 /\ i \in Int
        BY <2>3, <2>6, <2>9
      <3>2. es[i] = next + i - 1
        BY <2>4, <2>7, <2>10, <3>1
      <3> QED BY <2>9, <3>1, <3>2
    <2> QED BY <2>8, <2>9, <2>10 DEF Fresh
  <1> QED BY <1>2, <1>3

LEMMA AdvancedOK ==
    ASSUME NEW lg \in LogType, NEW current \in Nat, NEW match \in Nat, NEW ack \in Nat,
           term \in opened, term \in Nat
    PROVE  LET c == Advanced(lg, current, match, ack)
           IN  /\ c \in Nat /\ c >= current /\ c <= Larger(current, LastIndex(lg))
               /\ c > current => c = Larger(match, ack) /\ (Right(lg) => c >= term)
  <1> DEFINE candidate == Larger(match, ack)
             c == Advanced(lg, current, match, ack)
  <1>1. lg.first \in Nat \ {0} /\ LastIndex(lg) \in Nat /\ candidate \in Nat
    BY Positive DEF Larger
  <1>2. CASE ~(Held(lg, candidate) /\ SameTerm(EntryAt(lg, candidate), term))
    <2>1. c = current
      BY <1>2 DEF Advanced
    <2> QED BY <1>1, <2>1 DEF Larger
  <1>3. CASE Held(lg, candidate) /\ SameTerm(EntryAt(lg, candidate), term)
    <2>1. c = SetCommitIndex(lg, current, candidate)
      BY <1>3 DEF Advanced
    <2>2. candidate <= LastIndex(lg) /\ candidate >= lg.first
      BY <1>1, <1>3 DEF Held
    <2> HIDE DEF candidate
    <2>3. c = Larger(current, candidate)
      BY <1>1, <2>1, <2>2 DEF SetCommitIndex, Larger, Smaller
    <2>4. EntryAt(lg, candidate) \in Nat /\ (Right(lg) => EntryAt(lg, candidate) = candidate)
      BY <1>1, <1>3, EntryAtOK
    <2>5. term <= EntryAt(lg, candidate)
      BY <1>3, <2>4 DEF SameTerm
    <2> HIDE DEF c
    <2>6. /\ c \in Nat /\ c >= current /\ c <= Larger(current, LastIndex(lg))
          /\ c > current => c = candidate
      BY <1>1, <2>2, <2>3 DEF Larger
    <2>7. c > current => (Right(lg) => c >= term)
      BY <2>4, <2>5, <2>6
    <2> QED BY <2>6, <2>7 DEF c, candidate
  <1> QED BY <1>2, <1>3

LEMMA NextAfterRefusalOK ==
    ASSUME log[L] \in LogType, NEW hint \in Nat, NEW conflict \in Nat
    PROVE  NextAfterRefusal(hint, conflict) \in Nat \ {0}
  <1> DEFINE same == IndexesOfTerm(log[L], conflict)
             greatest == CHOOSE i \in same : \A j \in same : j <= i
  <1>1. CASE conflict # 0 /\ same # {}
    <2>1. same \subseteq 0..LastIndex(log[L]) /\ LastIndex(log[L]) \in Nat
      BY Positive DEF IndexesOfTerm
    <2> HIDE DEF same
    <2>2. \E i \in same : \A j \in same : j <= i
      BY <1>1, <2>1, GreatestOfNats
    <2>3. greatest \in same
      BY <2>2
    <2>4. NextAfterRefusal(hint, conflict) = greatest + 1
      BY <1>1 DEF NextAfterRefusal, same
    <2> HIDE DEF greatest
    <2> QED BY <2>1, <2>3, <2>4
  <1>2. CASE ~(conflict # 0 /\ same # {})
    BY <1>2 DEF NextAfterRefusal, Larger
  <1> QED BY <1>1, <1>2

LEMMA RunStartOK ==
    ASSUME NEW lg \in LogType, NEW snap \in Nat, NEW k \in Nat, k > snap, Held(lg, k)
    PROVE  RunStart(lg, snap, k) \in Nat
  <1> DEFINE low == Larger(snap + 1, lg.first)
             same(i) == SameTerm(EntryAt(lg, i), EntryAt(lg, k))
             J == {j \in low .. k : \A i \in j .. k : same(i)}
             right(j) == (\A i \in j .. k : same(i)) /\ (j > low => ~same(j - 1))
  <1>1. low \in Nat /\ low <= k
    BY Positive DEF Held, Larger
  <1>2. RunStart(lg, snap, k) = CHOOSE j \in low .. k : right(j)
    BY DEF RunStart
  <1> HIDE DEF low
  <1>3. J \subseteq Nat /\ J # {}
    <2>1. same(k)
      BY DEF SameTerm
    <2> HIDE DEF same
    <2>2. k \in low .. k /\ \A i \in k .. k : same(i)
      BY <1>1, <2>1
    <2>3. J \subseteq Nat
      BY <1>1
    <2> QED BY <2>2, <2>3
  <1> HIDE DEF same
  <1>4. PICK j \in J : \A i \in J : j <= i
    <2> HIDE DEF J
    <2> QED BY <1>3, LeastOfNats
  <1>5. right(j)
    <2>1. j \in low .. k /\ \A i \in j .. k : same(i)
      OBVIOUS
    <2>2. ASSUME j > low, same(j - 1) PROVE FALSE
      <3>1. j - 1 \in low .. k /\ \A i \in (j - 1) .. k : i = j - 1 \/ i \in j .. k
        BY <1>1, <2>1, <2>2
      <3>2. \A i \in (j - 1) .. k : same(i)
        BY <2>1, <2>2, <3>1
      <3>3. j - 1 \in J
        BY <3>1, <3>2
      <3> QED BY <1>1, <1>4, <2>1, <3>3
    <2> QED BY <2>1, <2>2
  <1>6. (CHOOSE i \in low .. k : right(i)) \in low .. k
    <2>1. j \in low .. k
      OBVIOUS
    <2> HIDE DEF J, right
    <2> QED BY <1>5, <2>1
  <1> HIDE DEF right
  <1> QED BY <1>1, <1>2, <1>6

\* An answer repeats the request.
LEMMA AnswerOK ==
    ASSUME log[F] \in LogType, snapshotIndex[F] \in Nat, NEW r \in CallType
    PROVE  /\ Answer(r) \in CallType /\ Answer(r).at = "reply"
           /\ Answer(r).kind = r.kind /\ Answer(r).term = r.term /\ Answer(r).index = r.index
           /\ Answer(r).entries = r.entries
           /\ (r.kind = "append" /\ Answer(r).ok) => PredecessorHeld(r.index, r.prev)
  <1> DEFINE lg == log[F]
             sn == snapshotIndex[F]
             no == [r EXCEPT !.at = "reply", !.ok = FALSE]
  <1>1. CASE r.kind = "append" /\ ~PredecessorHeld(r.index, r.prev)
    <2>1. Answer(r) = Refusal(r)
      BY <1>1 DEF Answer
    <2>2. \E h \in Nat, c \in Nat : Refusal(r) = [no EXCEPT !.hint = h, !.conflict = c]
      <3>0. no = [no EXCEPT !.conflict = no.conflict] /\ no.conflict \in Nat
        BY DEF CallType
      <3>1. r.index \in Nat /\ LastIndex(lg) \in Nat
        BY Positive DEF CallType
      <3>2. CASE r.index > LastIndex(lg)
        <4>1. Refusal(r) = [no EXCEPT !.hint = LastIndex(lg) + 1]
          BY <3>2 DEF Refusal
        <4>2. Refusal(r) = [no EXCEPT !.hint = LastIndex(lg) + 1, !.conflict = no.conflict]
          BY <4>1 DEF CallType
        <4>3. LastIndex(lg) + 1 \in Nat
          BY <3>1
        <4> HIDE DEF no, lg
        <4> QED BY <3>0, <4>2, <4>3
      <3>3. CASE ~(r.index > LastIndex(lg)) /\ r.index <= sn
        <4>1. Refusal(r) = [no EXCEPT !.hint = sn + 1]
          BY <3>3 DEF Refusal
        <4>2. Refusal(r) = [no EXCEPT !.hint = sn + 1, !.conflict = no.conflict]
          BY <4>1 DEF CallType
        <4>3. sn + 1 \in Nat
          OBVIOUS
        <4> HIDE DEF no, sn
        <4> QED BY <3>0, <4>2, <4>3
      <3>4. CASE ~(r.index > LastIndex(lg)) /\ ~(r.index <= sn) /\ ~Held(lg, r.index)
        <4>1. Refusal(r) = [no EXCEPT !.hint = r.index]
          BY <3>4 DEF Refusal
        <4>2. Refusal(r) = [no EXCEPT !.hint = r.index, !.conflict = no.conflict]
          BY <4>1 DEF CallType
        <4>3. r.index \in Nat
          BY <3>1
        <4> HIDE DEF no, sn
        <4> QED BY <3>0, <4>2, <4>3
      <3>5. CASE ~(r.index > LastIndex(lg)) /\ ~(r.index <= sn) /\ Held(lg, r.index)
        <4>1. Refusal(r) = [no EXCEPT !.hint = RunStart(lg, sn, r.index), !.conflict = EntryAt(lg, r.index)]
          BY <3>5 DEF Refusal
        <4>2. r.index > sn
          BY <3>1, <3>5
        <4>3. RunStart(lg, sn, r.index) \in Nat /\ EntryAt(lg, r.index) \in Nat
          BY <3>1, <3>5, <4>2, RunStartOK, EntryAtOK
        <4> QED BY <4>1, <4>3
      <3> QED BY <3>2, <3>3, <3>4, <3>5
    <2>3. PICK h \in Nat, c \in Nat : Refusal(r) = [no EXCEPT !.hint = h, !.conflict = c]
      BY <2>2
    <2>4. /\ Refusal(r) \in CallType /\ Refusal(r).at = "reply" /\ ~Refusal(r).ok
          /\ Refusal(r).kind = r.kind /\ Refusal(r).term = r.term /\ Refusal(r).index = r.index
          /\ Refusal(r).entries = r.entries
      BY <2>3 DEF CallType
    <2> QED BY <2>1, <2>4
  <1>2. CASE ~(r.kind = "append" /\ ~PredecessorHeld(r.index, r.prev))
    <2>1. Answer(r) = [r EXCEPT !.at = "reply", !.ok = TRUE]
      BY <1>2 DEF Answer
    <2> QED BY <1>2, <2>1 DEF CallType
  <1> QED BY <1>1, <1>2

----------------------------------------------------------------------------
(* What the steps do.                                                      *)

FileType == [index : Nat, term : Nat, data : Entries]

Taking == [at : {"idle", "captured", "saved"}, index : Nat, term : Nat, data : Entries]

LEMMA NotTakingOK == NotTaking \in Taking /\ NotTaking.at = "idle"
  BY NoCallOK DEF NotTaking, Taking

\* TypeOK, variable by variable.
LEMMA Types ==
    TypeOK <=>
        /\ log \in [Node -> LogType] /\ file \in [Node -> FileType]
        /\ snapshotIndex \in [Node -> Nat] /\ snapshotTerm \in [Node -> Nat]
        /\ commitIndex \in [Node -> Nat] /\ lastApplied \in [Node -> Nat]
        /\ fsm \in [Node -> Entries]
        /\ applying \in BOOLEAN /\ mishaps \subseteq Mishap \X Node
        /\ taking \in [Node -> [Taker -> Taking]]
        /\ nextIndex \in Nat \ {0} /\ matchIndex \in Nat
        /\ opened \subseteq Entry /\ term \in opened /\ followerTerm \in Nat
        /\ third \in [stored : Nat, acked : Nat]
        /\ call \in CallType /\ late \subseteq CallType
        /\ events \in [EventKind -> Nat]
  BY DEF TypeOK, LogType, FileType, Taking

LEMMA TypesNext ==
    TypeOK' <=>
        /\ log' \in [Node -> LogType] /\ file' \in [Node -> FileType]
        /\ snapshotIndex' \in [Node -> Nat] /\ snapshotTerm' \in [Node -> Nat]
        /\ commitIndex' \in [Node -> Nat] /\ lastApplied' \in [Node -> Nat]
        /\ fsm' \in [Node -> Entries]
        /\ applying' \in BOOLEAN /\ mishaps' \subseteq Mishap \X Node
        /\ taking' \in [Node -> [Taker -> Taking]]
        /\ nextIndex' \in Nat \ {0} /\ matchIndex' \in Nat
        /\ opened' \subseteq Entry /\ term' \in opened' /\ followerTerm' \in Nat
        /\ third' \in [stored : Nat, acked : Nat]
        /\ call' \in CallType /\ late' \subseteq CallType
        /\ events' \in [EventKind -> Nat]
  BY DEF TypeOK, LogType, FileType, Taking

\* The values of one node.
LEMMA OfNode ==
    ASSUME TypeOK, NEW n \in Node
    PROVE  /\ log[n] \in LogType /\ file[n] \in FileType
           /\ file[n].index \in Nat /\ file[n].term \in Nat /\ file[n].data \in Entries
           /\ snapshotIndex[n] \in Nat /\ snapshotTerm[n] \in Nat
           /\ commitIndex[n] \in Nat /\ lastApplied[n] \in Nat /\ fsm[n] \in Entries
           /\ LastIndex(log[n]) \in Nat
           /\ taking[n] \in [Taker -> Taking]
           /\ \A t \in Taker : taking[n][t] \in Taking
           /\ \A t \in Taker : taking[n][t].index \in Nat /\ taking[n][t].data \in Entries
  <1>1. /\ log[n] \in LogType /\ file[n] \in FileType
        /\ snapshotIndex[n] \in Nat /\ snapshotTerm[n] \in Nat
        /\ commitIndex[n] \in Nat /\ lastApplied[n] \in Nat /\ fsm[n] \in Entries
        /\ taking[n] \in [Taker -> Taking]
    BY Types
  <1>2. file[n].index \in Nat /\ file[n].term \in Nat /\ file[n].data \in Entries
    BY <1>1 DEF FileType
  <1>3. \A t \in Taker : taking[n][t] \in Taking
    BY <1>1
  <1>4. \A t \in Taker : taking[n][t].index \in Nat /\ taking[n][t].data \in Entries
    BY <1>3 DEF Taking
  <1> QED BY <1>1, <1>2, <1>3, <1>4, Positive

LEMMA OfCall ==
    ASSUME NEW r \in CallType
    PROVE  /\ r.term \in Nat /\ r.index \in Nat /\ r.prev \in Nat /\ r.entries \in Entries
           /\ r.commit \in Nat /\ r.ok \in BOOLEAN /\ r.hint \in Nat /\ r.conflict \in Nat
           /\ Len(r.entries) \in Nat /\ LastSent(r) \in Nat
  <1>1. /\ r.term \in Nat /\ r.index \in Nat /\ r.prev \in Nat /\ r.entries \in Entries
        /\ r.commit \in Nat /\ r.ok \in BOOLEAN /\ r.hint \in Nat /\ r.conflict \in Nat
    BY DEF CallType
  <1>2. Len(r.entries) \in Nat
    BY <1>1, LenProperties DEF Entries, Entry
  <1> QED BY <1>1, <1>2 DEF LastSent

LEMMA EventsOK ==
    ASSUME TypeOK, NEW e \in EventKind, Happen(e)
    PROVE  events' \in [EventKind -> Nat]
  <1>1. events \in [EventKind -> Nat]
    BY Types
  <1> QED BY <1>1 DEF Happen

LEMMA NotedOK ==
    ASSUME NEW what \in Mishap, NEW n \in Node, NEW P
    PROVE  /\ mishaps \subseteq Noted(what, n, P)
           /\ Noted(what, n, P) \subseteq mishaps \cup (Mishap \X Node)
           /\ <<what, n>> \notin Noted(what, n, P) => ~P
           /\ (<<what, n>> \notin mishaps /\ P) => <<what, n>> \in Noted(what, n, P)
           /\ \A x \in Noted(what, n, P) : x \in mishaps \/ x = <<what, n>>
  BY DEF Noted

LEMMA AbandonedOK ==
    ASSUME TypeOK
    PROVE  /\ Abandoned \subseteq CallType
           /\ \A r \in Abandoned : \/ r \in late
                                   \/ /\ call.at = "request" /\ r.at = "request"
                                      /\ r.kind = call.kind /\ r.term = call.term
                                      /\ r.index = call.index /\ r.entries = call.entries
  <1>1. call \in CallType /\ late \subseteq CallType /\ events \in [EventKind -> Nat]
    BY Types
  <1>2. Total + 1 \in Nat
    BY <1>1 DEF Total, EventKind
  <1>3. CASE call.at = "request"
    <2> DEFINE r == [call EXCEPT !.id = Total + 1]
    <2>1. Abandoned = late \cup {r}
      BY <1>3 DEF Abandoned
    <2>2. r \in CallType
      BY <1>1, <1>2 DEF CallType
    <2>3. /\ r.at = "request" /\ r.kind = call.kind /\ r.term = call.term
          /\ r.index = call.index /\ r.entries = call.entries
      BY <1>1, <1>3 DEF CallType
    <2> HIDE DEF r
    <2> QED BY <1>1, <1>3, <2>1, <2>2, <2>3
  <1>4. CASE call.at # "request"
    BY <1>1, <1>4 DEF Abandoned
  <1> QED BY <1>3, <1>4

\* A call that the leader starts now.
SentNow(c) ==
    \/ c = NoCall
    \/ \E next \in Nat \ {0}, commit \in Nat :
         c = Sent(term, next, log[L], snapshotIndex[L], snapshotTerm[L], commit)

LEMMA SentNowOK ==
    ASSUME TypeOK, NEW c, SentNow(c)
    PROVE  c = NoCall \/ Fresh(c, term, log[L])
  <1>1. log[L] \in LogType /\ snapshotIndex[L] \in Nat /\ snapshotTerm[L] \in Nat
    BY OfNode DEF Node
  <1>2. term \in Nat
    BY Types DEF Entry
  <1> QED BY <1>1, <1>2, SentOK DEF SentNow

\* What the continuation of a call does to the leader, whether the call failed
\* or not.
Returned ==
    /\ nextIndex' \in Nat \ {0} /\ matchIndex' \in Nat
    /\ commitIndex' = [commitIndex EXCEPT ![L] = commitIndex'[L]]
    /\ \/ commitIndex'[L] = commitIndex[L]
       \/ commitIndex'[L] = Advanced(log[L], commitIndex[L], matchIndex', third.acked)
    /\ \/ matchIndex' = matchIndex
       \/ /\ call.at = "reply" /\ call.kind = "append" /\ call.ok
          /\ matchIndex' = LastSent(call)
       \/ call.kind = "install" /\ matchIndex' = call.index
    /\ SentNow(call')

LEMMA AppendReturned ==
    ASSUME TypeOK, NEW ok \in BOOLEAN, NEW hint \in Nat, NEW conflict \in Nat,
           AppendReturns(ok, hint, conflict),
           ok => call.at = "reply" /\ call.kind = "append" /\ call.ok
    PROVE  Returned
  <1> DEFINE match  == IF ok THEN Larger(matchIndex, LastSent(call)) ELSE matchIndex
             next   == IF ok THEN Larger(nextIndex, LastSent(call) + 1)
                       ELSE IF nextIndex > 1 THEN NextAfterRefusal(hint, conflict) ELSE nextIndex
             commit == IF ok THEN Advanced(log[L], commitIndex[L], match, third.acked)
                       ELSE commitIndex[L]
             retry  == IF ok THEN next <= LastIndex(log[L]) ELSE nextIndex > 1
  <1>1. /\ log[L] \in LogType /\ commitIndex \in [Node -> Nat] /\ commitIndex[L] \in Nat
        /\ nextIndex \in Nat \ {0} /\ matchIndex \in Nat /\ term \in opened /\ term \in Nat
        /\ third.acked \in Nat
    BY Types DEF Node, Entry
  <1>2. LastSent(call) \in Nat
    BY Types, OfCall
  <1>3. match \in Nat
    BY <1>1, <1>2 DEF Larger
  <1>4. next \in Nat \ {0}
    <2>1. NextAfterRefusal(hint, conflict) \in Nat \ {0}
      BY <1>1, NextAfterRefusalOK
    <2> QED BY <1>1, <1>2, <2>1 DEF Larger
  <1>5. match = matchIndex \/ (ok /\ match = LastSent(call))
    BY DEF Larger
  <1>6. /\ matchIndex' = match /\ nextIndex' = next
        /\ commitIndex' = [commitIndex EXCEPT ![L] = commit]
        /\ call' = IF ~retry THEN NoCall
                   ELSE Sent(term, next, log[L], snapshotIndex[L], snapshotTerm[L], commit)
    BY DEF AppendReturns, Commit
  <1>7. commit \in Nat
    BY <1>1, <1>3, AdvancedOK
  <1>8. commit = commitIndex[L] \/ commit = Advanced(log[L], commitIndex[L], match, third.acked)
    OBVIOUS
  <1> HIDE DEF match, next, commit, retry
  <1>9. commitIndex'[L] = commit
    BY <1>1, <1>6 DEF Node
  <1>10. SentNow(call')
    BY <1>4, <1>6, <1>7 DEF SentNow
  <1> QED BY <1>3, <1>4, <1>5, <1>6, <1>8, <1>9, <1>10 DEF Returned

LEMMA InstallReturned ==
    ASSUME TypeOK, InstallReturns, call.kind = "install"
    PROVE  Returned
  <1>1. /\ log[L] \in LogType /\ commitIndex \in [Node -> Nat] /\ commitIndex[L] \in Nat
        /\ nextIndex \in Nat \ {0} /\ matchIndex \in Nat /\ call.index \in Nat
    BY Types, OfCall DEF Node
  <1>2. /\ matchIndex' = Larger(matchIndex, call.index)
        /\ nextIndex' = Larger(nextIndex, call.index + 1)
        /\ commitIndex' = [commitIndex EXCEPT ![L] =
                             Advanced(log[L], commitIndex[L], Larger(matchIndex, call.index), third.acked)]
        /\ call' = NoCall
    BY DEF InstallReturns, Commit
  <1>3. matchIndex' \in Nat /\ nextIndex' \in Nat \ {0}
    BY <1>1, <1>2 DEF Larger
  <1>4. matchIndex' = matchIndex \/ matchIndex' = call.index
    BY <1>2 DEF Larger
  <1>5. commitIndex'[L] = Advanced(log[L], commitIndex[L], matchIndex', third.acked)
    BY <1>1, <1>2 DEF Node
  <1> QED BY <1>2, <1>3, <1>4, <1>5 DEF Returned, SentNow

\* Both ways in which a call ends.
CallEnds ==
    /\ call.at \in {"request", "reply"}
    /\ Returned
    /\ late' = late \/ late' = Abandoned
    /\ events' \in [EventKind -> Nat]
    /\ UNCHANGED <<log, file, snapshotIndex, snapshotTerm, lastApplied, fsm, applying, taking,
                   opened, term, third, followerTerm, mishaps>>

LEMMA ReplyEndsCall ==
    ASSUME TypeOK, ReplyArrives \/ CallFails
    PROVE  CallEnds
  <1>0. /\ call.ok \in BOOLEAN /\ call.hint \in Nat /\ call.conflict \in Nat
        /\ events \in [EventKind -> Nat]
    BY Types, OfCall
  <1>1. CASE ReplyArrives
    <2>1. Returned
      <3>1. CASE call.kind = "append" /\ AppendReturns(call.ok, call.hint, call.conflict)
        BY <1>0, <1>1, <3>1, AppendReturned DEF ReplyArrives
      <3>2. CASE call.kind = "install" /\ InstallReturns
        BY <3>2, InstallReturned
      <3> QED BY <1>1, <3>1, <3>2 DEF ReplyArrives
    <2> QED BY <1>0, <1>1, <2>1 DEF CallEnds, ReplyArrives, snapVars
  <1>2. CASE CallFails
    <2>0. events' \in [EventKind -> Nat]
      BY <1>2, EventsOK DEF CallFails, EventKind
    <2>1. Returned
      <3>1. CASE call.kind = "append" /\ AppendReturns(FALSE, 0, 0)
        BY <3>1, AppendReturned
      <3>2. CASE call.kind = "install" /\ InstallReturns
        BY <3>2, InstallReturned
      <3> QED BY <1>2, <3>1, <3>2 DEF CallFails
    <2> QED BY <1>2, <2>0, <2>1 DEF CallEnds, CallFails, snapVars
  <1> QED BY <1>1, <1>2

\* What the follower makes of an append request it accepts.
Appended(r) ==
    LET lg == AppendEntries(log[F], r.index, r.entries)
    IN  /\ r.kind = "append" /\ PredecessorHeld(r.index, r.prev)
        /\ log' = [log EXCEPT ![F] = lg]
        /\ \E c \in Nat :
             /\ commitIndex' = [commitIndex EXCEPT ![F] = c]
             /\ lastApplied' = [lastApplied EXCEPT ![F] = Reached(lg, lastApplied[F], c)]
             /\ fsm' = [fsm EXCEPT ![F] = Executed(fsm[F], lg, lastApplied[F], c)]
        /\ mishaps' = Noted("misplaced", F, Misplaces(log[F], r.index, r.entries))
        /\ UNCHANGED <<file, snapshotIndex, snapshotTerm>>

Installed(r) ==
    /\ r.kind = "install" /\ r.index > snapshotIndex[F]
    /\ Install(r.index, r.prev, r.entries)

\* Nothing happens to a request that is refused.
Refused(r) ==
    /\ r.term < followerTerm \/ r.kind = "install" \/ ~PredecessorHeld(r.index, r.prev)
    /\ UNCHANGED <<log, commitIndex, lastApplied, fsm, file, snapshotIndex, snapshotTerm, mishaps>>

LEMMA HandleCases ==
    ASSUME TypeOK, NEW r \in CallType, Handle(r)
    PROVE  /\ followerTerm' = followerTerm \/ followerTerm' = r.term
           /\ Refused(r) \/ Appended(r) \/ Installed(r)
  <1>1. CASE r.term < followerTerm /\ UNCHANGED <<nodeVars, followerTerm, mishaps>>
    BY <1>1 DEF Refused, nodeVars, logVars, snapVars
  <1>2. CASE r.kind = "append" /\ HandleAppendEntries(r) /\ followerTerm' = r.term
    <2> DEFINE lg == AppendEntries(log[F], r.index, r.entries)
               c == SetCommitIndex(lg, commitIndex[F], r.commit)
    <2>1. UNCHANGED <<file, snapshotIndex, snapshotTerm>>
      BY <1>2 DEF HandleAppendEntries, snapVars
    <2>2. CASE ~PredecessorHeld(r.index, r.prev) /\ UNCHANGED <<logVars, mishaps>>
      BY <1>2, <2>1, <2>2 DEF Refused, logVars
    <2>3. CASE /\ PredecessorHeld(r.index, r.prev)
               /\ log' = [log EXCEPT ![F] = lg]
               /\ commitIndex' = [commitIndex EXCEPT ![F] = c]
               /\ lastApplied' = [lastApplied EXCEPT ![F] = Reached(lg, @, c)]
               /\ fsm' = [fsm EXCEPT ![F] = Executed(@, lg, lastApplied[F], c)]
               /\ mishaps' = Noted("misplaced", F, Misplaces(log[F], r.index, r.entries))
      <3>1. log[F] \in LogType /\ commitIndex[F] \in Nat
        BY OfNode DEF Node
      <3>2. r.index \in Nat /\ r.entries \in Entries /\ r.commit \in Nat
        BY OfCall
      <3>3. lg \in LogType
        BY <3>1, <3>2, AppendOK
      <3> HIDE DEF lg
      <3>4. LastIndex(lg) \in Nat
        BY <3>3, Positive
      <3>5. c \in Nat
        BY <3>1, <3>2, <3>4 DEF SetCommitIndex, Larger, Smaller
      <3> HIDE DEF c
      <3>6. Appended(r)
        BY <1>2, <2>1, <2>3, <3>5 DEF Appended, lg
      <3> QED BY <1>2, <3>6
    <2> QED BY <1>2, <2>2, <2>3 DEF HandleAppendEntries
  <1>3. CASE r.kind = "install" /\ HandleInstallSnapshot(r) /\ followerTerm' = r.term
    BY <1>3 DEF HandleInstallSnapshot, Installed, Refused, nodeVars, logVars, snapVars
  <1> QED BY <1>1, <1>2, <1>3 DEF Handle

\* Both ways in which a request arrives.
RequestHandled(r) ==
    /\ r \in CallType
    /\ Refused(r) \/ Appended(r) \/ Installed(r)
    /\ followerTerm' = followerTerm \/ followerTerm' = r.term
    /\ \/ r = call /\ call.at = "request" /\ call' = Answer(call) /\ late' = late
       \/ r \in late /\ call' = call /\ late' \subseteq late
    /\ UNCHANGED <<applying, taking, nextIndex, matchIndex, opened, term, third, events>>

LEMMA RequestsHandled ==
    ASSUME TypeOK, RequestArrives \/ \E r \in late : LateRequestArrives(r)
    PROVE  \E r \in late \cup {call} : RequestHandled(r)
  <1>0. call \in CallType /\ late \subseteq CallType
    BY Types
  <1>1. CASE RequestArrives
    <2>1. Handle(call)
      BY <1>1 DEF RequestArrives
    <2>2. RequestHandled(call)
      BY <1>0, <1>1, <2>1, HandleCases DEF RequestArrives, RequestHandled, leaderVars
    <2> QED BY <2>2
  <1>2. ASSUME NEW r \in late, LateRequestArrives(r)
        PROVE  RequestHandled(r)
    <2>1. Handle(r) /\ r \in CallType
      BY <1>0, <1>2 DEF LateRequestArrives
    <2> QED BY <1>0, <1>2, <2>1, HandleCases DEF LateRequestArrives, RequestHandled, leaderVars
  <1> QED BY <1>1, <1>2

\* What handling a request does to the node.
LEMMA HandledTypes ==
    ASSUME TypeOK, NEW r, RequestHandled(r)
    PROVE  /\ log' \in [Node -> LogType] /\ file' \in [Node -> FileType]
           /\ snapshotIndex' \in [Node -> Nat] /\ snapshotTerm' \in [Node -> Nat]
           /\ commitIndex' \in [Node -> Nat] /\ lastApplied' \in [Node -> Nat]
           /\ fsm' \in [Node -> Entries] /\ mishaps' \subseteq Mishap \X Node
           /\ mishaps \subseteq mishaps'
           /\ log'[L] = log[L] /\ file'[L] = file[L] /\ snapshotIndex'[L] = snapshotIndex[L]
           /\ commitIndex'[L] = commitIndex[L] /\ lastApplied'[L] = lastApplied[L]
           /\ fsm'[L] = fsm[L]
  <1>1. /\ log \in [Node -> LogType] /\ file \in [Node -> FileType]
        /\ snapshotIndex \in [Node -> Nat] /\ snapshotTerm \in [Node -> Nat]
        /\ commitIndex \in [Node -> Nat] /\ lastApplied \in [Node -> Nat]
        /\ fsm \in [Node -> Entries] /\ mishaps \subseteq Mishap \X Node
    BY Types
  <1>2. L \in Node /\ F \in Node /\ L # F
    BY DEF Node, L, F
  <1>3. /\ r.index \in Nat /\ r.entries \in Entries /\ r.commit \in Nat /\ r.prev \in Nat
    BY OfCall DEF RequestHandled
  <1>4. /\ log[F] \in LogType /\ lastApplied[F] \in Nat /\ fsm[F] \in Entries
        /\ commitIndex[F] \in Nat
    BY <1>2, OfNode
  <1>5. CASE Refused(r)
    BY <1>1, <1>5 DEF Refused
  <1>6. CASE Appended(r)
    <2> DEFINE lg == AppendEntries(log[F], r.index, r.entries)
    <2>1. lg \in LogType
      BY <1>3, <1>4, AppendOK
    <2>2. /\ log' = [log EXCEPT ![F] = lg]
          /\ mishaps' = Noted("misplaced", F, Misplaces(log[F], r.index, r.entries))
          /\ UNCHANGED <<file, snapshotIndex, snapshotTerm>>
      BY <1>6 DEF Appended
    <2>3. PICK c \in Nat :
             /\ commitIndex' = [commitIndex EXCEPT ![F] = c]
             /\ lastApplied' = [lastApplied EXCEPT ![F] = Reached(lg, lastApplied[F], c)]
             /\ fsm' = [fsm EXCEPT ![F] = Executed(fsm[F], lg, lastApplied[F], c)]
      BY <1>6 DEF Appended
    <2> HIDE DEF lg
    <2>4. Reached(lg, lastApplied[F], c) \in Nat /\ Executed(fsm[F], lg, lastApplied[F], c) \in Entries
      BY <1>4, <2>1, ReachedOK, ExecutedOK
    <2>5. mishaps' \subseteq Mishap \X Node /\ mishaps \subseteq mishaps'
      BY <1>1, <1>2, <2>2, NotedOK DEF Mishap
    <2> QED BY <1>1, <1>2, <2>1, <2>2, <2>3, <2>4, <2>5
  <1>7. CASE Installed(r)
    <2>1. /\ file' = [file EXCEPT ![F] = [index |-> r.index, term |-> r.prev, data |-> r.entries]]
          /\ fsm' = [fsm EXCEPT ![F] = r.entries]
          /\ snapshotIndex' = [snapshotIndex EXCEPT ![F] = r.index]
          /\ snapshotTerm' = [snapshotTerm EXCEPT ![F] = r.prev]
          /\ commitIndex' = [commitIndex EXCEPT ![F] = Larger(@, r.index)]
          /\ lastApplied' = [lastApplied EXCEPT ![F] = AppliedAfterInstall(@, r.index)]
          /\ log' = [log EXCEPT ![F] = LogAfterInstall(@, r.index)]
          /\ mishaps' = Noted("rewound", F, r.index < lastApplied[F])
                           \cup Noted("overwritten", F, r.index < file[F].index)
      BY <1>7 DEF Installed, Install
    <2>2. [index |-> r.index, term |-> r.prev, data |-> r.entries] \in FileType
      BY <1>3 DEF FileType
    <2>3. LogAfterInstall(log[F], r.index) \in LogType
      BY <1>3, <1>4, InstallOK
    <2>4. Larger(commitIndex[F], r.index) \in Nat /\ AppliedAfterInstall(lastApplied[F], r.index) \in Nat
      BY <1>3, <1>4 DEF AppliedAfterInstall, Larger
    <2>5. mishaps' \subseteq Mishap \X Node /\ mishaps \subseteq mishaps'
      <3>1. /\ Noted("rewound", F, r.index < lastApplied[F]) \subseteq mishaps \cup (Mishap \X Node)
            /\ Noted("overwritten", F, r.index < file[F].index) \subseteq mishaps \cup (Mishap \X Node)
            /\ mishaps \subseteq Noted("overwritten", F, r.index < file[F].index)
        BY <1>2, NotedOK DEF Mishap
      <3> QED BY <1>1, <2>1, <3>1
    <2>6. /\ log' \in [Node -> LogType] /\ file' \in [Node -> FileType]
          /\ snapshotIndex' \in [Node -> Nat] /\ snapshotTerm' \in [Node -> Nat]
      BY <1>1, <1>2, <1>3, <2>1, <2>2, <2>3
    <2>7. /\ commitIndex' \in [Node -> Nat] /\ lastApplied' \in [Node -> Nat]
          /\ fsm' \in [Node -> Entries]
      BY <1>1, <1>2, <1>3, <2>1, <2>4
    <2> QED BY <1>1, <1>2, <2>1, <2>5, <2>6, <2>7
  <1> QED BY <1>5, <1>6, <1>7 DEF RequestHandled

\* What recovery finds and makes of it.
LEMMA RecoverOK ==
    ASSUME TypeOK, NEW n \in Node, Recover(n)
    PROVE  /\ events' \in [EventKind -> Nat]
           /\ snapshotIndex' \in [Node -> Nat] /\ snapshotTerm' \in [Node -> Nat]
           /\ commitIndex' \in [Node -> Nat] /\ lastApplied' \in [Node -> Nat]
           /\ fsm' \in [Node -> Entries] /\ taking' \in [Node -> [Taker -> Taking]]
           /\ snapshotIndex'[n] = file[n].index
           /\ commitIndex'[n] = file[n].index
           /\ lastApplied'[n] = Reached(log[n], file[n].index, LastIndex(log[n]))
           /\ fsm'[n] = Executed(file[n].data, log[n], file[n].index, LastIndex(log[n]))
           /\ \A t \in Taker : taking'[n][t] = NotTaking
           /\ \A m \in Node \ {n} :
                /\ snapshotIndex'[m] = snapshotIndex[m] /\ commitIndex'[m] = commitIndex[m]
                /\ lastApplied'[m] = lastApplied[m]
                /\ fsm'[m] = fsm[m] /\ taking'[m] = taking[m]
  <1>1. /\ snapshotIndex \in [Node -> Nat] /\ snapshotTerm \in [Node -> Nat]
        /\ commitIndex \in [Node -> Nat] /\ lastApplied \in [Node -> Nat]
        /\ fsm \in [Node -> Entries] /\ taking \in [Node -> [Taker -> Taking]]
    BY Types
  <1>2. /\ log[n] \in LogType /\ LastIndex(log[n]) \in Nat
        /\ file[n].index \in Nat /\ file[n].term \in Nat /\ file[n].data \in Entries
    BY OfNode
  <1>3. /\ Reached(log[n], file[n].index, LastIndex(log[n])) \in Nat
        /\ Executed(file[n].data, log[n], file[n].index, LastIndex(log[n])) \in Entries
    BY <1>2, ReachedOK, ExecutedOK
  <1>4. /\ snapshotIndex' = [snapshotIndex EXCEPT ![n] = file[n].index]
        /\ snapshotTerm' = [snapshotTerm EXCEPT ![n] = file[n].term]
        /\ commitIndex' = [commitIndex EXCEPT ![n] = file[n].index]
        /\ lastApplied' = [lastApplied EXCEPT ![n] = Reached(log[n], file[n].index, LastIndex(log[n]))]
        /\ fsm' = [fsm EXCEPT ![n] = Executed(file[n].data, log[n], file[n].index, LastIndex(log[n]))]
        /\ taking' = [taking EXCEPT ![n] = [t \in Taker |-> NotTaking]]
    BY DEF Recover
  <1>5. events' \in [EventKind -> Nat]
    BY EventsOK DEF Recover, EventKind
  <1>6. [t \in Taker |-> NotTaking] \in [Taker -> Taking]
    BY NotTakingOK
  <1>7. /\ snapshotIndex' \in [Node -> Nat] /\ snapshotTerm' \in [Node -> Nat]
        /\ commitIndex' \in [Node -> Nat] /\ lastApplied' \in [Node -> Nat]
        /\ fsm' \in [Node -> Entries]
    BY <1>1, <1>2, <1>3, <1>4
  <1>8. taking' \in [Node -> [Taker -> Taking]] /\ \A t \in Taker : taking'[n][t] = NotTaking
    BY <1>1, <1>4, <1>6
  <1> QED BY <1>1, <1>4, <1>5, <1>7, <1>8

\* Only the taker's own entry changes.
LEMMA TakeOK ==
    ASSUME TypeOK, NEW n \in Node, NEW t \in Taker, NEW s \in Taking, Take(n, t, s)
    PROVE  /\ taking' \in [Node -> [Taker -> Taking]]
           /\ taking'[n][t] = s
           /\ \A m \in Node, u \in Taker : m # n \/ u # t => taking'[m][u] = taking[m][u]
  <1>1. taking \in [Node -> [Taker -> Taking]]
    BY Types
  <1>2. taking' = [taking EXCEPT ![n] = [taking[n] EXCEPT ![t] = s]]
    BY DEF Take
  <1> QED BY <1>1, <1>2

LEMMA StepCases ==
    ASSUME TypeOK, Next
    PROVE  \/ Propose \/ Heartbeat \/ LoadFile \/ CallEnds
           \/ \E r \in late \cup {call} : RequestHandled(r)
           \/ \E k \in 1..LastIndex(log[L]) : ThirdAcknowledges(k)
           \/ Apply \/ RecordApplied
           \/ \E n \in Node : \E t \in Taker : Capture(n, t)
           \/ \E n \in Node : \E t \in Taker : Save(n, t)
           \/ \E n \in Node : \E t \in Taker : Adopt(n, t)
           \/ RestartFollower \/ RestartLeader
  <1>1. CASE ReplyArrives \/ CallFails
    BY <1>1, ReplyEndsCall
  <1>2. CASE RequestArrives \/ \E r \in late : LateRequestArrives(r)
    BY <1>2, RequestsHandled
  <1> QED BY <1>1, <1>2 DEF Next, CallStep

----------------------------------------------------------------------------
(* Types.                                                                  *)

LEMMA InitTypes == Init => TypeOK
  <1> SUFFICES ASSUME NEW k \in InitialLogs, InitWith(k) PROVE TypeOK
    BY DEF Init
  <1>1. k \in Nat
    BY CompactionAssumption
  <1>2. log \in [Node -> LogType] /\ log[L] \in LogType
    <2>1. UpTo(k) \in Entries /\ UpTo(k + 1) \in Entries
      BY <1>1, UpToOK
    <2>2. log \in [Node -> LogType]
      BY <2>1 DEF InitWith, LogType
    <2> QED BY <2>2 DEF Node
  <1>3. call \in CallType
    <2>1. Fresh(Sent(k + 1, k + 1, log[L], 0, 0, 0), k + 1, log[L])
      BY <1>1, <1>2, SentOK
    <2> QED BY <2>1 DEF InitWith, Fresh
  <1>4. /\ file \in [Node -> FileType] /\ snapshotIndex \in [Node -> Nat]
        /\ snapshotTerm \in [Node -> Nat] /\ commitIndex \in [Node -> Nat]
        /\ lastApplied \in [Node -> Nat] /\ fsm \in [Node -> Entries]
    BY NoCallOK DEF InitWith, FileType
  <1>5. applying \in BOOLEAN /\ mishaps \subseteq Mishap \X Node
    BY DEF InitWith
  <1>6. taking \in [Node -> [Taker -> Taking]]
    BY NotTakingOK DEF InitWith
  <1>7. /\ nextIndex \in Nat \ {0} /\ matchIndex \in Nat
        /\ third \in [stored : Nat, acked : Nat] /\ late \subseteq CallType
        /\ events \in [EventKind -> Nat]
    BY <1>1 DEF InitWith
  <1>8. opened \subseteq Entry /\ term \in opened /\ followerTerm \in Nat
    BY <1>1 DEF InitWith, Entry, Smaller
  <1> QED BY <1>2, <1>3, <1>4, <1>5, <1>6, <1>7, <1>8, Types

LEMMA NextTypes == TypeOK /\ [Next]_vars => TypeOK'
  <1> SUFFICES ASSUME TypeOK, [Next]_vars PROVE TypeOK'
    OBVIOUS
  <1>0. /\ log \in [Node -> LogType] /\ file \in [Node -> FileType]
        /\ snapshotIndex \in [Node -> Nat] /\ snapshotTerm \in [Node -> Nat]
        /\ commitIndex \in [Node -> Nat] /\ lastApplied \in [Node -> Nat]
        /\ fsm \in [Node -> Entries]
        /\ applying \in BOOLEAN /\ mishaps \subseteq Mishap \X Node
        /\ taking \in [Node -> [Taker -> Taking]]
        /\ nextIndex \in Nat \ {0} /\ matchIndex \in Nat
        /\ opened \subseteq Entry /\ term \in opened /\ followerTerm \in Nat
        /\ third \in [stored : Nat, acked : Nat]
        /\ call \in CallType /\ late \subseteq CallType
        /\ events \in [EventKind -> Nat]
    BY Types
  <1>1. L \in Node /\ F \in Node /\ L # F
    BY DEF Node, L, F
  <1>2. /\ log[L] \in LogType /\ LastIndex(log[L]) \in Nat /\ snapshotIndex[L] \in Nat
        /\ snapshotTerm[L] \in Nat /\ commitIndex[L] \in Nat /\ lastApplied[L] \in Nat
        /\ fsm[L] \in Entries /\ file[L].index \in Nat /\ file[L].term \in Nat
        /\ file[L].data \in Entries
    BY <1>1, OfNode
  <1>3. /\ Written(log[L], <<LastIndex(log[L]) + 1>>) \in LogType
    <2>1. <<LastIndex(log[L]) + 1>> \in Entries
      BY <1>2 DEF Entries, Entry
    <2> QED BY <1>2, <2>1, WrittenOK
  <1>4. term \in Nat
    BY <1>0 DEF Entry
  <1>5. CASE Propose
    <2> DEFINE lg == Written(log[L], <<LastIndex(log[L]) + 1>>)
               sent == Sent(term, nextIndex, lg, snapshotIndex[L], snapshotTerm[L], commitIndex[L])
    <2>1. /\ log' = [log EXCEPT ![L] = lg]
          /\ call' = IF call.at # "none" THEN call ELSE sent
          /\ UNCHANGED <<commitIndex, lastApplied, fsm, file, snapshotIndex, snapshotTerm, applying,
                         taking, nextIndex, matchIndex, opened, term, third, followerTerm, late, mishaps>>
      BY <1>5 DEF Propose, snapVars, leaderVars
    <2>2. events' \in [EventKind -> Nat]
      BY <1>5, EventsOK DEF Propose, EventKind
    <2> HIDE DEF lg
    <2>3. lg \in LogType
      BY <1>3 DEF lg
    <2>4. sent \in CallType
      BY <1>0, <1>2, <1>4, <2>3, SentOK DEF Fresh
    <2> HIDE DEF sent
    <2> QED BY <1>0, <1>1, <2>1, <2>2, <2>3, <2>4, TypesNext
  <1>6. CASE Heartbeat
    <2>1. call' \in CallType
      BY <1>0, <1>2, <1>4, <1>6, SentOK DEF Fresh, Heartbeat
    <2> QED BY <1>0, <1>6, <2>1, TypesNext
        DEF Heartbeat, nodeVars, logVars, snapVars, leaderVars
  <1>7. CASE LoadFile
    <2>1. call' \in CallType
      BY <1>0, <1>2, <1>7 DEF LoadFile, CallType
    <2> QED BY <1>0, <1>7, <2>1, TypesNext
        DEF LoadFile, nodeVars, logVars, snapVars, leaderVars
  <1>8. CASE CallEnds
    <2>1. call' = NoCall \/ Fresh(call', term, log[L])
      BY <1>8, SentNowOK DEF CallEnds, Returned
    <2>2. call' \in CallType
      BY <2>1, NoCallOK DEF Fresh
    <2>3. late' \subseteq CallType
      BY <1>0, <1>8, AbandonedOK DEF CallEnds
    <2>4. commitIndex'[L] \in Nat
      <3>1. third.acked \in Nat /\ matchIndex' \in Nat
        BY <1>0, <1>8 DEF CallEnds, Returned
      <3>2. Advanced(log[L], commitIndex[L], matchIndex', third.acked) \in Nat
        BY <1>0, <1>2, <1>4, <3>1, AdvancedOK
      <3> QED BY <1>2, <1>8, <3>2 DEF CallEnds, Returned
    <2>5. commitIndex' \in [Node -> Nat] /\ nextIndex' \in Nat \ {0} /\ matchIndex' \in Nat
      BY <1>0, <1>8, <2>4 DEF CallEnds, Returned
    <2> QED BY <1>0, <1>8, <2>2, <2>3, <2>5, TypesNext DEF CallEnds
  <1>9. ASSUME NEW r \in late \cup {call}, RequestHandled(r) PROVE TypeOK'
    <2>1. call' \in CallType /\ late' \subseteq CallType
      <3>1. Answer(call) \in CallType
        BY <1>0, <1>1, AnswerOK, OfNode
      <3> QED BY <1>0, <1>9, <3>1 DEF RequestHandled
    <2>2. followerTerm' \in Nat
      BY <1>0, <1>9, OfCall DEF RequestHandled
    <2>3. UNCHANGED <<applying, taking, nextIndex, matchIndex, opened, term, third, events>>
      BY <1>9 DEF RequestHandled
    <2>4. /\ log' \in [Node -> LogType] /\ file' \in [Node -> FileType]
          /\ snapshotIndex' \in [Node -> Nat] /\ snapshotTerm' \in [Node -> Nat]
          /\ commitIndex' \in [Node -> Nat] /\ lastApplied' \in [Node -> Nat]
          /\ fsm' \in [Node -> Entries] /\ mishaps' \subseteq Mishap \X Node
      BY <1>9, HandledTypes
    <2> QED BY <1>0, <2>1, <2>2, <2>3, <2>4, TypesNext
  <1>10. ASSUME NEW k \in 1..LastIndex(log[L]), ThirdAcknowledges(k) PROVE TypeOK'
    <2>1. third' \in [stored : Nat, acked : Nat]
      BY <1>0, <1>2, <1>10 DEF ThirdAcknowledges, Larger
    <2>2. Advanced(log[L], commitIndex[L], matchIndex, k) \in Nat
      <3>1. k \in Nat /\ matchIndex \in Nat /\ term \in opened
        BY <1>0
      <3> QED BY <1>2, <1>4, <3>1, AdvancedOK
    <2>3. commitIndex' \in [Node -> Nat]
      BY <1>0, <1>10, <2>2 DEF ThirdAcknowledges, Commit
    <2> QED BY <1>0, <1>10, <2>1, <2>3, TypesNext DEF ThirdAcknowledges, snapVars, netVars
  <1>11. CASE Apply
    <2>1. Executed(fsm[L], log[L], lastApplied[L], lastApplied[L] + 1) \in Entries
      <3>1. lastApplied[L] + 1 \in Nat
        BY <1>2
      <3> QED BY <1>2, <3>1, ExecutedOK
    <2>2. fsm' \in [Node -> Entries]
      BY <1>0, <1>11, <2>1 DEF Apply
    <2> QED BY <1>0, <1>11, <2>2, TypesNext DEF Apply, snapVars, leaderVars, netVars
  <1>12. CASE RecordApplied
    <2>1. lastApplied' \in [Node -> Nat]
      BY <1>0, <1>1, <1>2, <1>12 DEF RecordApplied
    <2> QED BY <1>0, <1>12, <2>1, TypesNext DEF RecordApplied, snapVars, leaderVars, netVars
  <1>13. ASSUME NEW n \in Node, NEW t \in Taker, Capture(n, t) PROVE TypeOK'
    <2> DEFINE s == [at |-> "captured", index |-> lastApplied[n],
                     term |-> EntryAt(log[n], lastApplied[n]), data |-> fsm[n]]
    <2>1. EntryAt(log[n], lastApplied[n]) \in Nat
      BY <1>13, OfNode, EntryAtOK DEF Capture
    <2>2. s \in Taking
      BY <2>1, OfNode DEF Taking
    <2>3. taking' \in [Node -> [Taker -> Taking]]
      BY <1>13, <2>2, TakeOK DEF Capture
    <2>4. mishaps' \subseteq Mishap \X Node
      BY <1>0, <1>13, NotedOK DEF Capture, Mishap
    <2>5. events' \in [EventKind -> Nat]
      BY <1>13, EventsOK DEF Capture, EventKind
    <2> QED BY <1>0, <1>13, <2>3, <2>4, <2>5, TypesNext
        DEF Capture, nodeVars, logVars, snapVars, leaderVars, netVars
  <1>14. ASSUME NEW n \in Node, NEW t \in Taker, Save(n, t) PROVE TypeOK'
    <2> DEFINE s == taking[n][t]
    <2>1. s \in Taking
      BY OfNode
    <2>2. [s EXCEPT !.at = "saved"] \in Taking
      BY <2>1 DEF Taking
    <2>3. taking' \in [Node -> [Taker -> Taking]]
      BY <1>14, <2>2, TakeOK DEF Save
    <2>4. mishaps' \subseteq Mishap \X Node
      BY <1>0, <1>14, NotedOK DEF Save, Mishap
    <2>5. [index |-> s.index, term |-> s.term, data |-> s.data] \in FileType
      BY <2>1 DEF Taking, FileType
    <2>6. file' \in [Node -> FileType]
      BY <1>0, <1>14, <2>5 DEF Save
    <2> QED BY <1>0, <1>14, <2>3, <2>4, <2>6, TypesNext
        DEF Save, logVars, leaderVars, netVars
  <1>15. ASSUME NEW n \in Node, NEW t \in Taker, Adopt(n, t) PROVE TypeOK'
    <2> DEFINE s == taking[n][t]
               new == s.index > snapshotIndex[n]
               cut == new /\ LastIndex(log[n]) > s.index
    <2>1. s.index \in Nat /\ s.term \in Nat
      BY OfNode DEF Taking
    <2>2. taking' \in [Node -> [Taker -> Taking]]
      BY <1>15, NotTakingOK, TakeOK DEF Adopt
    <2>3. cut => TruncateTo(log[n], s.index) \in LogType
      BY <2>1, OfNode, TruncateOK
    <2>4. /\ snapshotIndex' = [snapshotIndex EXCEPT ![n] = IF new THEN s.index ELSE @]
          /\ snapshotTerm' = [snapshotTerm EXCEPT ![n] = IF new THEN s.term ELSE @]
          /\ log' = [log EXCEPT ![n] = IF cut THEN TruncateTo(@, s.index) ELSE @]
          /\ UNCHANGED <<commitIndex, lastApplied, fsm, file, applying, nextIndex, matchIndex,
                         opened, term, third, followerTerm, call, late, mishaps, events>>
      BY <1>15 DEF Adopt, leaderVars, netVars
    <2> HIDE DEF s, cut, new
    <2>5. snapshotIndex' \in [Node -> Nat] /\ snapshotTerm' \in [Node -> Nat]
      BY <1>0, <2>1, <2>4
    <2>6. log' \in [Node -> LogType]
      BY <1>0, <2>3, <2>4
    <2> QED BY <1>0, <2>2, <2>4, <2>5, <2>6, TypesNext
  <1>16. CASE RestartFollower
    <2>1. Recover(F)
      BY <1>16 DEF RestartFollower
    <2>2. UNCHANGED <<log, file, applying, nextIndex, matchIndex, opened, term, third,
                      followerTerm, call, late, mishaps>>
      BY <1>16 DEF RestartFollower, leaderVars, netVars
    <2> QED BY <1>0, <1>1, <2>1, <2>2, RecoverOK, TypesNext
  <1>17. CASE RestartLeader
    <2> DEFINE last == LastIndex(log[L])
               lg == Written(log[L], <<last + 1>>)
    <2>1. Recover(L)
      BY <1>17 DEF RestartLeader
    <2>2. /\ log' = [log EXCEPT ![L] = lg]
          /\ applying' = FALSE
          /\ nextIndex' = last + 1 /\ matchIndex' = 0
          /\ opened' = opened \cup {last + 1} /\ term' = last + 1
          /\ followerTerm' \in {followerTerm, last + 1}
          /\ third' = [third EXCEPT !.acked = 0]
          /\ call' = Sent(last + 1, last + 1, lg, file[L].index, file[L].term, file[L].index)
          /\ late' = Abandoned
          /\ UNCHANGED <<file, mishaps>>
      BY <1>17 DEF RestartLeader
    <2>3. last \in Nat
      BY <1>2
    <2>4. lg \in LogType
      BY <1>3
    <2> HIDE DEF lg, last
    <2>5. call' \in CallType
      <3>1. last + 1 \in Nat /\ last + 1 \in Nat \ {0}
        BY <2>3
      <3>2. Fresh(Sent(last + 1, last + 1, lg, file[L].index, file[L].term, file[L].index), last + 1, lg)
        BY <1>2, <2>4, <3>1, SentOK
      <3> QED BY <2>2, <3>2 DEF Fresh
    <2>6. late' \subseteq CallType
      BY <2>2, AbandonedOK
    <2>7. /\ log' \in [Node -> LogType] /\ third' \in [stored : Nat, acked : Nat]
          /\ opened' \subseteq Entry /\ term' \in opened' /\ followerTerm' \in Nat
          /\ nextIndex' \in Nat \ {0} /\ matchIndex' \in Nat /\ applying' \in BOOLEAN
      <3>1. log' \in [Node -> LogType]
        BY <1>0, <2>2, <2>4
      <3>2. third' \in [stored : Nat, acked : Nat]
        BY <1>0, <2>2
      <3>3. opened' \subseteq Entry /\ term' \in opened' /\ followerTerm' \in Nat
        BY <1>0, <2>2, <2>3 DEF Entry
      <3>4. nextIndex' \in Nat \ {0} /\ matchIndex' \in Nat
        BY <2>2, <2>3
      <3>5. applying' \in BOOLEAN
        BY <2>2
      <3> QED BY <3>1, <3>2, <3>3, <3>4, <3>5
    <2> QED BY <1>0, <1>1, <2>1, <2>2, <2>5, <2>6, <2>7, RecoverOK, TypesNext
  <1>18. CASE UNCHANGED vars
    BY <1>0, <1>18, TypesNext DEF vars, nodeVars, logVars, snapVars, leaderVars, netVars
  <1> QED BY <1>5, <1>6, <1>7, <1>8, <1>9, <1>10, <1>11, <1>12, <1>13, <1>14, <1>15, <1>16,
             <1>17, <1>18, StepCases

\* TypeOK: the types of all variables, nextIndex never 0 (leader_role.go:601),
\* for all bounds.
THEOREM TypesHold == Spec => []TypeOK
  <1>1. Init => TypeOK
    BY InitTypes
  <1>2. TypeOK /\ [Next]_vars => TypeOK'
    BY NextTypes
  <1> QED BY <1>1, <1>2, PTL DEF Spec

----------------------------------------------------------------------------
(* The files and the beginnings of the logs.                               *)

\* The file on n's disk is never behind anything that relies on it.
Disk(n) ==
    /\ log[n].first <= file[n].index + 1
    /\ snapshotIndex[n] <= file[n].index
    /\ \A t \in Taker : taking[n][t].at = "saved" => taking[n][t].index <= file[n].index

Disks == \A n \in Node : Happened("overwritten", n) \/ Disk(n)

\* Nothing that Disk(n) speaks of changes.
LEMMA DiskKept ==
    ASSUME NEW n, Disk(n), UNCHANGED <<log[n].first, file[n], snapshotIndex[n], taking[n]>>
    PROVE  Disk(n)'
  BY DEF Disk

\* The histories only grow.
LEMMA MishapsGrow ==
    ASSUME TypeOK, Next
    PROVE  mishaps \subseteq mishaps'
  <1>1. ASSUME NEW r, RequestHandled(r) PROVE mishaps \subseteq mishaps'
    BY <1>1, HandledTypes
  <1>2. ASSUME NEW n \in Node, NEW t \in Taker, Capture(n, t) \/ Save(n, t)
        PROVE  mishaps \subseteq mishaps'
    <2>1. CASE Capture(n, t)
      BY <2>1 DEF Capture, Noted
    <2>2. CASE Save(n, t)
      BY <2>2 DEF Save, Noted
    <2> QED BY <1>2, <2>1, <2>2
  <1>3. ASSUME Propose \/ Heartbeat \/ LoadFile \/ CallEnds \/ Apply \/ RecordApplied
        PROVE  mishaps' = mishaps
    BY <1>3 DEF Propose, Heartbeat, LoadFile, CallEnds, Apply, RecordApplied
  <1>4. ASSUME \/ \E k \in 1..LastIndex(log[L]) : ThirdAcknowledges(k)
               \/ \E n \in Node : \E t \in Taker : Adopt(n, t)
               \/ RestartFollower \/ RestartLeader
        PROVE  mishaps' = mishaps
    BY <1>4 DEF ThirdAcknowledges, Adopt, RestartFollower, RestartLeader
  <1> QED BY <1>1, <1>2, <1>3, <1>4, StepCases

LEMMA InitDisks == Init => Disks
  <1> SUFFICES ASSUME NEW k \in InitialLogs, InitWith(k), NEW n \in Node PROVE Disk(n)
    BY DEF Init, Disks
  <1> QED BY DEF InitWith, Disk, NotTaking

LEMMA NextDisks == TypeOK /\ Disks /\ [Next]_vars => Disks'
  <1> SUFFICES ASSUME TypeOK, Disks, [Next]_vars, NEW n \in Node,
                      <<"overwritten", n>> \notin mishaps'
               PROVE  Disk(n)'
    BY DEF Disks, Happened
  <1>0. CASE UNCHANGED vars
    BY <1>0, DiskKept DEF Disks, Happened, vars, nodeVars, logVars, snapVars
  <1> SUFFICES ASSUME Next PROVE Disk(n)'
    BY <1>0
  <1>1. Disk(n)
    BY MishapsGrow DEF Disks, Happened
  <1>2. /\ log[n] \in LogType /\ log[n].first \in Nat /\ LastIndex(log[n]) \in Nat
        /\ file[n].index \in Nat /\ snapshotIndex[n] \in Nat
        /\ \A t \in Taker : taking[n][t] \in Taking /\ taking[n][t].index \in Nat
    BY OfNode, Positive
  <1>3. log \in [Node -> LogType] /\ file \in [Node -> FileType] /\ snapshotIndex \in [Node -> Nat]
    BY Types
  <1>4. L \in Node /\ F \in Node /\ L # F
    BY DEF Node, L, F
  <1>5. Written(log[L], <<LastIndex(log[L]) + 1>>).first = log[L].first
    BY DEF Written
  <1>6. CASE \/ Propose \/ Heartbeat \/ LoadFile \/ CallEnds
             \/ \E k \in 1..LastIndex(log[L]) : ThirdAcknowledges(k)
             \/ Apply \/ RecordApplied
    <2>1. UNCHANGED <<file, snapshotIndex, taking>>
      BY <1>6 DEF Propose, Heartbeat, LoadFile, CallEnds, ThirdAcknowledges, Apply, RecordApplied,
                  nodeVars, snapVars
    <2>2. log'[n].first = log[n].first
      <3>1. CASE Propose
        BY <1>3, <1>5, <3>1 DEF Propose
      <3>2. CASE ~Propose
        BY <1>6, <3>2 DEF Heartbeat, LoadFile, CallEnds, ThirdAcknowledges, Apply, RecordApplied,
                  nodeVars, logVars
      <3> QED BY <3>1, <3>2
    <2> QED BY <1>1, <2>1, <2>2, DiskKept
  <1>7. ASSUME NEW r \in late \cup {call}, RequestHandled(r) PROVE Disk(n)'
    <2>1. taking' = taking
      BY <1>7 DEF RequestHandled
    <2>2. CASE n = L
      <3>1. log'[n] = log[n] /\ file'[n] = file[n] /\ snapshotIndex'[n] = snapshotIndex[n]
        BY <1>7, <2>2, HandledTypes
      <3> QED BY <1>1, <2>1, <3>1, DiskKept
    <2>3. CASE n = F
      <3>1. CASE Refused(r)
        BY <1>1, <2>1, <3>1, DiskKept DEF Refused
      <3>2. CASE Appended(r)
        <4>1. r.index \in Nat /\ r.entries \in Entries
          BY <1>7, OfCall DEF RequestHandled
        <4>2. AppendEntries(log[F], r.index, r.entries).first = log[F].first
          BY <1>2, <2>3, <4>1, AppendOK
        <4>3. log'[n].first = log[n].first /\ UNCHANGED <<file, snapshotIndex>>
          BY <1>3, <2>3, <3>2, <4>2 DEF Appended
        <4> QED BY <1>1, <2>1, <4>3, DiskKept
      <3>3. CASE Installed(r)
        <4>1. r.index \in Nat
          BY <1>7, OfCall DEF RequestHandled
        <4>2. /\ file'[n].index = r.index /\ snapshotIndex'[n] = r.index
              /\ log'[n] = LogAfterInstall(log[n], r.index)
          BY <1>3, <2>3, <3>3 DEF Installed, Install
        <4>3. <<"overwritten", F>> \notin Noted("overwritten", F, r.index < file[F].index)
          BY <2>3, <3>3 DEF Installed, Install
        <4>4. ~(r.index < file[F].index)
          BY <1>4, <4>3, NotedOK DEF Mishap
        <4>5. file[n].index <= r.index
          BY <1>2, <2>3, <4>1, <4>4
        <4>6. log[n].first <= r.index + 1
          BY <1>1, <1>2, <4>1, <4>5 DEF Disk
        <4>7. log'[n].first <= r.index + 1
          BY <1>2, <4>1, <4>2, <4>6, InstallOK
        <4>8. \A t \in Taker : taking[n][t].at = "saved" => taking[n][t].index <= r.index
          BY <1>1, <1>2, <4>1, <4>5 DEF Disk
        <4> QED BY <2>1, <4>1, <4>2, <4>7, <4>8 DEF Disk
      <3> QED BY <1>7, <3>1, <3>2, <3>3 DEF RequestHandled
    <2> QED BY <2>2, <2>3 DEF Node
  <1>8. ASSUME NEW m \in Node, NEW t \in Taker, Capture(m, t) PROVE Disk(n)'
    <2> DEFINE s == [at |-> "captured", index |-> lastApplied[m],
                     term |-> EntryAt(log[m], lastApplied[m]), data |-> fsm[m]]
    <2>1. EntryAt(log[m], lastApplied[m]) \in Nat
      BY <1>8, OfNode, EntryAtOK DEF Capture
    <2>2. s \in Taking /\ s.at = "captured"
      BY <2>1, OfNode DEF Taking
    <2>3. Take(m, t, s) /\ UNCHANGED <<log, file, snapshotIndex>>
      BY <1>8 DEF Capture, nodeVars, logVars, snapVars
    <2> HIDE DEF s
    <2>4. \A u \in Taker : taking'[n][u].at = "saved" => taking'[n][u] = taking[n][u]
      BY <2>2, <2>3, TakeOK
    <2> QED BY <1>1, <2>3, <2>4 DEF Disk
  <1>9. ASSUME NEW m \in Node, NEW t \in Taker, Save(m, t) PROVE Disk(n)'
    <2> DEFINE s == taking[m][t]
               saved == [s EXCEPT !.at = "saved"]
    <2>1. s \in Taking /\ s.index \in Nat
      BY OfNode
    <2>2. saved \in Taking /\ saved.index = s.index
      BY <2>1 DEF Taking
    <2>3. /\ Take(m, t, saved) /\ UNCHANGED <<log, snapshotIndex>>
          /\ file' = [file EXCEPT ![m] = [index |-> s.index, term |-> s.term, data |-> s.data]]
          /\ mishaps' = Noted("overwritten", m, s.index < file[m].index)
      BY <1>9 DEF Save, logVars
    <2> HIDE DEF saved
    <2>4. CASE m # n
      <3>1. file'[n] = file[n] /\ \A u \in Taker : taking'[n][u] = taking[n][u]
        BY <1>3, <2>2, <2>3, <2>4, TakeOK
      <3> QED BY <1>1, <2>3, <3>1 DEF Disk
    <2>5. CASE m = n
      <3>1. ~(s.index < file[n].index)
        BY <2>3, <2>5, NotedOK DEF Mishap
      <3>2. file[n].index <= s.index
        BY <1>2, <2>1, <3>1
      <3>3. file'[n].index = s.index
        BY <1>3, <2>3, <2>5
      <3>4. \A u \in Taker : taking'[n][u] = IF u = t THEN saved ELSE taking[n][u]
        BY <2>2, <2>3, <2>5, TakeOK
      <3>5. \A u \in Taker : taking'[n][u].at = "saved" => taking'[n][u].index <= s.index
        BY <1>1, <1>2, <2>1, <2>2, <3>2, <3>4 DEF Disk
      <3>6. log[n].first <= s.index + 1 /\ snapshotIndex[n] <= s.index
        BY <1>1, <1>2, <2>1, <3>2 DEF Disk
      <3> QED BY <2>3, <3>3, <3>5, <3>6 DEF Disk
    <2> QED BY <2>4, <2>5
  <1>10. ASSUME NEW m \in Node, NEW t \in Taker, Adopt(m, t) PROVE Disk(n)'
    <2> DEFINE s == taking[m][t]
               new == s.index > snapshotIndex[m]
               cut == new /\ LastIndex(log[m]) > s.index
    <2>1. s \in Taking /\ s.index \in Nat /\ s.at = "saved"
      BY <1>10, OfNode DEF Adopt, FileWritten
    <2>2. /\ Take(m, t, NotTaking) /\ UNCHANGED file
          /\ snapshotIndex' = [snapshotIndex EXCEPT ![m] = IF new THEN s.index ELSE @]
          /\ log' = [log EXCEPT ![m] = IF cut THEN TruncateTo(@, s.index) ELSE @]
      BY <1>10 DEF Adopt
    <2>3. \A u \in Taker : taking'[n][u].at = "saved" => taking'[n][u] = taking[n][u]
      BY <2>2, TakeOK, NotTakingOK
    <2>4. \A u \in Taker : taking'[n][u].at = "saved" => taking'[n][u].index <= file'[n].index
      BY <1>1, <2>2, <2>3 DEF Disk
    <2>5. CASE m # n
      <3>1. log'[n] = log[n] /\ snapshotIndex'[n] = snapshotIndex[n]
        BY <1>3, <2>2, <2>5
      <3> QED BY <1>1, <2>2, <2>4, <3>1 DEF Disk
    <2>6. CASE m = n
      <3>1. s.index <= file[n].index
        BY <1>1, <2>1, <2>6 DEF Disk
      <3>2. snapshotIndex'[n] <= file[n].index
        BY <1>1, <1>3, <2>2, <2>6, <3>1 DEF Disk
      <3>3. log'[n].first <= file[n].index + 1
        <4>1. CASE cut
          <5>1. log'[n] = TruncateTo(log[n], s.index) /\ s.index <= LastIndex(log[n])
            BY <1>2, <1>3, <2>1, <2>2, <2>6, <4>1
          <5>2. log'[n].first = Larger(log[n].first, s.index + 1)
            BY <1>2, <2>1, <5>1, TruncateOK
          <5> QED BY <1>1, <1>2, <2>1, <3>1, <5>2 DEF Larger, Disk
        <4>2. CASE ~cut
          BY <1>1, <1>3, <2>2, <2>6, <4>2 DEF Disk
        <4> QED BY <4>1, <4>2
      <3> QED BY <2>2, <2>4, <3>2, <3>3 DEF Disk
    <2> QED BY <2>5, <2>6
  <1>11. ASSUME NEW m \in Node, Recover(m), UNCHANGED file,
                \A i \in Node : log'[i].first = log[i].first
         PROVE  Disk(n)'
    <2>1. CASE m # n
      <3>1. snapshotIndex'[n] = snapshotIndex[n] /\ taking'[n] = taking[n]
        BY <1>11, <2>1, RecoverOK
      <3> QED BY <1>1, <1>11, <3>1, DiskKept
    <2>2. CASE m = n
      <3>1. snapshotIndex'[n] = file[n].index /\ \A t \in Taker : taking'[n][t] = NotTaking
        BY <1>11, <2>2, RecoverOK
      <3>2. snapshotIndex'[n] <= file[n].index
        BY <1>2, <3>1
      <3> QED BY <1>1, <1>11, <3>1, <3>2, NotTakingOK DEF Disk
    <2> QED BY <2>1, <2>2
  <1>12. CASE RestartFollower
    BY <1>4, <1>11, <1>12 DEF RestartFollower
  <1>13. CASE RestartLeader
    <2>1. \A i \in Node : log'[i].first = log[i].first
      BY <1>3, <1>5, <1>13 DEF RestartLeader
    <2> QED BY <1>4, <1>11, <1>13, <2>1 DEF RestartLeader
  <1> QED BY <1>6, <1>7, <1>8, <1>9, <1>10, <1>12, <1>13, StepCases

\* CompleteUnlessOverwritten: at every moment, on both nodes, whatever calls of
\* TakeSnapshot are under way, file and log together have no gap, as long as no
\* newer file has been replaced by an older one (raft.go:300-328, 330-397).
THEOREM DisksComplete == Spec => []CompleteUnlessOverwritten
  <1>1. Init => TypeOK /\ Disks
    BY InitTypes, InitDisks
  <1>2. (TypeOK /\ Disks) /\ [Next]_vars => (TypeOK /\ Disks)'
    BY NextTypes, NextDisks
  <1>3. Disks => CompleteUnlessOverwritten
    BY DEF Disks, Disk, CompleteUnlessOverwritten
  <1> QED BY <1>1, <1>2, <1>3, PTL DEF Spec

----------------------------------------------------------------------------
(* The leader's log and terms, and what requests carry.                    *)

\* A request that has left the leader, or the answer to it.
Carried(r) == r.at \in {"request", "reply"}

\* r is a copy of the request s, as far as its contents go.
SameRequest(r, s) ==
    r.kind = s.kind /\ r.term = s.term /\ r.index = s.index /\ r.entries = s.entries

\* Every request was there before, carries the leader's file, or was just sent
\* with entries of the leader's log.
LEMMA RequestsFrom ==
    ASSUME TypeOK, Next, NEW r \in late' \cup {call'}, Carried(r)
    PROVE  \/ \E s \in late \cup {call} : Carried(s) /\ SameRequest(r, s)
           \/ /\ call.at = "loading" /\ r.kind = call.kind /\ r.term = call.term
              /\ r.index = file[L].index /\ r.entries = file[L].data
           \/ Fresh(r, term', log'[L]) /\ r.kind = "append"
  <1>0. call \in CallType /\ late \subseteq CallType /\ log \in [Node -> LogType]
    BY Types
  <1>1. L \in Node /\ F \in Node /\ L # F
    BY DEF Node, L, F
  <1>2. CASE r \in late \cup {call}
    BY <1>2 DEF SameRequest
  <1>3. ASSUME NEW c, c = NoCall \/ Fresh(c, term', log'[L]), r = c
        PROVE  Fresh(r, term', log'[L]) /\ r.kind = "append"
    BY <1>3 DEF Carried, NoCall, Fresh, CallType
  <1>4. CASE Propose
    <2>1. TypeOK'
      BY NextTypes
    <2>2. log'[L] \in LogType /\ term \in Nat /\ term' = term
      BY <1>1, <1>4, <2>1, Types, TypesNext DEF Propose, leaderVars, Entry
    <2>3. nextIndex \in Nat \ {0} /\ snapshotIndex[L] \in Nat /\ snapshotTerm[L] \in Nat /\ commitIndex[L] \in Nat
      BY <1>1, Types
    <2>4. log'[L] = Written(log[L], <<LastIndex(log[L]) + 1>>)
      BY <1>0, <1>1, <1>4 DEF Propose
    <2>5. late' = late /\ (call' = call \/ call' = Sent(term, nextIndex, log'[L], snapshotIndex[L], snapshotTerm[L], commitIndex[L]))
      BY <1>4, <2>4 DEF Propose
    <2>6. late' = late /\ (call' = call \/ Fresh(call', term', log'[L]))
      BY <2>2, <2>3, <2>5, SentOK
    <2> QED BY <1>2, <1>3, <2>6
  <1>5. CASE Heartbeat
    <2>1. /\ log[L] \in LogType /\ term \in Nat
          /\ nextIndex \in Nat \ {0} /\ snapshotIndex[L] \in Nat /\ snapshotTerm[L] \in Nat /\ commitIndex[L] \in Nat
      BY <1>1, Types DEF Entry
    <2>2. late' = late /\ Fresh(call', term', log'[L])
      BY <1>5, <2>1, SentOK DEF Heartbeat, nodeVars, logVars, leaderVars
    <2> QED BY <1>2, <1>3, <2>2
  <1>6. CASE LoadFile
    <2>1. /\ late' = late /\ call.at = "loading"
          /\ call'.kind = call.kind /\ call'.term = call.term
          /\ call'.index = file[L].index /\ call'.entries = file[L].data
      BY <1>0, <1>6 DEF LoadFile, CallType
    <2> QED BY <1>2, <2>1
  <1>7. CASE CallEnds
    <2>1. call' = NoCall \/ Fresh(call', term', log'[L])
      BY <1>7, SentNowOK DEF CallEnds, Returned
    <2>2. r \in late' => r \in late \/ (call.at = "request" /\ SameRequest(r, call))
      BY <1>7, AbandonedOK DEF CallEnds, SameRequest
    <2> QED BY <1>2, <1>3, <2>1, <2>2 DEF Carried
  <1>8. ASSUME NEW s \in late \cup {call}, RequestHandled(s)
        PROVE  \E x \in late \cup {call} : Carried(x) /\ SameRequest(r, x)
    <2>1. log[F] \in LogType /\ snapshotIndex[F] \in Nat
      BY <1>1, Types
    <2>2. r \in late \cup {call} \/ (r = Answer(call) /\ call.at = "request")
      BY <1>8 DEF RequestHandled
    <2>3. SameRequest(Answer(call), call)
      BY <1>0, <2>1, AnswerOK DEF SameRequest
    <2> QED BY <1>2, <2>2, <2>3 DEF Carried, SameRequest
  <1>9. CASE \/ \E k \in 1..LastIndex(log[L]) : ThirdAcknowledges(k)
             \/ Apply \/ RecordApplied
             \/ \E n \in Node : \E t \in Taker : Capture(n, t) \/ Save(n, t) \/ Adopt(n, t)
             \/ RestartFollower
    <2>1. call' = call /\ late' = late
      BY <1>9 DEF ThirdAcknowledges, Apply, RecordApplied, Capture, Save, Adopt, RestartFollower, netVars
    <2> QED BY <1>2, <2>1
  <1>10. CASE RestartLeader
    <2> DEFINE last == LastIndex(log[L])
    <2>1. log'[L] \in LogType /\ log'[L] = Written(log[L], <<last + 1>>)
      BY <1>0, <1>1, <1>10, NextTypes, TypesNext DEF RestartLeader
    <2>2. last \in Nat /\ file[L].index \in Nat /\ file[L].term \in Nat
      BY <1>1, OfNode
    <2>3. /\ call' = Sent(last + 1, last + 1, log'[L], file[L].index, file[L].term, file[L].index)
          /\ late' = Abandoned /\ term' = last + 1
      BY <1>10, <2>1 DEF RestartLeader
    <2> HIDE DEF last
    <2>4. Fresh(call', term', log'[L])
      BY <2>1, <2>2, <2>3, SentOK
    <2>5. r \in late' => r \in late \/ (call.at = "request" /\ SameRequest(r, call))
      BY <2>3, AbandonedOK DEF SameRequest
    <2> QED BY <1>2, <1>3, <2>4, <2>5 DEF Carried
  <1> QED BY <1>4, <1>5, <1>6, <1>7, <1>8, <1>9, <1>10, StepCases

\* The entries of an append request are those behind its index.
Matching(r) ==
    (Carried(r) /\ r.kind = "append") => \A i \in 1..Len(r.entries) : r.entries[i] = r.index + i

Terms ==
    /\ Right(log[L])
    /\ term <= LastIndex(log[L]) /\ followerTerm <= term
    /\ call.at # "none" => call.term = term
    /\ call.at = "loading" => call.kind = "install"
    /\ \A r \in late : r.at = "request" /\ r.term <= term
    /\ \A r \in late \cup {call} : Matching(r)

LEMMA InitTerms == Init => Terms
  <1> SUFFICES ASSUME NEW k \in InitialLogs, InitWith(k) PROVE Terms
    BY DEF Init
  <1>1. k \in Nat /\ L \in Node
    BY CompactionAssumption DEF Node
  <1>2. log[L] = [first |-> 1, entries |-> UpTo(k + 1)]
    BY <1>1 DEF InitWith
  <1>3. UpTo(k + 1) \in Entries /\ Len(UpTo(k + 1)) = k + 1 /\ \A i \in 1..(k + 1) : UpTo(k + 1)[i] = i
    BY <1>1, UpToOK
  <1>4. log[L] \in LogType /\ Right(log[L]) /\ LastIndex(log[L]) = k + 1
    BY <1>1, <1>2, <1>3 DEF LogType, Right, LastIndex
  <1>5. Fresh(call, k + 1, log[L])
    BY <1>1, <1>4, SentOK DEF InitWith
  <1>6. Matching(call) /\ call.term = k + 1 /\ (call.at = "loading" => call.kind = "install")
    BY <1>4, <1>5 DEF Fresh, Matching
  <1>7. term = k + 1 /\ followerTerm <= term /\ late = {}
    BY <1>1 DEF InitWith, Smaller
  <1> QED BY <1>1, <1>4, <1>6, <1>7 DEF Terms

\* The leader's log only grows at the end, by its own entries.
LEMMA LeaderLog ==
    ASSUME TypeOK, Right(log[L]), Next
    PROVE  Right(log'[L]) /\ LastIndex(log'[L]) >= LastIndex(log[L])
  <1>0. log \in [Node -> LogType] /\ L \in Node
    BY Types DEF Node
  <1>1. log[L] \in LogType /\ LastIndex(log[L]) \in Nat
    BY <1>0, OfNode
  <1>2. LET lg == Written(log[L], <<LastIndex(log[L]) + 1>>)
        IN  Right(lg) /\ LastIndex(lg) = LastIndex(log[L]) + 1
    <2> DEFINE s == <<LastIndex(log[L]) + 1>>
    <2>1. s \in Entries /\ Len(s) = 1 /\ \A i \in 1..Len(s) : s[i] = LastIndex(log[L]) + i
      BY <1>1 DEF Entries, Entry
    <2> HIDE DEF s
    <2>2. Right(Written(log[L], s)) /\ LastIndex(Written(log[L], s)) = LastIndex(log[L]) + 1
      BY <1>1, <2>1, WrittenOK
    <2> QED BY <2>2 DEF s
  <1>3. CASE Propose \/ RestartLeader
    <2>1. log'[L] = Written(log[L], <<LastIndex(log[L]) + 1>>)
      BY <1>0, <1>3 DEF Propose, RestartLeader
    <2> QED BY <1>1, <1>2, <2>1
  <1>4. ASSUME NEW n \in Node, NEW t \in Taker, Adopt(n, t)
        PROVE  Right(log'[L]) /\ LastIndex(log'[L]) >= LastIndex(log[L])
    <2> DEFINE k == taking[n][t].index
    <2>1. k \in Nat
      BY OfNode
    <2>2. log'[L] = log[L] \/ (log'[L] = TruncateTo(log[L], k) /\ k <= LastIndex(log[L]))
      <3>1. CASE n = L
        <4>1. CASE LastIndex(log[L]) > k
          BY <1>0, <1>1, <1>4, <2>1, <3>1, <4>1 DEF Adopt
        <4>2. CASE ~(LastIndex(log[L]) > k)
          BY <1>0, <1>4, <3>1, <4>2 DEF Adopt
        <4> QED BY <4>1, <4>2
      <3>2. CASE n # L
        BY <1>0, <1>4, <3>2 DEF Adopt
      <3> QED BY <3>1, <3>2
    <2> HIDE DEF k
    <2> QED BY <1>1, <2>1, <2>2, TruncateOK
  <1>5. ASSUME NEW r, RequestHandled(r) PROVE log'[L] = log[L]
    BY <1>5, HandledTypes
  <1>6. ASSUME \/ Heartbeat \/ LoadFile \/ CallEnds \/ Apply \/ RecordApplied
               \/ \E k \in 1..LastIndex(log[L]) : ThirdAcknowledges(k)
               \/ \E n \in Node : \E t \in Taker : Capture(n, t) \/ Save(n, t)
               \/ RestartFollower
        PROVE  log'[L] = log[L]
    BY <1>6 DEF Heartbeat, LoadFile, CallEnds, ThirdAcknowledges, Apply, RecordApplied, Capture, Save,
                RestartFollower, nodeVars, logVars
  <1> QED BY <1>1, <1>3, <1>4, <1>5, <1>6, StepCases

LEMMA NextTerms == TypeOK /\ Terms /\ [Next]_vars => Terms'
  <1> SUFFICES ASSUME TypeOK, Terms, [Next]_vars PROVE Terms'
    OBVIOUS
  <1>0. CASE UNCHANGED vars
    <2>1. UNCHANGED <<log, term, followerTerm, call, late>>
      BY <1>0 DEF vars, nodeVars, logVars, leaderVars, netVars
    <2> QED BY <2>1 DEF Terms, Matching, Carried
  <1> SUFFICES ASSUME Next PROVE Terms'
    BY <1>0
  <1>1. Right(log'[L]) /\ LastIndex(log'[L]) >= LastIndex(log[L])
    BY LeaderLog DEF Terms
  <1>2. \A r \in late' \cup {call'} : Matching(r)
    <2> SUFFICES ASSUME NEW r \in late' \cup {call'}, Carried(r), r.kind = "append",
                        NEW i \in 1..Len(r.entries)
                 PROVE  r.entries[i] = r.index + i
      BY DEF Matching
    <2>1. CASE \E s \in late \cup {call} : Carried(s) /\ SameRequest(r, s)
      BY <2>1 DEF Terms, Matching, SameRequest
    <2>2. CASE call.at = "loading" /\ r.kind = call.kind
      BY <2>2 DEF Terms
    <2>3. CASE Fresh(r, term', log'[L])
      BY <1>1, <2>3 DEF Fresh
    <2> QED BY <2>1, <2>2, <2>3, RequestsFrom
  <1>3. TypeOK'
    BY NextTypes
  <1>4. L \in Node
    BY DEF Node
  <1>5. /\ LastIndex(log[L]) \in Nat /\ LastIndex(log'[L]) \in Nat
        /\ term \in Nat /\ followerTerm \in Nat
    <2>1. log'[L] \in LogType
      BY <1>3, <1>4, TypesNext
    <2> QED BY <1>4, <2>1, OfNode, Positive, Types DEF Entry
  <1>6. term <= LastIndex(log[L]) /\ followerTerm <= term
    BY DEF Terms
  <1>7. /\ \A r \in late : r.at = "request" /\ r.term <= term
        /\ call.at # "none" => call.term = term
        /\ call.at = "loading" => call.kind = "install"
    BY DEF Terms
  <1>8. ASSUME term' = term, followerTerm' = followerTerm \/ followerTerm' = term,
               late' \subseteq late \/ late' = Abandoned,
               call' = call \/ call' = NoCall \/ Fresh(call', term', log'[L])
        PROVE  Terms'
    <2>1. term' <= LastIndex(log'[L]) /\ followerTerm' <= term'
      BY <1>1, <1>5, <1>6, <1>8
    <2>2. call'.at # "none" => call'.term = term'
      BY <1>7, <1>8 DEF NoCall, Fresh
    <2>3. call'.at = "loading" => call'.kind = "install"
      BY <1>7, <1>8 DEF NoCall, Fresh
    <2>4. \A r \in Abandoned : r.at = "request" /\ r.term <= term
      BY <1>5, <1>7, AbandonedOK
    <2>5. \A r \in late' : r.at = "request" /\ r.term <= term'
      BY <1>7, <1>8, <2>4
    <2> QED BY <1>1, <1>2, <2>1, <2>2, <2>3, <2>5 DEF Terms, Matching, Carried
  <1>9. CASE Propose \/ Heartbeat
    <2>1. call' = call \/ Fresh(call', term', log'[L])
      <3>1. /\ log'[L] \in LogType /\ nextIndex \in Nat \ {0}
            /\ snapshotIndex[L] \in Nat /\ snapshotTerm[L] \in Nat /\ commitIndex[L] \in Nat
        BY <1>3, <1>4, Types, TypesNext
      <3>2. \/ call' = call
            \/ call' = Sent(term, nextIndex, log'[L], snapshotIndex[L], snapshotTerm[L], commitIndex[L])
        <4>1. log \in [Node -> LogType]
          BY Types
        <4>2. Propose => log'[L] = Written(log[L], <<LastIndex(log[L]) + 1>>)
          BY <1>4, <4>1 DEF Propose
        <4> QED BY <1>9, <4>2 DEF Propose, Heartbeat, nodeVars, logVars
      <3>3. term' = term
        BY <1>9 DEF Propose, Heartbeat, leaderVars
      <3>4. Fresh(Sent(term, nextIndex, log'[L], snapshotIndex[L], snapshotTerm[L], commitIndex[L]),
                  term, log'[L])
        BY <1>5, <3>1, SentOK
      <3> QED BY <3>2, <3>3, <3>4
    <2> QED BY <1>8, <1>9, <2>1 DEF Propose, Heartbeat, leaderVars
  <1>10. CASE LoadFile
    <2>1. /\ call'.at = "request" /\ call'.term = call.term /\ call.at = "loading"
          /\ UNCHANGED <<term, followerTerm, late>>
      BY <1>10, Types DEF LoadFile, CallType, leaderVars
    <2>2. term' <= LastIndex(log'[L]) /\ followerTerm' <= term'
      BY <1>1, <1>5, <1>6, <2>1
    <2> QED BY <1>1, <1>2, <1>7, <2>1, <2>2 DEF Terms, Matching, Carried
  <1>11. CASE CallEnds
    <2>1. call' = NoCall \/ Fresh(call', term', log'[L])
      BY <1>11, SentNowOK DEF CallEnds, Returned
    <2> QED BY <1>8, <1>11, <2>1 DEF CallEnds
  <1>12. ASSUME NEW r \in late \cup {call}, RequestHandled(r) PROVE Terms'
    <2>1. r.term <= term
      <3>1. (r = call /\ call.at = "request") \/ r \in late
        BY <1>12 DEF RequestHandled
      <3> QED BY <1>5, <1>7, <3>1
    <2>2. followerTerm' <= term' /\ term' = term /\ late' \subseteq late
      BY <1>6, <1>12, <2>1 DEF RequestHandled
    <2>3. /\ call'.at # "none" => call'.term = term'
          /\ call'.at = "loading" => call'.kind = "install"
      <3>1. CASE call' = call
        BY <1>7, <2>2, <3>1
      <3>2. CASE call.at = "request" /\ call' = Answer(call)
        <4>1. Answer(call).at = "reply" /\ Answer(call).term = call.term
          <5>1. call \in CallType /\ log[F] \in LogType /\ snapshotIndex[F] \in Nat
            BY Types DEF Node
          <5> QED BY <5>1, AnswerOK
        <4> QED BY <1>7, <2>2, <3>2, <4>1
      <3> QED BY <1>12, <3>1, <3>2 DEF RequestHandled
    <2>4. \A s \in late' : s.at = "request" /\ s.term <= term'
      BY <1>7, <2>2
    <2>5. term' <= LastIndex(log'[L])
      BY <1>1, <1>5, <1>6, <2>2
    <2> QED BY <1>1, <1>2, <2>2, <2>3, <2>4, <2>5 DEF Terms, Matching, Carried
  <1>13. CASE \/ \E k \in 1..LastIndex(log[L]) : ThirdAcknowledges(k)
              \/ Apply \/ RecordApplied
              \/ \E n \in Node : \E t \in Taker : Capture(n, t) \/ Save(n, t) \/ Adopt(n, t)
              \/ RestartFollower
    <2>1. UNCHANGED <<term, followerTerm, call, late>>
      BY <1>13 DEF ThirdAcknowledges, Apply, RecordApplied, Capture, Save, Adopt, RestartFollower,
                   netVars, leaderVars
    <2> QED BY <1>8, <2>1
  <1>14. CASE RestartLeader
    <2> DEFINE last == LastIndex(log[L])
    <2>1. log \in [Node -> LogType]
      BY Types
    <2>2. /\ log'[L] = Written(log[L], <<last + 1>>) /\ log'[L] \in LogType
          /\ term' = last + 1 /\ followerTerm' \in {followerTerm, last + 1} /\ late' = Abandoned
          /\ call' = Sent(last + 1, last + 1, log'[L], file[L].index, file[L].term, file[L].index)
      BY <1>3, <1>4, <1>14, <2>1, TypesNext DEF RestartLeader
    <2>3. LastIndex(log'[L]) = last + 1
      <3> DEFINE s == <<last + 1>>
      <3>1. s \in Entries /\ Len(s) = 1
        BY <1>5 DEF Entries, Entry
      <3> HIDE DEF s
      <3>2. LastIndex(Written(log[L], s)) = last + 1
        BY <1>4, <2>1, <3>1, WrittenOK
      <3> QED BY <2>2, <3>2 DEF s
    <2>4. Fresh(call', term', log'[L])
      <3>1. last + 1 \in Nat /\ last + 1 \in Nat \ {0} /\ file[L].index \in Nat /\ file[L].term \in Nat
        BY <1>4, <1>5, OfNode
      <3> HIDE DEF last
      <3> QED BY <2>2, <3>1, SentOK
    <2>5. last \in Nat
      BY <1>5
    <2>6. \A r \in late' : r.at = "request" /\ r.term <= term'
      <3>1. \A r \in Abandoned : r.at = "request" /\ r.term <= term /\ r.term \in Nat
        BY <1>5, <1>7, AbandonedOK, OfCall
      <3> HIDE DEF last
      <3> QED BY <1>5, <1>6, <2>2, <2>5, <3>1 DEF last
    <2>7. term' <= LastIndex(log'[L]) /\ followerTerm' <= term'
      BY <1>5, <1>6, <2>2, <2>3
    <2> QED BY <1>1, <1>2, <2>4, <2>6, <2>7 DEF Terms, Matching, Carried, Fresh
  <1> QED BY <1>9, <1>10, <1>11, <1>12, <1>13, <1>14, StepCases

----------------------------------------------------------------------------
(* The leader's state machine and the copies of it.                        *)

\* A loop over the log takes a state that covers k to one that covers the
\* index reached, and after one entry still to one that covers k.
LEMMA CoversMore ==
    ASSUME NEW lg \in LogType, Right(lg), NEW k \in Nat, NEW limit \in Nat, NEW done \in Entries,
           Covers(done, k)
    PROVE  LET r == Reached(lg, k, limit)
               all == Executed(done, lg, k, limit)
           IN  /\ Covers(all, r)
               /\ r = k + 1 => /\ Covers(all, k)
                               /\ \E j \in 1..Len(all) : all[j] = k + 1
  <1> DEFINE r == Reached(lg, k, limit)
             all == Executed(done, lg, k, limit)
             n == Len(done)
  <1>1. r \in Nat /\ r >= k
    BY ReachedOK
  <1>2. /\ all \in Entries /\ Len(all) = n + (r - k)
        /\ \A i \in 1..n : all[i] = done[i]
        /\ \A i \in 1..(r - k) : all[n + i] = k + i
    BY ExecutedOK
  <1>3. n \in Nat /\ \A i \in 1..n : done[i] \in Nat
    BY LenProperties, ElementOfSeq DEF Entries, Entry
  <1>4. /\ \A i \in 1..k : \E j \in 1..n : done[j] = i
        /\ \A i, j \in 1..n : i <= j => done[i] <= done[j]
        /\ \A j \in 1..n : done[j] <= k + 1
    BY DEF Covers
  <1> HIDE DEF r, all, n
  <1>5. ASSUME NEW j \in 1..Len(all), ~(j \in 1..n)
        PROVE  all[j] = k + (j - n) /\ j - n \in 1..(r - k)
    <2>1. j - n \in 1..(r - k) /\ j = n + (j - n)
      BY <1>1, <1>2, <1>3, <1>5
    <2> QED BY <1>2, <2>1
  <1>6. ASSUME NEW i \in 1..r PROVE \E j \in 1..Len(all) : all[j] = i
    <2>1. CASE i <= k
      <3>1. PICK j \in 1..n : done[j] = i
        BY <1>4, <2>1
      <3>2. j \in 1..Len(all) /\ all[j] = i
        BY <1>1, <1>2, <1>3, <3>1
      <3> QED BY <3>2
    <2>2. CASE ~(i <= k)
      <3>1. i - k \in 1..(r - k) /\ n + (i - k) \in 1..Len(all) /\ k + (i - k) = i
        BY <1>1, <1>2, <1>3, <2>2
      <3>2. all[n + (i - k)] = i
        BY <1>2, <3>1
      <3> QED BY <3>1, <3>2
    <2> QED BY <2>1, <2>2
  <1>7. ASSUME NEW i \in 1..Len(all), NEW j \in 1..Len(all), i <= j PROVE all[i] <= all[j]
    <2>0. i \in Int /\ j \in Int /\ i >= 1 /\ j >= 1
      OBVIOUS
    <2>1. CASE i \in 1..n /\ j \in 1..n
      BY <1>2, <1>4, <1>7, <2>1
    <2>2. CASE i \in 1..n /\ ~(j \in 1..n)
      <3>1. all[j] = k + (j - n) /\ j - n >= 1
        BY <1>1, <1>5, <2>2
      <3>2. all[i] = done[i] /\ done[i] <= k + 1 /\ done[i] \in Nat
        BY <1>2, <1>3, <1>4, <2>2
      <3> QED BY <1>3, <2>0, <3>1, <3>2
    <2>3. CASE ~(i \in 1..n) /\ ~(j \in 1..n)
      <3>1. all[i] = k + (i - n) /\ all[j] = k + (j - n)
        BY <1>5, <2>3
      <3> QED BY <1>3, <1>7, <2>0, <3>1
    <2>4. CASE ~(i \in 1..n) /\ j \in 1..n
      BY <1>3, <1>7, <2>0, <2>4
    <2> QED BY <2>1, <2>2, <2>3, <2>4
  <1>8. ASSUME NEW j \in 1..Len(all) PROVE all[j] <= r + 1 /\ (r = k + 1 => all[j] <= k + 1)
    <2>1. CASE j \in 1..n
      <3>1. all[j] = done[j] /\ done[j] <= k + 1 /\ done[j] \in Nat
        BY <1>2, <1>3, <1>4, <2>1
      <3> QED BY <1>1, <3>1
    <2>2. CASE ~(j \in 1..n)
      <3>1. all[j] = k + (j - n) /\ j - n <= r - k /\ j - n \in Int
        BY <1>1, <1>3, <1>5, <2>2
      <3> QED BY <1>1, <3>1
    <2> QED BY <2>1, <2>2
  <1>9. Covers(all, r)
    BY <1>6, <1>7, <1>8 DEF Covers
  <1>10. ASSUME r = k + 1
         PROVE  Covers(all, k) /\ \E j \in 1..Len(all) : all[j] = k + 1
    <2>1. \A i \in 1..k : i \in 1..r
      BY <1>1, <1>10
    <2>2. k + 1 \in 1..r
      BY <1>10
    <2> QED BY <1>6, <1>7, <1>8, <1>10, <2>1, <2>2 DEF Covers
  <1> QED BY <1>9, <1>10 DEF r, all

\* A copy with index k: it covers k, and is exact if no capture was ahead.
Good(x, k, M) == Covers(x, k) /\ (<<"ahead", L>> \in M \/ x = UpTo(k))

Copies ==
    /\ Good(fsm[L], lastApplied[L] + IF applying THEN 1 ELSE 0, mishaps)
    /\ Covers(fsm[L], lastApplied[L])
    /\ Good(file[L].data, file[L].index, mishaps)
    /\ \A t \in Taker :
         taking[L][t].at # "idle" => Good(taking[L][t].data, taking[L][t].index, mishaps)
    /\ \A r \in late \cup {call} :
         (Carried(r) /\ r.kind = "install") => Good(r.entries, r.index, mishaps)

LEMMA InitCopies == Init => Copies
  <1> SUFFICES ASSUME NEW k \in InitialLogs, InitWith(k) PROVE Copies
    BY DEF Init
  <1>1. k \in Nat /\ L \in Node
    BY CompactionAssumption DEF Node
  <1>2. Covers(<<>>, 0) /\ <<>> = UpTo(0)
    <2>1. UpTo(0) \in Entries /\ Len(UpTo(0)) = 0
      BY UpToOK
    <2>2. UpTo(0) = <<>>
      BY <2>1, EmptySeq DEF Entries, Entry
    <2> QED BY <2>1, <2>2 DEF Covers
  <1>3. log[L] \in LogType
    BY <1>1, InitTypes, Types DEF Init
  <1>4. Fresh(call, k + 1, log[L])
    BY <1>1, <1>3, SentOK DEF InitWith
  <1>5. ~(Carried(call) /\ call.kind = "install") /\ late = {}
    BY <1>4 DEF Fresh, Carried, InitWith
  <1>6. /\ fsm[L] = <<>> /\ lastApplied[L] = 0 /\ applying = FALSE
        /\ file[L].data = <<>> /\ file[L].index = 0
        /\ \A t \in Taker : taking[L][t].at = "idle"
    BY <1>1, NotTakingOK DEF InitWith
  <1>7. lastApplied[L] + (IF applying THEN 1 ELSE 0) = 0
    BY <1>6
  <1> QED BY <1>2, <1>5, <1>6, <1>7 DEF Copies, Good

LEMMA NextCopies == TypeOK /\ Terms /\ Copies /\ [Next]_vars => Copies'
  <1> SUFFICES ASSUME TypeOK, Terms, Copies, [Next]_vars PROVE Copies'
    OBVIOUS
  <1>0. CASE UNCHANGED vars
    <2>1. UNCHANGED <<fsm, lastApplied, applying, mishaps, file, taking, call, late>>
      BY <1>0 DEF vars, nodeVars, logVars, snapVars, netVars
    <2> QED BY <2>1 DEF Copies, Good, Covers, Carried
  <1> SUFFICES ASSUME Next PROVE Copies'
    BY <1>0
  <1>1. /\ log[L] \in LogType /\ LastIndex(log[L]) \in Nat /\ lastApplied[L] \in Nat
        /\ fsm[L] \in Entries /\ file[L].index \in Nat /\ file[L].data \in Entries
        /\ applying \in BOOLEAN
    BY OfNode, Types DEF Node
  <1>2. L \in Node /\ F \in Node /\ L # F
    BY DEF Node, L, F
  <1>3. \A x, k : Good(x, k, mishaps) => Good(x, k, mishaps')
    BY MishapsGrow DEF Good
  <1>4. /\ fsm \in [Node -> Entries] /\ lastApplied \in [Node -> Nat] /\ file \in [Node -> FileType]
        /\ taking \in [Node -> [Taker -> Taking]]
    BY Types
  <1>5. Right(log[L])
    BY DEF Terms
  <1>6. \A r \in late' \cup {call'} :
          (Carried(r) /\ r.kind = "install") => Good(r.entries, r.index, mishaps')
    <2> SUFFICES ASSUME NEW r \in late' \cup {call'}, Carried(r), r.kind = "install"
                 PROVE  Good(r.entries, r.index, mishaps)
      BY <1>3
    <2>1. CASE \E s \in late \cup {call} : Carried(s) /\ SameRequest(r, s)
      BY <2>1 DEF Copies, SameRequest
    <2>2. CASE r.index = file[L].index /\ r.entries = file[L].data
      BY <2>2 DEF Copies
    <2> QED BY <2>1, <2>2, RequestsFrom
  <1>7. ASSUME UNCHANGED <<fsm[L], lastApplied[L], applying>>
        PROVE  /\ Good(fsm'[L], lastApplied'[L] + IF applying' THEN 1 ELSE 0, mishaps')
               /\ Covers(fsm'[L], lastApplied'[L])
    BY <1>3, <1>7 DEF Copies
  <1>8. ASSUME UNCHANGED file[L] PROVE Good(file'[L].data, file'[L].index, mishaps')
    BY <1>3, <1>8 DEF Copies
  <1>9. ASSUME NEW t \in Taker, taking'[L][t].at # "idle", UNCHANGED taking[L][t]
        PROVE  Good(taking'[L][t].data, taking'[L][t].index, mishaps')
    BY <1>3, <1>9 DEF Copies
  <1>10. ASSUME /\ Good(fsm'[L], lastApplied'[L] + IF applying' THEN 1 ELSE 0, mishaps')
                /\ Covers(fsm'[L], lastApplied'[L]),
                Good(file'[L].data, file'[L].index, mishaps'),
                \A t \in Taker :
                  taking'[L][t].at # "idle" => Good(taking'[L][t].data, taking'[L][t].index, mishaps')
         PROVE  Copies'
    BY <1>6, <1>10 DEF Copies, Good, Covers, Carried
  <1>11. CASE \/ Propose \/ Heartbeat \/ LoadFile \/ CallEnds
              \/ \E k \in 1..LastIndex(log[L]) : ThirdAcknowledges(k)
    <2>1. UNCHANGED <<fsm, lastApplied, applying, file, taking>>
      BY <1>11 DEF Propose, Heartbeat, LoadFile, CallEnds, ThirdAcknowledges, nodeVars, logVars, snapVars
    <2> QED BY <1>7, <1>8, <1>9, <1>10, <2>1
  <1>12. ASSUME NEW r \in late \cup {call}, RequestHandled(r) PROVE Copies'
    <2>1. UNCHANGED <<fsm[L], lastApplied[L], applying, file[L], taking>>
      BY <1>12, HandledTypes DEF RequestHandled
    <2> QED BY <1>7, <1>8, <1>9, <1>10, <2>1
  <1>13. CASE Apply
    <2> DEFINE k == lastApplied[L]
               all == Executed(fsm[L], log[L], k, k + 1)
    <2>1. /\ ~applying /\ Held(log[L], k + 1) /\ applying' = TRUE
          /\ fsm' = [fsm EXCEPT ![L] = all]
          /\ UNCHANGED <<lastApplied, file, taking>>
      BY <1>13 DEF Apply, snapVars
    <2>2. Covers(fsm[L], k) /\ Good(fsm[L], k, mishaps)
      BY <1>1, <2>1 DEF Copies
    <2>3. Reached(log[L], k, k + 1) = k + 1 /\ k + 1 \in Nat
      <3>1. k \in Nat /\ k + 1 \in Nat
        BY <1>1
      <3> HIDE DEF k
      <3> QED BY <1>1, <2>1, <3>1, ReachedOK
    <2>4. Covers(all, k + 1) /\ Covers(all, k)
      BY <1>1, <1>5, <2>2, <2>3, CoversMore
    <2>5. fsm[L] = UpTo(k) => all = UpTo(k + 1)
      BY <1>1, <1>5, <2>3, ExecutedOK
    <2>6. Good(all, k + 1, mishaps)
      BY <2>2, <2>4, <2>5 DEF Good
    <2>7. fsm'[L] = all /\ lastApplied'[L] = k
      BY <1>2, <1>4, <2>1
    <2> HIDE DEF k, all
    <2>8. /\ Good(fsm'[L], lastApplied'[L] + IF applying' THEN 1 ELSE 0, mishaps')
          /\ Covers(fsm'[L], lastApplied'[L])
      BY <1>3, <2>1, <2>4, <2>6, <2>7
    <2> QED BY <1>8, <1>9, <1>10, <2>1, <2>8
  <1>14. CASE RecordApplied
    <2>1. /\ applying /\ applying' = FALSE /\ lastApplied'[L] = lastApplied[L] + 1
          /\ UNCHANGED <<fsm, file, taking>>
      BY <1>2, <1>4, <1>14 DEF RecordApplied, snapVars
    <2>2. Good(fsm[L], lastApplied[L] + 1, mishaps')
      BY <1>3, <2>1 DEF Copies
    <2>3. lastApplied'[L] + (IF applying' THEN 1 ELSE 0) = lastApplied[L] + 1
      BY <1>1, <2>1
    <2>4. /\ Good(fsm'[L], lastApplied'[L] + IF applying' THEN 1 ELSE 0, mishaps')
          /\ Covers(fsm'[L], lastApplied'[L])
      BY <2>1, <2>2, <2>3 DEF Good
    <2> QED BY <1>8, <1>9, <1>10, <2>1, <2>4
  <1>15. ASSUME NEW n \in Node, NEW t \in Taker, Capture(n, t) PROVE Copies'
    <2> DEFINE s == [at |-> "captured", index |-> lastApplied[n],
                     term |-> EntryAt(log[n], lastApplied[n]), data |-> fsm[n]]
    <2>1. EntryAt(log[n], lastApplied[n]) \in Nat
      BY <1>15, OfNode, EntryAtOK DEF Capture
    <2>2. s \in Taking /\ s.index = lastApplied[n] /\ s.data = fsm[n]
      BY <2>1, OfNode DEF Taking
    <2>3. /\ Take(n, t, s) /\ mishaps' = Noted("ahead", n, n = L /\ applying)
          /\ UNCHANGED <<fsm, lastApplied, applying, file>>
      BY <1>15 DEF Capture, nodeVars, logVars, snapVars
    <2> HIDE DEF s
    <2>4. ASSUME n = L PROVE Good(fsm[L], lastApplied[L], mishaps')
      <3>1. Covers(fsm[L], lastApplied[L])
        BY DEF Copies
      <3>2. CASE applying
        BY <2>3, <2>4, <3>1, <3>2 DEF Noted, Good
      <3>3. CASE ~applying
        <4>1. lastApplied[L] + (IF applying THEN 1 ELSE 0) = lastApplied[L]
          BY <1>1, <3>3
        <4>2. Good(fsm[L], lastApplied[L], mishaps)
          BY <4>1 DEF Copies
        <4> QED BY <1>3, <4>2
      <3> QED BY <3>2, <3>3
    <2>5. \A u \in Taker : taking'[L][u].at # "idle" => Good(taking'[L][u].data, taking'[L][u].index, mishaps')
      <3> SUFFICES ASSUME NEW u \in Taker, taking'[L][u].at # "idle"
                   PROVE  Good(taking'[L][u].data, taking'[L][u].index, mishaps')
        OBVIOUS
      <3>1. CASE n = L /\ u = t
        BY <2>2, <2>3, <2>4, <3>1, TakeOK
      <3>2. CASE ~(n = L /\ u = t)
        BY <1>2, <1>9, <2>2, <2>3, <3>2, TakeOK
      <3> QED BY <3>1, <3>2
    <2> QED BY <1>7, <1>8, <1>10, <2>3, <2>5
  <1>16. ASSUME NEW n \in Node, NEW t \in Taker, Save(n, t) PROVE Copies'
    <2> DEFINE s == taking[n][t]
               saved == [s EXCEPT !.at = "saved"]
    <2>1. s \in Taking
      BY OfNode
    <2>2. saved \in Taking /\ saved.index = s.index /\ saved.data = s.data
      BY <2>1 DEF Taking
    <2>3. /\ s.at = "captured" /\ Take(n, t, saved) /\ UNCHANGED <<fsm, lastApplied, applying>>
          /\ file' = [file EXCEPT ![n] = [index |-> s.index, term |-> s.term, data |-> s.data]]
      BY <1>16 DEF Save, logVars
    <2> HIDE DEF saved
    <2>4. n = L => Good(s.data, s.index, mishaps')
      BY <1>3, <2>3 DEF Copies
    <2>5. Good(file'[L].data, file'[L].index, mishaps')
      <3>1. CASE n = L
        <4>1. file'[L] = [index |-> s.index, term |-> s.term, data |-> s.data]
          BY <1>2, <1>4, <2>3, <3>1
        <4> QED BY <2>4, <3>1, <4>1
      <3>2. CASE n # L
        BY <1>2, <1>4, <1>8, <2>3, <3>2
      <3> QED BY <3>1, <3>2
    <2>6. \A u \in Taker : taking'[L][u].at # "idle" => Good(taking'[L][u].data, taking'[L][u].index, mishaps')
      <3> SUFFICES ASSUME NEW u \in Taker, taking'[L][u].at # "idle"
                   PROVE  Good(taking'[L][u].data, taking'[L][u].index, mishaps')
        OBVIOUS
      <3>1. CASE n = L /\ u = t
        BY <2>2, <2>3, <2>4, <3>1, TakeOK
      <3>2. CASE ~(n = L /\ u = t)
        BY <1>2, <1>9, <2>2, <2>3, <3>2, TakeOK
      <3> QED BY <3>1, <3>2
    <2> QED BY <1>7, <1>10, <2>3, <2>5, <2>6
  <1>17. ASSUME NEW n \in Node, NEW t \in Taker, Adopt(n, t) PROVE Copies'
    <2>1. Take(n, t, NotTaking) /\ UNCHANGED <<fsm, lastApplied, applying, file>>
      BY <1>17 DEF Adopt
    <2>2. \A u \in Taker : taking'[L][u].at # "idle" => taking'[L][u] = taking[L][u]
      BY <1>2, <2>1, TakeOK, NotTakingOK
    <2> QED BY <1>7, <1>8, <1>9, <1>10, <2>1, <2>2
  <1>18. CASE RestartFollower
    <2>1. UNCHANGED <<fsm[L], lastApplied[L], applying, file, taking[L]>>
      BY <1>2, <1>18, RecoverOK DEF RestartFollower
    <2> QED BY <1>7, <1>8, <1>9, <1>10, <2>1
  <1>19. CASE RestartLeader
    <2> DEFINE k == file[L].index
               r == Reached(log[L], k, LastIndex(log[L]))
               all == Executed(file[L].data, log[L], k, LastIndex(log[L]))
    <2>1. /\ Recover(L) /\ applying' = FALSE /\ UNCHANGED file
      BY <1>19 DEF RestartLeader
    <2>2. /\ lastApplied'[L] = r /\ fsm'[L] = all /\ \A t \in Taker : taking'[L][t] = NotTaking
      BY <1>2, <2>1, RecoverOK
    <2>3. Good(file[L].data, k, mishaps)
      BY DEF Copies
    <2>4. Covers(all, r)
      BY <1>1, <1>5, <2>3, CoversMore DEF Good
    <2>5. file[L].data = UpTo(k) => all = UpTo(r)
      BY <1>1, <1>5, ExecutedOK
    <2>6. Good(all, r, mishaps') /\ Covers(all, r)
      <3> HIDE DEF all, r
      <3> QED BY <1>3, <2>3, <2>4, <2>5 DEF Good
    <2>7. r \in Nat
      BY <1>1, ReachedOK
    <2>8. r + (IF applying' THEN 1 ELSE 0) = r
      <3> HIDE DEF r
      <3> QED BY <2>1, <2>7
    <2>9. /\ Good(fsm'[L], lastApplied'[L] + IF applying' THEN 1 ELSE 0, mishaps')
          /\ Covers(fsm'[L], lastApplied'[L])
      <3> HIDE DEF all, r
      <3> QED BY <2>2, <2>6, <2>8
    <2> HIDE DEF all, r, k
    <2> QED BY <1>8, <1>10, <2>1, <2>2, <2>9, NotTakingOK
  <1> QED BY <1>11, <1>12, <1>13, <1>14, <1>15, <1>16, <1>17, <1>18, <1>19, StepCases

\* LeaderMissesNothing: however snapshots and the applier interleave and
\* however often the leader dies, its state machine and every copy of it have
\* all entries up to their index, in order (leader_role.go:335-388,
\* raft.go:90-141, 253-328).
THEOREM LeaderComplete == Spec => []LeaderMissesNothing
  <1>1. Init => TypeOK /\ Terms /\ Copies
    BY InitTypes, InitTerms, InitCopies
  <1>2. (TypeOK /\ Terms /\ Copies) /\ [Next]_vars => (TypeOK /\ Terms /\ Copies)'
    BY NextTypes, NextTerms, NextCopies
  <1>3. Copies => LeaderMissesNothing
    BY DEF Copies, Good, Carried, LeaderMissesNothing
  <1> QED BY <1>1, <1>2, <1>3, PTL DEF Spec

----------------------------------------------------------------------------
(* The follower's log, state machine and copies.                           *)

FollowerRight == Happened("misplaced", F) \/ Right(log[F])

\* Requests that are handled have left the leader.
LEMMA HandledCarried ==
    ASSUME Terms, NEW r \in late \cup {call}, RequestHandled(r)
    PROVE  Carried(r) /\ Matching(r)
  BY DEF Terms, RequestHandled, Carried

\* Entries that are not misplaced stay at their places, and none is lost at
\* the end of the log.
LEMMA FollowerLog ==
    ASSUME TypeOK, Terms, Right(log[F]), Next, <<"misplaced", F>> \notin mishaps'
    PROVE  Right(log'[F]) /\ LastIndex(log'[F]) >= LastIndex(log[F])
  <1>0. log \in [Node -> LogType] /\ L \in Node /\ F \in Node /\ L # F
    BY Types DEF Node, L, F
  <1>1. log[F] \in LogType /\ LastIndex(log[F]) \in Nat
    BY <1>0, OfNode
  <1>2. ASSUME NEW r \in late \cup {call}, RequestHandled(r)
        PROVE  Right(log'[F]) /\ LastIndex(log'[F]) >= LastIndex(log[F])
    <2>1. r.index \in Nat /\ r.entries \in Entries
      BY <1>2, OfCall DEF RequestHandled
    <2>2. CASE Refused(r)
      BY <1>1, <2>2 DEF Refused
    <2>3. CASE Appended(r)
      <3>1. \A i \in 1..Len(r.entries) : r.entries[i] = r.index + i
        BY <1>2, <2>3, HandledCarried DEF Matching, Appended
      <3>2. ~Misplaces(log[F], r.index, r.entries)
        BY <1>0, <2>3, NotedOK DEF Appended, Mishap
      <3>3. log'[F] = AppendEntries(log[F], r.index, r.entries)
        BY <1>0, <2>3 DEF Appended
      <3> QED BY <1>1, <2>1, <3>1, <3>2, <3>3, AppendOK
    <2>4. CASE Installed(r)
      <3>1. log'[F] = LogAfterInstall(log[F], r.index)
        BY <1>0, <2>4 DEF Installed, Install
      <3> QED BY <1>1, <2>1, <3>1, InstallOK
    <2> QED BY <1>2, <2>2, <2>3, <2>4 DEF RequestHandled
  <1>3. ASSUME NEW n \in Node, NEW t \in Taker, Adopt(n, t)
        PROVE  Right(log'[F]) /\ LastIndex(log'[F]) >= LastIndex(log[F])
    <2> DEFINE k == taking[n][t].index
    <2>1. k \in Nat
      BY OfNode
    <2>2. log'[F] = log[F] \/ (log'[F] = TruncateTo(log[F], k) /\ k <= LastIndex(log[F]))
      <3>1. CASE n = F
        <4>1. CASE LastIndex(log[F]) > k
          BY <1>0, <1>1, <1>3, <2>1, <3>1, <4>1 DEF Adopt
        <4>2. CASE ~(LastIndex(log[F]) > k)
          BY <1>0, <1>3, <3>1, <4>2 DEF Adopt
        <4> QED BY <4>1, <4>2
      <3>2. CASE n # F
        BY <1>0, <1>3, <3>2 DEF Adopt
      <3> QED BY <3>1, <3>2
    <2> HIDE DEF k
    <2> QED BY <1>1, <2>1, <2>2, TruncateOK
  <1>4. ASSUME Propose \/ RestartLeader PROVE log'[F] = log[F]
    BY <1>0, <1>4 DEF Propose, RestartLeader
  <1>5. ASSUME \/ Heartbeat \/ LoadFile \/ CallEnds \/ Apply \/ RecordApplied
               \/ \E k \in 1..LastIndex(log[L]) : ThirdAcknowledges(k)
               \/ \E n \in Node : \E t \in Taker : Capture(n, t) \/ Save(n, t)
               \/ RestartFollower
        PROVE  log'[F] = log[F]
    BY <1>5 DEF Heartbeat, LoadFile, CallEnds, ThirdAcknowledges, Apply, RecordApplied, Capture, Save,
                RestartFollower, nodeVars, logVars
  <1> QED BY <1>1, <1>2, <1>3, <1>4, <1>5, StepCases

LEMMA InitRight == Init => FollowerRight
  <1> SUFFICES ASSUME NEW k \in InitialLogs, InitWith(k) PROVE Right(log[F])
    BY DEF Init, FollowerRight
  <1>1. k \in Nat /\ log[F] = [first |-> 1, entries |-> UpTo(k)]
    BY CompactionAssumption DEF InitWith, Node, L, F
  <1> QED BY <1>1, UpToOK DEF Right

LEMMA NextRight == TypeOK /\ Terms /\ FollowerRight /\ [Next]_vars => FollowerRight'
  <1> SUFFICES ASSUME TypeOK, Terms, FollowerRight, [Next]_vars PROVE FollowerRight'
    OBVIOUS
  <1>1. CASE UNCHANGED vars
    BY <1>1 DEF vars, nodeVars, logVars, FollowerRight, Happened, Right
  <1>2. CASE Next
    BY <1>2, MishapsGrow, FollowerLog DEF FollowerRight, Happened, Right
  <1> QED BY <1>1, <1>2

Unharmed == ~(Happened("ahead", L) \/ Happened("rewound", F) \/ Happened("misplaced", F))

FollowerExact ==
    Unharmed => /\ fsm[F] = UpTo(lastApplied[F])
                /\ file[F].data = UpTo(file[F].index)
                /\ \A t \in Taker : taking[F][t].at # "idle" =>
                                      taking[F][t].data = UpTo(taking[F][t].index)

LEMMA InitExact == Init => FollowerExact
  <1> SUFFICES ASSUME NEW k \in InitialLogs, InitWith(k) PROVE FollowerExact
    BY DEF Init
  <1>1. UpTo(0) \in Entries /\ Len(UpTo(0)) = 0
    BY UpToOK
  <1>2. UpTo(0) = <<>>
    BY <1>1, EmptySeq DEF Entries, Entry
  <1> QED BY <1>2, NotTakingOK DEF InitWith, FollowerExact, Node

LEMMA NextExact ==
    TypeOK /\ Terms /\ Copies /\ FollowerRight /\ FollowerExact /\ [Next]_vars => FollowerExact'
  <1> SUFFICES ASSUME TypeOK, Terms, Copies, FollowerRight, FollowerExact, [Next]_vars, Unharmed'
               PROVE  /\ fsm'[F] = UpTo(lastApplied'[F])
                      /\ file'[F].data = UpTo(file'[F].index)
                      /\ \A t \in Taker : taking'[F][t].at # "idle" =>
                                            taking'[F][t].data = UpTo(taking'[F][t].index)
    BY DEF FollowerExact
  <1> DEFINE Fsm == fsm'[F] = UpTo(lastApplied'[F])
             File == file'[F].data = UpTo(file'[F].index)
             Takings == \A t \in Taker : taking'[F][t].at # "idle" =>
                                            taking'[F][t].data = UpTo(taking'[F][t].index)
  <1>0. CASE UNCHANGED vars
    <2>1. UNCHANGED <<fsm, lastApplied, mishaps, file, taking>>
      BY <1>0 DEF vars, nodeVars, logVars, snapVars
    <2> QED BY <2>1 DEF FollowerExact, Unharmed, Happened
  <1> SUFFICES ASSUME Next PROVE Fsm /\ File /\ Takings
    BY <1>0
  <1>1. L \in Node /\ F \in Node /\ L # F
    BY DEF Node, L, F
  <1>2. /\ <<"ahead", L>> \notin mishaps' /\ <<"rewound", F>> \notin mishaps'
        /\ <<"misplaced", F>> \notin mishaps'
    BY DEF Unharmed, Happened
  <1>3. Unharmed /\ <<"ahead", L>> \notin mishaps
    BY <1>2, MishapsGrow DEF Unharmed, Happened
  <1>4. /\ fsm[F] = UpTo(lastApplied[F]) /\ file[F].data = UpTo(file[F].index)
        /\ \A t \in Taker : taking[F][t].at # "idle" => taking[F][t].data = UpTo(taking[F][t].index)
    BY <1>3 DEF FollowerExact
  <1>5. Right(log[F])
    BY <1>3 DEF Unharmed, FollowerRight
  <1>6. /\ log[F] \in LogType /\ LastIndex(log[F]) \in Nat /\ lastApplied[F] \in Nat
        /\ fsm[F] \in Entries /\ file[F].index \in Nat /\ file[F].data \in Entries
    BY <1>1, OfNode
  <1>7. /\ fsm \in [Node -> Entries] /\ lastApplied \in [Node -> Nat] /\ file \in [Node -> FileType]
        /\ log \in [Node -> LogType] /\ taking \in [Node -> [Taker -> Taking]]
    BY Types
  <1>8. CASE \/ Propose \/ Heartbeat \/ LoadFile \/ CallEnds
             \/ \E k \in 1..LastIndex(log[L]) : ThirdAcknowledges(k)
    <2>1. UNCHANGED <<fsm, lastApplied, file, taking>>
      BY <1>8 DEF Propose, Heartbeat, LoadFile, CallEnds, ThirdAcknowledges, nodeVars, logVars, snapVars
    <2> QED BY <1>4, <2>1
  <1>9. CASE Apply \/ RecordApplied
    <2>1. fsm'[F] = fsm[F] /\ lastApplied'[F] = lastApplied[F] /\ UNCHANGED <<file, taking>>
      BY <1>1, <1>7, <1>9 DEF Apply, RecordApplied, snapVars
    <2> QED BY <1>4, <2>1
  <1>10. ASSUME NEW r \in late \cup {call}, RequestHandled(r) PROVE Fsm /\ File /\ Takings
    <2>1. taking' = taking /\ r.index \in Nat /\ r.entries \in Entries
      BY <1>10, OfCall DEF RequestHandled
    <2>2. Takings
      BY <1>4, <2>1
    <2>3. CASE Refused(r)
      BY <1>4, <2>2, <2>3 DEF Refused
    <2>4. CASE Appended(r)
      <3> DEFINE lg == AppendEntries(log[F], r.index, r.entries)
      <3>1. lg \in LogType
        BY <1>6, <2>1, AppendOK
      <3>2. Right(lg)
        <4>1. log'[F] = lg
          BY <1>1, <1>7, <2>4 DEF Appended
        <4> HIDE DEF lg
        <4> QED BY <1>2, <1>5, <4>1, FollowerLog
      <3>3. PICK c \in Nat :
               /\ lastApplied' = [lastApplied EXCEPT ![F] = Reached(lg, lastApplied[F], c)]
               /\ fsm' = [fsm EXCEPT ![F] = Executed(fsm[F], lg, lastApplied[F], c)]
        BY <2>4 DEF Appended
      <3> HIDE DEF lg
      <3>4. Executed(fsm[F], lg, lastApplied[F], c) = UpTo(Reached(lg, lastApplied[F], c))
        BY <1>4, <1>6, <3>1, <3>2, ExecutedOK
      <3>5. Fsm
        BY <1>1, <1>7, <3>3, <3>4
      <3>6. File
        BY <1>4, <2>4 DEF Appended
      <3> QED BY <2>2, <3>5, <3>6
    <2>5. CASE Installed(r)
      <3>1. Good(r.entries, r.index, mishaps)
        BY <1>10, <2>5, HandledCarried DEF Copies, Installed
      <3>2. r.entries = UpTo(r.index)
        BY <1>3, <3>1 DEF Good
      <3>3. /\ file'[F].data = r.entries /\ file'[F].index = r.index /\ fsm'[F] = r.entries
            /\ lastApplied'[F] = Larger(lastApplied[F], r.index)
            /\ <<"rewound", F>> \notin Noted("rewound", F, r.index < lastApplied[F])
        BY <1>1, <1>2, <1>7, <2>5 DEF Installed, Install, AppliedAfterInstall
      <3>4. ~(r.index < lastApplied[F])
        BY <1>1, <3>3, NotedOK DEF Mishap
      <3>5. lastApplied'[F] = r.index
        BY <1>6, <2>1, <3>3, <3>4 DEF Larger
      <3> QED BY <2>2, <3>2, <3>3, <3>5
    <2> QED BY <1>10, <2>3, <2>4, <2>5 DEF RequestHandled
  <1>11. ASSUME NEW n \in Node, NEW t \in Taker, Capture(n, t) PROVE Fsm /\ File /\ Takings
    <2> DEFINE s == [at |-> "captured", index |-> lastApplied[n],
                     term |-> EntryAt(log[n], lastApplied[n]), data |-> fsm[n]]
    <2>1. EntryAt(log[n], lastApplied[n]) \in Nat
      BY <1>11, OfNode, EntryAtOK DEF Capture
    <2>2. s \in Taking /\ s.index = lastApplied[n] /\ s.data = fsm[n]
      BY <2>1, OfNode DEF Taking
    <2>3. Take(n, t, s) /\ UNCHANGED <<fsm, lastApplied, file>>
      BY <1>11 DEF Capture, nodeVars, logVars, snapVars
    <2> HIDE DEF s
    <2>4. ASSUME NEW u \in Taker
          PROVE  taking'[F][u] = taking[F][u] \/ (n = F /\ taking'[F][u] = s)
      BY <1>1, <2>2, <2>3, TakeOK
    <2>5. Takings
      BY <1>4, <2>2, <2>4
    <2> QED BY <1>4, <2>3, <2>5
  <1>12. ASSUME NEW n \in Node, NEW t \in Taker, Save(n, t) PROVE Fsm /\ File /\ Takings
    <2> DEFINE s == taking[n][t]
               saved == [s EXCEPT !.at = "saved"]
    <2>1. s \in Taking
      BY OfNode
    <2>2. saved \in Taking /\ saved.index = s.index /\ saved.data = s.data
      BY <2>1 DEF Taking
    <2>3. /\ s.at = "captured" /\ Take(n, t, saved) /\ UNCHANGED <<fsm, lastApplied>>
          /\ file' = [file EXCEPT ![n] = [index |-> s.index, term |-> s.term, data |-> s.data]]
      BY <1>12 DEF Save, logVars
    <2> HIDE DEF saved
    <2>4. n = F => s.data = UpTo(s.index)
      BY <1>4, <2>3
    <2>5. ASSUME NEW u \in Taker
          PROVE  taking'[F][u] = taking[F][u] \/ (n = F /\ taking'[F][u] = saved)
      BY <1>1, <2>2, <2>3, TakeOK
    <2>6. Takings
      BY <1>4, <2>2, <2>4, <2>5
    <2>7. File
      <3>1. CASE n = F
        <4>1. file'[F] = [index |-> s.index, term |-> s.term, data |-> s.data]
          BY <1>1, <1>7, <2>3, <3>1
        <4> QED BY <2>4, <3>1, <4>1
      <3>2. CASE n # F
        BY <1>1, <1>4, <1>7, <2>3, <3>2
      <3> QED BY <3>1, <3>2
    <2> QED BY <1>4, <2>3, <2>6, <2>7
  <1>13. ASSUME NEW n \in Node, NEW t \in Taker, Adopt(n, t) PROVE Fsm /\ File /\ Takings
    <2>1. Take(n, t, NotTaking) /\ UNCHANGED <<fsm, lastApplied, file>>
      BY <1>13 DEF Adopt
    <2>2. \A u \in Taker : taking'[F][u].at # "idle" => taking'[F][u] = taking[F][u]
      BY <1>1, <2>1, TakeOK, NotTakingOK
    <2> QED BY <1>4, <2>1, <2>2
  <1>14. CASE RestartFollower
    <2>1. /\ lastApplied'[F] = Reached(log[F], file[F].index, LastIndex(log[F]))
          /\ fsm'[F] = Executed(file[F].data, log[F], file[F].index, LastIndex(log[F]))
          /\ \A t \in Taker : taking'[F][t] = NotTaking
          /\ UNCHANGED file
      BY <1>1, <1>14, RecoverOK DEF RestartFollower
    <2>2. Fsm
      BY <1>4, <1>5, <1>6, <2>1, ExecutedOK
    <2> QED BY <1>4, <2>1, <2>2, NotTakingOK
  <1>15. CASE RestartLeader
    <2>1. UNCHANGED <<fsm[F], lastApplied[F], file, taking[F]>>
      BY <1>1, <1>15, RecoverOK DEF RestartLeader
    <2> QED BY <1>4, <2>1
  <1> QED BY <1>8, <1>9, <1>10, <1>11, <1>12, <1>13, <1>14, <1>15, StepCases

\* ExactUnlessMishap: both state machines have executed exactly the entries up
\* to lastApplied, through snapshots taken by anybody at any time, installs,
\* late requests and crashes, as long as no capture fell between the applier's
\* two steps and, for the follower, no older snapshot was restored and no entry
\* written at another index (raft.go:90-141, 253-373, follower_role.go:187-262).
THEOREM StateMachinesExact == Spec => []ExactUnlessMishap
  <1> DEFINE Inv == TypeOK /\ Terms /\ Copies /\ FollowerRight /\ FollowerExact
  <1>1. Init => Inv
    BY InitTypes, InitTerms, InitCopies, InitRight, InitExact
  <1>2. Inv /\ [Next]_vars => Inv'
    BY NextTypes, NextTerms, NextCopies, NextRight, NextExact
  <1>3. Inv => ExactUnlessMishap
    <2> SUFFICES ASSUME Inv PROVE ExactUnlessMishap
      OBVIOUS
    <2>1. Happened("ahead", L) \/ ExactlyApplied(L)
      BY DEF Copies, Good, Happened, ExactlyApplied
    <2>2. Unharmed => ExactlyApplied(F)
      <3>1. lastApplied[F] + (IF F = L /\ applying THEN 1 ELSE 0) = lastApplied[F]
        BY OfNode DEF Node, L, F
      <3> QED BY <3>1 DEF FollowerExact, ExactlyApplied
    <2> QED BY <2>1, <2>2 DEF ExactUnlessMishap, Unharmed
  <1> QED BY <1>1, <1>2, <1>3, PTL DEF Spec

----------------------------------------------------------------------------
(* What the leader counts as stored.                                       *)

\* Index k is committed or belongs to an earlier term: it can raise no commit
\* index c in term t any more.
Settled(k, c, t) == k <= c \/ k < t

\* Everything a snapshot of the leader stands for is settled.
OnlySettled ==
    /\ commitIndex[L] <= LastIndex(log[L])
    /\ third.acked <= third.stored
    /\ applying => lastApplied[L] < commitIndex[L]
    /\ Settled(lastApplied[L], commitIndex[L], term)
    /\ Settled(file[L].index, commitIndex[L], term)
    /\ \A t \in Taker : Settled(taking[L][t].index, commitIndex[L], term)
    /\ call.kind = "install" => Settled(call.index, commitIndex[L], term)

LEMMA LeaderNumbers ==
    ASSUME TypeOK
    PROVE  /\ commitIndex[L] \in Nat /\ lastApplied[L] \in Nat /\ file[L].index \in Nat
           /\ term \in Nat /\ LastIndex(log[L]) \in Nat /\ log[L] \in LogType
           /\ matchIndex \in Nat /\ third.acked \in Nat /\ third.stored \in Nat
           /\ call.index \in Nat /\ LastSent(call) \in Nat
           /\ \A t \in Taker : taking[L][t].index \in Nat
           /\ term \in opened
  <1>1. /\ term \in opened /\ term \in Nat /\ matchIndex \in Nat /\ third.acked \in Nat
        /\ third.stored \in Nat
    BY Types DEF Entry
  <1>2. call.index \in Nat /\ LastSent(call) \in Nat
    BY Types, OfCall
  <1> QED BY <1>1, <1>2, OfNode DEF Node

\* The leader's commit index stays within its log, falls only in a restart,
\* and what was settled stays so.
LEMMA SettledStays ==
    ASSUME TypeOK, Terms, OnlySettled, Next
    PROVE  /\ commitIndex'[L] \in Nat /\ term' \in Nat
           /\ commitIndex'[L] <= LastIndex(log'[L])
           /\ \A k \in Nat : Settled(k, commitIndex[L], term) => Settled(k, commitIndex'[L], term')
           /\ \/ term' = term /\ commitIndex'[L] >= commitIndex[L]
              \/ RestartLeader /\ commitIndex'[L] < term' /\ term' = LastIndex(log[L]) + 1
  <1> DEFINE last == LastIndex(log[L])
             c == commitIndex[L]
  <1>0. c \in Nat /\ last \in Nat /\ term \in Nat /\ L \in Node /\ F \in Node /\ L # F
    BY LeaderNumbers DEF Node, L, F
  <1>1. c <= last /\ term <= last /\ Right(log[L])
    BY DEF OnlySettled, Terms
  <1>2. LastIndex(log'[L]) >= last /\ LastIndex(log'[L]) \in Nat
    <2>1. TypeOK'
      BY NextTypes
    <2>2. log'[L] \in LogType
      BY <1>0, <2>1, TypesNext
    <2> QED BY <1>1, <2>2, LeaderLog, Positive
  <1> HIDE DEF last, c
  <1>3. ASSUME term' = term, commitIndex'[L] \in Nat, commitIndex'[L] >= c, commitIndex'[L] <= LastIndex(log'[L])
        PROVE  /\ commitIndex'[L] \in Nat /\ term' \in Nat /\ commitIndex'[L] <= LastIndex(log'[L])
               /\ \A k \in Nat : Settled(k, c, term) => Settled(k, commitIndex'[L], term')
               /\ \/ term' = term /\ commitIndex'[L] >= c
                  \/ RestartLeader /\ commitIndex'[L] < term' /\ term' = last + 1
    BY <1>0, <1>3 DEF Settled
  <1>4. CASE \/ Propose \/ Heartbeat \/ LoadFile \/ Apply \/ RecordApplied
             \/ \E r \in late \cup {call} : RequestHandled(r)
             \/ \E n \in Node : \E t \in Taker : Capture(n, t)
             \/ \E n \in Node : \E t \in Taker : Save(n, t)
             \/ \E n \in Node : \E t \in Taker : Adopt(n, t)
             \/ RestartFollower
    <2>1. term' = term
      BY <1>4 DEF Propose, Heartbeat, LoadFile, Apply, RecordApplied, RequestHandled, Capture, Save,
                  Adopt, RestartFollower, leaderVars
    <2>2. commitIndex'[L] = c
      <3>1. CASE \E r \in late \cup {call} : RequestHandled(r)
        BY <3>1, HandledTypes DEF c
      <3>2. CASE RestartFollower
        BY <1>0, <3>2, RecoverOK DEF c, RestartFollower
      <3>3. CASE \/ Propose \/ Heartbeat \/ LoadFile \/ Apply \/ RecordApplied
                 \/ \E n \in Node : \E t \in Taker : Capture(n, t)
                 \/ \E n \in Node : \E t \in Taker : Save(n, t)
                 \/ \E n \in Node : \E t \in Taker : Adopt(n, t)
        BY <3>3 DEF c, Propose, Heartbeat, LoadFile, Apply, RecordApplied, Capture, Save, Adopt,
                    nodeVars, logVars
      <3> QED BY <1>4, <3>1, <3>2, <3>3
    <2> QED BY <1>0, <1>1, <1>2, <1>3, <2>1, <2>2 DEF c, last
  <1>5. ASSUME NEW match \in Nat, NEW ack \in Nat, term' = term, log' = log,
               commitIndex'[L] = Advanced(log[L], c, match, ack)
        PROVE  commitIndex'[L] \in Nat /\ commitIndex'[L] >= c /\ commitIndex'[L] <= LastIndex(log'[L])
    <2>1. /\ Advanced(log[L], c, match, ack) \in Nat /\ Advanced(log[L], c, match, ack) >= c
          /\ Advanced(log[L], c, match, ack) <= Larger(c, last)
      BY <1>0, LeaderNumbers, AdvancedOK DEF last
    <2> QED BY <1>0, <1>1, <1>5, <2>1 DEF Larger, last
  <1>6. CASE \E k \in 1..LastIndex(log[L]) : ThirdAcknowledges(k)
    <2>1. PICK k \in 1..LastIndex(log[L]) : ThirdAcknowledges(k)
      BY <1>6
    <2>2. /\ term' = term /\ log' = log /\ k \in Nat /\ matchIndex \in Nat
          /\ commitIndex'[L] = Advanced(log[L], c, matchIndex, k)
      BY <1>0, <2>1, LeaderNumbers, Types DEF ThirdAcknowledges, Commit, c
    <2> QED BY <1>3, <1>5, <2>2 DEF c, last
  <1>7. CASE CallEnds
    <2>1. /\ term' = term /\ log' = log /\ matchIndex' \in Nat /\ third.acked \in Nat
          /\ commitIndex'[L] = c \/ commitIndex'[L] = Advanced(log[L], c, matchIndex', third.acked)
      BY <1>7, LeaderNumbers DEF CallEnds, Returned, c
    <2>2. CASE commitIndex'[L] = c
      BY <1>0, <1>1, <1>2, <1>3, <2>1, <2>2 DEF c, last
    <2>3. CASE commitIndex'[L] = Advanced(log[L], c, matchIndex', third.acked)
      <3>1. commitIndex'[L] \in Nat /\ commitIndex'[L] >= c /\ commitIndex'[L] <= LastIndex(log'[L])
        BY <1>5, <2>1, <2>3
      <3> QED BY <1>3, <2>1, <3>1 DEF c, last
    <2> QED BY <2>1, <2>2, <2>3
  <1>8. CASE RestartLeader
    <2>1. term' = last + 1 /\ commitIndex'[L] = file[L].index /\ file[L].index \in Nat
      BY <1>0, <1>8, RecoverOK, LeaderNumbers DEF RestartLeader, last
    <2>2. \A k \in Nat : Settled(k, c, term) => k <= last
      BY <1>0, <1>1 DEF Settled
    <2>3. file[L].index <= last
      BY <2>1, <2>2 DEF OnlySettled, c
    <2>4. \A k \in Nat : Settled(k, c, term) => Settled(k, commitIndex'[L], term')
      BY <1>0, <2>1, <2>2 DEF Settled
    <2> QED BY <1>0, <1>2, <1>8, <2>1, <2>3, <2>4 DEF c, last
  <1> QED BY <1>4, <1>6, <1>7, <1>8, StepCases

LEMMA InitSettled == Init => OnlySettled
  <1> SUFFICES ASSUME NEW k \in InitialLogs, InitWith(k) PROVE OnlySettled
    BY DEF Init
  <1>1. k \in Nat /\ L \in Node /\ TypeOK
    BY CompactionAssumption, InitTypes DEF Node, Init
  <1>2. /\ commitIndex[L] = 0 /\ lastApplied[L] = 0 /\ file[L].index = 0 /\ term = k + 1 /\ ~applying
        /\ third.acked = 0 /\ \A t \in Taker : taking[L][t] = NotTaking
    BY <1>1 DEF InitWith
  <1>3. call.kind = "install" => call.index = 0
    <2>1. Fresh(call, k + 1, log[L])
      BY <1>1, LeaderNumbers, SentOK DEF InitWith
    <2> QED BY <2>1 DEF Fresh
  <1>4. NotTaking.index = 0
    BY DEF NotTaking
  <1> QED BY <1>1, <1>2, <1>3, <1>4, LeaderNumbers DEF OnlySettled, Settled

LEMMA NextSettled == TypeOK /\ Terms /\ OnlySettled /\ [Next]_vars => OnlySettled'
  <1> SUFFICES ASSUME TypeOK, Terms, OnlySettled, [Next]_vars PROVE OnlySettled'
    OBVIOUS
  <1>0. CASE UNCHANGED vars
    <2>1. UNCHANGED <<commitIndex, log, third, applying, lastApplied, file, taking, call, term>>
      BY <1>0 DEF vars, nodeVars, logVars, snapVars, leaderVars, netVars
    <2> QED BY <2>1 DEF OnlySettled
  <1> SUFFICES ASSUME Next PROVE OnlySettled'
    BY <1>0
  <1> DEFINE Before(k) == Settled(k, commitIndex[L], term)
             After(k)  == Settled(k, commitIndex'[L], term')
             last == LastIndex(log[L])
  <1>1. L \in Node /\ F \in Node /\ L # F
    BY DEF Node, L, F
  <1>2. /\ commitIndex'[L] \in Nat /\ term' \in Nat /\ commitIndex'[L] <= LastIndex(log'[L])
        /\ \A k \in Nat : Before(k) => After(k)
        /\ \/ term' = term /\ commitIndex'[L] >= commitIndex[L]
           \/ RestartLeader /\ commitIndex'[L] < term' /\ term' = LastIndex(log[L]) + 1
    BY SettledStays
  <1>3. /\ commitIndex[L] \in Nat /\ lastApplied[L] \in Nat /\ file[L].index \in Nat
        /\ call.index \in Nat /\ \A t \in Taker : taking[L][t].index \in Nat
        /\ third.acked \in Nat /\ third.stored \in Nat /\ last \in Nat
    BY LeaderNumbers
  <1>4. /\ third.acked <= third.stored /\ (applying => lastApplied[L] < commitIndex[L])
        /\ Before(lastApplied[L]) /\ Before(file[L].index) /\ \A t \in Taker : Before(taking[L][t].index)
        /\ call.kind = "install" => Before(call.index)
    BY DEF OnlySettled
  <1>5. After(lastApplied[L]) /\ After(file[L].index) /\ \A t \in Taker : After(taking[L][t].index)
    BY <1>2, <1>3, <1>4
  <1>6. After(0)
    BY <1>2 DEF Settled
  <1>7. call'.kind = "install" => After(call'.index)
    <2>1. call.kind = "install" => After(call.index)
      BY <1>2, <1>3, <1>4
    <2>2. ASSUME call' = NoCall \/ \E t, lg : Fresh(call', t, lg)
          PROVE  call'.kind = "install" => After(call'.index)
      BY <1>6, <2>2 DEF NoCall, Fresh
    <2>3. CASE Propose \/ Heartbeat
      <3>1. nextIndex \in Nat \ {0} /\ snapshotIndex[L] \in Nat /\ snapshotTerm[L] \in Nat /\ term \in Nat
        BY <1>1, Types DEF Entry
      <3>2. Written(log[L], <<last + 1>>) \in LogType /\ log[L] \in LogType
        <4>1. <<last + 1>> \in Entries
          BY <1>3 DEF Entries, Entry
        <4> QED BY <4>1, LeaderNumbers, WrittenOK
      <3>3. \A lg \in LogType : Fresh(Sent(term, nextIndex, lg, snapshotIndex[L], snapshotTerm[L],
                                           commitIndex[L]), term, lg)
        BY <1>3, <3>1, SentOK
      <3> QED BY <2>1, <2>2, <2>3, <3>2, <3>3 DEF Propose, Heartbeat
    <2>4. CASE LoadFile
      <3>1. call'.index = file[L].index
        BY <2>4, Types DEF LoadFile, CallType
      <3> QED BY <1>5, <3>1
    <2>5. CASE CallEnds
      BY <2>2, <2>5, SentNowOK DEF CallEnds, Returned
    <2>6. CASE \E r \in late \cup {call} : RequestHandled(r)
      <3>1. call' = call \/ call' = Answer(call)
        BY <2>6 DEF RequestHandled
      <3>2. Answer(call).kind = call.kind /\ Answer(call).index = call.index
        <4>1. call \in CallType /\ log[F] \in LogType /\ snapshotIndex[F] \in Nat
          BY <1>1, Types
        <4> QED BY <4>1, AnswerOK
      <3> QED BY <2>1, <3>1, <3>2
    <2>7. CASE RestartLeader
      <3>1. /\ call' = Sent(last + 1, last + 1, log'[L], file[L].index, file[L].term, file[L].index)
            /\ log'[L] \in LogType /\ file[L].term \in Nat
        <4>1. TypeOK'
          BY NextTypes
        <4>2. log'[L] = Written(log[L], <<last + 1>>) /\ log'[L] \in LogType
          BY <1>1, <2>7, <4>1, Types, TypesNext DEF RestartLeader
        <4> QED BY <1>1, <2>7, <4>2, OfNode DEF RestartLeader
      <3>2. Fresh(call', last + 1, log'[L])
        <4> HIDE DEF last
        <4>1. last + 1 \in Nat /\ last + 1 \in Nat \ {0}
          BY <1>3
        <4> QED BY <1>3, <3>1, <4>1, SentOK
      <3> QED BY <2>2, <3>2
    <2>8. CASE \/ Apply \/ RecordApplied \/ RestartFollower
               \/ \E k \in 1..LastIndex(log[L]) : ThirdAcknowledges(k)
               \/ \E n \in Node : \E t \in Taker : Capture(n, t)
               \/ \E n \in Node : \E t \in Taker : Save(n, t)
               \/ \E n \in Node : \E t \in Taker : Adopt(n, t)
      <3>1. call' = call
        BY <2>8 DEF Apply, RecordApplied, RestartFollower, ThirdAcknowledges, Capture, Save, Adopt, netVars
      <3> QED BY <2>1, <3>1
    <2> QED BY <2>3, <2>4, <2>5, <2>6, <2>7, <2>8, StepCases
  <1>8. third'.acked <= third'.stored
    <2>1. CASE \E k \in 1..LastIndex(log[L]) : ThirdAcknowledges(k)
      BY <1>3, <2>1 DEF ThirdAcknowledges, Larger
    <2>2. CASE RestartLeader
      BY <1>3, <2>2, Types DEF RestartLeader
    <2>3. CASE third' = third
      BY <1>4, <2>3
    <2> QED BY <2>1, <2>2, <2>3, StepCases DEF Propose, Heartbeat, LoadFile, CallEnds, RequestHandled,
                Apply, RecordApplied, Capture, Save, Adopt, RestartFollower, leaderVars
  <1> DEFINE Rest == /\ applying' => lastApplied'[L] < commitIndex'[L]
                     /\ After(lastApplied'[L]) /\ After(file'[L].index)
                     /\ \A t \in Taker : After(taking'[L][t].index)
  <1> SUFFICES Rest
    BY <1>2, <1>7, <1>8 DEF OnlySettled
  <1>9. ASSUME applying' = applying, lastApplied'[L] = lastApplied[L], term' = term,
               commitIndex'[L] >= commitIndex[L]
        PROVE  (applying' => lastApplied'[L] < commitIndex'[L]) /\ After(lastApplied'[L])
    BY <1>2, <1>3, <1>4, <1>5, <1>9
  <1>10. (term' = term /\ commitIndex'[L] >= commitIndex[L]) \/ RestartLeader
    BY <1>2
  <1>11. CASE \/ Propose \/ Heartbeat \/ LoadFile \/ CallEnds \/ RestartFollower
              \/ \E r \in late \cup {call} : RequestHandled(r)
              \/ \E k \in 1..LastIndex(log[L]) : ThirdAcknowledges(k)
    <2>1. UNCHANGED <<applying, lastApplied[L], file[L], taking[L]>>
      <3>1. CASE \E r \in late \cup {call} : RequestHandled(r)
        BY <3>1, HandledTypes DEF RequestHandled
      <3>2. CASE RestartFollower
        BY <1>1, <3>2, RecoverOK DEF RestartFollower
      <3> QED BY <1>11, <3>1, <3>2 DEF Propose, Heartbeat, LoadFile, CallEnds, ThirdAcknowledges,
                 nodeVars, logVars, snapVars
    <2>2. term' = term
      BY <1>11 DEF Propose, Heartbeat, LoadFile, CallEnds, ThirdAcknowledges, RequestHandled,
                   RestartFollower, leaderVars
    <2>3. commitIndex'[L] >= commitIndex[L]
      <3>1. CASE RestartLeader
        <4>1. commitIndex[L] <= last /\ term <= last /\ term' = last + 1 /\ term \in Nat
          BY <3>1, LeaderNumbers DEF RestartLeader, OnlySettled, Terms
        <4> QED BY <1>3, <2>2, <4>1
      <3> QED BY <1>10, <3>1
    <2> QED BY <1>5, <1>9, <2>1, <2>2, <2>3
  <1>12. CASE Apply
    <2>1. /\ lastApplied[L] < commitIndex[L] /\ commitIndex' = commitIndex
          /\ UNCHANGED <<lastApplied, file, taking>>
      BY <1>12 DEF Apply, snapVars
    <2> QED BY <1>5, <2>1
  <1>13. CASE RecordApplied
    <2>1. /\ lastApplied'[L] = lastApplied[L] + 1 /\ applying /\ ~applying' /\ commitIndex' = commitIndex
          /\ UNCHANGED <<file, taking>>
      BY <1>1, <1>13, Types DEF RecordApplied, snapVars
    <2>2. After(lastApplied'[L])
      BY <1>3, <1>4, <2>1 DEF Settled
    <2> QED BY <1>5, <2>1, <2>2
  <1>14. ASSUME NEW n \in Node, NEW t \in Taker, Capture(n, t) PROVE Rest
    <2> DEFINE s == [at |-> "captured", index |-> lastApplied[n],
                     term |-> EntryAt(log[n], lastApplied[n]), data |-> fsm[n]]
    <2>1. EntryAt(log[n], lastApplied[n]) \in Nat
      BY <1>14, OfNode, EntryAtOK DEF Capture
    <2>2. s \in Taking /\ s.index = lastApplied[n]
      BY <2>1, OfNode DEF Taking
    <2>3. Take(n, t, s) /\ UNCHANGED <<lastApplied, file, applying, commitIndex>>
      BY <1>14 DEF Capture, nodeVars, logVars, snapVars
    <2> HIDE DEF s
    <2>4. \A u \in Taker : taking'[L][u] = taking[L][u] \/ (n = L /\ taking'[L][u] = s)
      BY <1>1, <2>2, <2>3, TakeOK
    <2>5. \A u \in Taker : After(taking'[L][u].index)
      BY <1>5, <2>2, <2>4
    <2> QED BY <1>4, <1>5, <2>3, <2>5
  <1>15. ASSUME NEW n \in Node, NEW t \in Taker, Save(n, t) PROVE Rest
    <2> DEFINE s == taking[n][t]
               saved == [s EXCEPT !.at = "saved"]
    <2>1. saved \in Taking /\ saved.index = s.index
      BY OfNode DEF Taking
    <2>2. /\ Take(n, t, saved) /\ UNCHANGED <<lastApplied, applying, commitIndex>>
          /\ file' = [file EXCEPT ![n] = [index |-> s.index, term |-> s.term, data |-> s.data]]
      BY <1>15 DEF Save, logVars
    <2> HIDE DEF saved
    <2>3. \A u \in Taker : taking'[L][u] = taking[L][u] \/ (n = L /\ taking'[L][u] = saved)
      BY <1>1, <2>1, <2>2, TakeOK
    <2>4. \A u \in Taker : After(taking'[L][u].index)
      BY <1>5, <2>1, <2>3
    <2>5. file'[L].index = file[L].index \/ (n = L /\ file'[L].index = s.index)
      BY <1>1, <2>2, Types
    <2> QED BY <1>4, <1>5, <2>2, <2>4, <2>5
  <1>16. ASSUME NEW n \in Node, NEW t \in Taker, Adopt(n, t) PROVE Rest
    <2>1. Take(n, t, NotTaking) /\ UNCHANGED <<lastApplied, file, applying, commitIndex>>
      BY <1>16 DEF Adopt
    <2>2. NotTaking.index = 0
      BY DEF NotTaking
    <2>3. \A u \in Taker : taking'[L][u] = taking[L][u] \/ taking'[L][u] = NotTaking
      BY <1>1, <2>1, TakeOK, NotTakingOK
    <2>4. \A u \in Taker : After(taking'[L][u].index)
      BY <1>5, <1>6, <2>2, <2>3
    <2> QED BY <1>4, <1>5, <2>1, <2>4
  <1>17. CASE RestartLeader
    <2>1. /\ lastApplied'[L] = Reached(log[L], file[L].index, last)
          /\ \A t \in Taker : taking'[L][t] = NotTaking
          /\ file' = file /\ ~applying' /\ term' = last + 1
      BY <1>1, <1>17, RecoverOK DEF RestartLeader
    <2>2. lastApplied'[L] \in Nat /\ lastApplied'[L] <= Larger(file[L].index, last)
      <3>1. last \in Nat /\ file[L].index \in Nat /\ log[L] \in LogType
        BY <1>3, LeaderNumbers
      <3> HIDE DEF last
      <3>2. /\ Reached(log[L], file[L].index, last) \in Nat
            /\ Reached(log[L], file[L].index, last) <= Larger(file[L].index, last)
        BY <3>1, ReachedOK
      <3> QED BY <2>1, <3>2
    <2>3. file[L].index <= last
      <3>1. commitIndex[L] <= last /\ term <= last /\ term \in Nat
        BY LeaderNumbers DEF OnlySettled, Terms
      <3> QED BY <1>3, <1>4, <3>1 DEF Settled
    <2>4. After(lastApplied'[L])
      BY <1>2, <1>3, <2>1, <2>2, <2>3 DEF Settled, Larger
    <2>5. NotTaking.index = 0
      BY DEF NotTaking
    <2> QED BY <1>5, <1>6, <2>1, <2>4, <2>5
  <1> QED BY <1>11, <1>12, <1>13, <1>14, <1>15, <1>16, <1>17, StepCases

\* The last index the follower holds, in its snapshot or in its log.
Extent == Larger(snapshotIndex[F], LastIndex(log[F]))

\* Nothing that the follower has stored is lost, by whatever step.
LEMMA FollowerKeeps ==
    ASSUME TypeOK, Terms, Disks, Right(log[F]), Next,
           <<"misplaced", F>> \notin mishaps', <<"overwritten", F>> \notin mishaps'
    PROVE  /\ snapshotIndex'[F] \in Nat /\ LastIndex(log'[F]) \in Nat
           /\ snapshotIndex'[F] >= snapshotIndex[F] /\ LastIndex(log'[F]) >= LastIndex(log[F])
           /\ log[F].first <= snapshotIndex[F] + 1 => log'[F].first <= snapshotIndex'[F] + 1
           /\ Extent' \in Nat /\ Extent' >= Extent /\ Extent' >= LastIndex(log'[F])
  <1>0. L \in Node /\ F \in Node /\ L # F
    BY DEF Node, L, F
  <1>1. /\ log[F] \in LogType /\ LastIndex(log[F]) \in Nat /\ snapshotIndex[F] \in Nat
        /\ file[F].index \in Nat /\ log[F].first \in Nat
        /\ log \in [Node -> LogType] /\ snapshotIndex \in [Node -> Nat]
    BY <1>0, OfNode, Types, Positive
  <1>2. /\ log'[F] \in LogType /\ LastIndex(log'[F]) \in Nat /\ snapshotIndex'[F] \in Nat
        /\ log'[F].first \in Nat
    <2>1. TypeOK'
      BY NextTypes
    <2>2. log'[F] \in LogType /\ snapshotIndex'[F] \in Nat
      BY <1>0, <2>1, TypesNext
    <2> QED BY <2>2, Positive
  <1>3. LastIndex(log'[F]) >= LastIndex(log[F])
    BY FollowerLog
  <1> DEFINE Ahead == /\ snapshotIndex'[F] >= snapshotIndex[F]
                      /\ log[F].first <= snapshotIndex[F] + 1 => log'[F].first <= snapshotIndex'[F] + 1
  <1>4. Disk(F)
    <2>1. ~Happened("overwritten", F)
      BY MishapsGrow DEF Happened
    <2> QED BY <1>0, <2>1 DEF Disks
  <1>5. ASSUME \/ Propose \/ Heartbeat \/ LoadFile \/ CallEnds \/ Apply \/ RecordApplied \/ RestartLeader
               \/ \E k \in 1..LastIndex(log[L]) : ThirdAcknowledges(k)
               \/ \E n \in Node : \E t \in Taker : Capture(n, t)
               \/ \E n \in Node : \E t \in Taker : Save(n, t)
        PROVE  Ahead
    <2>1. log'[F] = log[F] /\ snapshotIndex'[F] = snapshotIndex[F]
      <3>1. CASE RestartLeader
        BY <1>0, <1>1, <3>1, RecoverOK DEF RestartLeader
      <3>2. CASE Propose
        BY <1>0, <1>1, <3>2 DEF Propose, snapVars
      <3> QED BY <1>5, <3>1, <3>2 DEF Heartbeat, LoadFile, CallEnds, Apply, RecordApplied, ThirdAcknowledges,
                 Capture, Save, nodeVars, logVars, snapVars
    <2> QED BY <1>1, <2>1
  <1>6. ASSUME NEW r \in late \cup {call}, RequestHandled(r) PROVE Ahead
    <2>1. r.index \in Nat /\ r.entries \in Entries
      BY <1>6, OfCall DEF RequestHandled
    <2>2. CASE Refused(r)
      BY <1>1, <2>2 DEF Refused
    <2>3. CASE Appended(r)
      <3>1. log'[F] = AppendEntries(log[F], r.index, r.entries) /\ snapshotIndex' = snapshotIndex
        BY <1>0, <1>1, <2>3 DEF Appended
      <3>2. log'[F].first = log[F].first
        BY <1>1, <2>1, <3>1, AppendOK
      <3> QED BY <1>1, <3>1, <3>2
    <2>4. CASE Installed(r)
      <3>1. /\ log'[F] = LogAfterInstall(log[F], r.index) /\ snapshotIndex'[F] = r.index
            /\ r.index > snapshotIndex[F]
        BY <1>0, <1>1, <2>4 DEF Installed, Install
      <3>2. log[F].first <= r.index + 1 => log'[F].first <= r.index + 1
        BY <1>1, <2>1, <3>1, InstallOK
      <3> QED BY <1>1, <2>1, <3>1, <3>2
    <2> QED BY <1>6, <2>2, <2>3, <2>4 DEF RequestHandled
  <1>7. ASSUME NEW n \in Node, NEW t \in Taker, Adopt(n, t) PROVE Ahead
    <2> DEFINE k == taking[n][t].index
    <2>1. k \in Nat
      BY OfNode
    <2>2. CASE n = F /\ k > snapshotIndex[F]
      <3>1. /\ snapshotIndex'[F] = k
            /\ log'[F] = IF LastIndex(log[F]) > k THEN TruncateTo(log[F], k) ELSE log[F]
        BY <1>0, <1>1, <1>7, <2>2 DEF Adopt
      <3> HIDE DEF k
      <3>2. LastIndex(log[F]) > k => TruncateTo(log[F], k).first = Larger(log[F].first, k + 1)
        BY <1>1, <2>1, TruncateOK
      <3> QED BY <1>1, <2>1, <2>2, <3>1, <3>2 DEF Larger
    <2>3. CASE ~(n = F /\ k > snapshotIndex[F])
      <3>1. snapshotIndex'[F] = snapshotIndex[F] /\ log'[F] = log[F]
        BY <1>0, <1>1, <1>7, <2>3 DEF Adopt
      <3> QED BY <1>1, <3>1
    <2> QED BY <2>2, <2>3
  <1>8. ASSUME RestartFollower PROVE Ahead
    <2>1. snapshotIndex'[F] = file[F].index /\ log' = log
      BY <1>0, <1>8, RecoverOK DEF RestartFollower
    <2> QED BY <1>1, <1>4, <2>1 DEF Disk
  <1> HIDE DEF Ahead
  <1>9. Ahead
    <2>1. CASE \E r \in late \cup {call} : RequestHandled(r)
      BY <1>6, <2>1
    <2>2. CASE \E n \in Node : \E t \in Taker : Adopt(n, t)
      BY <1>7, <2>2
    <2> QED BY <1>5, <1>8, <2>1, <2>2, StepCases
  <1> QED BY <1>1, <1>2, <1>3, <1>9 DEF Ahead, Extent, Larger

\* The follower's log begins behind its snapshot; what the leader believes the
\* follower to hold, and what it has committed on that belief.
Acknowledged ==
    Happened("misplaced", F) \/ Happened("overwritten", F) \/
      /\ log[F].first <= snapshotIndex[F] + 1
      /\ Settled(matchIndex, commitIndex[L], term) \/ matchIndex <= Extent
      /\ (call.at = "reply" /\ call.kind = "append" /\ call.ok) => LastSent(call) <= Extent
      /\ commitIndex[L] >= term => third.stored >= commitIndex[L] \/ commitIndex[L] <= Extent

LEMMA InitAcknowledged == Init => Acknowledged
  <1> SUFFICES ASSUME NEW k \in InitialLogs, InitWith(k) PROVE Acknowledged
    BY DEF Init
  <1>1. k \in Nat /\ L \in Node /\ F \in Node /\ TypeOK
    BY CompactionAssumption, InitTypes DEF Node, Init
  <1>2. /\ commitIndex[L] = 0 /\ term = k + 1 /\ matchIndex = 0
        /\ log[F].first = 1 /\ snapshotIndex[F] = 0
    BY <1>1 DEF InitWith
  <1>3. call.at # "reply"
    <2>1. Fresh(call, k + 1, log[L])
      BY <1>1, LeaderNumbers, SentOK DEF InitWith
    <2> QED BY <2>1 DEF Fresh
  <1> QED BY <1>1, <1>2, <1>3 DEF Acknowledged, Settled


LEMMA NextAcknowledged ==
    TypeOK /\ Terms /\ Disks /\ FollowerRight /\ OnlySettled /\ Acknowledged /\ [Next]_vars
      => Acknowledged'
  <1> SUFFICES ASSUME TypeOK, Terms, Disks, FollowerRight, OnlySettled, Acknowledged, [Next]_vars
               PROVE  Acknowledged'
    OBVIOUS
  <1>0. CASE UNCHANGED vars
    <2>1. UNCHANGED <<mishaps, log, snapshotIndex, matchIndex, commitIndex, term, call, third>>
      BY <1>0 DEF vars, nodeVars, logVars, snapVars, leaderVars, netVars
    <2> QED BY <2>1 DEF Acknowledged, Happened, Extent, LastSent
  <1> SUFFICES ASSUME Next, <<"misplaced", F>> \notin mishaps', <<"overwritten", F>> \notin mishaps'
               PROVE  Acknowledged'
    BY <1>0 DEF Acknowledged, Happened
  <1> DEFINE c == commitIndex[L]
             After(k) == Settled(k, commitIndex'[L], term') \/ k <= Extent'
             Stored(k) == third'.stored >= k \/ k <= Extent'
  <1>1. ~Happened("misplaced", F) /\ ~Happened("overwritten", F) /\ Right(log[F])
    BY MishapsGrow DEF Happened, FollowerRight
  <1>2. /\ log[F].first <= snapshotIndex[F] + 1
        /\ Settled(matchIndex, c, term) \/ matchIndex <= Extent
        /\ (call.at = "reply" /\ call.kind = "append" /\ call.ok) => LastSent(call) <= Extent
        /\ c >= term => third.stored >= c \/ c <= Extent
    BY <1>1 DEF Acknowledged
  <1>3. /\ log'[F].first <= snapshotIndex'[F] + 1
        /\ Extent' \in Nat /\ Extent' >= Extent /\ Extent' >= LastIndex(log'[F])
    BY <1>1, <1>2, FollowerKeeps
  <1>4. Extent \in Nat /\ L \in Node /\ F \in Node /\ L # F
    BY OfNode DEF Extent, Larger, Node, L, F
  <1>5. /\ c \in Nat /\ term \in Nat /\ matchIndex \in Nat /\ third.acked \in Nat
        /\ third.stored \in Nat /\ call.index \in Nat /\ LastSent(call) \in Nat
        /\ third.acked <= third.stored /\ LastIndex(log[L]) \in Nat
    BY LeaderNumbers DEF OnlySettled
  <1>6. /\ commitIndex'[L] \in Nat /\ term' \in Nat
        /\ \A k \in Nat : Settled(k, c, term) => Settled(k, commitIndex'[L], term')
        /\ \/ term' = term /\ commitIndex'[L] >= c
           \/ RestartLeader /\ commitIndex'[L] < term' /\ term' = LastIndex(log[L]) + 1
    BY SettledStays
  <1> HIDE DEF c
  <1>7. After(matchIndex)
    BY <1>2, <1>3, <1>4, <1>5, <1>6
  <1>8. ASSUME NEW k \in Nat, Settled(k, c, term) \/ k <= Extent PROVE After(k)
    BY <1>3, <1>4, <1>6, <1>8
  <1>9. ASSUME call' = call
        PROVE  (call'.at = "reply" /\ call'.kind = "append" /\ call'.ok) => LastSent(call') <= Extent'
    <2>1. LastSent(call') = LastSent(call)
      BY <1>9
    <2> QED BY <1>2, <1>3, <1>4, <1>5, <1>9, <2>1
  <1>10. ASSUME call'.at # "reply"
         PROVE  (call'.at = "reply" /\ call'.kind = "append" /\ call'.ok) => LastSent(call') <= Extent'
    BY <1>10
  <1>11. ASSUME c >= term, commitIndex'[L] = c, third'.stored = third.stored PROVE Stored(commitIndex'[L])
    BY <1>2, <1>3, <1>4, <1>5, <1>11
  <1>12. ASSUME NEW match \in Nat, NEW ack \in Nat,
                Settled(match, c, term) \/ match <= Extent', third'.stored \in Nat,
                ack <= third'.stored, third'.stored >= third.stored, term' = term,
                commitIndex'[L] = Advanced(log[L], c, match, ack), commitIndex'[L] >= term'
         PROVE  Stored(commitIndex'[L])
    <2> DEFINE d == Advanced(log[L], c, match, ack)
    <2>1. d \in Nat /\ d >= c /\ (d > c => d = Larger(match, ack) /\ d >= term)
      <3>1. log[L] \in LogType /\ Right(log[L]) /\ term \in opened
        BY LeaderNumbers DEF Terms
      <3>2. term \in Nat /\ c \in Nat
        BY <1>5
      <3>3. /\ d \in Nat /\ d >= c
            /\ d > c => d = Larger(match, ack) /\ (Right(log[L]) => d >= term)
        BY <3>1, <3>2, AdvancedOK
      <3> QED BY <3>1, <3>3
    <2> HIDE DEF d
    <2>2. commitIndex'[L] = d
      BY <1>12 DEF d
    <2>3. CASE d = c
      BY <1>2, <1>3, <1>4, <1>5, <1>12, <2>2, <2>3
    <2>4. CASE d > c /\ d = ack
      BY <1>12, <2>2, <2>4
    <2>5. CASE d > c /\ d = match
      <3>1. ~Settled(match, c, term)
        BY <1>5, <2>1, <2>5 DEF Settled
      <3> QED BY <1>12, <2>2, <2>5, <3>1
    <2> QED BY <1>5, <2>1, <2>3, <2>4, <2>5 DEF Larger
  <1> DEFINE Believes == After(matchIndex')
             Replied == (call'.at = "reply" /\ call'.kind = "append" /\ call'.ok)
                           => LastSent(call') <= Extent'
             Commits == commitIndex'[L] >= term' => Stored(commitIndex'[L])
  <1> SUFFICES Believes /\ Replied /\ Commits
    BY <1>3 DEF Acknowledged
  <1>13. CASE \/ Propose \/ Heartbeat \/ LoadFile \/ Apply \/ RecordApplied \/ RestartFollower
              \/ \E r \in late \cup {call} : RequestHandled(r)
              \/ \E n \in Node : \E t \in Taker : Capture(n, t)
              \/ \E n \in Node : \E t \in Taker : Save(n, t)
              \/ \E n \in Node : \E t \in Taker : Adopt(n, t)
    <2>1. UNCHANGED <<term, matchIndex, third>>
      BY <1>13 DEF Propose, Heartbeat, LoadFile, Apply, RecordApplied, RequestHandled, Capture, Save,
                   Adopt, RestartFollower, leaderVars
    <2>2. commitIndex'[L] = c
      <3>1. CASE \E r \in late \cup {call} : RequestHandled(r)
        BY <3>1, HandledTypes DEF c
      <3>2. CASE RestartFollower
        BY <1>4, <3>2, RecoverOK DEF c, RestartFollower
      <3> QED BY <1>13, <3>1, <3>2 DEF c, Propose, Heartbeat, LoadFile, Apply, RecordApplied, Capture,
                 Save, Adopt, nodeVars, logVars
    <2>3. Believes
      BY <1>7, <2>1
    <2>4. Commits
      BY <1>11, <2>1, <2>2
    <2>5. Replied
      <3>1. CASE call' = call
        BY <1>9, <3>1
      <3>2. CASE Propose \/ Heartbeat
        <4>1. call' = call \/ call'.at # "reply"
          <5>1. nextIndex \in Nat \ {0} /\ snapshotIndex[L] \in Nat /\ snapshotTerm[L] \in Nat
            BY <1>4, Types
          <5>2. Written(log[L], <<LastIndex(log[L]) + 1>>) \in LogType /\ log[L] \in LogType
            <6>1. <<LastIndex(log[L]) + 1>> \in Entries
              BY <1>5 DEF Entries, Entry
            <6> QED BY <6>1, LeaderNumbers, WrittenOK
          <5>3. \A lg \in LogType : Fresh(Sent(term, nextIndex, lg, snapshotIndex[L], snapshotTerm[L],
                                               commitIndex[L]), term, lg)
            BY <1>5, <5>1, SentOK DEF c
          <5> QED BY <3>2, <5>2, <5>3 DEF Propose, Heartbeat, Fresh
        <4> QED BY <1>9, <1>10, <4>1
      <3>3. CASE LoadFile
        <4>1. call'.at = "request"
          BY <3>3, Types DEF LoadFile, CallType
        <4> QED BY <1>10, <4>1
      <3>4. ASSUME NEW r \in late \cup {call}, RequestHandled(r), ~(call' = call) PROVE Replied
        <4>1. r = call /\ call.at = "request" /\ call' = Answer(call)
          BY <3>4 DEF RequestHandled
        <4>2. /\ Answer(call).kind = call.kind /\ Answer(call).index = call.index
              /\ Answer(call).entries = call.entries
              /\ (call.kind = "append" /\ Answer(call).ok) => PredecessorHeld(call.index, call.prev)
          <5>1. call \in CallType /\ log[F] \in LogType /\ snapshotIndex[F] \in Nat
            BY <1>4, Types
          <5> QED BY <5>1, AnswerOK
        <4> SUFFICES ASSUME call.kind = "append", PredecessorHeld(call.index, call.prev)
                     PROVE  call.index + Len(call.entries) <= Extent'
          BY <4>1, <4>2 DEF LastSent
        <4>3. ~(call.term < followerTerm)
          <5>1. call.term = term /\ followerTerm <= term /\ followerTerm \in Nat
            BY <4>1, Types DEF Terms
          <5> QED BY <1>5, <5>1
        <4>4. Appended(call)
          BY <3>4, <4>1, <4>3 DEF RequestHandled, Refused, Installed
        <4>5. /\ log'[F] = AppendEntries(log[F], call.index, call.entries)
              /\ ~Misplaces(log[F], call.index, call.entries)
          BY <1>4, <4>4, NotedOK, Types DEF Appended, Mishap
        <4>6. call.index <= LastIndex(log[F])
          BY DEF PredecessorHeld
        <4>7. log[F] \in LogType /\ call.index \in Nat /\ call.entries \in Entries
          BY <1>4, Types, OfCall
        <4>8. call.index + Len(call.entries) <= LastIndex(log'[F])
          BY <4>5, <4>6, <4>7, AppendOK
        <4>9. Len(call.entries) \in Nat /\ LastIndex(log'[F]) \in Nat
          BY <1>1, <4>7, FollowerKeeps, Types, OfCall
        <4> QED BY <1>3, <4>7, <4>8, <4>9
      <3> QED BY <1>13, <3>1, <3>2, <3>3, <3>4 DEF Apply, RecordApplied, RestartFollower, Capture, Save,
                 Adopt, netVars
    <2> QED BY <2>3, <2>4, <2>5
  <1>14. CASE \E k \in 1..LastIndex(log[L]) : ThirdAcknowledges(k)
    <2>1. PICK k \in 1..LastIndex(log[L]) : ThirdAcknowledges(k)
      BY <1>14
    <2>2. /\ UNCHANGED <<term, matchIndex, call>> /\ k \in Nat
          /\ third'.stored = Larger(third.stored, k)
          /\ commitIndex'[L] = Advanced(log[L], c, matchIndex, k)
      BY <1>4, <1>5, <2>1, Types DEF ThirdAcknowledges, Commit, netVars, c
    <2>3. third'.stored \in Nat /\ k <= third'.stored /\ third'.stored >= third.stored
      BY <1>5, <2>2 DEF Larger
    <2>4. Settled(matchIndex, c, term) \/ matchIndex <= Extent'
      BY <1>2, <1>3, <1>4, <1>5
    <2>5. Commits
      BY <1>5, <1>12, <2>2, <2>3, <2>4
    <2> QED BY <1>7, <1>9, <2>2, <2>5
  <1>15. CASE CallEnds
    <2>1. /\ UNCHANGED <<term, third>> /\ matchIndex' \in Nat
          /\ commitIndex'[L] = c \/ commitIndex'[L] = Advanced(log[L], c, matchIndex', third.acked)
      BY <1>15 DEF CallEnds, Returned, c
    <2>2. Settled(matchIndex', c, term) \/ matchIndex' <= Extent
      <3>1. call.kind = "install" => Settled(call.index, c, term)
        BY DEF OnlySettled, c
      <3> QED BY <1>2, <1>15, <3>1 DEF CallEnds, Returned
    <2>3. Settled(matchIndex', c, term) \/ matchIndex' <= Extent'
      BY <1>3, <1>4, <2>1, <2>2
    <2>4. Believes
      BY <1>6, <2>1, <2>3
    <2>5. Replied
      <3>1. call' = NoCall \/ Fresh(call', term, log[L])
        BY <1>15, SentNowOK DEF CallEnds, Returned
      <3>2. call'.at # "reply"
        BY <3>1 DEF NoCall, Fresh
      <3> QED BY <1>10, <3>2
    <2>6. Commits
      BY <1>5, <1>11, <1>12, <2>1, <2>3
    <2> QED BY <2>4, <2>5, <2>6
  <1>16. CASE RestartLeader
    <2> DEFINE last == LastIndex(log[L])
    <2>1. term' = last + 1 /\ matchIndex' = 0 /\ commitIndex'[L] = file[L].index
      BY <1>4, <1>16, RecoverOK DEF RestartLeader
    <2>2. file[L].index \in Nat /\ file[L].index <= last
      <3>1. c <= last /\ term <= last /\ Settled(file[L].index, c, term) /\ file[L].index \in Nat
        BY LeaderNumbers DEF OnlySettled, Terms, c
      <3> QED BY <1>5, <3>1 DEF Settled
    <2>3. Commits /\ Believes
      BY <1>3, <1>5, <2>1, <2>2 DEF Settled
    <2>4. Replied
      <3>1. /\ call' = Sent(last + 1, last + 1, log'[L], file[L].index, file[L].term, file[L].index)
            /\ log'[L] \in LogType /\ file[L].term \in Nat
        <4>1. TypeOK'
          BY NextTypes
        <4>2. log'[L] = Written(log[L], <<last + 1>>) /\ log'[L] \in LogType
          BY <1>4, <1>16, <4>1, Types, TypesNext DEF RestartLeader
        <4> QED BY <1>4, <1>16, <4>2, OfNode DEF RestartLeader
      <3>2. Fresh(call', last + 1, log'[L])
        <4> HIDE DEF last
        <4>1. last + 1 \in Nat /\ last + 1 \in Nat \ {0}
          BY <1>5 DEF last
        <4> QED BY <2>2, <3>1, <4>1, SentOK
      <3>3. call'.at # "reply"
        BY <3>2 DEF Fresh
      <3> QED BY <1>10, <3>3
    <2> QED BY <2>3, <2>4
  <1> QED BY <1>13, <1>14, <1>15, <1>16, StepCases

\* MajorityUnlessMishap: whatever the leader has committed in its term is held
\* by a majority, in the log or in a snapshot, although a failed install counts
\* as an acknowledgement (leader_role.go:731-738), requests arrive late and
\* both nodes compact their logs and crash, unless entries were written at
\* other indexes than theirs or a snapshot file gave way to an older one.
THEOREM CommitsHaveMajority == Spec => []MajorityUnlessMishap
  <1> DEFINE Inv == /\ TypeOK /\ Terms /\ Disks /\ FollowerRight /\ OnlySettled /\ Acknowledged
  <1>1. Init => Inv
    BY InitTypes, InitTerms, InitDisks, InitRight, InitSettled, InitAcknowledged
  <1>2. Inv /\ [Next]_vars => Inv'
    BY NextTypes, NextTerms, NextDisks, NextRight, NextSettled, NextAcknowledged
  <1>3. Inv => MajorityUnlessMishap
    <2> SUFFICES ASSUME Inv, ~Happened("misplaced", F), ~Happened("overwritten", F),
                        commitIndex[L] >= term, ~(third.stored >= commitIndex[L])
                 PROVE  FollowerHolds(commitIndex[L])
      BY DEF MajorityUnlessMishap, CommitHasMajority
    <2>1. /\ Right(log[F]) /\ log[F].first <= snapshotIndex[F] + 1 /\ commitIndex[L] <= Extent
          /\ F \in Node
      BY DEF FollowerRight, Acknowledged, Node
    <2>2. /\ commitIndex[L] \in Nat /\ snapshotIndex[F] \in Nat /\ log[F] \in LogType
          /\ log[F].first \in Nat /\ LastIndex(log[F]) \in Nat
      BY <2>1, LeaderNumbers, OfNode, Positive
    <2>3. CASE commitIndex[L] > snapshotIndex[F]
      <3>1. Held(log[F], commitIndex[L])
        BY <2>1, <2>2, <2>3 DEF Held, Extent, Larger
      <3> QED BY <2>1, <2>2, <3>1, EntryAtOK DEF FollowerHolds
    <2> QED BY <2>2, <2>3 DEF FollowerHolds
  <1> QED BY <1>1, <1>2, <1>3, PTL DEF Spec
=============================================================================
