--------------------------- MODULE ServingProofs ---------------------------
(***************************************************************************)
(* What Serving promises, for any requests, any number of leader objects   *)
(* and so of appliers that run side by side, and a counter of any size.    *)
(*                                                                         *)
(* The invariant comes in layers, each proved with the help of those       *)
(* before it:                                                              *)
(*   Shape     the types, and which goroutines there are;                  *)
(*   Order     every loop is on committed entries, or replays the log;     *)
(*   Coverage  a loop has nothing left out behind it, and the session      *)
(*             table knows what was executed;                              *)
(*   Retries   no request is executed, or about to be, at two indexes;     *)
(*   Answers   a waiter waits for its own entry in the office in being;    *)
(*   Count     the counter has what was executed.                          *)
(* Steps of a thread are first put into a common form (ThreadCases), and   *)
(* so are those that apply nothing (OuterStep).                            *)
(***************************************************************************)
EXTENDS Serving, ClockProofs, SequenceTheorems, FiniteSetTheorems

(* Shape: the types, and which goroutines there are.                       *)

\* The entry has no data, or data the counter can count.
Payload(raw) == Deserialize(raw).data \in Id \cup {<<>>}

\* While NewRaft replays the log nothing else runs; an applier belongs to a
\* leader object.
Goroutines ==
    /\ \A k \in Thread \ {0} : threads[k].at # "off" => k <= Len(objs)
    /\ role = "leader" => objs # <<>>
    /\ starting => /\ threads[0].at \in {"look", "run", "store"}
                   /\ objs = <<>>

Payloads ==
    /\ \A i \in 1..Len(log) : Payload(log[i])
    /\ \A k \in Thread :
         /\ threads[k].at = "run" => Deserialize(threads[k].entry).data \in Id \ {<<>>}
         /\ threads[k].at = "look" => threads[k].idx > 0

Shape == TypeOK /\ Goroutines /\ Payloads

----------------------------------------------------------------------------
(* Order: what is committed, what is replayed, and where the loops are.    *)

\* What is committed is in the log, and the commit index has not passed it.
ChosenInLog ==
    /\ Len(chosen) <= Len(log)
    /\ \A i \in 1..Len(chosen) : chosen[i] = log[i]
    /\ commitIndex <= Len(chosen)

InLoop(t) == t.at \in {"look", "run", "tell", "store"}
HasEntry(t) == t.at \in {"run", "tell", "store"}

\* The replay goes over the log the process has found.
Replaying ==
    starting =>
      /\ replayed = log
      /\ threads[0].limit = Len(log) /\ threads[0].idx \in 1..Len(log)
      /\ HasEntry(threads[0]) => threads[0].entry = log[threads[0].idx]

\* Any other loop is on committed entries, behind those replayed.
OnCommitted(k) ==
    LET t == threads[k]
    IN  /\ InLoop(t) \/ t.at = "from" => t.limit <= Len(chosen)
        /\ InLoop(t) => t.idx <= t.limit /\ t.idx > Len(replayed)
        /\ HasEntry(t) => t.entry = chosen[t.idx]

Applying ==
    ~starting => lastApplied >= Len(replayed) /\ \A k \in Thread : OnCommitted(k)

\* What has been executed is committed, or was replayed.
Origins ==
    \A x \in executed :
      /\ x.by = "apply" => x.index \in 1..Len(chosen) /\ x.entry = chosen[x.index]
      /\ x.by = "replay" => x.index \in 1..Len(replayed) /\ x.entry = replayed[x.index]

Order == ChosenInLog /\ Replaying /\ Applying /\ Origins

----------------------------------------------------------------------------
(* Coverage: nothing is passed over.                                       *)

\* The entry that the state machine has, or should have, at index k.
Target(k) == IF k <= Len(replayed) THEN replayed[k] ELSE chosen[k]

\* x stands for entry raw of index k: it is that entry, or the same request
\* or a later one of the same client.
StandsFor(x, k, raw) ==
    \/ x.index = k /\ x.entry = raw
    \/ SameClient(x.entry, raw) /\ Deserialize(x.entry).seq >= Deserialize(raw).seq

Covered(k) ==
    Deserialize(Target(k)).data # <<>> => \E x \in executed : StandsFor(x, k, Target(k))

CoveredUpTo(n) ==
    /\ n <= Len(replayed) \/ n <= Len(chosen)
    /\ \A k \in 1..n : Covered(k)

\* The session table knows the highest number of each client executed.
SessionsRight ==
    /\ \A c \in DOMAIN sessions :
         \E x \in executed : /\ Deserialize(x.entry).clientId = c /\ c # <<>>
                             /\ Deserialize(x.entry).seq = sessions[c]
    /\ \A x \in executed :
         Deserialize(x.entry).clientId # <<>> =>
           /\ Deserialize(x.entry).clientId \in DOMAIN sessions
           /\ Deserialize(x.entry).seq <= sessions[Deserialize(x.entry).clientId]

\* A loop has everything covered before the entry it is at, and that entry
\* too once it is applied or passed over.
LoopCovered(k) ==
    LET t == threads[k]
    IN  /\ t.at \in {"look", "run"} => CoveredUpTo(t.idx - 1)
        /\ t.at \in {"tell", "store"} => CoveredUpTo(t.idx)

Coverage ==
    /\ SessionsRight
    /\ CoveredUpTo(lastApplied)
    /\ \A k \in Thread : LoopCovered(k)

----------------------------------------------------------------------------
(* Retries.                                                                *)

SameRequest(a, b) == SameClient(a, b) /\ Deserialize(a).seq = Deserialize(b).seq

Running(k) == threads[k].at = "run"

Retries ==
    /\ RetriesNotApplied
    /\ \A k \in Thread, x \in executed :
         Running(k) /\ SameRequest(threads[k].entry, x.entry) => x.index = threads[k].idx
    /\ \A k, l \in Thread :
         Running(k) /\ Running(l) /\ SameRequest(threads[k].entry, threads[l].entry)
           => threads[k].idx = threads[l].idx

----------------------------------------------------------------------------
(* Answers.                                                                *)

\* raw is the request r as some leader has written it.
IsEntryOf(raw, r) == \E t \in Nat : raw = Stored(Command[r], t)

\* Only the leader in office has waiters; each is where its call thinks it is,
\* and waits for its own entry.
Waiters ==
    \A o \in 1..Len(objs) : \A w \in objs[o].pending :
      /\ role = "leader" /\ o = Len(objs)
      /\ calls[w[2]] = [at |-> "waiting", office |-> o, index |-> w[1]]
      /\ w[1] <= Len(log) /\ IsEntryOf(log[w[1]], w[2])

AnsweredRight ==
    \A r \in Request :
      calls[r].at = "done" =>
        calls[r].index \in 1..Len(chosen) /\ IsEntryOf(chosen[calls[r].index], r)

Recognises(raw, r) ==
    /\ Deserialize(raw).clientId = Command[r].clientId
    /\ Deserialize(raw).seq >= Command[r].seq

CachedRight ==
    \A r \in Request :
      calls[r].at = "cached" =>
        \/ \E k \in 1..Len(chosen) : Recognises(chosen[k], r)
        \/ \E lg \in starts : \E k \in 1..Len(lg) : Recognises(lg[k], r)

Answers == Waiters /\ AnsweredRight /\ CachedRight

----------------------------------------------------------------------------
(* The count.                                                              *)

Counted == {Deserialize(x.entry).data : x \in executed}

\* Within a day of the start the clock has not come round to a slot in use: the
\* counter is new, or it shows a minute l since the start and its slots are
\* those of minutes between the two.
Young(c) ==
    \/ c.minute = -1 /\ \A m \in Slot : c.slots[m] = {}
    \/ \E l \in since..minute :
         /\ c.minute = l % NumberOfSlots
         /\ \A m \in Slot : c.slots[m] # {} => \E t \in since..l : m = t % NumberOfSlots

Count ==
    /\ since <= minute
    /\ minute - since < NumberOfSlots =>
         /\ counter.present = Counted
         /\ IsFiniteSet(counter.present) /\ counter.value = Cardinality(counter.present)
         /\ Young(counter)

----------------------------------------------------------------------------
(* The encoding of log entries.                                            *)

\* A cell before a sequence: its length and its elements.
LEMMA HeadThenTail ==
    ASSUME NEW a \in Cell, NEW s \in Seq(Cell)
    PROVE  /\ <<a>> \o s \in Seq(Cell)
           /\ Len(<<a>> \o s) = 1 + Len(s)
           /\ (<<a>> \o s)[1] = a
           /\ \A i \in 1..Len(s) : (<<a>> \o s)[i + 1] = s[i]
           /\ SubSeq(<<a>> \o s, 2, Len(<<a>> \o s)) = s
  <1> DEFINE t == <<a>> \o s
  <1>1. <<a>> \in Seq(Cell) /\ Len(<<a>>) = 1 /\ <<a>>[1] = a
    OBVIOUS
  <1>2. t \in Seq(Cell) /\ Len(t) = 1 + Len(s)
    BY <1>1, ConcatProperties
  <1>3. \A i \in 1..Len(t) : t[i] = IF i <= 1 THEN <<a>>[i] ELSE s[i - 1]
    BY <1>1, ConcatProperties
  <1>4. Len(s) \in Nat
    BY LenProperties
  <1>5. t[1] = a /\ \A i \in 1..Len(s) : t[i + 1] = s[i]
    BY <1>1, <1>2, <1>3, <1>4
  <1>6. SubSeq(t, 2, Len(t)) = s
    <2>1. /\ SubSeq(t, 2, Len(t)) \in Seq(Cell)
          /\ Len(SubSeq(t, 2, Len(t))) = Len(s)
          /\ \A i \in 1..Len(s) : SubSeq(t, 2, Len(t))[i] = t[i + 1]
      BY <1>2, <1>4, SubSeqProperties
    <2> QED
      BY <2>1, <1>5, SeqEqual
  <1> QED
    BY <1>2, <1>5, <1>6

\* The format of an entry that is stored with its session.
SessionForm(t, c, q, d) == <<t, Len(c)>> \o c \o <<q>> \o d

\* Such an entry is recognised by its client id's length and read back.
LEMMA SessionReadBack ==
    ASSUME NEW t \in Cell, NEW c \in Seq(Cell), NEW q \in Cell, NEW d \in Seq(Cell),
           c # <<>>, Len(c) <= MaxClientIdLen
    PROVE  Deserialize(SessionForm(t, c, q, d))
             = [term |-> t, clientId |-> c, seq |-> q, data |-> d]
  <1> DEFINE h == <<t, Len(c)>>
             p == h \o c
             r == p \o <<q>>
             n == Len(c)
  <1>0. PICK raw : raw = SessionForm(t, c, q, d)
    OBVIOUS
  <1>1. n \in Nat /\ n > 0 /\ n <= MaxClientIdLen /\ Len(d) \in Nat /\ n \in Cell
    BY LenProperties, EmptySeq DEF Cell
  <1>2. h \in Seq(Cell) /\ Len(h) = 2 /\ h[1] = t /\ h[2] = n
    BY <1>1
  <1>3. <<q>> \in Seq(Cell) /\ Len(<<q>>) = 1 /\ <<q>>[1] = q
    OBVIOUS
  <1> HIDE DEF h, n
  <1>4. /\ p \in Seq(Cell) /\ Len(p) = 2 + n
        /\ \A i \in 1 .. 2 + n : p[i] = IF i <= 2 THEN h[i] ELSE c[i - 2]
    <2>1. /\ p \in Seq(Cell) /\ Len(p) = Len(h) + Len(c)
          /\ \A i \in 1 .. Len(h) + Len(c) :
                p[i] = IF i <= Len(h) THEN h[i] ELSE c[i - Len(h)]
      BY <1>2, ConcatProperties
    <2> QED
      BY <2>1, <1>2 DEF n
  <1> HIDE DEF p
  <1>5. /\ r \in Seq(Cell) /\ Len(r) = 3 + n
        /\ \A i \in 1 .. 3 + n : r[i] = IF i <= 2 + n THEN p[i] ELSE <<q>>[i - (2 + n)]
    <2>1. /\ r \in Seq(Cell) /\ Len(r) = Len(p) + 1
          /\ \A i \in 1 .. Len(p) + 1 : r[i] = IF i <= Len(p) THEN p[i] ELSE <<q>>[i - Len(p)]
      BY <1>3, <1>4, ConcatProperties
    <2> QED
      BY <2>1, <1>4, <1>1
  <1> HIDE DEF r
  <1>6. /\ raw \in Seq(Cell) /\ Len(raw) = 3 + n + Len(d)
        /\ \A i \in 1 .. 3 + n + Len(d) : raw[i] = IF i <= 3 + n THEN r[i] ELSE d[i - (3 + n)]
    <2>1. raw = r \o d
      BY <1>0 DEF r, p, h, n, SessionForm
    <2>2. /\ r \o d \in Seq(Cell) /\ Len(r \o d) = Len(r) + Len(d)
          /\ \A i \in 1 .. Len(r) + Len(d) :
                (r \o d)[i] = IF i <= Len(r) THEN r[i] ELSE d[i - Len(r)]
      BY <1>5, ConcatProperties
    <2> QED
      BY <2>1, <2>2, <1>5
  <1>7. raw[1] = t /\ raw[2] = n
    BY <1>1, <1>2, <1>4, <1>5, <1>6
  <1>8. raw[3 + n] = q
    <2>1. (3 + n) - (2 + n) = 1 /\ 3 + n \in 1 .. 3 + n + Len(d) /\ 3 + n \in 1 .. 3 + n
          /\ ~(3 + n <= 2 + n)
      BY <1>1
    <2>2. raw[3 + n] = r[3 + n]
      BY <2>1, <1>1, <1>6
    <2>3. r[3 + n] = <<q>>[1]
      BY <2>1, <1>5
    <2> QED
      BY <2>2, <2>3, <1>3
  <1>9. \A i \in 1..n : raw[2 + i] = c[i]
    BY <1>1, <1>4, <1>5, <1>6
  <1>10. \A i \in 1..Len(d) : raw[3 + n + i] = d[i]
    BY <1>1, <1>6
  <1>11. LooksLikeSession(raw)
    BY <1>1, <1>6, <1>7, ClientIdAssumption DEF LooksLikeSession
  <1>12. \A i \in 1..Len(raw) : raw[i] \in Cell
    BY <1>6, ElementOfSeq
  <1>13. SubSeq(raw, 3, 2 + n) = c
    <2>1. \A i \in 3 .. 2 + n : raw[i] \in Cell
      BY <1>1, <1>6, <1>12
    <2>2. /\ SubSeq(raw, 3, 2 + n) \in Seq(Cell)
          /\ Len(SubSeq(raw, 3, 2 + n)) = n
          /\ \A i \in 1..n : SubSeq(raw, 3, 2 + n)[i] = raw[2 + i]
      BY <2>1, <1>1, SubSeqProperties
    <2>3. \A i \in 1..n : SubSeq(raw, 3, 2 + n)[i] = c[i]
      BY <2>2, <1>9
    <2> QED
      BY <2>2, <2>3, SeqEqual DEF n
  <1>14. SubSeq(raw, 4 + n, Len(raw)) = d
    <2> DEFINE tail == SubSeq(raw, 4 + n, Len(raw))
    <2>1. \A i \in 4 + n .. Len(raw) : raw[i] \in Cell
      BY <1>1, <1>6, <1>12
    <2>2. /\ tail \in Seq(Cell)
          /\ Len(tail) = Len(d)
          /\ \A i \in 1..Len(d) : tail[i] = raw[3 + n + i]
      BY <2>1, <1>1, <1>6, SubSeqProperties
    <2>3. \A i \in 1..Len(d) : tail[i] = d[i]
      BY <2>2, <1>10
    <2> QED
      BY <2>2, <2>3, SeqEqual
  <1>15. Deserialize(raw) = [term |-> t, clientId |-> c, seq |-> q, data |-> d]
    BY <1>6, <1>7, <1>8, <1>11, <1>13, <1>14 DEF Deserialize
  <1> QED
    BY <1>0, <1>15

\* DeserializeLogEntry returns the entry that Serialize was given, whatever its
\* client id, sequence number and data, as long as the two formats can be told
\* apart (log_entry.go:16-86).
THEOREM RoundTrip ==
    ASSUME NEW e \in LogEntry, Unambiguous(e)
    PROVE  Deserialize(Serialize(e)) = e
  <1> DEFINE raw == Serialize(e)
             t == e.term
             c == e.clientId
             q == e.seq
             d == e.data
  <1>1. t \in Cell /\ c \in Seq(Cell) /\ q \in Cell /\ d \in Seq(Cell)
    BY DEF LogEntry
  <1>2. e = [term |-> t, clientId |-> c, seq |-> q, data |-> d]
    BY DEF LogEntry
  <1>3. Len(c) \in Nat /\ Len(d) \in Nat /\ (c # <<>> => Len(c) > 0)
    BY <1>1, LenProperties, EmptySeq
  <1> HIDE DEF t, c, q, d
  <1>4. CASE c = <<>>
    <2>1. q = 0 /\ raw = <<t>> \o d /\ ~LooksLikeSession(raw)
      BY <1>4 DEF Unambiguous, Serialize, t, c, q, d
    <2>2. raw[1] = t /\ SubSeq(raw, 2, Len(raw)) = d
      BY <2>1, <1>1, HeadThenTail
    <2>3. Deserialize(raw) = [term |-> t, clientId |-> <<>>, seq |-> 0, data |-> d]
      BY <2>1, <2>2 DEF Deserialize
    <2> QED
      BY <2>1, <2>3, <1>2, <1>4
  <1>5. CASE c # <<>>
    <2>1. raw = SessionForm(t, c, q, d) /\ Len(c) <= MaxClientIdLen
      BY <1>5 DEF Unambiguous, Serialize, SessionForm, t, c, q, d
    <2> HIDE DEF raw
    <2>2. Deserialize(raw) = [term |-> t, clientId |-> c, seq |-> q, data |-> d]
      BY <2>1, <1>1, <1>5, SessionReadBack
    <2> QED
      BY <2>2, <1>2 DEF raw
  <1> QED
    BY <1>4, <1>5
----------------------------------------------------------------------------
(* What the operators of the model return.                                 *)

\* The parts of an entry that is read have their types, whatever was stored.
LEMMA PartsOK ==
    ASSUME NEW raw \in Seq(Cell)
    PROVE  /\ Deserialize(raw).clientId \in Seq(Cell)
           /\ Deserialize(raw).seq \in Nat
           /\ Deserialize(raw).data \in Seq(Cell)
  <1>1. Len(raw) \in Nat /\ \A i \in 1..Len(raw) : raw[i] \in Cell
    BY LenProperties, ElementOfSeq
  <1>2. CASE LooksLikeSession(raw)
    <2> DEFINE n == raw[2]
    <2>1. n \in Nat /\ n > 0 /\ 3 + n <= Len(raw)
      BY <1>1, <1>2 DEF LooksLikeSession, Cell
    <2>2. /\ Deserialize(raw).clientId = SubSeq(raw, 3, 2 + n)
          /\ Deserialize(raw).seq = raw[3 + n]
          /\ Deserialize(raw).data = SubSeq(raw, 4 + n, Len(raw))
      BY <1>2 DEF Deserialize
    <2> HIDE DEF n
    <2>3. /\ \A i \in 3 .. (2 + n) : raw[i] \in Cell
          /\ \A i \in (4 + n) .. Len(raw) : raw[i] \in Cell
          /\ raw[3 + n] \in Cell
      BY <1>1, <2>1
    <2>4. SubSeq(raw, 3, 2 + n) \in Seq(Cell)
      BY <2>1, <2>3, SubSeqProperties
    <2>5. SubSeq(raw, 4 + n, Len(raw)) \in Seq(Cell)
      BY <1>1, <2>1, <2>3, SubSeqProperties
    <2> QED BY <2>2, <2>3, <2>4, <2>5 DEF Cell
  <1>3. CASE ~LooksLikeSession(raw)
    <2>1. /\ Deserialize(raw).clientId = <<>> /\ Deserialize(raw).seq = 0
          /\ Deserialize(raw).data = SubSeq(raw, 2, Len(raw))
      BY <1>3 DEF Deserialize
    <2>2. \A i \in 2..Len(raw) : raw[i] \in Cell
      BY <1>1
    <2>3. SubSeq(raw, 2, Len(raw)) \in Seq(Cell)
      BY <1>1, <2>2, SubSeqProperties
    <2> QED BY <2>1, <2>3
  <1> QED BY <1>2, <1>3

\* An entry of a session, cell by cell.
LEMMA SessionCells ==
    ASSUME NEW t \in Cell, NEW c \in Seq(Cell), NEW q \in Cell, NEW d \in Seq(Cell)
    PROVE  LET raw == SessionForm(t, c, q, d)
               n == Len(c)
           IN  /\ raw \in Seq(Cell) /\ Len(raw) = 3 + n + Len(d)
               /\ \A i \in 2..Len(raw) :
                    raw[i] = IF i = 2 THEN n
                             ELSE IF i <= 2 + n THEN c[i - 2]
                             ELSE IF i = 3 + n THEN q ELSE d[i - (3 + n)]
  <1> DEFINE h == <<t, Len(c)>>
             p == h \o c
             r == p \o <<q>>
             raw == r \o d
             n == Len(c)
  <1>1. n \in Nat /\ Len(d) \in Nat /\ n \in Cell
    BY LenProperties DEF Cell
  <1>2. h \in Seq(Cell) /\ Len(h) = 2 /\ h[1] = t /\ h[2] = n
    BY <1>1
  <1>3. <<q>> \in Seq(Cell) /\ Len(<<q>>) = 1 /\ <<q>>[1] = q
    OBVIOUS
  <1>4. SessionForm(t, c, q, d) = raw
    BY DEF SessionForm
  <1> HIDE DEF h, n
  <1>5. /\ p \in Seq(Cell) /\ Len(p) = 2 + n
        /\ \A i \in 1 .. 2 + n : p[i] = IF i <= 2 THEN h[i] ELSE c[i - 2]
    <2>1. /\ p \in Seq(Cell) /\ Len(p) = Len(h) + Len(c)
          /\ \A i \in 1 .. Len(h) + Len(c) :
                p[i] = IF i <= Len(h) THEN h[i] ELSE c[i - Len(h)]
      BY <1>2, ConcatProperties
    <2> QED BY <2>1, <1>2 DEF n
  <1> HIDE DEF p
  <1>6. /\ r \in Seq(Cell) /\ Len(r) = 3 + n
        /\ \A i \in 1 .. 3 + n : r[i] = IF i <= 2 + n THEN p[i] ELSE <<q>>[i - (2 + n)]
    <2>1. /\ r \in Seq(Cell) /\ Len(r) = Len(p) + 1
          /\ \A i \in 1 .. Len(p) + 1 : r[i] = IF i <= Len(p) THEN p[i] ELSE <<q>>[i - Len(p)]
      BY <1>3, <1>5, ConcatProperties
    <2> QED BY <2>1, <1>5, <1>1
  <1>7. r[3 + n] = q
    <2>1. (3 + n) - (2 + n) = 1 /\ 3 + n \in 1 .. 3 + n /\ ~(3 + n <= 2 + n)
      BY <1>1
    <2> QED BY <2>1, <1>6, <1>3
  <1> HIDE DEF r
  <1>8. /\ raw \in Seq(Cell) /\ Len(raw) = 3 + n + Len(d)
        /\ \A i \in 1 .. 3 + n + Len(d) : raw[i] = IF i <= 3 + n THEN r[i] ELSE d[i - (3 + n)]
    <2>1. /\ raw \in Seq(Cell) /\ Len(raw) = Len(r) + Len(d)
          /\ \A i \in 1 .. Len(r) + Len(d) : raw[i] = IF i <= Len(r) THEN r[i] ELSE d[i - Len(r)]
      BY <1>6, ConcatProperties
    <2> QED BY <2>1, <1>6
  <1> HIDE DEF raw
  <1>9. ASSUME NEW i \in 2..Len(raw)
        PROVE  raw[i] = IF i = 2 THEN n
                        ELSE IF i <= 2 + n THEN c[i - 2]
                        ELSE IF i = 3 + n THEN q ELSE d[i - (3 + n)]
    BY <1>1, <1>2, <1>5, <1>6, <1>7, <1>8
  <1> QED BY <1>4, <1>8, <1>9 DEF n

\* The client id, the number and the data that are read do not depend on the
\* first cell, which is the term.
LEMMA TermAside ==
    ASSUME NEW a \in Seq(Cell), NEW b \in Seq(Cell), Len(a) = Len(b),
           \A i \in 2..Len(a) : a[i] = b[i]
    PROVE  Deserialize(a).data = Deserialize(b).data
  <1>1. Len(a) \in Nat /\ \A i \in 1..Len(a) : a[i] \in Cell /\ b[i] \in Cell
    BY LenProperties, ElementOfSeq
  <1>2. LooksLikeSession(a) = LooksLikeSession(b)
    BY <1>1 DEF LooksLikeSession, Cell
  <1>3. ASSUME NEW m \in Nat, m >= 2
        PROVE  SubSeq(a, m, Len(a)) = SubSeq(b, m, Len(b))
    <2> DEFINE s == SubSeq(a, m, Len(a))
               u == SubSeq(b, m, Len(b))
    <2>1. /\ \A i \in m..Len(a) : a[i] \in Cell
          /\ \A i \in m..Len(b) : b[i] \in Cell
      BY <1>1, <1>3
    <2>2. /\ s \in Seq(Cell) /\ Len(s) = (IF m <= Len(a) THEN Len(a) - m + 1 ELSE 0)
          /\ \A i \in 1 .. Len(a) - m + 1 : s[i] = a[m + i - 1]
      BY <1>1, <2>1, SubSeqProperties
    <2>3. /\ u \in Seq(Cell) /\ Len(u) = (IF m <= Len(b) THEN Len(b) - m + 1 ELSE 0)
          /\ \A i \in 1 .. Len(b) - m + 1 : u[i] = b[m + i - 1]
      BY <1>1, <2>1, SubSeqProperties
    <2> HIDE DEF s, u
    <2>4. Len(s) = Len(u)
      BY <2>2, <2>3
    <2>5. ASSUME NEW i \in 1..Len(s) PROVE s[i] = u[i]
      <3>1. m <= Len(a) /\ i \in 1 .. Len(a) - m + 1 /\ m + i - 1 \in 2..Len(a)
        BY <1>1, <1>3, <2>2
      <3>2. s[i] = a[m + i - 1] /\ u[i] = b[m + i - 1]
        BY <2>2, <2>3, <3>1
      <3> QED BY <3>1, <3>2
    <2>6. s = u
      BY <2>2, <2>3, <2>4, <2>5, SeqEqual
    <2> QED BY <2>6 DEF s, u
  <1>4. CASE LooksLikeSession(a)
    <2>1. a[2] \in Nat /\ b[2] = a[2]
      BY <1>1, <1>4 DEF LooksLikeSession, Cell
    <2>2. /\ Deserialize(a).data = SubSeq(a, 4 + a[2], Len(a))
          /\ Deserialize(b).data = SubSeq(b, 4 + b[2], Len(b))
      BY <1>2, <1>4 DEF Deserialize
    <2>3. SubSeq(a, 4 + a[2], Len(a)) = SubSeq(b, 4 + a[2], Len(b))
      BY <1>3, <2>1
    <2> QED BY <2>1, <2>2, <2>3
  <1>5. CASE ~LooksLikeSession(a)
    <2>1. /\ Deserialize(a).data = SubSeq(a, 2, Len(a))
          /\ Deserialize(b).data = SubSeq(b, 2, Len(b))
      BY <1>2, <1>5 DEF Deserialize
    <2> QED BY <2>1, <1>3
  <1> QED BY <1>4, <1>5

\* A stored request is a sequence of cells with data that can be counted.
LEMMA StoredOK ==
    ASSUME NEW r \in Request, NEW t \in Nat
    PROVE  Stored(Command[r], t) \in Seq(Cell) /\ Payload(Stored(Command[r], t))
  <1> DEFINE c == Command[r].clientId
             q == Command[r].seq
             d == Command[r].data
  <1>1. c \in Seq(Cell) /\ q \in Cell /\ d \in Seq(Cell) /\ t \in Cell /\ 0 \in Cell
    BY ServingAssumption DEF Session, Cell
  <1>2. Len(c) \in Nat /\ Len(d) \in Nat
    BY <1>1, LenProperties
  <1> DEFINE a == Stored(Command[r], t)
             b == Stored(Command[r], 0)
  <1>3. /\ a \in Seq(Cell) /\ b \in Seq(Cell)
        /\ Len(a) = Len(b) /\ \A i \in 2..Len(a) : a[i] = b[i]
    <2>1. CASE c = <<>> /\ q = 0
      <3>1. a = <<t>> \o d /\ b = <<0>> \o d
        BY <2>1 DEF Stored, Serialize
      <3>2. /\ <<t>> \o d \in Seq(Cell) /\ Len(<<t>> \o d) = 1 + Len(d)
            /\ <<0>> \o d \in Seq(Cell) /\ Len(<<0>> \o d) = 1 + Len(d)
            /\ \A i \in 1..Len(d) : (<<t>> \o d)[i + 1] = d[i] /\ (<<0>> \o d)[i + 1] = d[i]
        BY <1>1, HeadThenTail
      <3> HIDE DEF a, b, d
      <3>3. ASSUME NEW i \in 2..Len(a) PROVE a[i] = b[i]
        <4>1. i - 1 \in 1..Len(d) /\ (i - 1) + 1 = i
          BY <1>2, <3>1, <3>2
        <4> QED BY <3>1, <3>2, <4>1
      <3> QED BY <3>1, <3>2, <3>3
    <2>2. CASE ~(c = <<>> /\ q = 0)
      <3>1. a = SessionForm(t, c, q, d) /\ b = SessionForm(0, c, q, d)
        BY <2>2 DEF Stored, Serialize, SessionForm
      <3> HIDE DEF a, b, c, q, d
      <3>2. /\ a \in Seq(Cell) /\ Len(a) = 3 + Len(c) + Len(d)
            /\ b \in Seq(Cell) /\ Len(b) = 3 + Len(c) + Len(d)
        BY <1>1, <3>1, SessionCells
      <3>3. \A i \in 2..Len(a) :
              a[i] = IF i = 2 THEN Len(c)
                     ELSE IF i <= 2 + Len(c) THEN c[i - 2]
                     ELSE IF i = 3 + Len(c) THEN q ELSE d[i - (3 + Len(c))]
        BY <1>1, <3>1, SessionCells
      <3>4. \A i \in 2..Len(b) :
              b[i] = IF i = 2 THEN Len(c)
                     ELSE IF i <= 2 + Len(c) THEN c[i - 2]
                     ELSE IF i = 3 + Len(c) THEN q ELSE d[i - (3 + Len(c))]
        BY <1>1, <3>1, SessionCells
      <3> QED BY <3>2, <3>3, <3>4
    <2> QED BY <2>1, <2>2
  <1>4. Deserialize(a).data = Deserialize(b).data
    <2> HIDE DEF a, b
    <2> QED BY <1>3, TermAside
  <1>5. Deserialize(b).data \in Id
    BY ServingAssumption
  <1> QED BY <1>3, <1>4, <1>5 DEF Payload

\* A no-op has no data.
LEMMA NoOpOK ==
    ASSUME NEW t \in Nat
    PROVE  NoOp(t) \in Seq(Cell) /\ Payload(NoOp(t))
  <1> DEFINE e == [term |-> t, clientId |-> <<>>, seq |-> 0, data |-> <<>>]
  <1>1. t \in Cell /\ <<>> \in Seq(Cell) /\ Len(<<>>) = 0 /\ 0 \in Cell
    BY DEF Cell
  <1>2. /\ <<t>> \o <<>> \in Seq(Cell)
        /\ Len(<<t>> \o <<>>) = 1 + Len(<<>>)
    BY <1>1, HeadThenTail
  <1>3. NoOp(t) = Serialize(e) /\ Serialize(e) = <<t>> \o <<>>
    BY DEF NoOp, Serialize
  <1>4. ~LooksLikeSession(<<t>> \o <<>>)
    BY <1>1, <1>2 DEF LooksLikeSession
  <1>5. e \in LogEntry /\ Unambiguous(e)
    BY <1>1, <1>4 DEF LogEntry, Unambiguous
  <1>6. Deserialize(Serialize(e)) = e
    BY <1>5, RoundTrip
  <1>7. Deserialize(NoOp(t)).data = <<>>
    BY <1>3, <1>6
  <1> QED BY <1>2, <1>3, <1>7 DEF Payload

\* What Apply makes of a counter: it moves to the minute, and counts the id
\* unless it is present.
LEMMA ApplyOK ==
    ASSUME NEW c \in CounterState, NEW id \in Id, NEW t \in Nat
    PROVE  LET m == t % NumberOfSlots
               d == MoveTo(c, m)
               e == Apply(c, id, t)
           IN  /\ m \in Slot /\ d \in CounterState /\ e \in CounterState
               /\ d.minute = m /\ d.value = c.value
               /\ id \in d.present => e = d
               /\ id \notin d.present =>
                    /\ e.minute = m /\ e.value = c.value + 1
                    /\ e.present = d.present \cup {id}
                    /\ \A k \in Slot : k # m => e.slots[k] = d.slots[k]
  <1> DEFINE m == t % NumberOfSlots
             M == MinutesPassed(c.minute, m)
             d == MoveTo(c, m)
             e == Apply(c, id, t)
             added == [d EXCEPT !.present = @ \cup {id}, !.slots[m] = @ \cup {id},
                                !.value = @ + 1]
  <1>1. m \in Slot /\ M \subseteq Slot
    BY SlotsAssumption DEF Slot, MinutesPassed
  <1>2. c.value \in Nat /\ ~(c.value + 1 < 0)
    BY DEF CounterState
  <1>3. /\ ClearMinutes(c, M) \in CounterState
        /\ ClearMinutes(c, M).value = c.value
    BY DEF ClearMinutes, CounterState
  <1>4. d \in CounterState /\ d.minute = m /\ d.value = c.value
    <2> HIDE DEF M, m
    <2> QED BY <1>1, <1>3 DEF MoveTo, CounterState, M
  <1>5. e = IF id \in d.present THEN d ELSE added
    BY <1>2 DEF Apply, Increment
  <1> HIDE DEF d, m, e
  <1>6. CASE id \in d.present
    BY <1>1, <1>4, <1>5, <1>6 DEF d, m, e
  <1>7. CASE id \notin d.present
    <2> DEFINE P == d.present \cup {id}
               S == [d.slots EXCEPT ![m] = @ \cup {id}]
               v == d.value + 1
    <2>1. d.present \in SUBSET Id /\ d.slots \in [Slot -> SUBSET Id]
      BY <1>4 DEF CounterState
    <2>2. P \in SUBSET Id /\ S \in [Slot -> SUBSET Id] /\ v \in Nat
      BY <2>1, <1>1, <1>2, <1>4
    <2>3. \A k \in Slot : k # m => S[k] = d.slots[k]
      BY <2>1
    <2>4. added = [d EXCEPT !.present = P, !.slots = S, !.value = v]
      BY <1>4 DEF CounterState
    <2> HIDE DEF P, S, v, added
    <2>5. /\ added \in CounterState /\ added.present = P /\ added.slots = S
          /\ added.value = v /\ added.minute = d.minute
      BY <2>2, <2>4, <1>4 DEF CounterState
    <2> QED BY <1>1, <1>4, <1>5, <1>7, <2>3, <2>5 DEF P, v, d, m, e
  <1> QED BY <1>6, <1>7

\* The session table stays one.
LEMMA RecordOK ==
    ASSUME NEW table, DOMAIN table \subseteq Seq(Cell), \A x \in DOMAIN table : table[x] \in Nat,
           NEW client \in Seq(Cell), NEW seq \in Nat
    PROVE  LET new == Record(table, client, seq)
           IN  DOMAIN new \subseteq Seq(Cell) /\ \A x \in DOMAIN new : new[x] \in Nat
  BY DEF Record

\* One element of a sequence is replaced.
LEMMA OneChanged ==
    ASSUME NEW S, NEW s \in Seq(S), NEW k, NEW v, k \in 1..Len(s) => v \in S
    PROVE  LET u == [s EXCEPT ![k] = v]
           IN  /\ u \in Seq(S) /\ Len(u) = Len(s)
               /\ \A i \in 1..Len(s) : u[i] = IF i = k THEN v ELSE s[i]
  <1> DEFINE u == [s EXCEPT ![k] = v]
  <1>1. Len(s) \in Nat /\ DOMAIN s = 1..Len(s) /\ \A i \in 1..Len(s) : s[i] \in S
    BY LenProperties, ElementOfSeq
  <1>2. u \in [1..Len(s) -> S]
    BY <1>1
  <1>3. u \in Seq(S) /\ Len(u) = Len(s)
    BY <1>1, <1>2
  <1> QED BY <1>1, <1>3

----------------------------------------------------------------------------
(* Shape.                                                                  *)

\* The types that most steps need.
LEMMA Types ==
    ASSUME TypeOK
    PROVE  /\ log \in Seq(Seq(Cell)) /\ chosen \in Seq(Seq(Cell)) /\ replayed \in Seq(Seq(Cell))
           /\ Len(log) \in Nat /\ Len(chosen) \in Nat /\ Len(replayed) \in Nat /\ Len(objs) \in Nat
           /\ \A i \in 1..Len(log) : log[i] \in Seq(Cell)
           /\ objs \in Seq(LeaderObject) /\ \A o \in 1..Len(objs) : objs[o] \in LeaderObject
           /\ threads \in [Thread -> ThreadState] /\ calls \in [Request -> CallState]
           /\ \A k \in Thread : /\ threads[k] \in ThreadState
                                /\ threads[k].idx \in Nat /\ threads[k].limit \in Nat
                                /\ threads[k].entry \in Seq(Cell)
           /\ \A r \in Request : calls[r] \in CallState
           /\ commitIndex \in Nat /\ lastApplied \in Nat /\ term \in Nat
           /\ minute \in Nat /\ since \in Nat
           /\ starts \subseteq Seq(Seq(Cell)) /\ replayed \in starts
           /\ \A lg \in starts : Len(lg) \in Nat
           /\ counter \in CounterState /\ executed \subseteq Execution
           /\ DOMAIN sessions \subseteq Seq(Cell) /\ \A c \in DOMAIN sessions : sessions[c] \in Nat
  <1>1. /\ log \in Seq(Seq(Cell)) /\ chosen \in Seq(Seq(Cell)) /\ replayed \in Seq(Seq(Cell))
        /\ objs \in Seq(LeaderObject)
    BY DEF TypeOK
  <1>2. /\ Len(log) \in Nat /\ Len(chosen) \in Nat /\ Len(replayed) \in Nat /\ Len(objs) \in Nat
        /\ \A i \in 1..Len(log) : log[i] \in Seq(Cell)
        /\ \A o \in 1..Len(objs) : objs[o] \in LeaderObject
    BY <1>1, LenProperties, ElementOfSeq
  <1>3. /\ threads \in [Thread -> ThreadState] /\ calls \in [Request -> CallState]
        /\ commitIndex \in Nat /\ lastApplied \in Nat /\ term \in Nat
        /\ minute \in Nat /\ since \in Nat
        /\ starts \subseteq Seq(Seq(Cell)) /\ replayed \in starts
        /\ counter \in CounterState /\ executed \subseteq Execution
        /\ DOMAIN sessions \subseteq Seq(Cell) /\ \A c \in DOMAIN sessions : sessions[c] \in Nat
    BY DEF TypeOK
  <1>4. \A k \in Thread : /\ threads[k] \in ThreadState
                          /\ threads[k].idx \in Nat /\ threads[k].limit \in Nat
                          /\ threads[k].entry \in Seq(Cell)
    BY <1>3 DEF ThreadState
  <1>5. \A lg \in starts : Len(lg) \in Nat
    BY <1>3, LenProperties
  <1> QED BY <1>1, <1>2, <1>3, <1>4, <1>5

\* An event is counted.
LEMMA Happened ==
    ASSUME TypeOK, NEW e \in EventKind, Happen(e)
    PROVE  events' \in [EventKind -> Nat]
  <1>1. events \in [EventKind -> Nat]
    BY DEF TypeOK
  <1> QED BY <1>1 DEF Happen

LEMMA IdleOK == Idle \in ThreadState /\ Idle.at = "off"
  BY DEF Idle, ThreadState, Cell

\* The waiters of an object, its token or its stop are changed, nothing else.
LEMMA ObjectChanged ==
    ASSUME TypeOK, NEW k, NEW v, objs' = [objs EXCEPT ![k] = v],
           k \in 1..Len(objs) => v \in LeaderObject
    PROVE  /\ objs' \in Seq(LeaderObject) /\ Len(objs') = Len(objs)
           /\ \A i \in 1..Len(objs) : objs'[i] = IF i = k THEN v ELSE objs[i]
           /\ objs' = <<>> <=> objs = <<>>
  <1>1. objs \in Seq(LeaderObject)
    BY Types
  <1>2. /\ objs' \in Seq(LeaderObject) /\ Len(objs') = Len(objs)
        /\ \A i \in 1..Len(objs) : objs'[i] = IF i = k THEN v ELSE objs[i]
    BY <1>1, OneChanged
  <1> QED BY <1>1, <1>2, EmptySeq

\* The role is left: the current object, if there is one, is stopped.
LEMMA RoleLeft ==
    ASSUME TypeOK, LeaveRole
    PROVE  /\ objs' \in Seq(LeaderObject) /\ Len(objs') = Len(objs)
           /\ calls' \in [Request -> CallState]
           /\ objs' = <<>> <=> objs = <<>>
  <1>1. CASE role = "leader"
    <2> DEFINE v == [objs[Current] EXCEPT !.stopped = TRUE, !.pending = {}]
    <2>1. objs' = [objs EXCEPT ![Current] = v] /\ calls' = WaitersRefused(Current)
      BY <1>1 DEF LeaveRole, Stopped
    <2>2. Current \in 1..Len(objs) => v \in LeaderObject
      BY Types DEF LeaderObject
    <2>3. calls' \in [Request -> CallState]
      BY <2>1, Types DEF WaitersRefused, Refused, CallState
    <2> HIDE DEF v
    <2> QED BY <2>1, <2>2, <2>3, ObjectChanged
  <1>2. CASE role # "leader"
    BY <1>2, Types DEF LeaveRole
  <1> QED BY <1>1, <1>2

\* What is left of a shape when a step does not touch the log and the threads.
LEMMA ShapeKept ==
    ASSUME Shape, UNCHANGED <<log, threads, starting>>, TypeOK',
           Len(objs') = Len(objs), objs' = <<>> <=> objs = <<>>,
           role' = "leader" => role = "leader"
    PROVE  Shape'
  <1>1. Goroutines'
    BY DEF Shape, Goroutines
  <1>2. Payloads'
    BY DEF Shape, Payloads
  <1> QED BY <1>1, <1>2 DEF Shape

LEMMA InitShape == Init => Shape
  <1> SUFFICES ASSUME Init PROVE Shape
    OBVIOUS
  <1>1. NewCounter \in CounterState
    BY DEF NewCounter, CounterState
  <1>2. <<>> \in Seq(Seq(Cell)) /\ <<>> \in Seq(LeaderObject) /\ Len(<<>>) = 0
    OBVIOUS
  <1>3. NumberOfSlots - 1 \in Nat
    BY SlotsAssumption
  <1>4. TypeOK
    BY <1>1, <1>2, <1>3, IdleOK DEF Init, TypeOK, NewSessionTable, CallState
  <1>5. Goroutines
    BY <1>2, IdleOK DEF Init, Goroutines
  <1>6. Payloads
    BY <1>2, IdleOK DEF Init, Payloads
  <1> QED BY <1>4, <1>5, <1>6 DEF Shape

\* An entry is written at the end of the log.
LEMMA Longer ==
    ASSUME NEW lg \in Seq(Seq(Cell)), NEW raw \in Seq(Cell)
    PROVE  /\ Append(lg, raw) \in Seq(Seq(Cell))
           /\ Len(Append(lg, raw)) = Len(lg) + 1 /\ Len(lg) \in Nat
           /\ \A i \in 1..Len(lg) : Append(lg, raw)[i] = lg[i]
           /\ Append(lg, raw)[Len(lg) + 1] = raw
  BY AppendProperties, LenProperties

LEMMA CallShape ==
    ASSUME Shape, NEW r \in Request, Check(r) \/ Lookup(r) \/ Reject(r)
    PROVE  Shape'
  <1>1. TypeOK
    BY DEF Shape
  <1>2. /\ UNCHANGED <<storeVars, lastApplied, roleVars, objs, threads, fsmVars, minute, chosen>>
        /\ calls' \in [Request -> CallState] /\ events' \in [EventKind -> Nat]
    <2>1. CASE Check(r)
      <3>1. events' \in [EventKind -> Nat]
        BY <2>1, <1>1, Happened DEF Check, EventKind
      <3> QED BY <2>1, <3>1, <1>1, Types DEF Check, CallState, Current
    <2>2. CASE Lookup(r)
      BY <2>2, <1>1, Types DEF Lookup, CallState, End, TypeOK
    <2>3. CASE Reject(r)
      BY <2>3, <1>1, Types DEF Reject, CallState, End, TypeOK
    <2> QED BY <2>1, <2>2, <2>3
  <1>3. TypeOK'
    BY <1>1, <1>2 DEF TypeOK, storeVars, roleVars, fsmVars
  <1> QED BY <1>2, <1>3, ShapeKept DEF storeVars, roleVars

LEMMA SubmitShape ==
    ASSUME Shape, NEW r \in Request, Submit(r)
    PROVE  Shape'
  <1> DEFINE raw == Stored(Command[r], term)
             v == [objs[Current] EXCEPT !.pending = @ \cup {<<Len(log) + 1, r>>},
                                        !.match = Len(log) + 1]
  <1>1. TypeOK
    BY DEF Shape
  <1>2. /\ log' = Append(log, raw) /\ objs' = [objs EXCEPT ![Current] = v]
        /\ calls' = [calls EXCEPT ![r].at = "waiting", ![r].index = Len(log) + 1]
        /\ UNCHANGED <<term, commitIndex, lastApplied, roleVars, threads, fsmVars, minute, chosen,
                       events>>
    BY DEF Submit, Registered
  <1>3. raw \in Seq(Cell) /\ Payload(raw)
    BY <1>1, Types, StoredOK
  <1>4. Current \in 1..Len(objs) => v \in LeaderObject
    <2>1. <<Len(log) + 1, r>> \in (Nat \ {0}) \X Request
      BY <1>1, Types
    <2> DEFINE w == <<Len(log) + 1, r>>
    <2> HIDE DEF w
    <2>2. PICK m \in Nat : m = Len(log) + 1
      BY <1>1, Types
    <2>3. Current \in 1..Len(objs) =>
            [objs[Current] EXCEPT !.pending = @ \cup {w}, !.match = m] \in LeaderObject
      BY <1>1, <2>1, <2>2, Types DEF LeaderObject, w
    <2> QED BY <2>2, <2>3 DEF w
  <1>5. calls' \in [Request -> CallState]
    <2>1. Len(log) + 1 \in Nat
      BY <1>1, Types
    <2>2. calls' = [calls EXCEPT ![r] = [calls[r] EXCEPT !.at = "waiting", !.index = Len(log) + 1]]
      BY <1>1, <1>2, Types
    <2>3. [calls[r] EXCEPT !.at = "waiting", !.index = Len(log) + 1] \in CallState
      BY <1>1, <2>1, Types DEF CallState
    <2> QED BY <1>1, <2>2, <2>3, Types
  <1> HIDE DEF raw, v
  <1>6. /\ log' \in Seq(Seq(Cell)) /\ Len(log') = Len(log) + 1
        /\ \A i \in 1..Len(log) : log'[i] = log[i]
        /\ log'[Len(log) + 1] = raw
    BY <1>1, <1>2, <1>3, Types, Longer
  <1>7. /\ objs' \in Seq(LeaderObject) /\ Len(objs') = Len(objs) /\ (objs' = <<>> <=> objs = <<>>)
    BY <1>1, <1>2, <1>4, ObjectChanged
  <1>8. TypeOK'
    BY <1>1, <1>2, <1>5, <1>6, <1>7 DEF TypeOK, storeVars, roleVars, fsmVars
  <1>9. Goroutines'
    BY <1>2, <1>7 DEF Shape, Goroutines, roleVars
  <1>10. Payloads'
    <2>1. \A i \in 1..Len(log') : i \in 1..Len(log) \/ i = Len(log) + 1
      BY <1>1, <1>6, Types
    <2>2. \A i \in 1..Len(log') : Payload(log'[i])
      BY <1>3, <1>6, <2>1 DEF Shape, Payloads
    <2> QED BY <1>2, <2>2 DEF Shape, Payloads, Payload
  <1> QED BY <1>8, <1>9, <1>10 DEF Shape

LEMMA GiveUpShape ==
    ASSUME Shape, NEW r \in Request, GiveUp(r)
    PROVE  Shape'
  <1> DEFINE o == calls[r].office
             v == [objs[o] EXCEPT !.pending = {w \in @ : w[2] # r}]
  <1>1. TypeOK
    BY DEF Shape
  <1>2. /\ objs' = [objs EXCEPT ![o] = v] /\ calls' = End(r, "refused")
        /\ events' \in [EventKind -> Nat]
        /\ UNCHANGED <<storeVars, lastApplied, roleVars, threads, fsmVars, minute, chosen>>
    BY <1>1, Happened DEF GiveUp, EventKind
  <1>3. o \in 1..Len(objs) => v \in LeaderObject
    BY <1>1, Types DEF LeaderObject
  <1>4. calls' \in [Request -> CallState]
    BY <1>1, <1>2, Types DEF CallState, End
  <1> HIDE DEF o, v
  <1>5. /\ objs' \in Seq(LeaderObject) /\ Len(objs') = Len(objs) /\ (objs' = <<>> <=> objs = <<>>)
    BY <1>1, <1>2, <1>3, ObjectChanged
  <1>6. TypeOK'
    BY <1>1, <1>2, <1>4, <1>5 DEF TypeOK, storeVars, roleVars, fsmVars
  <1> QED BY <1>2, <1>5, <1>6, ShapeKept DEF storeVars, roleVars

LEMMA ElectShape ==
    ASSUME Shape, Elect
    PROVE  Shape'
  <1> DEFINE raw == NoOp(term + 1)
             new == [pending |-> {}, wake |-> FALSE, stopped |-> FALSE, match |-> Len(log) + 1]
  <1>1. TypeOK /\ Goroutines /\ Payloads
    BY DEF Shape
  <1>2. /\ log' = Append(log, raw) /\ objs' = Append(objs, new) /\ term' = term + 1
        /\ role' = "leader" /\ threads' = [threads EXCEPT ![Len(objs) + 1].at = "wait"]
        /\ Len(objs) < MaxOffices /\ threads[0].at = "off"
        /\ events' \in [EventKind -> Nat]
        /\ UNCHANGED <<commitIndex, lastApplied, enabled, starting, calls, fsmVars, minute, chosen>>
    BY <1>1, Happened DEF Elect, Current, MuFree, EventKind
  <1>3. raw \in Seq(Cell) /\ Payload(raw) /\ term + 1 \in Nat
    <2>1. term + 1 \in Nat
      BY <1>1, Types
    <2> QED BY <2>1, NoOpOK
  <1>4. new \in LeaderObject
    BY <1>1, Types DEF LeaderObject
  <1> HIDE DEF raw, new
  <1>5. /\ log' \in Seq(Seq(Cell)) /\ Len(log') = Len(log) + 1
        /\ \A i \in 1..Len(log) : log'[i] = log[i]
        /\ log'[Len(log) + 1] = raw
    BY <1>1, <1>2, <1>3, Types, Longer
  <1>6. objs' \in Seq(LeaderObject) /\ Len(objs') = Len(objs) + 1
    BY <1>1, <1>2, <1>4, Types, AppendProperties
  <1>7. ~starting /\ objs' # <<>>
    <2>1. ~starting
      BY <1>1, <1>2 DEF Goroutines
    <2>2. Len(objs') # 0
      BY <1>1, <1>6, Types
    <2> QED BY <2>1, <2>2, <1>6, EmptySeq
  <1>8. Len(objs) + 1 \in Thread
    BY <1>1, <1>2, Types, ServingAssumption DEF Thread
  <1>9. /\ threads' \in [Thread -> ThreadState]
        /\ threads'[Len(objs) + 1].at = "wait"
        /\ \A k \in Thread : k # Len(objs) + 1 => threads'[k] = threads[k]
    BY <1>1, <1>2, <1>8, Types DEF ThreadState
  <1>10. TypeOK'
    BY <1>1, <1>2, <1>3, <1>5, <1>6, <1>9 DEF TypeOK, fsmVars
  <1>11. Goroutines'
    BY <1>1, <1>2, <1>6, <1>7, <1>9, Types DEF Goroutines, Thread
  <1>12. Payloads'
    <2>1. \A i \in 1..Len(log') : i \in 1..Len(log) \/ i = Len(log) + 1
      BY <1>1, <1>5, Types
    <2>2. \A i \in 1..Len(log') : Payload(log'[i])
      BY <1>1, <1>3, <1>5, <2>1 DEF Payloads
    <2> QED BY <1>1, <1>9, <2>2 DEF Payloads, Payload
  <1> QED BY <1>10, <1>11, <1>12 DEF Shape

LEMMA CommitShape ==
    ASSUME Shape, NEW k \in 1..Len(log), NEW o \in 1..Current, Commit(k, o)
    PROVE  Shape'
  <1> DEFINE v == [objs[o] EXCEPT !.wake = TRUE]
  <1>1. TypeOK
    BY DEF Shape
  <1>2. /\ commitIndex' = k /\ chosen' = Chosen(log, k) /\ objs' = [objs EXCEPT ![o] = v]
        /\ UNCHANGED <<log, term, lastApplied, roleVars, threads, calls, fsmVars, minute, events>>
    BY DEF Commit, Trigger
  <1>3. o \in 1..Len(objs) => v \in LeaderObject
    BY <1>1, Types DEF LeaderObject
  <1> HIDE DEF v
  <1>4. /\ objs' \in Seq(LeaderObject) /\ Len(objs') = Len(objs) /\ (objs' = <<>> <=> objs = <<>>)
    BY <1>1, <1>2, <1>3, ObjectChanged
  <1>5. chosen' \in Seq(Seq(Cell)) /\ k \in Nat
    <2>1. \A i \in 1..k : log[i] \in Seq(Cell)
      BY <1>1, Types
    <2>2. SubSeq(log, 1, k) \in Seq(Seq(Cell)) /\ k \in Nat
      BY <1>1, <2>1, Types, SubSeqProperties
    <2> QED BY <1>1, <1>2, <2>2, Types DEF Chosen
  <1>6. TypeOK'
    BY <1>1, <1>2, <1>4, <1>5 DEF TypeOK, roleVars, fsmVars
  <1> QED BY <1>2, <1>4, <1>6, ShapeKept DEF roleVars

LEMMA LeaveShape ==
    ASSUME Shape, StepDown \/ Disable
    PROVE  Shape'
  <1>1. TypeOK
    BY DEF Shape
  <1>2. /\ LeaveRole /\ term' = term /\ enabled' \in BOOLEAN
        /\ role' \in {"leader", "follower"} /\ (role' = "leader" => role = "leader")
        /\ events' \in [EventKind -> Nat]
        /\ UNCHANGED <<log, commitIndex, lastApplied, starting, threads, fsmVars, minute, chosen>>
    <2>1. events' \in [EventKind -> Nat]
      BY <1>1, Happened DEF StepDown, Disable, EventKind
    <2> QED BY <1>1, <2>1 DEF StepDown, Disable, TypeOK, storeVars
  <1>3. /\ objs' \in Seq(LeaderObject) /\ Len(objs') = Len(objs) /\ (objs' = <<>> <=> objs = <<>>)
        /\ calls' \in [Request -> CallState]
    BY <1>1, <1>2, RoleLeft
  <1>4. TypeOK'
    BY <1>1, <1>2, <1>3 DEF TypeOK, fsmVars
  <1> QED BY <1>2, <1>3, <1>4, ShapeKept

\* The log another leader's request leaves: the first j entries, and its own.
LEMMA Received ==
    ASSUME TypeOK, NEW j \in 0..Len(log), NEW new \in Foreign
    PROVE  LET lg == SubSeq(log, 1, j) \o new
           IN  /\ new \in Seq(Seq(Cell)) /\ Len(new) \in Nat
               /\ lg \in Seq(Seq(Cell)) /\ Len(lg) = j + Len(new)
               /\ \A i \in 1..j : lg[i] = log[i]
               /\ \A i \in 1..Len(lg) : i > j => Payload(lg[i])
  <1> DEFINE old == SubSeq(log, 1, j)
             lg == old \o new
  <1>1. /\ new \in Seq(Seq(Cell)) /\ Len(new) \in Nat
        /\ \A i \in 1..Len(new) : Payload(new[i])
    <2>1. CASE new = <<>>
      BY <2>1
    <2>2. CASE new # <<>>
      <3>1. PICK r \in Elsewhere : new = <<Stored(Command[r], term + 1)>>
        BY <2>2 DEF Foreign
      <3>2. r \in Request /\ term + 1 \in Nat
        BY Types, ServingAssumption
      <3>3. Stored(Command[r], term + 1) \in Seq(Cell) /\ Payload(Stored(Command[r], term + 1))
        BY <3>2, StoredOK
      <3> QED BY <3>1, <3>3
    <2> QED BY <2>1, <2>2
  <1>2. /\ old \in Seq(Seq(Cell)) /\ Len(old) = j
        /\ \A i \in 1..j : old[i] = log[i]
    <2>1. j \in Nat /\ \A i \in 1..j : log[i] \in Seq(Cell)
      BY Types
    <2> QED BY <2>1, SubSeqProperties
  <1> HIDE DEF old
  <1>3. /\ lg \in Seq(Seq(Cell)) /\ Len(lg) = Len(old) + Len(new)
        /\ \A i \in 1..(Len(old) + Len(new)) :
              lg[i] = IF i <= Len(old) THEN old[i] ELSE new[i - Len(old)]
    BY <1>1, <1>2, ConcatProperties
  <1> HIDE DEF lg
  <1>4. ASSUME NEW i \in 1..j PROVE lg[i] = log[i]
    <2>1. i \in 1..(Len(old) + Len(new)) /\ i <= Len(old)
      BY <1>1, <1>2, Types
    <2> QED BY <1>2, <1>3, <2>1
  <1>5. ASSUME NEW i \in 1..Len(lg), i > j PROVE Payload(lg[i])
    <2>1. i - j \in 1..Len(new) /\ lg[i] = new[i - j]
      BY <1>1, <1>2, <1>3, <1>5, Types
    <2> QED BY <1>1, <2>1
  <1> QED BY <1>1, <1>2, <1>3, <1>4, <1>5 DEF lg, old

LEMMA ReceiveShape ==
    ASSUME Shape, NEW j \in 0..Len(log), NEW new \in Foreign, NEW c \in 0..(j + Len(new)),
           Receive(j, new, c)
    PROVE  Shape'
  <1> DEFINE lg == SubSeq(log, 1, j) \o new
  <1>1. TypeOK /\ Goroutines /\ Payloads
    BY DEF Shape
  <1>2. /\ log' = lg /\ term' = term + 1 /\ role' = "follower" /\ LeaveRole
        /\ commitIndex' = (IF c > commitIndex THEN c ELSE commitIndex)
        /\ chosen' = Chosen(lg, c)
        /\ threads' = [threads EXCEPT ![0].at = "load"] /\ threads[0].at = "off"
        /\ events' \in [EventKind -> Nat]
        /\ UNCHANGED <<lastApplied, enabled, starting, fsmVars, minute>>
    BY <1>1, Happened DEF Receive, MuFree, EventKind
  <1>3. /\ Len(new) \in Nat /\ lg \in Seq(Seq(Cell)) /\ Len(lg) = j + Len(new)
        /\ \A i \in 1..j : lg[i] = log[i]
        /\ \A i \in 1..Len(lg) : i > j => Payload(lg[i])
    BY <1>1, Received
  <1> HIDE DEF lg
  <1>4. /\ objs' \in Seq(LeaderObject) /\ Len(objs') = Len(objs) /\ (objs' = <<>> <=> objs = <<>>)
        /\ calls' \in [Request -> CallState]
    BY <1>1, <1>2, RoleLeft
  <1>5. chosen' \in Seq(Seq(Cell)) /\ c \in Nat
    <2>1. c \in Nat /\ \A i \in 1..c : lg[i] \in Seq(Cell)
      BY <1>3, ElementOfSeq
    <2>2. SubSeq(lg, 1, c) \in Seq(Seq(Cell))
      BY <2>1, SubSeqProperties
    <2> QED BY <1>1, <1>2, <2>1, <2>2, Types DEF Chosen
  <1>6. 0 \in Thread
    BY ServingAssumption DEF Thread
  <1>7. /\ threads' \in [Thread -> ThreadState] /\ threads'[0].at = "load"
        /\ \A k \in Thread : k # 0 => threads'[k] = threads[k]
    BY <1>1, <1>2, <1>6, Types DEF ThreadState
  <1>8. TypeOK'
    <2>1. term \in Nat /\ commitIndex \in Nat
      BY <1>1, Types
    <2>2. term' \in Nat
      BY <1>2, <2>1
    <2>3. commitIndex' \in Nat
      BY <1>2, <1>5, <2>1
    <2>4. log' \in Seq(Seq(Cell))
      BY <1>2, <1>3
    <2>5. UNCHANGED <<lastApplied, enabled, starting, sessions, counter, executed, replayed, starts,
                      since, minute>>
      BY <1>2 DEF fsmVars
    <2> QED BY <1>1, <1>2, <1>4, <1>5, <1>7, <2>5, <2>2, <2>3, <2>4 DEF TypeOK
  <1>9. Goroutines'
    BY <1>1, <1>2, <1>4, <1>7 DEF Goroutines
  <1>10. Payloads'
    <2>1. ASSUME NEW i \in 1..Len(log') PROVE Payload(log'[i])
      <3>0. Len(log) \in Nat /\ Len(log') \in Nat
        BY <1>1, <1>2, <1>3, Types, LenProperties
      <3>1. i > j \/ (i \in 1..j /\ i \in 1..Len(log))
        BY <3>0
      <3> QED BY <1>1, <1>2, <1>3, <3>1 DEF Payloads
    <2> QED BY <1>1, <1>7, <2>1 DEF Payloads, Payload
  <1> QED BY <1>8, <1>9, <1>10 DEF Shape

LEMMA RestartShape ==
    ASSUME Shape, Restart
    PROVE  Shape'
  <1>1. TypeOK /\ Payloads
    BY DEF Shape
  <1> DEFINE first == [Idle EXCEPT !.at = "look", !.idx = 1, !.limit = Len(log)]
  <1>2. /\ commitIndex' = 0 /\ lastApplied' = 0 /\ role' = "follower" /\ enabled' = TRUE
        /\ starting' = (log # <<>>) /\ objs' = <<>>
        /\ threads' = [k \in Thread |-> IF k = 0 /\ log # <<>> THEN first ELSE Idle]
        /\ sessions' = NewSessionTable /\ counter' = NewCounter /\ executed' = {} /\ replayed' = log
        /\ starts' = starts \cup {log} /\ since' = minute
        /\ events' \in [EventKind -> Nat]
        /\ UNCHANGED <<log, term, minute, chosen>>
    BY <1>1, Happened DEF Restart, EventKind
  <1>3. calls' \in [Request -> CallState]
    BY <1>1, Types DEF Restart, Refused, CallState
  <1>4. first \in ThreadState /\ first.at = "look" /\ first.idx = 1
    BY <1>1, Types, IdleOK DEF ThreadState, Idle
  <1>5. NewCounter \in CounterState
    BY DEF NewCounter, CounterState
  <1> HIDE DEF first
  <1>6. 0 \in Thread /\ <<>> \in Seq(LeaderObject)
    BY ServingAssumption DEF Thread
  <1>7. TypeOK'
    <2>1. starts' \subseteq Seq(Seq(Cell)) /\ replayed' \in starts'
      BY <1>1, <1>2, Types
    <2>2. threads' \in [Thread -> ThreadState]
      BY <1>2, <1>4, IdleOK
    <2> QED BY <1>1, <1>2, <1>3, <1>5, <1>6, <2>1, <2>2 DEF TypeOK, NewSessionTable
  <1>8. Goroutines'
    BY <1>2, <1>4, <1>6, IdleOK DEF Goroutines
  <1>9. Payloads'
    BY <1>1, <1>2, <1>4, IdleOK DEF Payloads, Payload
  <1> QED BY <1>7, <1>8, <1>9 DEF Shape

LEMMA OtherShape ==
    ASSUME Shape, Enable \/ MinutePasses \/ UNCHANGED vars
    PROVE  Shape'
  <1>1. TypeOK
    BY DEF Shape
  <1>2. /\ UNCHANGED <<storeVars, lastApplied, role, starting, objs, threads, calls, fsmVars, chosen>>
        /\ minute' \in Nat /\ enabled' \in BOOLEAN /\ events' \in [EventKind -> Nat]
    <2>1. CASE Enable
      BY <2>1, <1>1 DEF Enable, TypeOK
    <2>2. CASE MinutePasses
      <3>1. events' \in [EventKind -> Nat]
        BY <2>2, <1>1, Happened DEF MinutePasses, EventKind
      <3> QED BY <2>2, <3>1, <1>1 DEF MinutePasses, TypeOK, roleVars
    <2>3. CASE UNCHANGED vars
      BY <2>3, <1>1 DEF vars, TypeOK, roleVars
    <2> QED BY <2>1, <2>2, <2>3
  <1>3. TypeOK'
    BY <1>1, <1>2 DEF TypeOK, storeVars, fsmVars
  <1> QED BY <1>2, <1>3, ShapeKept DEF storeVars

\* One thread moves, of the leader objects at most its own token is taken, and
\* the log stays.
ThreadMoves(k, t) ==
    /\ threads' = [threads EXCEPT ![k] = t]
    /\ starting' = (starting /\ ~(k = 0 /\ t.at = "off"))
    /\ UNCHANGED <<storeVars, role, enabled, minute, chosen, events>>

\* Its objects: the same waiters, the same stops.
SameWaiters ==
    /\ Len(objs') = Len(objs) /\ objs' \in Seq(LeaderObject)
    /\ \A o \in 1..Len(objs) : objs'[o].pending = objs[o].pending
    /\ objs' = <<>> <=> objs = <<>>

LEMMA MovesShape ==
    ASSUME Shape, NEW k \in Thread, NEW t \in ThreadState, ThreadMoves(k, t),
           threads[k].at # "off",
           starting => t.at \in {"look", "run", "store", "off"},
           t.at = "run" => Deserialize(t.entry).data \in Id \ {<<>>},
           t.at = "look" => t.idx > 0,
           objs' \in Seq(LeaderObject), Len(objs') = Len(objs), objs' = <<>> <=> objs = <<>>,
           calls' \in [Request -> CallState], lastApplied' \in Nat,
           UNCHANGED <<replayed, starts, since>>,
           DOMAIN sessions' \subseteq Seq(Cell), \A x \in DOMAIN sessions' : sessions'[x] \in Nat,
           counter' \in CounterState, executed' \subseteq Execution
    PROVE  Shape'
  <1>1. TypeOK /\ Goroutines /\ Payloads
    BY DEF Shape
  <1>2. /\ threads' \in [Thread -> ThreadState] /\ threads'[k] = t
        /\ \A l \in Thread : l # k => threads'[l] = threads[l]
    BY <1>1, Types DEF ThreadMoves
  <1>3. /\ starting' = (starting /\ ~(k = 0 /\ t.at = "off")) /\ log' = log /\ role' = role
        /\ UNCHANGED <<storeVars, enabled, minute, chosen, events>>
    BY DEF ThreadMoves, storeVars
  <1>4. starting' \in BOOLEAN
    BY <1>3
  <1>5. TypeOK'
    BY <1>1, <1>2, <1>3, <1>4 DEF TypeOK, storeVars
  <1>6. Goroutines'
    <2>1. \A l \in Thread \ {0} : threads'[l].at # "off" => l <= Len(objs')
      BY <1>1, <1>2 DEF Goroutines
    <2>2. role' = "leader" => objs' # <<>>
      BY <1>1, <1>3 DEF Goroutines
    <2>3. ASSUME starting' PROVE threads'[0].at \in {"look", "run", "store"} /\ objs' = <<>>
      <3>1. starting /\ ~(k = 0 /\ t.at = "off")
        BY <1>3, <2>3
      <3>2. 0 \in Thread
        BY ServingAssumption DEF Thread
      <3> QED BY <1>1, <1>2, <3>1, <3>2 DEF Goroutines
    <2> QED BY <2>1, <2>2, <2>3 DEF Goroutines
  <1>7. Payloads'
    BY <1>1, <1>2, <1>3 DEF Payloads, Payload
  <1> QED BY <1>5, <1>6, <1>7 DEF Shape

\* Where a loop ends: the handler returns, an applier waits or begins again.
Resting(k, t) ==
    /\ t \in ThreadState
    /\ k = 0 => t.at = "off"
    /\ k # 0 => t.at \in {"wait", "load"}

\* Only the handler's loop runs while the process starts.
LEMMA OneWhileStarting ==
    ASSUME Shape, NEW k \in Thread, threads[k].at # "off", starting
    PROVE  k = 0
  <1>1. k # 0 => k <= Len(objs) /\ objs = <<>> /\ k > 0
    BY DEF Shape, Goroutines, Thread
  <1>2. Len(<<>>) = 0
    OBVIOUS
  <1> QED BY <1>1, <1>2 DEF Thread

\* The end of a loop.
LEMMA RestOK ==
    ASSUME Shape, NEW k \in Thread, threads[k].at # "off", Rest(k, objs),
           UNCHANGED <<storeVars, role, enabled, minute, chosen, events>>
    PROVE  /\ SameWaiters
           /\ \E t : Resting(k, t) /\ ThreadMoves(k, t)
  <1>0. TypeOK
    BY DEF Shape
  <1>1. CASE k = 0
    <2>1. threads' = [threads EXCEPT ![k] = Idle] /\ starting' = FALSE /\ objs' = objs
      BY <1>1 DEF Rest, Step
    <2>2. ThreadMoves(k, Idle)
      BY <1>1, <2>1, IdleOK DEF ThreadMoves
    <2> QED BY <1>0, <1>1, <2>1, <2>2, IdleOK, Types DEF Resting, SameWaiters
  <1>2. CASE k # 0
    <2> DEFINE t == [Idle EXCEPT !.at = IF objs[k].wake THEN "load" ELSE "wait"]
               v == [objs[k] EXCEPT !.wake = FALSE]
    <2>1. threads' = [threads EXCEPT ![k] = t] /\ objs' = [objs EXCEPT ![k] = v]
          /\ UNCHANGED starting
      BY <1>2 DEF Rest, Step
    <2>2. t \in ThreadState /\ t.at \in {"wait", "load"}
      BY IdleOK DEF ThreadState, Idle
    <2>3. ~starting
      BY <1>2, OneWhileStarting
    <2>4. k \in 1..Len(objs)
      BY <1>0, <1>2, Types DEF Shape, Goroutines, Thread
    <2>5. v \in LeaderObject /\ v.pending = objs[k].pending
      BY <1>0, <2>4, Types DEF LeaderObject
    <2> HIDE DEF t, v
    <2>6. /\ objs' \in Seq(LeaderObject) /\ Len(objs') = Len(objs) /\ (objs' = <<>> <=> objs = <<>>)
          /\ \A i \in 1..Len(objs) : objs'[i] = IF i = k THEN v ELSE objs[i]
      <3>1. objs' = [objs EXCEPT ![k] = v] /\ (k \in 1..Len(objs) => v \in LeaderObject)
        BY <2>1, <2>5
      <3>2. /\ objs' \in Seq(LeaderObject) /\ Len(objs') = Len(objs)
            /\ (objs' = <<>> <=> objs = <<>>)
        BY <1>0, <3>1, ObjectChanged
      <3>3. \A i \in 1..Len(objs) : objs'[i] = IF i = k THEN v ELSE objs[i]
        BY <1>0, <3>1, Types
      <3> QED BY <3>2, <3>3
    <2>7. \A o \in 1..Len(objs) : objs'[o].pending = objs[o].pending
      BY <2>5, <2>6
    <2>8. ThreadMoves(k, t)
      BY <1>2, <2>1, <2>3, Types, <1>0 DEF ThreadMoves, TypeOK
    <2>9. Resting(k, t)
      BY <1>2, <2>2 DEF Resting
    <2> QED BY <2>6, <2>7, <2>8, <2>9 DEF SameWaiters
  <1> QED BY <1>1, <1>2

\* What each step of a thread does, in terms of the thread's next state t.
\* Nothing but the thread moves.
Pauses(k, t) ==
    ThreadMoves(k, t) /\ SameWaiters /\ UNCHANGED <<lastApplied, calls, fsmVars>>

LEMMA WakeOrExit ==
    ASSUME Shape, NEW k \in Thread, k # 0, Wake(k) \/ Exit(k),
           UNCHANGED <<storeVars, role, enabled, minute, chosen, events>>
    PROVE  \E t \in ThreadState : Pauses(k, t) /\ t.at \in {"load", "off"}
  <1>0. TypeOK
    BY DEF Shape
  <1>1. threads[k].at = "wait" /\ UNCHANGED <<starting, lastApplied, calls, fsmVars>>
    BY DEF Wake, Exit
  <1>2. ~starting /\ k \in 1..Len(objs)
    BY <1>0, <1>1, OneWhileStarting, Types DEF Shape, Goroutines, Thread
  <1>3. CASE Wake(k)
    <2> DEFINE t == [Idle EXCEPT !.at = "load"]
               v == [objs[k] EXCEPT !.wake = FALSE]
    <2>1. threads' = [threads EXCEPT ![k] = t] /\ objs' = [objs EXCEPT ![k] = v]
      BY <1>3 DEF Wake, Step
    <2>2. t \in ThreadState /\ t.at = "load"
      BY IdleOK DEF ThreadState, Idle
    <2>3. v \in LeaderObject /\ v.pending = objs[k].pending
      BY <1>0, <1>2, Types DEF LeaderObject
    <2> HIDE DEF t, v
    <2>4. /\ objs' \in Seq(LeaderObject) /\ Len(objs') = Len(objs) /\ (objs' = <<>> <=> objs = <<>>)
          /\ \A i \in 1..Len(objs) : objs'[i] = IF i = k THEN v ELSE objs[i]
      <3>1. objs' = [objs EXCEPT ![k] = v] /\ (k \in 1..Len(objs) => v \in LeaderObject)
        BY <2>1, <2>3
      <3>2. /\ objs' \in Seq(LeaderObject) /\ Len(objs') = Len(objs)
            /\ (objs' = <<>> <=> objs = <<>>)
        BY <1>0, <3>1, ObjectChanged
      <3>3. \A i \in 1..Len(objs) : objs'[i] = IF i = k THEN v ELSE objs[i]
        BY <1>0, <3>1, Types
      <3> QED BY <3>2, <3>3
    <2>5. SameWaiters
      BY <2>3, <2>4 DEF SameWaiters
    <2>6. ThreadMoves(k, t)
      BY <1>0, <1>1, <1>2, <2>1 DEF ThreadMoves, TypeOK
    <2> QED BY <1>1, <2>2, <2>5, <2>6 DEF Pauses
  <1>4. CASE Exit(k)
    <2>1. threads' = [threads EXCEPT ![k] = Idle] /\ objs' = objs
      BY <1>4 DEF Exit, Step
    <2>2. SameWaiters
      BY <1>0, <2>1, Types DEF SameWaiters
    <2>3. ThreadMoves(k, Idle)
      BY <1>0, <1>1, <1>2, <2>1 DEF ThreadMoves, TypeOK
    <2> QED BY <1>1, <2>2, <2>3, IdleOK DEF Pauses
  <1> QED BY <1>3, <1>4

\* The step only moves the thread: out of the loop, or one place on in it.
Moves(k, t) ==
    LET u == threads[k]
    IN  \/ /\ t.at \in {"off", "wait", "load"} /\ (k = 0 => t.at = "off")
           /\ u.at \in {"wait", "from", "look"}
           /\ u.at = "look" => u.idx > Len(log)
        \/ u.at = "load" /\ t.at = "from" /\ t.limit = commitIndex
        \/ /\ u.at = "from" /\ t.at = "look"
           /\ t.idx = lastApplied + 1 /\ t.limit = u.limit /\ t.limit > lastApplied
        \/ /\ u.at = "look" /\ u.idx <= Len(log)
           /\ t.idx = u.idx /\ t.limit = u.limit /\ t.entry = log[u.idx]
           /\ t.at = IF ToApply(t.entry) THEN "run" ELSE Applied(k)

\* An entry has been applied, or its waiters told: the loop goes on.
Advances(k, next) == ThreadMoves(k, [threads[k] EXCEPT !.at = next])

\* lastApplied is stored: the loop goes to the next entry or ends.
Stores(k, t) ==
    LET u == threads[k]
    IN  /\ ThreadMoves(k, t) /\ SameWaiters
        /\ u.at = "store" /\ lastApplied' = u.idx
        /\ UNCHANGED <<calls, fsmVars>>
        /\ \/ u.idx < u.limit /\ t.at = "look" /\ t.idx = u.idx + 1 /\ t.limit = u.limit
           \/ ~(u.idx < u.limit) /\ Resting(k, t)

\* Nothing else runs while the process starts, and the replay leaves the loop
\* only by its end.
LEMMA MovingThread ==
    ASSUME Shape, NEW k \in Thread, NEW t, threads' = [threads EXCEPT ![k] = t],
           UNCHANGED <<starting, storeVars, role, enabled, minute, chosen, events>>,
           t.at # "off"
    PROVE  ThreadMoves(k, t)
  <1>1. starting \in BOOLEAN
    BY DEF Shape, TypeOK
  <1> QED BY <1>1 DEF ThreadMoves

LEMMA SameObjects ==
    ASSUME Shape, objs' = objs
    PROVE  SameWaiters
  BY Types DEF Shape, SameWaiters

LEMMA ThreadCases ==
    ASSUME Shape, NEW k \in Thread, ThreadStep(k)
    PROVE  /\ threads[k].at # "off"
           /\ \/ \E t \in ThreadState : Pauses(k, t) /\ Moves(k, t)
              \/ Run(k) /\ Advances(k, Applied(k)) /\ objs' = objs
              \/ k # 0 /\ TellWaiters(k) /\ Advances(k, "store")
              \/ \E t \in ThreadState : Stores(k, t)
  <1> DEFINE u == threads[k]
  <1>0. TypeOK /\ u \in ThreadState /\ u.idx \in Nat /\ lastApplied \in Nat /\ commitIndex \in Nat
    BY Types DEF Shape
  <1>1. UNCHANGED <<storeVars, role, enabled, minute, chosen, events>>
    BY DEF ThreadStep
  <1>2. CASE k # 0 /\ (Wake(k) \/ Exit(k))
    <2>1. \E t \in ThreadState : Pauses(k, t) /\ t.at \in {"load", "off"}
      BY <1>1, <1>2, WakeOrExit
    <2> QED BY <1>2, <2>1 DEF Moves, Wake, Exit
  <1>3. CASE LoadCommitIndex(k)
    <2> DEFINE t == [u EXCEPT !.at = "from", !.limit = commitIndex]
    <2>1. u.at = "load" /\ threads' = [threads EXCEPT ![k] = t]
          /\ UNCHANGED <<starting, lastApplied, objs, calls, fsmVars>>
      BY <1>3 DEF LoadCommitIndex, Step
    <2>2. t \in ThreadState /\ t.at = "from" /\ t.limit = commitIndex
      BY <1>0 DEF ThreadState
    <2> HIDE DEF t, u
    <2>3. Pauses(k, t)
      BY <1>1, <2>1, <2>2, MovingThread, SameObjects DEF Pauses
    <2> QED BY <2>1, <2>2, <2>3 DEF Moves, u
  <1>4. CASE LoadLastApplied(k)
    <2>1. u.at = "from" /\ UNCHANGED <<lastApplied, calls, fsmVars>>
      BY <1>4 DEF LoadLastApplied
    <2>2. CASE u.limit <= lastApplied
      <3>1. Rest(k, objs)
        BY <1>4, <2>2 DEF LoadLastApplied
      <3>2. PICK t : SameWaiters /\ Resting(k, t) /\ ThreadMoves(k, t)
        BY <1>1, <2>1, <3>1, RestOK
      <3> QED BY <2>1, <3>2 DEF Pauses, Moves, Resting
    <2>3. CASE ~(u.limit <= lastApplied)
      <3> DEFINE t == [u EXCEPT !.at = "look", !.idx = lastApplied + 1]
      <3>1. threads' = [threads EXCEPT ![k] = t] /\ UNCHANGED <<starting, objs>>
        BY <1>4, <2>3 DEF LoadLastApplied, Step
      <3>2. t \in ThreadState /\ t.at = "look" /\ t.idx = lastApplied + 1 /\ t.limit = u.limit
        <4> DEFINE n == lastApplied + 1
        <4>1. n \in Nat
          BY <1>0
        <4> HIDE DEF n
        <4>2. LET s == [u EXCEPT !.at = "look", !.idx = n]
              IN  s \in ThreadState /\ s.at = "look" /\ s.idx = n /\ s.limit = u.limit
          BY <1>0, <4>1 DEF ThreadState
        <4> QED BY <4>2 DEF n
      <3>3. t.limit > lastApplied
        BY <1>0, <2>3, <3>2 DEF ThreadState
      <3> HIDE DEF t, u
      <3>4. Pauses(k, t)
        BY <1>1, <2>1, <3>1, <3>2, MovingThread, SameObjects DEF Pauses
      <3> QED BY <2>1, <3>2, <3>3, <3>4 DEF Moves, u
    <2> QED BY <2>2, <2>3
  <1>5. CASE Look(k)
    <2>1. u.at = "look" /\ UNCHANGED <<lastApplied, calls, fsmVars>>
      BY <1>5 DEF Look
    <2>2. CASE u.idx > Len(log)
      <3>1. Rest(k, objs)
        BY <1>5, <2>2 DEF Look
      <3>2. PICK t : SameWaiters /\ Resting(k, t) /\ ThreadMoves(k, t)
        BY <1>1, <2>1, <3>1, RestOK
      <3> QED BY <2>1, <2>2, <3>2 DEF Pauses, Moves, Resting
    <2>3. CASE ~(u.idx > Len(log))
      <3> DEFINE raw == log[u.idx]
                 next == IF ToApply(raw) THEN "run" ELSE Applied(k)
                 t == [u EXCEPT !.entry = raw, !.at = next]
      <3>1. threads' = [threads EXCEPT ![k] = t] /\ UNCHANGED <<starting, objs>>
        BY <1>5, <2>3 DEF Look, Step
      <3>2. u.idx > 0 /\ u.idx <= Len(log)
        BY <1>0, <2>1, <2>3, Types DEF Shape, Payloads
      <3>3. raw \in Seq(Cell)
        BY <1>0, <3>2, Types
      <3>4. next \in {"run", "store", "tell"}
        BY DEF Applied
      <3> HIDE DEF raw, next
      <3>5. t \in ThreadState /\ t.at = next /\ t.idx = u.idx /\ t.limit = u.limit /\ t.entry = raw
        BY <1>0, <3>3, <3>4 DEF ThreadState
      <3> HIDE DEF t, u
      <3>6. Pauses(k, t)
        BY <1>1, <2>1, <3>1, <3>4, <3>5, MovingThread, SameObjects DEF Pauses
      <3> QED BY <2>1, <3>2, <3>5, <3>6 DEF Moves, u, raw, next
    <2> QED BY <2>2, <2>3
  <1>6. CASE Run(k)
    <2> DEFINE t == [u EXCEPT !.at = Applied(k)]
    <2>1. u.at = "run" /\ threads' = [threads EXCEPT ![k] = t] /\ UNCHANGED <<starting, objs>>
      BY <1>6 DEF Run, Step
    <2>2. t.at = Applied(k) /\ Applied(k) # "off"
      BY <1>0 DEF ThreadState, Applied
    <2>3. ThreadMoves(k, t)
      <3> HIDE DEF t, u
      <3> QED BY <1>1, <2>1, <2>2, MovingThread
    <2> QED BY <1>6, <2>1, <2>3 DEF Advances
  <1>7. CASE k # 0 /\ TellWaiters(k)
    <2> DEFINE t == [u EXCEPT !.at = "store"]
    <2>1. u.at = "tell" /\ threads' = [threads EXCEPT ![k] = t] /\ UNCHANGED starting
      BY <1>7 DEF TellWaiters, Step
    <2>2. t.at = "store"
      BY <1>0 DEF ThreadState
    <2>3. ThreadMoves(k, t)
      <3> HIDE DEF t, u
      <3> QED BY <1>1, <2>1, <2>2, MovingThread
    <2> QED BY <1>7, <2>1, <2>3 DEF Advances
  <1>8. CASE StoreLastApplied(k)
    <2>1. u.at = "store" /\ lastApplied' = u.idx /\ UNCHANGED <<calls, fsmVars>>
      BY <1>8 DEF StoreLastApplied, AppliedUpTo
    <2>2. CASE u.idx < u.limit
      <3> DEFINE t == [u EXCEPT !.at = "look", !.idx = u.idx + 1, !.entry = <<>>]
      <3>1. threads' = [threads EXCEPT ![k] = t] /\ UNCHANGED <<starting, objs>>
        BY <1>8, <2>2 DEF StoreLastApplied, Step
      <3>2. t \in ThreadState /\ t.at = "look" /\ t.idx = u.idx + 1 /\ t.limit = u.limit
        <4> DEFINE n == u.idx + 1
                   e == <<>>
        <4>1. n \in Nat /\ e \in Seq(Cell)
          BY <1>0
        <4> HIDE DEF n, e
        <4>2. LET s == [u EXCEPT !.at = "look", !.idx = n, !.entry = e]
              IN  s \in ThreadState /\ s.at = "look" /\ s.idx = n /\ s.limit = u.limit
          BY <1>0, <4>1 DEF ThreadState
        <4> QED BY <4>2 DEF n, e
      <3> HIDE DEF t, u
      <3>3. ThreadMoves(k, t) /\ SameWaiters
        BY <1>1, <3>1, <3>2, MovingThread, SameObjects
      <3> QED BY <2>1, <2>2, <3>2, <3>3 DEF Stores, u
    <2>3. CASE ~(u.idx < u.limit)
      <3>1. Rest(k, objs)
        BY <1>8, <2>3 DEF StoreLastApplied
      <3>2. PICK t : SameWaiters /\ Resting(k, t) /\ ThreadMoves(k, t)
        BY <1>1, <2>1, <3>1, RestOK
      <3> QED BY <2>1, <2>3, <3>2 DEF Stores, Resting
    <2> QED BY <2>2, <2>3
  <1> QED BY <1>2, <1>3, <1>4, <1>5, <1>6, <1>7, <1>8 DEF ThreadStep

LEMMA TellShape ==
    ASSUME Shape, NEW k \in Thread, k # 0, TellWaiters(k), Advances(k, "store")
    PROVE  Shape'
  <1> DEFINE u == threads[k]
             t == [u EXCEPT !.at = "store"]
             v == [objs[k] EXCEPT !.pending = {w \in @ : w[1] # u.idx}]
  <1>0. TypeOK /\ u \in ThreadState /\ ThreadMoves(k, t)
    BY Types DEF Shape, Advances
  <1>1. /\ u.at = "tell" /\ objs' = [objs EXCEPT ![k] = v]
        /\ UNCHANGED <<lastApplied, fsmVars>>
    BY DEF TellWaiters
  <1>2. calls' \in [Request -> CallState]
    BY <1>0, Types DEF TellWaiters, CallState
  <1>3. k \in 1..Len(objs) => v \in LeaderObject
    BY <1>0, Types DEF LeaderObject
  <1>4. t \in ThreadState /\ t.at = "store"
    BY <1>0 DEF ThreadState
  <1> HIDE DEF u, t, v
  <1>5. objs' \in Seq(LeaderObject) /\ Len(objs') = Len(objs) /\ (objs' = <<>> <=> objs = <<>>)
    BY <1>0, <1>1, <1>3, ObjectChanged
  <1>6. /\ lastApplied' \in Nat /\ UNCHANGED <<replayed, starts, since>>
        /\ DOMAIN sessions' \subseteq Seq(Cell) /\ \A x \in DOMAIN sessions' : sessions'[x] \in Nat
        /\ counter' \in CounterState /\ executed' \subseteq Execution
    BY <1>0, <1>1, Types DEF fsmVars
  <1> QED BY <1>0, <1>1, <1>2, <1>4, <1>5, <1>6, MovesShape DEF u

\* What Run does to the state machine.
LEMMA RunOK ==
    ASSUME Shape, NEW k \in Thread, Run(k)
    PROVE  LET u == threads[k]
               e == Deserialize(u.entry)
               x == [index |-> u.idx, entry |-> u.entry,
                     by |-> IF starting THEN "replay" ELSE "apply"]
           IN  /\ u.at = "run" /\ e.data \in Id \ {<<>>}
               /\ e.clientId \in Seq(Cell) /\ e.seq \in Nat
               /\ counter' = Apply(counter, e.data, minute) /\ counter' \in CounterState
               /\ sessions' = Record(sessions, e.clientId, e.seq)
               /\ DOMAIN sessions' \subseteq Seq(Cell)
               /\ \A c \in DOMAIN sessions' : sessions'[c] \in Nat
               /\ executed' = executed \cup {x} /\ x \in Execution /\ executed' \subseteq Execution
               /\ UNCHANGED <<starting, lastApplied, objs, calls, replayed, starts, since>>
  <1> DEFINE u == threads[k]
             e == Deserialize(u.entry)
             x == [index |-> u.idx, entry |-> u.entry,
                   by |-> IF starting THEN "replay" ELSE "apply"]
  <1>0. TypeOK /\ u.entry \in Seq(Cell) /\ u.idx \in Nat
    BY Types DEF Shape
  <1>1. /\ u.at = "run" /\ counter' = Apply(counter, e.data, minute)
        /\ sessions' = Record(sessions, e.clientId, e.seq)
        /\ executed' = executed \cup {x}
        /\ UNCHANGED <<starting, lastApplied, objs, calls, replayed, starts, since>>
    BY DEF Run
  <1>2. e.data \in Id \ {<<>>}
    BY <1>1 DEF Shape, Payloads
  <1>3. e.clientId \in Seq(Cell) /\ e.seq \in Nat
    BY <1>0, PartsOK
  <1>4. x \in Execution
    BY <1>0 DEF Execution
  <1> HIDE DEF x, e, u
  <1>5. counter' \in CounterState
    BY <1>0, <1>1, <1>2, ApplyOK, Types
  <1>6. DOMAIN sessions' \subseteq Seq(Cell) /\ \A c \in DOMAIN sessions' : sessions'[c] \in Nat
    BY <1>0, <1>1, <1>3, RecordOK, Types
  <1>7. executed' \subseteq Execution
    BY <1>0, <1>1, <1>4, Types
  <1> QED BY <1>1, <1>2, <1>3, <1>4, <1>5, <1>6, <1>7 DEF x, e, u

LEMMA RunShape ==
    ASSUME Shape, NEW k \in Thread, Run(k), Advances(k, Applied(k)), objs' = objs
    PROVE  Shape'
  <1> DEFINE u == threads[k]
             t == [u EXCEPT !.at = Applied(k)]
  <1>0. TypeOK /\ u \in ThreadState /\ ThreadMoves(k, t)
    BY Types DEF Shape, Advances
  <1>1. t \in ThreadState /\ t.at = Applied(k) /\ Applied(k) \in {"store", "tell"}
    BY <1>0 DEF ThreadState, Applied
  <1>2. /\ u.at = "run" /\ counter' \in CounterState
        /\ DOMAIN sessions' \subseteq Seq(Cell) /\ \A c \in DOMAIN sessions' : sessions'[c] \in Nat
        /\ executed' \subseteq Execution
        /\ UNCHANGED <<lastApplied, calls, replayed, starts, since>>
    BY RunOK
  <1>3. starting => t.at = "store"
    BY <1>1, <1>2, OneWhileStarting DEF Applied
  <1>4. /\ objs' \in Seq(LeaderObject) /\ Len(objs') = Len(objs) /\ (objs' = <<>> <=> objs = <<>>)
        /\ calls' \in [Request -> CallState] /\ lastApplied' \in Nat
        /\ UNCHANGED <<replayed, starts, since>>
    BY <1>0, <1>2, Types
  <1> HIDE DEF u, t
  <1> QED BY <1>0, <1>1, <1>2, <1>3, <1>4, MovesShape DEF u

LEMMA PauseShape ==
    ASSUME Shape, NEW k \in Thread, threads[k].at # "off", NEW t \in ThreadState,
           (Pauses(k, t) /\ Moves(k, t)) \/ Stores(k, t)
    PROVE  Shape'
  <1>0. TypeOK /\ threads[k].idx \in Nat /\ lastApplied \in Nat
    BY Types DEF Shape
  <1>1. /\ ThreadMoves(k, t) /\ SameWaiters /\ UNCHANGED <<calls, fsmVars>> /\ lastApplied' \in Nat
    BY <1>0 DEF Pauses, Stores
  <1>2. starting => t.at \in {"look", "run", "store", "off"}
    <2> SUFFICES ASSUME starting PROVE t.at \in {"look", "run", "store", "off"}
      OBVIOUS
    <2>1. k = 0 /\ threads[k].at \in {"look", "run", "store"}
      BY OneWhileStarting DEF Shape, Goroutines
    <2> QED BY <2>1 DEF Moves, Stores, Resting, Applied
  <1>3. t.at = "run" => Deserialize(t.entry).data \in Id \ {<<>>}
    <2> SUFFICES ASSUME t.at = "run" PROVE Deserialize(t.entry).data \in Id \ {<<>>}
      OBVIOUS
    <2>1. /\ threads[k].at = "look" /\ threads[k].idx <= Len(log)
          /\ t.entry = log[threads[k].idx] /\ ToApply(t.entry)
      BY DEF Moves, Stores, Resting, Applied
    <2>2. threads[k].idx > 0
      BY <2>1 DEF Shape, Payloads
    <2>3. threads[k].idx \in 1..Len(log)
      BY <1>0, <2>1, <2>2, Types
    <2> QED BY <2>1, <2>3 DEF Shape, Payloads, Payload, ToApply
  <1>4. t.at = "look" => t.idx > 0
    BY <1>0 DEF Moves, Stores, Resting, Applied
  <1>5. /\ calls' \in [Request -> CallState] /\ UNCHANGED <<replayed, starts, since>>
        /\ DOMAIN sessions' \subseteq Seq(Cell) /\ \A x \in DOMAIN sessions' : sessions'[x] \in Nat
        /\ counter' \in CounterState /\ executed' \subseteq Execution
        /\ objs' \in Seq(LeaderObject) /\ Len(objs') = Len(objs) /\ (objs' = <<>> <=> objs = <<>>)
    BY <1>0, <1>1, Types DEF fsmVars, SameWaiters
  <1> QED BY <1>1, <1>2, <1>3, <1>4, <1>5, MovesShape

LEMMA NextShape == Shape /\ [Next]_vars => Shape'
  <1> SUFFICES ASSUME Shape, [Next]_vars PROVE Shape'
    OBVIOUS
  <1>1. ASSUME NEW r \in Request, Check(r) \/ Lookup(r) \/ Submit(r) \/ Reject(r) \/ GiveUp(r)
        PROVE  Shape'
    BY <1>1, CallShape, SubmitShape, GiveUpShape
  <1>2. ASSUME NEW k \in Thread, ThreadStep(k) PROVE Shape'
    <2>1. threads[k].at # "off"
      BY <1>2, ThreadCases
    <2>2. CASE \E t \in ThreadState : (Pauses(k, t) /\ Moves(k, t)) \/ Stores(k, t)
      BY <2>1, <2>2, PauseShape
    <2>3. CASE Run(k) /\ Advances(k, Applied(k)) /\ objs' = objs
      BY <2>3, RunShape
    <2>4. CASE k # 0 /\ TellWaiters(k) /\ Advances(k, "store")
      BY <2>4, TellShape
    <2> QED BY <1>2, <2>2, <2>3, <2>4, ThreadCases
  <1>3. CASE Elect
    BY <1>3, ElectShape
  <1>4. ASSUME NEW k \in 1..Len(log), NEW o \in 1..Current, Commit(k, o) PROVE Shape'
    BY <1>4, CommitShape
  <1>5. CASE StepDown \/ Disable
    BY <1>5, LeaveShape
  <1>6. ASSUME NEW j \in 0..Len(log), NEW new \in Foreign, NEW c \in 0..(j + Len(new)),
               Receive(j, new, c)
        PROVE  Shape'
    BY <1>6, ReceiveShape
  <1>7. CASE Restart
    BY <1>7, RestartShape
  <1>8. CASE Enable \/ MinutePasses \/ UNCHANGED vars
    BY <1>8, OtherShape
  <1> QED BY <1>1, <1>2, <1>3, <1>4, <1>5, <1>6, <1>7, <1>8 DEF Next

----------------------------------------------------------------------------
(* Steps of clients, of the cluster and of operators, as the appliers see  *)
(* them: they apply nothing, start at most a loop that has read nothing    *)
(* yet, and what is committed stays.                                       *)

OuterStep ==
    /\ UNCHANGED <<lastApplied, starting, fsmVars>>
    /\ \A k \in Thread : threads'[k] = threads[k] \/ threads'[k].at \in {"wait", "load"}
    /\ Len(chosen) <= Len(chosen')
    /\ \A i \in 1..Len(chosen) : chosen'[i] = chosen[i]
    /\ ChosenInLog'
    /\ starting => UNCHANGED <<log, threads>>

\* The log only grows, or nothing happens to it.
LEMMA LogGrows ==
    ASSUME Shape, Order, Shape', UNCHANGED <<chosen, commitIndex>>,
           Len(log') >= Len(log), \A i \in 1..Len(log) : log'[i] = log[i]
    PROVE  /\ Len(chosen) <= Len(chosen') /\ ChosenInLog'
           /\ \A i \in 1..Len(chosen) : chosen'[i] = chosen[i]
  <1>1. TypeOK /\ TypeOK' /\ ChosenInLog
    BY DEF Shape, Order
  <1>2. Len(log) \in Nat /\ Len(chosen) \in Nat
    BY <1>1, Types
  <1>3. Len(log') \in Nat
    BY <1>1, LenProperties DEF TypeOK
  <1> QED BY <1>1, <1>2, <1>3 DEF ChosenInLog

\* More is committed: a prefix of the log that has what was committed before.
LEMMA ChosenGrows ==
    ASSUME TypeOK, ChosenInLog, NEW lg \in Seq(Seq(Cell)), NEW c \in Nat, c <= Len(lg),
           Len(chosen) <= Len(lg), \A i \in 1..Len(chosen) : lg[i] = log[i],
           log' = lg, chosen' = Chosen(lg, c),
           commitIndex' \in {c, commitIndex}
    PROVE  /\ Len(chosen) <= Len(chosen') /\ ChosenInLog'
           /\ \A i \in 1..Len(chosen) : chosen'[i] = chosen[i]
  <1>1. Len(chosen) \in Nat /\ Len(lg) \in Nat /\ commitIndex \in Nat /\ commitIndex <= Len(chosen)
        /\ \A i \in 1..Len(chosen) : lg[i] = chosen[i]
    BY Types, LenProperties DEF ChosenInLog
  <1>2. CASE c > Len(chosen)
    <2>1. chosen' = SubSeq(lg, 1, c)
      BY <1>2 DEF Chosen
    <2>2. \A i \in 1..c : lg[i] \in Seq(Cell)
      BY <1>1, ElementOfSeq
    <2>3. Len(chosen') = c /\ \A i \in 1..c : chosen'[i] = lg[i]
      BY <2>1, <2>2, SubSeqProperties
    <2>4. Len(chosen) <= Len(chosen') /\ commitIndex' <= Len(chosen') /\ Len(chosen') <= Len(log')
      BY <1>1, <1>2, <2>3
    <2>5. \A i \in 1..Len(chosen) : i \in 1..c
      BY <1>1, <1>2
    <2>6. /\ \A i \in 1..Len(chosen) : chosen'[i] = chosen[i]
          /\ \A i \in 1..Len(chosen') : chosen'[i] = log'[i]
      BY <1>1, <2>3, <2>5
    <2> QED BY <2>4, <2>6 DEF ChosenInLog
  <1>3. CASE ~(c > Len(chosen))
    <2>1. chosen' = chosen
      BY <1>3 DEF Chosen
    <2> QED BY <1>1, <1>3, <2>1 DEF ChosenInLog
  <1> QED BY <1>2, <1>3

\* While the process starts the lock is held.
LEMMA NotStarting ==
    ASSUME Shape, MuFree
    PROVE  ~starting
  BY DEF Shape, Goroutines, MuFree

LEMMA OuterSteps ==
    ASSUME Shape, Order, Shape', Next, ~Restart, \A k \in Thread : ~ThreadStep(k)
    PROVE  OuterStep
  <1>0. TypeOK /\ ChosenInLog /\ Len(log) \in Nat /\ Len(chosen) \in Nat
    BY Types DEF Shape, Order
  <1>1. ASSUME UNCHANGED <<lastApplied, starting, fsmVars, threads, log, chosen, commitIndex>>
        PROVE  OuterStep
    BY <1>0, <1>1, LogGrows DEF OuterStep
  <1>2. ASSUME NEW r \in Request, Check(r) \/ Lookup(r) \/ Reject(r) \/ GiveUp(r)
        PROVE  OuterStep
    <2>1. UNCHANGED <<storeVars, lastApplied, roleVars, threads, fsmVars, minute, chosen>>
      BY <1>2 DEF Check, Lookup, Reject, GiveUp
    <2> QED BY <1>1, <2>1 DEF storeVars, roleVars
  <1>3. CASE StepDown \/ Disable \/ Enable \/ MinutePasses
    <2>1. UNCHANGED <<lastApplied, starting, fsmVars, threads, log, chosen, commitIndex>>
      BY <1>3 DEF StepDown, Disable, Enable, MinutePasses, storeVars, roleVars
    <2> QED BY <1>1, <2>1
  <1>4. ASSUME NEW r \in Request, Submit(r) PROVE OuterStep
    <2> DEFINE raw == Stored(Command[r], term)
    <2>1. /\ log' = Append(log, raw) /\ MuFree
          /\ UNCHANGED <<commitIndex, lastApplied, roleVars, threads, fsmVars, chosen>>
      BY <1>4 DEF Submit
    <2>2. raw \in Seq(Cell)
      BY <1>0, Types, StoredOK
    <2> HIDE DEF raw
    <2>3. Len(log') >= Len(log) /\ \A i \in 1..Len(log) : log'[i] = log[i]
      BY <1>0, <2>1, <2>2, Types, Longer
    <2> QED BY <2>1, <2>3, LogGrows, NotStarting DEF OuterStep, roleVars
  <1>5. CASE Elect
    <2> DEFINE raw == NoOp(term + 1)
               n == Len(objs) + 1
    <2>1. /\ log' = Append(log, raw) /\ MuFree
          /\ threads' = [threads EXCEPT ![n].at = "wait"]
          /\ UNCHANGED <<commitIndex, lastApplied, starting, fsmVars, chosen>>
      BY <1>5 DEF Elect, Current
    <2>2. raw \in Seq(Cell)
      <3>1. term + 1 \in Nat
        BY <1>0, Types
      <3> QED BY <3>1, NoOpOK
    <2> HIDE DEF raw, n
    <2>3. Len(log') >= Len(log) /\ \A i \in 1..Len(log) : log'[i] = log[i]
      BY <1>0, <2>1, <2>2, Types, Longer
    <2>4. \A k \in Thread : threads'[k] = threads[k] \/ threads'[k].at = "wait"
      BY <1>0, <2>1, Types DEF ThreadState
    <2> QED BY <2>1, <2>3, <2>4, LogGrows, NotStarting DEF OuterStep
  <1>6. ASSUME NEW k \in 1..Len(log), NEW o \in 1..Current, Commit(k, o) PROVE OuterStep
    <2>1. /\ commitIndex' = k /\ chosen' = Chosen(log, k) /\ MuFree
          /\ UNCHANGED <<log, lastApplied, roleVars, threads, fsmVars>>
      BY <1>6 DEF Commit
    <2>2. log \in Seq(Seq(Cell)) /\ k \in Nat /\ k <= Len(log)
      BY <1>0, Types
    <2>3. Len(chosen) <= Len(log)
      BY <1>0 DEF ChosenInLog
    <2>4. /\ Len(chosen) <= Len(chosen') /\ ChosenInLog'
          /\ \A i \in 1..Len(chosen) : chosen'[i] = chosen[i]
      BY <1>0, <2>1, <2>2, <2>3, ChosenGrows
    <2> QED BY <2>1, <2>4, NotStarting DEF OuterStep, roleVars
  <1>7. ASSUME NEW j \in 0..Len(log), NEW new \in Foreign, NEW c \in 0..(j + Len(new)),
               Receive(j, new, c)
        PROVE  OuterStep
    <2> DEFINE lg == SubSeq(log, 1, j) \o new
    <2>1. /\ log' = lg /\ MuFree /\ j >= Len(chosen)
          /\ commitIndex' = (IF c > commitIndex THEN c ELSE commitIndex)
          /\ chosen' = Chosen(lg, c)
          /\ threads' = [threads EXCEPT ![0].at = "load"]
          /\ UNCHANGED <<lastApplied, starting, fsmVars>>
      BY <1>7 DEF Receive
    <2>2. /\ Len(new) \in Nat /\ lg \in Seq(Seq(Cell)) /\ Len(lg) = j + Len(new)
          /\ \A i \in 1..j : lg[i] = log[i]
      BY <1>0, Received
    <2> HIDE DEF lg
    <2>3. c \in Nat /\ c <= Len(lg) /\ Len(chosen) <= Len(lg)
          /\ \A i \in 1..Len(chosen) : lg[i] = log[i]
      BY <1>0, <2>1, <2>2
    <2>4. /\ Len(chosen) <= Len(chosen') /\ ChosenInLog'
          /\ \A i \in 1..Len(chosen) : chosen'[i] = chosen[i]
      BY <1>0, <2>1, <2>2, <2>3, ChosenGrows
    <2>5. \A k \in Thread : threads'[k] = threads[k] \/ threads'[k].at = "load"
      BY <1>0, <2>1, Types DEF ThreadState
    <2> QED BY <2>1, <2>4, <2>5, NotStarting DEF OuterStep
  <1> QED BY <1>2, <1>3, <1>4, <1>5, <1>6, <1>7 DEF Next

\* A step that changes nothing is one of them.
LEMMA StutterIsOuter ==
    ASSUME Shape, Order, UNCHANGED vars
    PROVE  OuterStep
  <1>1. UNCHANGED <<lastApplied, starting, fsmVars, threads, log, chosen, commitIndex>>
    BY DEF vars, storeVars, roleVars
  <1>2. Len(chosen) \in Nat /\ ChosenInLog
    BY Types DEF Shape, Order
  <1> QED BY <1>1, <1>2 DEF OuterStep, ChosenInLog

----------------------------------------------------------------------------
(* Order.                                                                  *)

LEMMA InitOrder == Init => Order
  <1> SUFFICES ASSUME Init PROVE Order
    OBVIOUS
  <1>1. Len(<<>>) = 0
    OBVIOUS
  <1>2. ChosenInLog
    BY <1>1 DEF Init, ChosenInLog
  <1>3. Replaying /\ Origins
    BY DEF Init, Replaying, Origins
  <1>4. Applying
    BY <1>1, IdleOK DEF Init, Applying, OnCommitted, InLoop, HasEntry
  <1> QED BY <1>2, <1>3, <1>4 DEF Order

\* What was committed is, and more may be.
ChosenStays ==
    /\ Len(chosen) <= Len(chosen')
    /\ \A i \in 1..Len(chosen) : chosen'[i] = chosen[i]

\* A loop that does not move stays on committed entries.
LEMMA StaysCommitted ==
    ASSUME Shape, Shape', NEW k \in Thread, OnCommitted(k), ChosenStays, replayed' = replayed,
           threads'[k] = threads[k] \/ threads'[k].at \in {"wait", "load", "off"}
    PROVE  OnCommitted(k)'
  <1>1. Len(chosen) \in Nat /\ Len(chosen') \in Nat /\ Len(replayed) \in Nat
    BY Types, LenProperties DEF Shape, TypeOK
  <1>2. CASE threads'[k] = threads[k]
    <2> DEFINE t == threads[k]
    <2>1. t.idx \in Nat /\ t.limit \in Nat
      BY Types DEF Shape
    <2>2. HasEntry(t) => t.idx \in 1..Len(chosen)
      BY <1>1, <2>1 DEF OnCommitted, HasEntry, InLoop
    <2> QED BY <1>1, <1>2, <2>1, <2>2 DEF OnCommitted, ChosenStays, HasEntry, InLoop
  <1>3. CASE threads'[k].at \in {"wait", "load", "off"}
    BY <1>3 DEF OnCommitted, HasEntry, InLoop
  <1> QED BY <1>2, <1>3

\* What was executed keeps its origin.
LEMMA OriginsStay ==
    ASSUME Shape, Shape', Origins, ChosenStays, UNCHANGED <<executed, replayed>>
    PROVE  Origins'
  <1>1. Len(chosen) \in Nat /\ Len(chosen') \in Nat
    BY Types, LenProperties DEF Shape, TypeOK
  <1>2. \A i \in 1..Len(chosen) : i \in 1..Len(chosen') /\ chosen'[i] = chosen[i]
    BY <1>1 DEF ChosenStays
  <1> QED BY <1>2 DEF Origins

LEMMA OuterOrder ==
    ASSUME Shape, Shape', Order, OuterStep
    PROVE  Order'
  <1>0. /\ ChosenInLog' /\ Replaying /\ Applying /\ Origins /\ ChosenStays
        /\ UNCHANGED <<lastApplied, starting, executed, replayed>>
        /\ \A k \in Thread : threads'[k] = threads[k] \/ threads'[k].at \in {"wait", "load"}
    BY DEF Order, OuterStep, fsmVars, ChosenStays
  <1>1. Replaying'
    BY <1>0 DEF Replaying, OuterStep, HasEntry
  <1>2. Applying'
    BY <1>0, StaysCommitted DEF Applying
  <1>3. Origins'
    BY <1>0, OriginsStay
  <1> QED BY <1>0, <1>1, <1>2, <1>3 DEF Order

\* The same for a step of a thread, as far as the others are concerned.
LEMMA OthersStay ==
    ASSUME Shape, Shape', Order, NEW k \in Thread, NEW t, ThreadMoves(k, t), replayed' = replayed
    PROVE  /\ threads'[k] = t /\ \A l \in Thread : l # k => threads'[l] = threads[l]
           /\ ChosenStays /\ ChosenInLog'
           /\ ~starting => \A l \in Thread : l # k => OnCommitted(l)'
           /\ UNCHANGED <<log, chosen, commitIndex>>
  <1>1. /\ threads'[k] = t /\ \A l \in Thread : l # k => threads'[l] = threads[l]
        /\ UNCHANGED <<log, chosen, commitIndex>>
    BY Types DEF Shape, ThreadMoves, storeVars
  <1>2. ChosenStays /\ ChosenInLog' /\ Applying
    BY <1>1, Types DEF Shape, Order, ChosenStays, ChosenInLog
  <1>3. ~starting => \A l \in Thread : l # k => OnCommitted(l)'
    BY <1>1, <1>2, StaysCommitted DEF Applying
  <1> QED BY <1>1, <1>2, <1>3

LEMMA PauseOrder ==
    ASSUME Shape, Shape', Order, NEW k \in Thread, threads[k].at # "off", NEW t \in ThreadState,
           Pauses(k, t), Moves(k, t)
    PROVE  Order'
  <1> DEFINE u == threads[k]
  <1>0. /\ TypeOK /\ u \in ThreadState /\ u.idx \in Nat /\ u.limit \in Nat /\ lastApplied \in Nat
        /\ Len(log) \in Nat /\ Len(chosen) \in Nat /\ Len(replayed) \in Nat
        /\ t.idx \in Nat /\ t.limit \in Nat
    BY Types DEF Shape, ThreadState
  <1>1. /\ ThreadMoves(k, t) /\ UNCHANGED <<lastApplied, executed, replayed>>
    BY DEF Pauses, fsmVars
  <1>2. /\ threads'[k] = t /\ \A l \in Thread : l # k => threads'[l] = threads[l]
        /\ ChosenStays /\ ChosenInLog'
        /\ ~starting => \A l \in Thread : l # k => OnCommitted(l)'
        /\ UNCHANGED <<log, chosen, commitIndex>>
    BY <1>1, OthersStay
  <1>3. Origins'
    BY <1>1, <1>2, OriginsStay DEF Order
  <1>4. CASE starting
    <2>1. /\ k = 0 /\ u.at = "look" /\ u.idx \in 1..Len(log) /\ replayed = log
          /\ u.limit = Len(log) /\ 0 \in Thread
      <3>1. k = 0
        BY <1>4, OneWhileStarting
      <3>2. u.at \in {"look", "run", "store"}
        BY <1>4, <3>1 DEF Shape, Goroutines
      <3>3. u.at = "look"
        BY <3>2 DEF Moves
      <3> QED BY <1>4, <3>1, <3>3 DEF Order, Replaying
    <2>2. /\ t.idx = u.idx /\ t.limit = u.limit /\ t.entry = log[u.idx] /\ t.at \in {"run", "store"}
      BY <1>0, <2>1 DEF Moves, Applied
    <2>3. starting'
      BY <1>1, <1>4, <2>2 DEF ThreadMoves
    <2>4. Replaying'
      BY <1>1, <1>2, <2>1, <2>2 DEF Replaying
    <2> QED BY <1>2, <1>3, <2>3, <2>4 DEF Order, Applying
  <1>5. CASE ~starting
    <2>1. ~starting' /\ Applying
      BY <1>1, <1>5 DEF ThreadMoves, Order
    <2>2. OnCommitted(k)'
      <3>1. OnCommitted(k) /\ lastApplied >= Len(replayed) /\ commitIndex <= Len(chosen)
        BY <1>5, <2>1 DEF Applying, Order, ChosenInLog
      <3>2. /\ InLoop(t) \/ t.at = "from" => t.limit <= Len(chosen)
            /\ InLoop(t) => t.idx <= t.limit /\ t.idx > Len(replayed)
        BY <1>0, <3>1 DEF OnCommitted, Moves, InLoop, Applied
      <3>3. HasEntry(t) => t.entry = chosen[t.idx]
        <4> SUFFICES ASSUME HasEntry(t) PROVE t.entry = chosen[t.idx]
          OBVIOUS
        <4>1. t.at \in {"run", "tell", "store"}
          BY DEF HasEntry
        <4>2. t.idx = u.idx /\ u.at = "look" /\ t.entry = log[u.idx]
          BY <4>1 DEF Moves
        <4>3. u.idx \in 1..Len(chosen)
          BY <1>0, <3>1, <4>2 DEF OnCommitted, InLoop
        <4> QED BY <4>2, <4>3 DEF Order, ChosenInLog
      <3> QED BY <1>1, <1>2, <3>2, <3>3 DEF OnCommitted
    <2>3. Applying'
      BY <1>1, <1>2, <1>5, <2>1, <2>2 DEF Applying
    <2>4. Replaying'
      BY <2>1 DEF Replaying
    <2> QED BY <1>2, <1>3, <2>3, <2>4 DEF Order
  <1> QED BY <1>4, <1>5

LEMMA StoreOrder ==
    ASSUME Shape, Shape', Order, NEW k \in Thread, NEW t \in ThreadState, Stores(k, t)
    PROVE  Order'
  <1> DEFINE u == threads[k]
  <1>0. /\ TypeOK /\ u \in ThreadState /\ u.idx \in Nat /\ u.limit \in Nat
        /\ Len(log) \in Nat /\ Len(chosen) \in Nat /\ Len(replayed) \in Nat
    BY Types DEF Shape
  <1>1. /\ ThreadMoves(k, t) /\ UNCHANGED <<executed, replayed>> /\ lastApplied' = u.idx
        /\ u.at = "store"
    BY DEF Stores, fsmVars
  <1>2. /\ threads'[k] = t /\ \A l \in Thread : l # k => threads'[l] = threads[l]
        /\ ChosenStays /\ ChosenInLog'
        /\ ~starting => \A l \in Thread : l # k => OnCommitted(l)'
        /\ UNCHANGED <<log, chosen, commitIndex>>
    BY <1>1, OthersStay
  <1>3. Origins'
    BY <1>1, <1>2, OriginsStay DEF Order
  <1>4. \/ u.idx < u.limit /\ t.at = "look" /\ t.idx = u.idx + 1 /\ t.limit = u.limit
        \/ ~(u.idx < u.limit) /\ Resting(k, t)
    BY DEF Stores
  <1>5. CASE starting
    <2>1. /\ k = 0 /\ u.idx \in 1..Len(log) /\ replayed = log /\ u.limit = Len(log)
      BY <1>1, <1>5, OneWhileStarting DEF Order, Replaying
    <2>2. CASE u.idx < u.limit
      <3>1. starting' /\ t.at = "look" /\ t.idx = u.idx + 1 /\ t.limit = u.limit
        BY <1>1, <1>4, <1>5, <2>2 DEF ThreadMoves
      <3>2. t.idx \in 1..Len(log)
        BY <1>0, <2>1, <2>2, <3>1
      <3>3. Replaying'
        BY <1>1, <1>2, <2>1, <3>1, <3>2 DEF Replaying, HasEntry
      <3> QED BY <1>2, <1>3, <3>1, <3>3 DEF Order, Applying
    <2>3. CASE ~(u.idx < u.limit)
      <3>1. t.at = "off" /\ ~starting'
        BY <1>1, <1>4, <2>1, <2>3 DEF Resting, ThreadMoves
      <3>2. lastApplied' >= Len(replayed')
        BY <1>0, <1>1, <2>1, <2>3
      <3>3. ASSUME NEW l \in Thread PROVE threads'[l].at = "off"
        BY <1>2, <1>5, <2>1, <3>1, OneWhileStarting
      <3>4. Applying'
        BY <3>2, <3>3 DEF Applying, OnCommitted, InLoop, HasEntry
      <3> QED BY <1>2, <1>3, <3>1, <3>4 DEF Order, Replaying
    <2> QED BY <2>2, <2>3
  <1>6. CASE ~starting
    <2>1. ~starting' /\ OnCommitted(k)
      BY <1>1, <1>6 DEF ThreadMoves, Order, Applying
    <2>2. u.limit <= Len(chosen) /\ u.idx <= u.limit /\ u.idx > Len(replayed)
      BY <1>1, <2>1 DEF OnCommitted, InLoop
    <2>3. OnCommitted(k)'
      <3>1. CASE u.idx < u.limit
        BY <1>0, <1>1, <1>2, <1>4, <2>2, <3>1 DEF OnCommitted, InLoop, HasEntry
      <3>2. CASE ~(u.idx < u.limit)
        BY <1>2, <1>4, <3>2 DEF Resting, OnCommitted, InLoop, HasEntry
      <3> QED BY <3>1, <3>2
    <2>4. lastApplied' >= Len(replayed')
      BY <1>0, <1>1, <2>2
    <2>5. Applying'
      BY <1>2, <1>6, <2>1, <2>3, <2>4 DEF Applying
    <2> QED BY <1>2, <1>3, <2>1, <2>5 DEF Order, Replaying
  <1> QED BY <1>5, <1>6

\* A thread goes on with the entry it has.
LEMMA AdvanceOrder ==
    ASSUME Shape, Shape', Order, NEW k \in Thread, NEW next \in {"store", "tell"},
           HasEntry(threads[k]), Advances(k, next), UNCHANGED <<lastApplied, replayed>>, Origins'
    PROVE  Order'
  <1> DEFINE u == threads[k]
             t == [u EXCEPT !.at = next]
  <1>0. /\ TypeOK /\ u \in ThreadState /\ ThreadMoves(k, t)
    BY Types DEF Shape, Advances
  <1>1. /\ t.at = next /\ t.idx = u.idx /\ t.limit = u.limit /\ t.entry = u.entry
    BY <1>0 DEF ThreadState
  <1> HIDE DEF t
  <1>2. /\ threads'[k] = t /\ ChosenInLog'
        /\ ~starting => \A l \in Thread : l # k => OnCommitted(l)'
        /\ UNCHANGED <<log, chosen, commitIndex>>
    BY <1>0, OthersStay
  <1>3. starting' = starting
    BY <1>0, <1>1 DEF ThreadMoves, TypeOK
  <1>4. Replaying'
    <2> SUFFICES ASSUME starting PROVE Replaying'
      BY <1>3 DEF Replaying
    <2>1. k = 0
      BY OneWhileStarting DEF HasEntry
    <2> QED BY <1>1, <1>2, <2>1 DEF Replaying, Order, HasEntry
  <1>5. Applying'
    <2> SUFFICES ASSUME ~starting PROVE Applying'
      BY <1>3 DEF Applying
    <2>1. OnCommitted(k) /\ lastApplied >= Len(replayed)
      BY DEF Order, Applying
    <2>2. OnCommitted(k)'
      BY <1>1, <1>2, <2>1 DEF OnCommitted, HasEntry, InLoop
    <2> QED BY <1>2, <2>1, <2>2 DEF Applying
  <1> QED BY <1>2, <1>4, <1>5 DEF Order

\* The entry a thread has is the one of its index: the replayed one while the
\* process starts, the committed one later.
LEMMA EntryRight ==
    ASSUME Shape, Order, NEW k \in Thread, HasEntry(threads[k])
    PROVE  LET u == threads[k]
           IN  /\ starting  => u.idx \in 1..Len(replayed) /\ u.entry = replayed[u.idx]
               /\ ~starting => /\ u.idx \in 1..Len(chosen) /\ u.entry = chosen[u.idx]
                               /\ u.idx > Len(replayed)
  <1> DEFINE u == threads[k]
  <1>0. /\ u.idx \in Nat /\ u.limit \in Nat
        /\ Len(chosen) \in Nat /\ Len(replayed) \in Nat
    BY Types DEF Shape
  <1>1. ASSUME starting PROVE u.idx \in 1..Len(replayed) /\ u.entry = replayed[u.idx]
    <2>1. k = 0
      BY <1>1, OneWhileStarting DEF HasEntry
    <2> QED BY <1>1, <2>1 DEF Order, Replaying
  <1>2. ASSUME ~starting
        PROVE u.idx \in 1..Len(chosen) /\ u.entry = chosen[u.idx] /\ u.idx > Len(replayed)
    <2>1. OnCommitted(k)
      BY <1>2 DEF Order, Applying
    <2>2. u.limit <= Len(chosen) /\ u.idx <= u.limit /\ u.idx > Len(replayed) /\ u.entry = chosen[u.idx]
      BY <2>1 DEF OnCommitted, HasEntry, InLoop
    <2> QED BY <1>0, <2>2
  <1> QED BY <1>1, <1>2

LEMMA RunOrder ==
    ASSUME Shape, Shape', Order, NEW k \in Thread, Run(k), Advances(k, Applied(k))
    PROVE  Order'
  <1> DEFINE u == threads[k]
             x == [index |-> u.idx, entry |-> u.entry,
                   by |-> IF starting THEN "replay" ELSE "apply"]
  <1>1. /\ u.at = "run" /\ executed' = executed \cup {x}
        /\ UNCHANGED <<lastApplied, replayed>>
    BY RunOK
  <1>2. HasEntry(u)
    BY <1>1 DEF HasEntry
  <1>3. chosen' = chosen
    BY DEF Advances, ThreadMoves
  <1>4. Origins'
    <2>1. /\ x.by = "apply" => x.index \in 1..Len(chosen) /\ x.entry = chosen[x.index]
          /\ x.by = "replay" => x.index \in 1..Len(replayed) /\ x.entry = replayed[x.index]
      BY <1>2, EntryRight
    <2> HIDE DEF x
    <2> QED BY <1>1, <1>3, <2>1 DEF Order, Origins
  <1>5. Applied(k) \in {"store", "tell"}
    BY DEF Applied
  <1> QED BY <1>1, <1>2, <1>4, <1>5, AdvanceOrder

LEMMA TellOrder ==
    ASSUME Shape, Shape', Order, NEW k \in Thread, TellWaiters(k), Advances(k, "store")
    PROVE  Order'
  <1>1. threads[k].at = "tell" /\ UNCHANGED <<lastApplied, fsmVars>>
    BY DEF TellWaiters
  <1>2. ChosenStays
    BY Types DEF Shape, ChosenStays, Advances, ThreadMoves
  <1>3. Origins'
    BY <1>1, <1>2, OriginsStay DEF Order, fsmVars
  <1> QED BY <1>1, <1>3, AdvanceOrder DEF HasEntry, fsmVars

LEMMA RestartOrder ==
    ASSUME Shape, Shape', Order, Restart
    PROVE  Order'
  <1> DEFINE first == [Idle EXCEPT !.at = "look", !.idx = 1, !.limit = Len(log)]
  <1>0. /\ TypeOK /\ Len(log) \in Nat /\ Len(chosen) \in Nat /\ (log # <<>> => Len(log) > 0)
        /\ log \in Seq(Seq(Cell)) /\ 0 \in Thread
    BY Types, EmptySeq, ServingAssumption DEF Shape, Thread
  <1>1. /\ commitIndex' = 0 /\ lastApplied' = 0 /\ starting' = (log # <<>>)
        /\ threads' = [k \in Thread |-> IF k = 0 /\ log # <<>> THEN first ELSE Idle]
        /\ executed' = {} /\ replayed' = log
        /\ UNCHANGED <<log, chosen>>
    BY DEF Restart
  <1>2. first.at = "look" /\ first.idx = 1 /\ first.limit = Len(log)
    BY DEF Idle
  <1> HIDE DEF first
  <1>3. ChosenInLog'
    BY <1>0, <1>1 DEF Order, ChosenInLog
  <1>4. Replaying'
    BY <1>0, <1>1, <1>2 DEF Replaying, HasEntry
  <1>5. Applying'
    <2> SUFFICES ASSUME log = <<>> PROVE Applying'
      BY <1>1 DEF Applying
    <2>1. Len(<<>>) = 0
      OBVIOUS
    <2>2. \A k \in Thread : threads'[k] = Idle
      BY <1>1
    <2> QED BY <1>1, <2>1, <2>2, IdleOK DEF Applying, OnCommitted, InLoop, HasEntry
  <1>6. Origins'
    BY <1>1 DEF Origins
  <1> QED BY <1>3, <1>4, <1>5, <1>6 DEF Order

LEMMA NextOrder == Shape /\ Shape' /\ Order /\ [Next]_vars => Order'
  <1> SUFFICES ASSUME Shape, Shape', Order, [Next]_vars PROVE Order'
    OBVIOUS
  <1>1. ASSUME NEW k \in Thread, ThreadStep(k) PROVE Order'
    <2>1. threads[k].at # "off"
      BY <1>1, ThreadCases
    <2>2. CASE \E t \in ThreadState : Pauses(k, t) /\ Moves(k, t)
      BY <2>1, <2>2, PauseOrder
    <2>3. CASE Run(k) /\ Advances(k, Applied(k)) /\ objs' = objs
      BY <2>3, RunOrder
    <2>4. CASE k # 0 /\ TellWaiters(k) /\ Advances(k, "store")
      BY <2>4, TellOrder
    <2>5. CASE \E t \in ThreadState : Stores(k, t)
      BY <2>5, StoreOrder
    <2> QED BY <1>1, <2>2, <2>3, <2>4, <2>5, ThreadCases
  <1>2. CASE Restart
    BY <1>2, RestartOrder
  <1>3. CASE UNCHANGED vars
    BY <1>3, StutterIsOuter, OuterOrder
  <1>4. CASE Next /\ ~Restart /\ \A k \in Thread : ~ThreadStep(k)
    BY <1>4, OuterSteps, OuterOrder
  <1> QED BY <1>1, <1>2, <1>3, <1>4

----------------------------------------------------------------------------
\* Every reachable state is well-typed, whatever the clients ask for and however
\* many leader objects and loops there are: a loop reads and applies only what a
\* counter can count (leader_role.go:333-389, follower_role.go:233-267).
THEOREM ServingTypes == Spec => []TypeOK
  <1>1. Shape => TypeOK
    BY DEF Shape
  <1> QED BY <1>1, InitShape, NextShape, PTL DEF Spec

\* Appliers and handlers execute only committed entries, each at its index,
\* although they read the log without the lock while it is truncated and
\* replaced (leader_role.go:333-389).
THEOREM OnlyCommittedApplied == Spec => []AppliedOnlyCommitted
  <1>1. Shape /\ Order => AppliedOnlyCommitted
    <2> SUFFICES ASSUME Shape, Order, NEW x \in executed, x.by = "apply" PROVE IsChosen(x)
      BY DEF AppliedOnlyCommitted
    <2>1. x.index \in 1..Len(chosen) /\ x.entry = chosen[x.index] /\ Len(chosen) \in Nat
      BY Types DEF Shape, Order, Origins
    <2> QED BY <2>1 DEF IsChosen
  <1> QED BY <1>1, InitShape, NextShape, InitOrder, NextOrder, PTL DEF Spec

----------------------------------------------------------------------------
(* Coverage.                                                               *)

\* A loop is at an index that has a target, and the log has it there.
LEMMA AtTarget ==
    ASSUME Shape, Order, NEW k \in Thread, InLoop(threads[k])
    PROVE  LET u == threads[k]
           IN  /\ u.idx \in Nat /\ u.idx > 0
               /\ u.idx <= Len(replayed) \/ u.idx <= Len(chosen)
               /\ u.idx <= Len(log) => log[u.idx] = Target(u.idx)
               /\ HasEntry(u) => u.entry = Target(u.idx)
  <1> DEFINE u == threads[k]
  <1>0. /\ u.idx \in Nat /\ u.limit \in Nat
        /\ Len(log) \in Nat /\ Len(chosen) \in Nat /\ Len(replayed) \in Nat
    BY Types DEF Shape
  <1>1. CASE starting
    <2>1. k = 0
      BY <1>1, OneWhileStarting DEF InLoop
    <2>2. replayed = log /\ u.idx \in 1..Len(log) /\ (HasEntry(u) => u.entry = log[u.idx])
      BY <1>1, <2>1 DEF Order, Replaying
    <2> QED BY <1>0, <2>2 DEF Target
  <1>2. CASE ~starting
    <2>1. OnCommitted(k) /\ ChosenInLog
      BY <1>2 DEF Order, Applying
    <2>2. /\ u.limit <= Len(chosen) /\ u.idx <= u.limit /\ u.idx > Len(replayed)
          /\ HasEntry(u) => u.entry = chosen[u.idx]
      BY <2>1 DEF OnCommitted, InLoop, HasEntry
    <2>3. u.idx \in 1..Len(chosen) /\ ~(u.idx <= Len(replayed))
      BY <1>0, <2>2
    <2>4. log[u.idx] = chosen[u.idx]
      BY <2>1, <2>3 DEF ChosenInLog
    <2> QED BY <1>0, <2>2, <2>3, <2>4 DEF Target
  <1> QED BY <1>1, <1>2

\* What is covered stays covered, while nothing is forgotten.
LEMMA CoverStays ==
    ASSUME Shape, Shape', ChosenStays, replayed' = replayed, executed \subseteq executed',
           NEW n \in Int, CoveredUpTo(n)
    PROVE  /\ n <= Len(replayed') \/ n <= Len(chosen')
           /\ \A k \in 1..n : Covered(k)'
  <1>1. Len(chosen) \in Nat /\ Len(chosen') \in Nat /\ Len(replayed) \in Nat
    BY Types, LenProperties DEF Shape, TypeOK
  <1>2. n <= Len(replayed') \/ n <= Len(chosen')
    BY <1>1 DEF CoveredUpTo, ChosenStays
  <1>3. ASSUME NEW k \in 1..n PROVE Covered(k)'
    <2>1. Covered(k)
      BY DEF CoveredUpTo
    <2>2. k <= Len(replayed) \/ k \in 1..Len(chosen)
      BY <1>1 DEF CoveredUpTo
    <2>3. Target(k)' = Target(k)
      BY <2>2 DEF Target, ChosenStays
    <2> QED BY <2>1, <2>3 DEF Covered, StandsFor
  <1> QED BY <1>2, <1>3

\* For the threads that do not move.
LEMMA LoopStays ==
    ASSUME Shape, Shape', ChosenStays, replayed' = replayed, executed \subseteq executed',
           NEW k \in Thread, LoopCovered(k),
           threads'[k] = threads[k] \/ threads'[k].at \in {"wait", "load", "from", "off"}
    PROVE  LoopCovered(k)'
  <1>1. CASE threads'[k] = threads[k]
    <2>0. threads[k].idx \in Int /\ threads[k].idx - 1 \in Int
      BY Types DEF Shape
    <2>1. ASSUME threads[k].at \in {"look", "run"}
          PROVE  CoveredUpTo(threads[k].idx - 1)'
      <3>1. PICK n \in Int : n = threads[k].idx - 1
        BY <2>0
      <3>2. CoveredUpTo(n)
        BY <2>1, <3>1 DEF LoopCovered
      <3>3. /\ n <= Len(replayed') \/ n <= Len(chosen')
            /\ \A i \in 1..n : Covered(i)'
        BY <3>2, CoverStays
      <3> QED BY <1>1, <3>1, <3>3 DEF CoveredUpTo
    <2>2. ASSUME threads[k].at \in {"tell", "store"}
          PROVE  CoveredUpTo(threads[k].idx)'
      <3>1. PICK n \in Int : n = threads[k].idx
        BY <2>0
      <3>2. CoveredUpTo(n)
        BY <2>2, <3>1 DEF LoopCovered
      <3>3. /\ n <= Len(replayed') \/ n <= Len(chosen')
            /\ \A i \in 1..n : Covered(i)'
        BY <3>2, CoverStays
      <3> QED BY <1>1, <3>1, <3>3 DEF CoveredUpTo
    <2> QED BY <1>1, <2>1, <2>2 DEF LoopCovered
  <1>2. CASE threads'[k].at \in {"wait", "load", "from", "off"}
    BY <1>2 DEF LoopCovered
  <1> QED BY <1>1, <1>2

\* For lastApplied, when it is not stored.
LEMMA LastStays ==
    ASSUME Shape, Shape', ChosenStays, UNCHANGED <<replayed, lastApplied>>,
           executed \subseteq executed', CoveredUpTo(lastApplied)
    PROVE  CoveredUpTo(lastApplied)'
  <1>1. PICK n \in Int : n = lastApplied
    BY Types DEF Shape
  <1>2. /\ n <= Len(replayed') \/ n <= Len(chosen')
        /\ \A i \in 1..n : Covered(i)'
    BY <1>1, CoverStays
  <1> QED BY <1>1, <1>2 DEF CoveredUpTo

LEMMA InitCoverage == Init => Coverage
  <1> SUFFICES ASSUME Init PROVE Coverage
    OBVIOUS
  <1>1. Len(<<>>) = 0
    OBVIOUS
  <1>2. SessionsRight
    BY DEF Init, SessionsRight, NewSessionTable
  <1>3. CoveredUpTo(lastApplied)
    BY <1>1 DEF Init, CoveredUpTo
  <1>4. \A k \in Thread : LoopCovered(k)
    BY IdleOK DEF Init, LoopCovered
  <1> QED BY <1>2, <1>3, <1>4 DEF Coverage

LEMMA OuterCoverage ==
    ASSUME Shape, Shape', Coverage, OuterStep
    PROVE  Coverage'
  <1>0. /\ ChosenStays /\ UNCHANGED <<lastApplied, executed, sessions, replayed>>
        /\ \A k \in Thread : threads'[k] = threads[k] \/ threads'[k].at \in {"wait", "load"}
    BY DEF OuterStep, fsmVars, ChosenStays
  <1>1. SessionsRight'
    BY <1>0 DEF Coverage, SessionsRight
  <1>2. CoveredUpTo(lastApplied)'
    BY <1>0, LastStays DEF Coverage
  <1>3. \A k \in Thread : LoopCovered(k)'
    BY <1>0, LoopStays DEF Coverage
  <1> QED BY <1>1, <1>2, <1>3 DEF Coverage

\* An entry that a loop passes over has no data, or repeats a request.
LEMMA PassedOver ==
    ASSUME Shape, SessionsRight, NEW k \in Nat, Target(k) \in Seq(Cell), ~ToApply(Target(k))
    PROVE  Covered(k)
  <1> DEFINE e == Deserialize(Target(k))
  <1>1. CASE e.data = <<>>
    BY <1>1 DEF Covered
  <1>2. CASE e.data # <<>>
    <2>1. e.clientId # <<>> /\ e.clientId \in DOMAIN sessions /\ e.seq <= sessions[e.clientId]
      BY <1>2 DEF ToApply, IsDuplicate
    <2>2. PICK x \in executed : /\ Deserialize(x.entry).clientId = e.clientId
                                /\ Deserialize(x.entry).seq = sessions[e.clientId]
      BY <2>1 DEF SessionsRight
    <2>3. e.seq \in Nat /\ sessions[e.clientId] \in Nat
      BY <2>1, PartsOK, Types DEF Shape
    <2>4. StandsFor(x, k, Target(k))
      BY <2>1, <2>2, <2>3 DEF StandsFor, SameClient
    <2> QED BY <2>4 DEF Covered
  <1> QED BY <1>1, <1>2

LEMMA PauseCoverage ==
    ASSUME Shape, Shape', Order, Coverage, NEW k \in Thread, threads[k].at # "off",
           NEW t \in ThreadState, Pauses(k, t), Moves(k, t)
    PROVE  Coverage'
  <1> DEFINE u == threads[k]
  <1>0. /\ TypeOK /\ u \in ThreadState /\ u.idx \in Nat /\ lastApplied \in Nat /\ t.idx \in Nat
    BY Types DEF Shape, ThreadState
  <1>1. ThreadMoves(k, t) /\ UNCHANGED <<lastApplied, executed, sessions, replayed>>
    BY DEF Pauses, fsmVars
  <1>2. /\ threads'[k] = t /\ \A l \in Thread : l # k => threads'[l] = threads[l]
        /\ ChosenStays /\ chosen' = chosen
    BY <1>1, OthersStay
  <1>3. SessionsRight'
    BY <1>1 DEF Coverage, SessionsRight
  <1>4. CoveredUpTo(lastApplied)'
    BY <1>1, <1>2, LastStays DEF Coverage
  <1>5. ASSUME NEW l \in Thread, l # k PROVE LoopCovered(l)'
    BY <1>1, <1>2, <1>5, LoopStays DEF Coverage
  <1>6. LoopCovered(k)'
    <2>1. CASE t.at \in {"off", "wait", "load", "from"}
      BY <1>1, <1>2, <2>1, LoopStays DEF Coverage
    <2>2. CASE u.at = "from" /\ t.at = "look" /\ t.idx = lastApplied + 1
      <3>1. t.idx - 1 = lastApplied
        BY <1>0, <2>2
      <3> QED BY <1>1, <1>2, <1>4, <2>2, <3>1 DEF LoopCovered
    <2>3. CASE /\ u.at = "look" /\ u.idx <= Len(log)
               /\ t.idx = u.idx /\ t.entry = log[u.idx]
               /\ t.at = IF ToApply(t.entry) THEN "run" ELSE Applied(k)
      <3>1. PICK n \in Int : n = u.idx - 1
        BY <1>0
      <3>2. CoveredUpTo(n)
        BY <2>3, <3>1 DEF Coverage, LoopCovered
      <3>3. /\ n <= Len(replayed') \/ n <= Len(chosen')
            /\ \A i \in 1..n : Covered(i)'
        BY <1>1, <1>2, <3>2, CoverStays
      <3>4. CASE ToApply(t.entry)
        BY <1>2, <2>3, <3>1, <3>3, <3>4 DEF LoopCovered, CoveredUpTo
      <3>5. CASE ~ToApply(t.entry)
        <4>1. /\ u.idx > 0 /\ log[u.idx] = Target(u.idx)
              /\ u.idx <= Len(replayed) \/ u.idx <= Len(chosen)
          BY <2>3, AtTarget DEF InLoop
        <4>2. Target(u.idx) \in Seq(Cell)
          BY <1>0, <2>3, <4>1, Types
        <4>3. Covered(u.idx)
          BY <1>0, <2>3, <3>5, <4>1, <4>2, PassedOver DEF Coverage
        <4>4. \A i \in 1..u.idx : i \in 1..n \/ i = u.idx
          BY <1>0, <3>1
        <4>5. CoveredUpTo(u.idx)
          BY <3>2, <4>1, <4>3, <4>4 DEF CoveredUpTo
        <4>6. PICK m \in Int : m = u.idx
          BY <1>0
        <4>7. /\ m <= Len(replayed') \/ m <= Len(chosen')
              /\ \A i \in 1..m : Covered(i)'
          BY <1>1, <1>2, <4>5, <4>6, CoverStays
        <4>8. t.at \in {"tell", "store"}
          BY <2>3, <3>5 DEF Applied
        <4> QED BY <1>2, <2>3, <4>6, <4>7, <4>8 DEF LoopCovered, CoveredUpTo
      <3> QED BY <3>4, <3>5
    <2> QED BY <2>1, <2>2, <2>3 DEF Moves
  <1> QED BY <1>3, <1>4, <1>5, <1>6 DEF Coverage

LEMMA StoreCoverage ==
    ASSUME Shape, Shape', Order, Coverage, NEW k \in Thread, NEW t \in ThreadState, Stores(k, t)
    PROVE  Coverage'
  <1> DEFINE u == threads[k]
  <1>0. u.idx \in Nat
    BY Types DEF Shape
  <1>1. /\ ThreadMoves(k, t) /\ UNCHANGED <<executed, sessions, replayed>> /\ u.at = "store"
        /\ lastApplied' = u.idx
    BY DEF Stores, fsmVars
  <1>2. /\ threads'[k] = t /\ \A l \in Thread : l # k => threads'[l] = threads[l]
        /\ ChosenStays
    BY <1>1, OthersStay
  <1>3. SessionsRight'
    BY <1>1 DEF Coverage, SessionsRight
  <1>4. CoveredUpTo(lastApplied)'
    <2>1. PICK n \in Int : n = u.idx
      BY <1>0
    <2>2. CoveredUpTo(n)
      BY <1>1, <2>1 DEF Coverage, LoopCovered
    <2>3. /\ n <= Len(replayed') \/ n <= Len(chosen')
          /\ \A i \in 1..n : Covered(i)'
      BY <1>1, <1>2, <2>2, CoverStays
    <2> QED BY <1>1, <2>1, <2>3 DEF CoveredUpTo
  <1>5. ASSUME NEW l \in Thread, l # k PROVE LoopCovered(l)'
    BY <1>1, <1>2, <1>5, LoopStays DEF Coverage
  <1>6. LoopCovered(k)'
    <2>1. CASE t.at = "look" /\ t.idx = u.idx + 1
      <3>1. t.idx - 1 = lastApplied'
        BY <1>0, <1>1, <2>1
      <3> QED BY <1>2, <1>4, <2>1, <3>1 DEF LoopCovered
    <2>2. CASE Resting(k, t)
      <3>1. t.at \in {"off", "wait", "load"}
        BY <2>2 DEF Resting
      <3> QED BY <1>1, <1>2, <3>1, LoopStays DEF Coverage
    <2> QED BY <2>1, <2>2 DEF Stores
  <1> QED BY <1>3, <1>4, <1>5, <1>6 DEF Coverage

\* Apply and Record together keep the session table right.
LEMMA RecordRight ==
    ASSUME Shape, SessionsRight, NEW x \in Execution, executed' = executed \cup {x},
           sessions' = Record(sessions, Deserialize(x.entry).clientId, Deserialize(x.entry).seq)
    PROVE  SessionsRight'
  <1> DEFINE c == Deserialize(x.entry).clientId
             q == Deserialize(x.entry).seq
  <1>0. q \in Nat /\ \A y \in DOMAIN sessions : sessions[y] \in Nat
    BY PartsOK, Types DEF Shape, Execution
  <1>1. \A y \in executed : Deserialize(y.entry).seq \in Nat
    BY PartsOK, Types DEF Shape, Execution
  <1>2. CASE c = <<>>
    <2>1. sessions' = sessions
      BY <1>2 DEF Record
    <2> QED BY <1>2, <2>1 DEF SessionsRight
  <1>3. CASE c # <<>> /\ c \in DOMAIN sessions /\ q <= sessions[c]
    <2>1. sessions' = sessions
      BY <1>3 DEF Record
    <2> QED BY <1>3, <2>1 DEF SessionsRight
  <1>4. CASE c # <<>> /\ ~(c \in DOMAIN sessions /\ q <= sessions[c])
    <2>1. sessions' = [y \in DOMAIN sessions \cup {c} |-> IF y = c THEN q ELSE sessions[y]]
      BY <1>4 DEF Record
    <2>2. /\ DOMAIN sessions' = DOMAIN sessions \cup {c} /\ sessions'[c] = q
          /\ \A y \in DOMAIN sessions : y # c => sessions'[y] = sessions[y]
      BY <2>1
    <2>3. ASSUME NEW y \in DOMAIN sessions'
          PROVE  \E z \in executed' : /\ Deserialize(z.entry).clientId = y /\ y # <<>>
                                      /\ Deserialize(z.entry).seq = sessions'[y]
      <3>1. CASE y = c
        BY <1>4, <2>2, <3>1
      <3>2. CASE y # c
        BY <2>2, <3>2 DEF SessionsRight
      <3> QED BY <3>1, <3>2
    <2>4. ASSUME NEW z \in executed', Deserialize(z.entry).clientId # <<>>
          PROVE  /\ Deserialize(z.entry).clientId \in DOMAIN sessions'
                 /\ Deserialize(z.entry).seq <= sessions'[Deserialize(z.entry).clientId]
      <3>1. CASE z = x
        BY <1>0, <2>2, <3>1
      <3>2. CASE z \in executed
        <4>1. /\ Deserialize(z.entry).clientId \in DOMAIN sessions
              /\ Deserialize(z.entry).seq <= sessions[Deserialize(z.entry).clientId]
          BY <2>4, <3>2 DEF SessionsRight
        <4>2. Deserialize(z.entry).clientId = c => Deserialize(z.entry).seq <= q
          BY <1>0, <1>1, <1>4, <3>2, <4>1
        <4> QED BY <2>2, <4>1, <4>2
      <3> QED BY <3>1, <3>2
    <2> QED BY <2>3, <2>4 DEF SessionsRight
  <1> QED BY <1>2, <1>3, <1>4

LEMMA RunCoverage ==
    ASSUME Shape, Shape', Order, Coverage, NEW k \in Thread, Run(k), Advances(k, Applied(k))
    PROVE  Coverage'
  <1> DEFINE u == threads[k]
             t == [u EXCEPT !.at = Applied(k)]
             x == [index |-> u.idx, entry |-> u.entry,
                   by |-> IF starting THEN "replay" ELSE "apply"]
  <1>0. /\ u \in ThreadState /\ ThreadMoves(k, t)
    BY Types DEF Shape, Advances
  <1>1. /\ u.at = "run" /\ executed' = executed \cup {x} /\ x \in Execution
        /\ sessions' = Record(sessions, Deserialize(x.entry).clientId, Deserialize(x.entry).seq)
        /\ UNCHANGED <<lastApplied, replayed>>
    BY RunOK
  <1>2. t.at \in {"tell", "store"} /\ t.idx = u.idx
    BY <1>0 DEF ThreadState, Applied
  <1>3. x.index = u.idx /\ x.entry = u.entry
    OBVIOUS
  <1> HIDE DEF t, x
  <1>4. /\ threads'[k] = t /\ \A l \in Thread : l # k => threads'[l] = threads[l]
        /\ ChosenStays /\ chosen' = chosen
    BY <1>0, <1>1, OthersStay
  <1>5. SessionsRight'
    BY <1>1, RecordRight DEF Coverage
  <1>6. CoveredUpTo(lastApplied)'
    BY <1>1, <1>4, LastStays DEF Coverage
  <1>7. ASSUME NEW l \in Thread, l # k PROVE LoopCovered(l)'
    BY <1>1, <1>4, <1>7, LoopStays DEF Coverage
  <1>8. LoopCovered(k)'
    <2>1. /\ u.idx \in Nat /\ u.idx > 0 /\ u.entry = Target(u.idx)
          /\ u.idx <= Len(replayed) \/ u.idx <= Len(chosen)
      BY <1>1, AtTarget DEF InLoop, HasEntry
    <2>2. PICK n \in Int, m \in Int : n = u.idx - 1 /\ m = u.idx
      BY <2>1
    <2>3. CoveredUpTo(n)
      BY <1>1, <2>2 DEF Coverage, LoopCovered
    <2>4. \A i \in 1..n : Covered(i)'
      BY <1>1, <1>4, <2>3, CoverStays
    <2>5. Covered(m)'
      <3>1. Target(m)' = Target(m)
        BY <1>1, <1>4 DEF Target
      <3>2. StandsFor(x, m, Target(m))
        BY <1>3, <2>1, <2>2 DEF StandsFor
      <3> QED BY <1>1, <3>1, <3>2 DEF Covered, StandsFor
    <2>6. \A i \in 1..m : i \in 1..n \/ i = m
      BY <2>1, <2>2
    <2> QED BY <1>1, <1>2, <1>4, <2>1, <2>2, <2>4, <2>5, <2>6 DEF LoopCovered, CoveredUpTo
  <1> QED BY <1>5, <1>6, <1>7, <1>8 DEF Coverage

LEMMA TellCoverage ==
    ASSUME Shape, Shape', Order, Coverage, NEW k \in Thread, TellWaiters(k), Advances(k, "store")
    PROVE  Coverage'
  <1> DEFINE u == threads[k]
             t == [u EXCEPT !.at = "store"]
  <1>0. /\ u \in ThreadState /\ ThreadMoves(k, t)
    BY Types DEF Shape, Advances
  <1>1. u.at = "tell" /\ UNCHANGED <<lastApplied, executed, sessions, replayed>>
    BY DEF TellWaiters, fsmVars
  <1>2. t.at = "store" /\ t.idx = u.idx /\ u.idx \in Nat
    BY <1>0 DEF ThreadState
  <1> HIDE DEF t
  <1>3. /\ threads'[k] = t /\ \A l \in Thread : l # k => threads'[l] = threads[l]
        /\ ChosenStays
    BY <1>0, <1>1, OthersStay
  <1>4. SessionsRight'
    BY <1>1 DEF Coverage, SessionsRight
  <1>5. CoveredUpTo(lastApplied)'
    BY <1>1, <1>3, LastStays DEF Coverage
  <1>6. ASSUME NEW l \in Thread, l # k PROVE LoopCovered(l)'
    BY <1>1, <1>3, <1>6, LoopStays DEF Coverage
  <1>7. LoopCovered(k)'
    <2>1. PICK n \in Int : n = u.idx
      BY <1>2
    <2>2. CoveredUpTo(n)
      BY <1>1, <2>1 DEF Coverage, LoopCovered
    <2>3. /\ n <= Len(replayed') \/ n <= Len(chosen')
          /\ \A i \in 1..n : Covered(i)'
      BY <1>1, <1>3, <2>2, CoverStays
    <2> QED BY <1>2, <1>3, <2>1, <2>3 DEF LoopCovered, CoveredUpTo
  <1> QED BY <1>4, <1>5, <1>6, <1>7 DEF Coverage

LEMMA RestartCoverage ==
    ASSUME Shape, Shape', Restart
    PROVE  Coverage'
  <1> DEFINE first == [Idle EXCEPT !.at = "look", !.idx = 1, !.limit = Len(log)]
  <1>0. Len(log) \in Nat
    BY Types DEF Shape
  <1>1. /\ lastApplied' = 0 /\ executed' = {} /\ replayed' = log /\ sessions' = NewSessionTable
        /\ threads' = [k \in Thread |-> IF k = 0 /\ log # <<>> THEN first ELSE Idle]
    BY DEF Restart
  <1>2. first.at = "look" /\ first.idx = 1
    BY DEF Idle
  <1> HIDE DEF first
  <1>3. SessionsRight'
    BY <1>1 DEF SessionsRight, NewSessionTable
  <1>4. CoveredUpTo(lastApplied)'
    BY <1>0, <1>1 DEF CoveredUpTo
  <1>5. ASSUME NEW k \in Thread PROVE LoopCovered(k)'
    <2>1. CASE threads'[k] = first
      BY <1>0, <1>1, <1>2, <2>1 DEF LoopCovered, CoveredUpTo
    <2>2. CASE threads'[k] = Idle
      BY <2>2, IdleOK DEF LoopCovered
    <2> QED BY <1>1, <2>1, <2>2
  <1> QED BY <1>3, <1>4, <1>5 DEF Coverage

LEMMA NextCoverage == Shape /\ Shape' /\ Order /\ Coverage /\ [Next]_vars => Coverage'
  <1> SUFFICES ASSUME Shape, Shape', Order, Coverage, [Next]_vars PROVE Coverage'
    OBVIOUS
  <1>1. ASSUME NEW k \in Thread, ThreadStep(k) PROVE Coverage'
    <2>1. threads[k].at # "off"
      BY <1>1, ThreadCases
    <2>2. CASE \E t \in ThreadState : Pauses(k, t) /\ Moves(k, t)
      BY <2>1, <2>2, PauseCoverage
    <2>3. CASE Run(k) /\ Advances(k, Applied(k)) /\ objs' = objs
      BY <2>3, RunCoverage
    <2>4. CASE k # 0 /\ TellWaiters(k) /\ Advances(k, "store")
      BY <2>4, TellCoverage
    <2>5. CASE \E t \in ThreadState : Stores(k, t)
      BY <2>5, StoreCoverage
    <2> QED BY <1>1, <2>2, <2>3, <2>4, <2>5, ThreadCases
  <1>2. CASE Restart
    BY <1>2, RestartCoverage
  <1>3. CASE UNCHANGED vars
    BY <1>3, StutterIsOuter, OuterCoverage
  <1>4. CASE Next /\ ~Restart /\ \A k \in Thread : ~ThreadStep(k)
    BY <1>4, OuterSteps, OuterCoverage
  <1> QED BY <1>1, <1>2, <1>3, <1>4

\* No loop leaves out a committed entry: each up to lastApplied was executed,
\* has no data, or repeats a request that was executed, even when a loop that
\* was overtaken stores an older lastApplied (leader_role.go:333-389,
\* follower_role.go:233-267).
THEOREM NoEntrySkipped == Spec => []NothingSkipped
  <1>1. Shape /\ Coverage => NothingSkipped
    <2> SUFFICES ASSUME Shape, Coverage, ReplayHarmless, NEW k \in 1..lastApplied,
                        k <= Len(chosen), Deserialize(chosen[k]).data # <<>>
                 PROVE  \E x \in executed : StandsFor(x, k, chosen[k])
      BY DEF NothingSkipped, StandsFor
    <2>1. /\ Len(chosen) \in Nat /\ Len(replayed) \in Nat /\ lastApplied \in Nat
          /\ chosen \in Seq(Seq(Cell))
      BY Types DEF Shape
    <2>2. Target(k) = chosen[k]
      <3>1. CASE k <= Len(replayed)
        <4>0. Len(replayed) <= Len(chosen) /\ SubSeq(chosen, 1, Len(replayed)) = replayed
          BY Types DEF Shape, ReplayHarmless
        <4>1. \A i \in 1..Len(replayed) : chosen[i] \in Seq(Cell)
          BY <2>1, <4>0, ElementOfSeq
        <4>2. SubSeq(chosen, 1, Len(replayed))[k] = chosen[k]
          BY <2>1, <3>1, <4>0, <4>1, SubSeqProperties
        <4> QED BY <3>1, <4>0, <4>2 DEF Target
      <3>2. CASE ~(k <= Len(replayed))
        BY <3>2 DEF Target
      <3> QED BY <3>1, <3>2
    <2>3. Covered(k)
      BY DEF Coverage, CoveredUpTo
    <2> QED BY <2>2, <2>3 DEF Covered
  <1> QED BY <1>1, InitShape, NextShape, InitOrder, NextOrder, InitCoverage, NextCoverage, PTL
       DEF Spec

----------------------------------------------------------------------------
(* Retries.                                                                *)

LEMMA QuietRetries ==
    ASSUME Retries, executed' = executed,
           \A k \in Thread : threads'[k] = threads[k] \/ threads'[k].at # "run"
    PROVE  Retries'
  <1>1. \A k \in Thread : Running(k)' => Running(k) /\ threads'[k] = threads[k]
    BY DEF Running
  <1> QED BY <1>1 DEF Retries, RetriesNotApplied, SameRequest, SameClient

\* An entry that is not a duplicate repeats nothing executed.
LEMMA NotExecuted ==
    ASSUME Shape, SessionsRight, NEW raw \in Seq(Cell), ToApply(raw),
           NEW x \in executed, SameClient(x.entry, raw)
    PROVE  Deserialize(x.entry).seq < Deserialize(raw).seq
  <1> DEFINE e == Deserialize(raw)
             q == Deserialize(x.entry).seq
  <1>1. e.clientId # <<>> /\ Deserialize(x.entry).clientId = e.clientId
    BY DEF SameClient
  <1>2. e.clientId \in DOMAIN sessions /\ q <= sessions[e.clientId]
    BY <1>1 DEF SessionsRight
  <1>3. ~(e.seq <= sessions[e.clientId])
    BY <1>1, <1>2 DEF ToApply, IsDuplicate
  <1>4. e.seq \in Nat /\ q \in Nat /\ sessions[e.clientId] \in Nat
    BY <1>2, PartsOK, Types DEF Shape, Execution
  <1> QED BY <1>2, <1>3, <1>4

\* An entry to apply is not a request of an index that is covered.
LEMMA NotCovered ==
    ASSUME Shape, SessionsRight, NEW raw \in Seq(Cell), ToApply(raw), NEW i, Covered(i),
           Deserialize(Target(i)).data # <<>>, Target(i) \in Seq(Cell),
           SameRequest(Target(i), raw)
    PROVE  FALSE
  <1>1. PICK x \in executed : StandsFor(x, i, Target(i))
    BY DEF Covered
  <1>2. SameClient(Target(i), raw) /\ Deserialize(Target(i)).seq = Deserialize(raw).seq
    BY DEF SameRequest
  <1>3. SameClient(x.entry, raw) /\ Deserialize(x.entry).seq >= Deserialize(raw).seq
    <2>1. Deserialize(raw).seq \in Nat
      BY PartsOK
    <2> QED BY <1>1, <1>2, <2>1 DEF StandsFor, SameClient
  <1>4. Deserialize(x.entry).seq < Deserialize(raw).seq
    BY <1>3, NotExecuted
  <1>5. Deserialize(x.entry).seq \in Nat /\ Deserialize(raw).seq \in Nat
    BY PartsOK, Types DEF Shape, Execution
  <1> QED BY <1>3, <1>4, <1>5

\* A loop that reads an entry to apply repeats neither what was executed nor
\* what another loop is about to execute.
LEMMA LookRetries ==
    ASSUME Shape, Order, Coverage, NEW k \in Thread,
           threads[k].at = "look", threads[k].idx <= Len(log), ToApply(log[threads[k].idx])
    PROVE  LET raw == log[threads[k].idx]
           IN  /\ \A x \in executed : ~SameRequest(raw, x.entry)
               /\ \A l \in Thread : Running(l) /\ SameRequest(raw, threads[l].entry)
                                      => threads[l].idx = threads[k].idx
  <1> DEFINE u == threads[k]
             raw == log[u.idx]
  <1>0. /\ u.idx \in Nat /\ u.idx > 0 /\ raw = Target(u.idx) /\ raw \in Seq(Cell)
    <2>1. u.idx \in Nat /\ u.idx > 0 /\ raw = Target(u.idx)
      BY AtTarget DEF InLoop
    <2> QED BY <2>1, Types DEF Shape
  <1>1. Deserialize(raw).data # <<>>
    BY DEF ToApply
  <1>2. ASSUME NEW x \in executed, SameRequest(raw, x.entry) PROVE FALSE
    <2>1. SameClient(x.entry, raw) /\ Deserialize(x.entry).seq = Deserialize(raw).seq
      BY <1>2 DEF SameRequest, SameClient
    <2>2. Deserialize(x.entry).seq < Deserialize(raw).seq
      BY <1>0, <2>1, NotExecuted DEF Coverage
    <2>3. Deserialize(raw).seq \in Nat
      BY <1>0, PartsOK
    <2> QED BY <2>1, <2>2, <2>3
  <1>3. ASSUME NEW l \in Thread, Running(l), SameRequest(raw, threads[l].entry),
               threads[l].idx # u.idx
        PROVE  FALSE
    <2> DEFINE w == threads[l]
    <2>1. /\ w.idx \in Nat /\ w.idx > 0 /\ w.entry = Target(w.idx)
      BY <1>3, AtTarget DEF Running, InLoop, HasEntry
    <2>2. w.entry \in Seq(Cell) /\ Deserialize(w.entry).data # <<>>
      BY <1>3, Types DEF Shape, Payloads, Running
    <2>3. SameRequest(w.entry, raw)
      BY <1>3 DEF SameRequest, SameClient
    <2>4. CoveredUpTo(u.idx - 1) /\ CoveredUpTo(w.idx - 1)
      BY <1>3 DEF Coverage, LoopCovered, Running
    <2>5. CASE w.idx < u.idx
      <3>1. w.idx \in 1..(u.idx - 1)
        BY <1>0, <2>1, <2>5
      <3>2. Covered(w.idx)
        BY <2>4, <3>1 DEF CoveredUpTo
      <3> QED BY <1>0, <2>1, <2>2, <2>3, <3>2, NotCovered DEF Coverage
    <2>6. CASE u.idx < w.idx
      <3>1. u.idx \in 1..(w.idx - 1)
        BY <1>0, <2>1, <2>6
      <3>2. Covered(u.idx)
        BY <2>4, <3>1 DEF CoveredUpTo
      <3>3. SameRequest(Target(u.idx), raw)
        BY <1>0, <1>3 DEF SameRequest, SameClient
      <3> QED BY <1>0, <1>1, <3>2, <3>3, NotCovered DEF Coverage
    <2> QED BY <1>0, <1>3, <2>1, <2>5, <2>6
  <1> QED BY <1>2, <1>3

LEMMA PauseRetries ==
    ASSUME Shape, Shape', Order, Coverage, Retries, NEW k \in Thread, NEW t \in ThreadState,
           Pauses(k, t), Moves(k, t)
    PROVE  Retries'
  <1> DEFINE u == threads[k]
  <1>1. ThreadMoves(k, t) /\ UNCHANGED <<executed, replayed>>
    BY DEF Pauses, fsmVars
  <1>2. threads'[k] = t /\ \A l \in Thread : l # k => threads'[l] = threads[l]
    BY <1>1, OthersStay
  <1>3. CASE t.at # "run"
    BY <1>1, <1>2, <1>3, QuietRetries
  <1>4. CASE t.at = "run"
    <2>1. /\ u.at = "look" /\ u.idx <= Len(log) /\ t.idx = u.idx /\ t.entry = log[u.idx]
          /\ ToApply(t.entry)
      BY <1>4 DEF Moves, Applied
    <2>2. /\ \A x \in executed : ~SameRequest(t.entry, x.entry)
          /\ \A l \in Thread : Running(l) /\ SameRequest(t.entry, threads[l].entry)
                                 => threads[l].idx = t.idx
      BY <2>1, LookRetries
    <2>3. \A l \in Thread : l # k => (Running(l)' <=> Running(l)) /\ threads'[l] = threads[l]
      BY <1>2 DEF Running
    <2>4. RetriesNotApplied'
      BY <1>1 DEF Retries, RetriesNotApplied, SameClient
    <2>5. ASSUME NEW l \in Thread, NEW x \in executed', Running(l)',
                 SameRequest(threads'[l].entry, x.entry)
          PROVE  x.index = threads'[l].idx
      BY <1>1, <1>2, <2>2, <2>3, <2>5 DEF Retries
    <2>6. ASSUME NEW l \in Thread, NEW m \in Thread, Running(l)', Running(m)',
                 SameRequest(threads'[l].entry, threads'[m].entry)
          PROVE  threads'[l].idx = threads'[m].idx
      <3>1. CASE l = k /\ m = k
        BY <3>1
      <3>2. CASE l = k /\ m # k
        BY <1>2, <2>2, <2>3, <2>6, <3>2
      <3>3. CASE l # k /\ m = k
        <4>1. SameRequest(t.entry, threads[l].entry)
          BY <1>2, <2>6, <3>3 DEF SameRequest, SameClient
        <4> QED BY <1>2, <2>2, <2>3, <2>6, <3>3, <4>1
      <3>4. CASE l # k /\ m # k
        BY <2>3, <2>6, <3>4 DEF Retries
      <3> QED BY <3>1, <3>2, <3>3, <3>4
    <2> QED BY <2>4, <2>5, <2>6 DEF Retries, SameRequest, SameClient
  <1> QED BY <1>3, <1>4

LEMMA RunRetries ==
    ASSUME Shape, Shape', Order, Retries, NEW k \in Thread, Run(k), Advances(k, Applied(k))
    PROVE  Retries'
  <1> DEFINE u == threads[k]
             t == [u EXCEPT !.at = Applied(k)]
             x == [index |-> u.idx, entry |-> u.entry,
                   by |-> IF starting THEN "replay" ELSE "apply"]
  <1>0. u \in ThreadState /\ ThreadMoves(k, t)
    BY Types DEF Shape, Advances
  <1>1. u.at = "run" /\ executed' = executed \cup {x} /\ replayed' = replayed
    BY RunOK
  <1>2. t.at # "run" /\ x.index = u.idx /\ x.entry = u.entry
    BY <1>0 DEF ThreadState, Applied
  <1> HIDE DEF t, x
  <1>3. threads'[k] = t /\ \A l \in Thread : l # k => threads'[l] = threads[l]
    BY <1>0, <1>1, OthersStay
  <1>4. \A l \in Thread : Running(l)' => Running(l) /\ threads'[l] = threads[l]
    BY <1>2, <1>3 DEF Running
  <1>5. Running(k) /\ \A y \in executed : SameRequest(u.entry, y.entry) => y.index = u.idx
    BY <1>1 DEF Retries, Running
  <1>6. ASSUME NEW y \in executed', NEW z \in executed', SameRequest(y.entry, z.entry)
        PROVE  y.index = z.index
    <2>1. SameRequest(z.entry, y.entry)
      BY <1>6 DEF SameRequest, SameClient
    <2>2. CASE y = x \/ z = x
      BY <1>1, <1>2, <1>5, <1>6, <2>1, <2>2
    <2>3. CASE y \in executed /\ z \in executed
      BY <1>6, <2>3 DEF Retries, RetriesNotApplied, SameRequest
    <2> QED BY <1>1, <2>2, <2>3
  <1>7. RetriesNotApplied'
    BY <1>6 DEF RetriesNotApplied, SameRequest, SameClient
  <1>8. ASSUME NEW l \in Thread, NEW y \in executed', Running(l)',
               SameRequest(threads'[l].entry, y.entry)
        PROVE  y.index = threads'[l].idx
    <2>1. Running(l) /\ threads'[l] = threads[l]
      BY <1>4, <1>8
    <2>2. CASE y = x
      BY <1>2, <1>5, <1>8, <2>1, <2>2 DEF Retries
    <2>3. CASE y \in executed
      BY <1>8, <2>1, <2>3 DEF Retries
    <2> QED BY <1>1, <2>2, <2>3
  <1>9. \A l, m \in Thread :
          Running(l)' /\ Running(m)' /\ SameRequest(threads'[l].entry, threads'[m].entry)
            => threads'[l].idx = threads'[m].idx
    BY <1>4 DEF Retries
  <1> QED BY <1>7, <1>8, <1>9 DEF Retries, SameRequest, SameClient

LEMMA NextRetries ==
    Shape /\ Shape' /\ Order /\ Coverage /\ Retries /\ [Next]_vars => Retries'
  <1> SUFFICES ASSUME Shape, Shape', Order, Coverage, Retries, [Next]_vars PROVE Retries'
    OBVIOUS
  <1>1. ASSUME NEW k \in Thread, ThreadStep(k) PROVE Retries'
    <2>1. CASE \E t \in ThreadState : Pauses(k, t) /\ Moves(k, t)
      BY <2>1, PauseRetries
    <2>2. CASE Run(k) /\ Advances(k, Applied(k)) /\ objs' = objs
      BY <2>2, RunRetries
    <2>3. CASE k # 0 /\ TellWaiters(k) /\ Advances(k, "store")
      <3> DEFINE t == [threads[k] EXCEPT !.at = "store"]
      <3>1. UNCHANGED <<executed, replayed>> /\ ThreadMoves(k, t)
        BY <2>3 DEF TellWaiters, fsmVars, Advances
      <3>2. t.at = "store"
        BY Types DEF Shape, ThreadState
      <3> HIDE DEF t
      <3>3. threads'[k] = t /\ \A l \in Thread : l # k => threads'[l] = threads[l]
        BY <3>1, OthersStay
      <3> QED BY <3>1, <3>2, <3>3, QuietRetries
    <2>4. CASE \E t \in ThreadState : Stores(k, t)
      <3>1. PICK t \in ThreadState : Stores(k, t)
        BY <2>4
      <3>2. UNCHANGED <<executed, replayed>> /\ ThreadMoves(k, t) /\ t.at # "run"
        BY <3>1 DEF Stores, Resting, fsmVars
      <3>3. threads'[k] = t /\ \A l \in Thread : l # k => threads'[l] = threads[l]
        BY <3>2, OthersStay
      <3> QED BY <3>2, <3>3, QuietRetries
    <2> QED BY <1>1, <2>1, <2>2, <2>3, <2>4, ThreadCases
  <1>2. CASE Restart
    <2>1. executed' = {}
      BY <1>2 DEF Restart
    <2>2. \A k \in Thread : ~Running(k)'
      BY <1>2 DEF Restart, Running, Idle
    <2> QED BY <2>1, <2>2 DEF Retries, RetriesNotApplied
  <1>3. CASE OuterStep
    <2>1. /\ executed' = executed
          /\ \A k \in Thread : threads'[k] = threads[k] \/ threads'[k].at # "run"
      BY <1>3 DEF OuterStep, fsmVars
    <2> QED BY <2>1, QuietRetries
  <1> QED BY <1>1, <1>2, <1>3, OuterSteps, StutterIsOuter

\* A client's request that is in the log twice is executed at one index only:
\* the session table stops the second, although it is read and written in two
\* steps and several loops do so at once (leader_role.go:356-367, session.go:29-68).
THEOREM RetriesOnce == Spec => []RetriesNotApplied
  <1>1. Init => Retries
    BY IdleOK DEF Init, Retries, RetriesNotApplied, Running
  <1>2. Retries => RetriesNotApplied
    BY DEF Retries
  <1> QED BY <1>1, <1>2, InitShape, NextShape, InitOrder, NextOrder, InitCoverage, NextCoverage,
             NextRetries, PTL DEF Spec

----------------------------------------------------------------------------
(* Answers.                                                                *)

\* A step takes some waiters away, and writes at most behind the log.
LEMMA WaitersStay ==
    ASSUME Shape, Shape', Waiters, role' = role, Len(objs') = Len(objs),
           Len(log') >= Len(log), \A i \in 1..Len(log) : log'[i] = log[i],
           \A o \in 1..Len(objs) : \A w \in objs'[o].pending :
             w \in objs[o].pending /\ calls'[w[2]] = calls[w[2]]
    PROVE  Waiters'
  <1>0. Len(log) \in Nat /\ Len(log') \in Nat
    BY Types, LenProperties DEF Shape, TypeOK
  <1> SUFFICES ASSUME NEW o \in 1..Len(objs), NEW w \in objs'[o].pending
               PROVE  /\ role = "leader" /\ o = Len(objs)
                      /\ calls'[w[2]] = [at |-> "waiting", office |-> o, index |-> w[1]]
                      /\ w[1] <= Len(log') /\ IsEntryOf(log'[w[1]], w[2])
    BY DEF Waiters, IsEntryOf
  <1>1. /\ role = "leader" /\ o = Len(objs)
        /\ calls[w[2]] = [at |-> "waiting", office |-> o, index |-> w[1]]
        /\ w[1] <= Len(log) /\ IsEntryOf(log[w[1]], w[2])
    BY DEF Waiters
  <1>2. w[1] \in Nat \ {0}
    BY Types DEF Shape, LeaderObject
  <1> QED BY <1>0, <1>1, <1>2

\* Only the leader in office has waiters, so none are left when it has none.
LEMMA NoWaiters ==
    ASSUME \A o \in 1..Len(objs') : objs'[o].pending = {}
    PROVE  Waiters'
  BY DEF Waiters

\* The role is left: every waiter is told.
LEMMA LeftNoWaiters ==
    ASSUME Shape, Waiters, LeaveRole
    PROVE  /\ Waiters'
           /\ \A r \in Request : calls'[r] = calls[r] \/ calls'[r].at = "refused"
  <1>0. TypeOK
    BY DEF Shape
  <1>1. CASE role = "leader"
    <2> DEFINE v == [objs[Current] EXCEPT !.stopped = TRUE, !.pending = {}]
    <2>1. objs' = [objs EXCEPT ![Current] = v] /\ calls' = WaitersRefused(Current)
      BY <1>1 DEF LeaveRole, Stopped
    <2>2. Current \in 1..Len(objs) => v \in LeaderObject /\ v.pending = {}
      BY <1>0, Types DEF LeaderObject
    <2> HIDE DEF v
    <2>3. Len(objs') = Len(objs) /\ \A o \in 1..Len(objs) : objs'[o] = IF o = Current THEN v ELSE objs[o]
      BY <1>0, <2>1, <2>2, ObjectChanged
    <2>4. ASSUME NEW o \in 1..Len(objs') PROVE objs'[o].pending = {}
      BY <2>2, <2>3 DEF Waiters, Current
    <2>5. \A r \in Request : calls'[r] = calls[r] \/ calls'[r].at = "refused"
      BY <2>1 DEF WaitersRefused, Refused
    <2> QED BY <2>4, <2>5, NoWaiters
  <1>2. CASE role # "leader"
    <2>1. UNCHANGED <<objs, calls>>
      BY <1>2 DEF LeaveRole
    <2>2. \A o \in 1..Len(objs') : objs'[o].pending = {}
      BY <1>2, <2>1 DEF Waiters
    <2> QED BY <2>1, <2>2, NoWaiters
  <1> QED BY <1>1, <1>2

\* What has been answered was answered rightly, when nobody is.
LEMMA AnsweredStays ==
    ASSUME Shape, Shape', AnsweredRight, ChosenStays,
           \A r \in Request : calls'[r].at = "done" => calls'[r] = calls[r]
    PROVE  AnsweredRight'
  <1>0. Len(chosen) \in Nat /\ Len(chosen') \in Nat
    BY Types, LenProperties DEF Shape, TypeOK
  <1>1. \A i \in 1..Len(chosen) : i \in 1..Len(chosen') /\ chosen'[i] = chosen[i]
    BY <1>0 DEF ChosenStays
  <1> QED BY <1>1 DEF AnsweredRight, IsEntryOf

LEMMA CachedStays ==
    ASSUME Shape, Shape', CachedRight, ChosenStays, starts \subseteq starts',
           \A r \in Request : calls'[r].at = "cached" => calls[r].at = "cached"
    PROVE  CachedRight'
  <1>0. Len(chosen) \in Nat /\ Len(chosen') \in Nat
    BY Types, LenProperties DEF Shape, TypeOK
  <1>1. \A i \in 1..Len(chosen) : i \in 1..Len(chosen') /\ chosen'[i] = chosen[i]
    BY <1>0 DEF ChosenStays
  <1> QED BY <1>1 DEF CachedRight, Recognises

LEMMA WaiterWaits ==
    ASSUME Waiters, NEW o \in 1..Len(objs), NEW w \in objs[o].pending
    PROVE  calls[w[2]].at = "waiting" /\ calls[w[2]].office = o /\ calls[w[2]].index = w[1]
  <1>1. calls[w[2]] = [at |-> "waiting", office |-> o, index |-> w[1]]
    BY DEF Waiters
  <1> HIDE DEF Waiters
  <1> QED BY <1>1

\* A call that does not wait goes on, and nothing else happens.
LEMMA CallMoves ==
    ASSUME Shape, Shape', Answers, ChosenStays, NEW r \in Request, calls[r].at # "waiting",
           NEW v \in CallState, v.at \notin {"done", "cached"}, calls' = [calls EXCEPT ![r] = v],
           UNCHANGED <<log, role, objs, starts>>
    PROVE  Answers'
  <1>1. \A s \in Request : calls'[s] = IF s = r THEN v ELSE calls[s]
    BY Types DEF Shape
  <1>2. ASSUME NEW o \in 1..Len(objs), NEW w \in objs[o].pending
        PROVE  calls'[w[2]] = calls[w[2]]
    <2>1. w[2] \in Request
      BY Types DEF Shape, LeaderObject
    <2>2. calls[w[2]].at = "waiting"
      BY WaiterWaits DEF Answers
    <2> QED BY <1>1, <2>1, <2>2
  <1>3. Waiters'
    <2>1. Len(log) \in Nat
      BY Types DEF Shape
    <2> QED BY <1>2, <2>1, WaitersStay DEF Answers
  <1>4. AnsweredRight'
    BY <1>1, AnsweredStays DEF Answers
  <1>5. CachedRight'
    BY <1>1, CachedStays DEF Answers
  <1> QED BY <1>3, <1>4, <1>5 DEF Answers

LEMMA LookupAnswers ==
    ASSUME Shape, Shape', Order, Coverage, Answers, ChosenStays, NEW r \in Request, Lookup(r)
    PROVE  Answers'
  <1> DEFINE c == Command[r]
  <1>0. /\ calls[r].at = "checked" /\ calls[r] \in CallState
        /\ UNCHANGED <<log, role, objs, starts, chosen>>
    BY Types DEF Shape, Lookup, storeVars, roleVars, fsmVars
  <1>1. CASE ~IsDuplicate(sessions, c.clientId, c.seq)
    <2> DEFINE v == [calls[r] EXCEPT !.at = "looked"]
    <2>1. calls' = [calls EXCEPT ![r] = v]
      BY <1>1 DEF Lookup
    <2>2. v \in CallState /\ v.at = "looked"
      BY <1>0 DEF CallState
    <2> HIDE DEF v
    <2> QED BY <1>0, <2>1, <2>2, CallMoves
  <1>2. CASE IsDuplicate(sessions, c.clientId, c.seq)
    <2> DEFINE v == [at |-> "cached", office |-> 0, index |-> 0]
    <2>1. \A s \in Request : calls'[s] = IF s = r THEN v ELSE calls[s]
      BY <1>2, Types DEF Shape, Lookup, End
    <2>2. c.clientId # <<>> /\ c.clientId \in DOMAIN sessions /\ c.seq <= sessions[c.clientId]
      BY <1>2 DEF IsDuplicate
    <2>3. PICK x \in executed : /\ Deserialize(x.entry).clientId = c.clientId
                                /\ Deserialize(x.entry).seq = sessions[c.clientId]
      BY <2>2 DEF Coverage, SessionsRight
    <2>4. Recognises(x.entry, r)
      <3>1. c.seq \in Nat /\ sessions[c.clientId] \in Nat
        BY <2>2, Types, ServingAssumption DEF Shape, Session, Cell
      <3> QED BY <2>2, <2>3, <3>1 DEF Recognises
    <2>5. \/ \E k \in 1..Len(chosen) : Recognises(chosen[k], r)
          \/ \E lg \in starts : \E k \in 1..Len(lg) : Recognises(lg[k], r)
      <3>0. replayed \in starts
        BY Types DEF Shape
      <3>1. x.by \in {"apply", "replay"}
        BY Types DEF Shape, Execution
      <3> QED BY <2>4, <3>0, <3>1 DEF Order, Origins
    <2>6. CachedRight'
      BY <1>0, <2>1, <2>5 DEF Answers, CachedRight, Recognises
    <2>7. ASSUME NEW o \in 1..Len(objs), NEW w \in objs[o].pending
          PROVE  calls'[w[2]] = calls[w[2]]
      <3>1. w[2] \in Request
        BY Types DEF Shape, LeaderObject
      <3>2. calls[w[2]].at = "waiting"
        BY WaiterWaits DEF Answers
      <3> QED BY <1>0, <2>1, <3>1, <3>2
    <2>8. Waiters'
      <3>1. Len(log) \in Nat
        BY Types DEF Shape
      <3> QED BY <1>0, <2>7, <3>1, WaitersStay DEF Answers
    <2>9. AnsweredRight'
      BY <2>1, AnsweredStays DEF Answers
    <2> QED BY <2>6, <2>8, <2>9 DEF Answers
  <1> QED BY <1>1, <1>2

LEMMA SubmitAnswers ==
    ASSUME Shape, Shape', Answers, ChosenStays, NEW r \in Request, Submit(r)
    PROVE  Answers'
  <1> DEFINE raw == Stored(Command[r], term)
             n == Len(log) + 1
             v == [objs[Current] EXCEPT !.pending = @ \cup {<<n, r>>}, !.match = n]
             c == [calls[r] EXCEPT !.at = "waiting", !.index = n]
  <1>0. TypeOK /\ calls[r] \in CallState /\ calls[r].at = "looked" /\ n \in Nat
    BY Types DEF Shape, Submit
  <1>1. /\ log' = Append(log, raw) /\ role = "leader" /\ calls[r].office = Len(objs)
        /\ UNCHANGED <<role, starts>>
    BY DEF Submit, InOffice, Current, roleVars, fsmVars
  <1>2. raw \in Seq(Cell) /\ IsEntryOf(raw, r)
    BY <1>0, Types, StoredOK DEF IsEntryOf
  <1>3. Len(objs) \in 1..Len(objs)
    <2>1. Len(objs) > 0
      BY <1>0, <1>1, Types, EmptySeq DEF Shape, Goroutines
    <2> QED BY <1>0, <2>1, Types
  <1>4. /\ \A s \in Request : calls'[s] = IF s = r THEN c ELSE calls[s]
        /\ c = [at |-> "waiting", office |-> Len(objs), index |-> n]
    <2>1. calls' = [calls EXCEPT ![r] = c]
      BY <1>0, Types DEF Submit
    <2>2. c = [at |-> "waiting", office |-> Len(objs), index |-> n]
      <3>1. PICK m \in Nat : m = n
        BY <1>0
      <3> DEFINE d == [calls[r] EXCEPT !.at = "waiting", !.index = m]
      <3>2. d \in CallState /\ d.at = "waiting" /\ d.office = Len(objs) /\ d.index = m
        BY <1>0, <1>1 DEF CallState
      <3> HIDE DEF d
      <3>3. d = [at |-> d.at, office |-> d.office, index |-> d.index]
        BY <3>2 DEF CallState
      <3> QED BY <3>1, <3>2, <3>3 DEF d
    <2> QED BY <1>0, <2>1, <2>2, Types
  <1>5. objs' = [objs EXCEPT ![Current] = v] /\ v.pending = objs[Current].pending \cup {<<n, r>>}
        /\ v \in LeaderObject
    <2>1. objs' = [objs EXCEPT ![Current] = v]
      BY DEF Submit, Registered
    <2>2. <<n, r>> \in (Nat \ {0}) \X Request
      BY <1>0, Types
    <2> DEFINE w == <<n, r>>
    <2> HIDE DEF w
    <2>3. PICK m \in Nat : m = n
      BY <1>0, Types
    <2>4. [objs[Current] EXCEPT !.pending = @ \cup {w}, !.match = m] \in LeaderObject
          /\ [objs[Current] EXCEPT !.pending = @ \cup {w}, !.match = m].pending
               = objs[Current].pending \cup {w}
      BY <1>0, <1>3, <2>2, <2>3, Types DEF LeaderObject, w, Current
    <2> QED BY <2>1, <2>3, <2>4 DEF w
  <1> HIDE DEF raw, v, n, c
  <1>6. /\ Len(log') = Len(log) + 1 /\ \A i \in 1..Len(log) : log'[i] = log[i]
        /\ log'[n] = raw /\ Len(log) \in Nat
    BY <1>0, <1>1, <1>2, Types, Longer DEF n
  <1>7. /\ Len(objs') = Len(objs)
        /\ \A o \in 1..Len(objs) : objs'[o] = IF o = Current THEN v ELSE objs[o]
    BY <1>0, <1>5, ObjectChanged
  <1>8. Waiters'
    <2> SUFFICES ASSUME NEW o \in 1..Len(objs), NEW w \in objs'[o].pending
                 PROVE  /\ role = "leader" /\ o = Len(objs)
                        /\ calls'[w[2]] = [at |-> "waiting", office |-> o, index |-> w[1]]
                        /\ w[1] <= Len(log') /\ IsEntryOf(log'[w[1]], w[2])
      BY <1>1, <1>7 DEF Waiters, IsEntryOf
    <2>1. CASE w \in objs[o].pending
      <3>1. /\ role = "leader" /\ o = Len(objs)
            /\ calls[w[2]] = [at |-> "waiting", office |-> o, index |-> w[1]]
            /\ w[1] <= Len(log) /\ IsEntryOf(log[w[1]], w[2])
        BY <2>1 DEF Answers, Waiters
      <3>2. w[2] \in Request /\ w[1] \in Nat \ {0}
        BY <1>0, <2>1, Types DEF LeaderObject
      <3>3. calls'[w[2]] = calls[w[2]]
        BY <1>0, <1>4, <3>1, <3>2
      <3>4. w[1] \in 1..Len(log) /\ w[1] <= Len(log')
        BY <1>6, <3>1, <3>2
      <3> QED BY <1>6, <3>1, <3>3, <3>4
    <2>2. CASE w \notin objs[o].pending
      <3>1. o = Len(objs) /\ w = <<n, r>>
        BY <1>5, <1>7, <2>2 DEF Current
      <3>2. n <= Len(log')
        BY <1>6 DEF n
      <3> QED BY <1>1, <1>2, <1>4, <1>6, <3>1, <3>2
    <2> QED BY <2>1, <2>2
  <1>9. c.at = "waiting"
    BY <1>4
  <1>10. AnsweredRight'
    BY <1>4, <1>9, AnsweredStays DEF Answers
  <1>11. CachedRight'
    BY <1>1, <1>4, <1>9, CachedStays DEF Answers
  <1> QED BY <1>8, <1>10, <1>11 DEF Answers

LEMMA GiveUpAnswers ==
    ASSUME Shape, Shape', Answers, ChosenStays, NEW r \in Request, GiveUp(r)
    PROVE  Answers'
  <1> DEFINE p == calls[r].office
             v == [objs[p] EXCEPT !.pending = {w \in @ : w[2] # r}]
  <1>0. TypeOK
    BY DEF Shape
  <1>1. /\ objs' = [objs EXCEPT ![p] = v]
        /\ UNCHANGED <<log, role, starts>>
    BY DEF GiveUp, storeVars, roleVars, fsmVars
  <1>2. \A s \in Request :
          calls'[s] = IF s = r THEN [at |-> "refused", office |-> 0, index |-> 0] ELSE calls[s]
    BY <1>0, Types DEF GiveUp, End
  <1>3. p \in 1..Len(objs) =>
          v \in LeaderObject /\ v.pending = {w \in objs[p].pending : w[2] # r}
    BY <1>0, Types DEF LeaderObject
  <1> HIDE DEF p, v
  <1>4. /\ Len(objs') = Len(objs)
        /\ \A o \in 1..Len(objs) : objs'[o] = IF o = p THEN v ELSE objs[o]
    BY <1>0, <1>1, <1>3, ObjectChanged
  <1>5. ASSUME NEW o \in 1..Len(objs), NEW w \in objs'[o].pending
        PROVE  w \in objs[o].pending /\ calls'[w[2]] = calls[w[2]]
    <2>1. w \in objs[o].pending /\ (o = p => w[2] # r)
      BY <1>3, <1>4
    <2>2. w[2] \in Request
      BY <1>0, <2>1, Types DEF LeaderObject
    <2>3. calls[w[2]].office = o
      BY <2>1, WaiterWaits DEF Answers
    <2> QED BY <1>2, <2>1, <2>2, <2>3 DEF p
  <1>6. Waiters'
    <2>1. Len(log) \in Nat
      BY <1>0, Types
    <2> QED BY <1>1, <1>4, <1>5, <2>1, WaitersStay DEF Answers
  <1>7. AnsweredRight'
    BY <1>2, AnsweredStays DEF Answers
  <1>8. CachedRight'
    BY <1>1, <1>2, CachedStays DEF Answers
  <1> QED BY <1>6, <1>7, <1>8 DEF Answers

\* The role is left, by whatever step.
LEMMA LeaveAnswers ==
    ASSUME Shape, Shape', Answers, ChosenStays, LeaveRole, starts' = starts
    PROVE  Answers'
  <1>1. /\ Waiters'
        /\ \A r \in Request : calls'[r] = calls[r] \/ calls'[r].at = "refused"
    BY LeftNoWaiters DEF Answers
  <1>2. AnsweredRight'
    BY <1>1, AnsweredStays DEF Answers
  <1>3. CachedRight'
    BY <1>1, CachedStays DEF Answers
  <1> QED BY <1>1, <1>2, <1>3 DEF Answers

\* No call moves, and no waiter comes or goes.
LEMMA QuietAnswers ==
    ASSUME Shape, Shape', Answers, ChosenStays, UNCHANGED <<log, role, calls, starts>>,
           Len(objs') = Len(objs),
           \A o \in 1..Len(objs) : objs'[o].pending = objs[o].pending
    PROVE  Answers'
  <1>1. Waiters'
    <2>1. Len(log) \in Nat
      BY Types DEF Shape
    <2> QED BY <2>1, WaitersStay DEF Answers
  <1>2. AnsweredRight'
    BY AnsweredStays DEF Answers
  <1>3. CachedRight'
    BY CachedStays DEF Answers
  <1> QED BY <1>1, <1>2, <1>3 DEF Answers

LEMMA ElectAnswers ==
    ASSUME Shape, Shape', Answers, ChosenStays, Elect
    PROVE  Answers'
  <1> DEFINE new == [pending |-> {}, wake |-> FALSE, stopped |-> FALSE, match |-> Len(log) + 1]
  <1>0. TypeOK
    BY DEF Shape
  <1>1. /\ role = "follower" /\ objs' = Append(objs, new)
        /\ UNCHANGED <<calls, starts>>
    BY DEF Elect, fsmVars
  <1>2. new.pending = {} /\ new \in LeaderObject
    BY <1>0, Types DEF LeaderObject
  <1> HIDE DEF new
  <1>3. /\ Len(objs') = Len(objs) + 1 /\ objs'[Len(objs) + 1] = new
        /\ \A o \in 1..Len(objs) : objs'[o] = objs[o]
    BY <1>0, <1>1, <1>2, Types, AppendProperties
  <1>4. \A o \in 1..Len(objs) : objs[o].pending = {}
    BY <1>1 DEF Answers, Waiters
  <1>5. \A o \in 1..Len(objs') : o \in 1..Len(objs) \/ o = Len(objs) + 1
    BY <1>0, <1>3, Types
  <1>6. Waiters'
    BY <1>2, <1>3, <1>4, <1>5, NoWaiters
  <1>7. AnsweredRight'
    BY <1>1, AnsweredStays DEF Answers
  <1>8. CachedRight'
    BY <1>1, CachedStays DEF Answers
  <1> QED BY <1>6, <1>7, <1>8 DEF Answers

LEMMA OuterAnswers ==
    ASSUME Shape, Shape', Order, Coverage, Answers, ChosenStays, starts' = starts,
           Next, ~Restart, \A k \in Thread : ~ThreadStep(k)
    PROVE  Answers'
  <1>0. TypeOK
    BY DEF Shape
  <1>1. ASSUME NEW r \in Request, Check(r) PROVE Answers'
    <2>1. calls[r].at = "idle" /\ calls[r] \in CallState /\ Len(objs) \in Nat
          /\ UNCHANGED <<log, role, objs, starts>>
      BY <1>0, <1>1, Types DEF Check, storeVars, roleVars, fsmVars
    <2>2. PICK v \in CallState : /\ v.at \in {"checked", "forwarded", "refused"}
                                 /\ calls' = [calls EXCEPT ![r] = v]
      <3> DEFINE v == IF enabled /\ role = "leader"
                        THEN [calls[r] EXCEPT !.at = "checked", !.office = Current]
                        ELSE [calls[r] EXCEPT !.at = IF enabled THEN "forwarded" ELSE "refused"]
      <3>1. calls' = [calls EXCEPT ![r] = v]
        BY <1>1 DEF Check
      <3>2. v \in CallState /\ v.at \in {"checked", "forwarded", "refused"}
        BY <2>1 DEF CallState, Current
      <3> QED BY <3>1, <3>2
    <2> QED BY <2>1, <2>2, CallMoves
  <1>2. ASSUME NEW r \in Request, Reject(r) PROVE Answers'
    <2> DEFINE v == [at |-> "refused", office |-> 0, index |-> 0]
    <2>1. calls[r].at = "looked" /\ calls' = [calls EXCEPT ![r] = v]
          /\ UNCHANGED <<log, role, objs, starts>>
      BY <1>2 DEF Reject, End, storeVars, roleVars, fsmVars
    <2>2. v \in CallState /\ v.at = "refused"
      BY DEF CallState
    <2> HIDE DEF v
    <2> QED BY <2>1, <2>2, CallMoves
  <1>3. ASSUME NEW k \in 1..Len(log), NEW o \in 1..Current, Commit(k, o) PROVE Answers'
    <2> DEFINE v == [objs[o] EXCEPT !.wake = TRUE]
    <2>1. /\ objs' = [objs EXCEPT ![o] = v]
          /\ UNCHANGED <<log, role, calls, starts>>
      BY <1>3 DEF Commit, Trigger, roleVars, fsmVars
    <2>2. o \in 1..Len(objs) => v \in LeaderObject /\ v.pending = objs[o].pending
      BY <1>0, Types DEF LeaderObject
    <2> HIDE DEF v
    <2>3. /\ Len(objs') = Len(objs)
          /\ \A p \in 1..Len(objs) : objs'[p] = IF p = o THEN v ELSE objs[p]
      BY <1>0, <2>1, <2>2, ObjectChanged
    <2>4. \A p \in 1..Len(objs) : objs'[p].pending = objs[p].pending
      BY <2>2, <2>3
    <2> QED BY <2>1, <2>3, <2>4, QuietAnswers
  <1>4. CASE StepDown \/ Disable
    <2>1. LeaveRole
      BY <1>4 DEF StepDown, Disable
    <2> QED BY <2>1, LeaveAnswers
  <1>5. ASSUME NEW j \in 0..Len(log), NEW new \in Foreign, NEW c \in 0..(j + Len(new)),
               Receive(j, new, c)
        PROVE  Answers'
    <2>1. LeaveRole
      BY <1>5 DEF Receive
    <2> QED BY <2>1, LeaveAnswers
  <1>6. CASE Enable \/ MinutePasses
    <2>1. UNCHANGED <<log, role, calls, objs>>
      BY <1>6 DEF Enable, MinutePasses, storeVars, roleVars
    <2> QED BY <2>1, QuietAnswers
  <1> QED BY <1>1, <1>2, <1>3, <1>4, <1>5, <1>6, LookupAnswers, SubmitAnswers, GiveUpAnswers,
             ElectAnswers DEF Next

\* The waiters of an applier's entry are those whose entry it is: it tells no
\* one else, and what it has is committed.
LEMMA TellAnswers ==
    ASSUME Shape, Shape', Order, Answers, ChosenStays, NEW k \in Thread, k # 0, TellWaiters(k),
           UNCHANGED <<log, role>>
    PROVE  Answers'
  <1> DEFINE u == threads[k]
             told == {r \in Request : <<u.idx, r>> \in objs[k].pending}
             v == [objs[k] EXCEPT !.pending = {w \in @ : w[1] # u.idx}]
  <1>0. TypeOK /\ u.at = "tell"
    BY DEF Shape, TellWaiters
  <1>1. k \in 1..Len(objs) /\ ~starting
    BY <1>0, OneWhileStarting, Types DEF Shape, Goroutines, Thread
  <1>2. /\ objs' = [objs EXCEPT ![k] = v] /\ starts' = starts
        /\ \A r \in Request : calls'[r] = IF r \in told THEN [calls[r] EXCEPT !.at = "done"]
                                                        ELSE calls[r]
    BY DEF TellWaiters, fsmVars
  <1>3. v \in LeaderObject /\ v.pending = {w \in objs[k].pending : w[1] # u.idx}
    BY <1>0, <1>1, Types DEF LeaderObject
  <1>4. u.idx \in 1..Len(chosen) /\ chosen[u.idx] = log[u.idx] /\ Len(log) \in Nat
    <2>1. HasEntry(u)
      BY <1>0 DEF HasEntry
    <2>2. u.idx \in 1..Len(chosen)
      BY <1>1, <2>1, EntryRight
    <2> QED BY <1>0, <2>2, Types DEF Order, ChosenInLog
  <1>5. ASSUME NEW r \in told
        PROVE  /\ calls[r].at = "waiting" /\ calls[r].office = k /\ calls[r].index = u.idx
               /\ IsEntryOf(log[u.idx], r)
    <2> DEFINE w == <<u.idx, r>>
    <2>1. w \in objs[k].pending /\ w[1] = u.idx /\ w[2] = r
      OBVIOUS
    <2> HIDE DEF w
    <2>2. calls[w[2]].at = "waiting" /\ calls[w[2]].office = k /\ calls[w[2]].index = w[1]
      BY <1>1, <2>1, WaiterWaits DEF Answers
    <2>3. IsEntryOf(log[w[1]], w[2])
      BY <1>1, <2>1 DEF Answers, Waiters
    <2> QED BY <2>1, <2>2, <2>3
  <1> HIDE DEF u, v, told
  <1>6. /\ Len(objs') = Len(objs)
        /\ \A o \in 1..Len(objs) : objs'[o] = IF o = k THEN v ELSE objs[o]
    BY <1>0, <1>2, <1>3, ObjectChanged
  <1>7. Waiters'
    <2>1. ASSUME NEW o \in 1..Len(objs), NEW w \in objs'[o].pending
          PROVE  w \in objs[o].pending /\ calls'[w[2]] = calls[w[2]]
      <3>1. w \in objs[o].pending /\ (o = k => w[1] # u.idx)
        BY <1>3, <1>6
      <3>2. w[2] \in Request
        BY <1>0, <3>1, Types DEF LeaderObject
      <3>3. calls[w[2]].office = o /\ calls[w[2]].index = w[1]
        BY <3>1, WaiterWaits DEF Answers
      <3> QED BY <1>2, <1>5, <3>1, <3>2, <3>3
    <2> QED BY <1>4, <1>6, <2>1, WaitersStay DEF Answers
  <1>8. AnsweredRight'
    <2> SUFFICES ASSUME NEW r \in Request, calls'[r].at = "done"
                 PROVE  /\ calls'[r].index \in 1..Len(chosen')
                        /\ IsEntryOf(chosen'[calls'[r].index], r)
      BY DEF AnsweredRight, IsEntryOf
    <2>0. \A i \in 1..Len(chosen) : i \in 1..Len(chosen') /\ chosen'[i] = chosen[i]
      BY Types, LenProperties DEF Shape, TypeOK, ChosenStays
    <2>1. CASE r \in told
      <3>1. calls'[r].index = calls[r].index
        BY <1>0, <1>2, <2>1, Types DEF CallState
      <3> QED BY <1>4, <1>5, <2>0, <2>1, <3>1
    <2>2. CASE r \notin told
      BY <1>2, <2>0, <2>2 DEF Answers, AnsweredRight
    <2> QED BY <2>1, <2>2
  <1>9. CachedRight'
    <2>1. \A r \in Request : calls'[r].at = "cached" => calls[r].at = "cached"
      BY <1>0, <1>2, Types DEF CallState
    <2> QED BY <1>2, <2>1, CachedStays DEF Answers
  <1> QED BY <1>7, <1>8, <1>9 DEF Answers

LEMMA RestartAnswers ==
    ASSUME Shape, Shape', Answers, Restart
    PROVE  Answers'
  <1>1. /\ objs' = <<>> /\ chosen' = chosen /\ starts \subseteq starts'
        /\ \A r \in Request : calls'[r] = calls[r] \/ calls'[r].at = "refused"
    BY DEF Restart, Refused
  <1>2. ChosenStays
    BY <1>1, Types DEF Shape, ChosenStays
  <1>3. Waiters'
    <2>1. Len(<<>>) = 0
      OBVIOUS
    <2> QED BY <1>1, <2>1, NoWaiters
  <1>4. AnsweredRight'
    BY <1>1, <1>2, AnsweredStays DEF Answers
  <1>5. CachedRight'
    <2>1. \A r \in Request : calls'[r].at = "cached" => calls[r].at = "cached"
      BY <1>1
    <2> QED BY <1>1, <1>2, <2>1, CachedStays DEF Answers
  <1> QED BY <1>3, <1>4, <1>5 DEF Answers

LEMMA NextAnswers ==
    Shape /\ Shape' /\ Order /\ Coverage /\ Answers /\ [Next]_vars => Answers'
  <1> SUFFICES ASSUME Shape, Shape', Order, Coverage, Answers, [Next]_vars PROVE Answers'
    OBVIOUS
  <1>1. ASSUME NEW k \in Thread, ThreadStep(k) PROVE Answers'
    <2>1. UNCHANGED <<log, role, chosen>>
      BY <1>1 DEF ThreadStep, storeVars
    <2>2. ChosenStays
      BY <2>1, Types DEF Shape, ChosenStays
    <2>3. CASE \E t \in ThreadState : Pauses(k, t) \/ Stores(k, t)
      <3>1. SameWaiters /\ UNCHANGED <<calls, starts>>
        BY <2>3 DEF Pauses, Stores, fsmVars
      <3> QED BY <2>1, <2>2, <3>1, QuietAnswers DEF SameWaiters
    <2>4. CASE Run(k) /\ objs' = objs
      <3>1. UNCHANGED <<calls, starts>>
        BY <2>4 DEF Run
      <3> QED BY <2>1, <2>2, <2>4, <3>1, QuietAnswers
    <2>5. CASE k # 0 /\ TellWaiters(k)
      BY <2>1, <2>2, <2>5, TellAnswers
    <2> QED BY <1>1, <2>3, <2>4, <2>5, ThreadCases
  <1>2. CASE Restart
    BY <1>2, RestartAnswers
  <1>3. CASE UNCHANGED vars
    <2>1. UNCHANGED <<log, role, calls, objs, chosen, starts>>
      BY <1>3 DEF vars, storeVars, roleVars, fsmVars
    <2>2. ChosenStays
      BY <2>1, Types DEF Shape, ChosenStays
    <2> QED BY <2>1, <2>2, QuietAnswers
  <1>4. CASE Next /\ ~Restart /\ \A k \in Thread : ~ThreadStep(k)
    <2>1. ChosenStays /\ starts' = starts
      BY <1>4, OuterSteps DEF OuterStep, ChosenStays, fsmVars
    <2> QED BY <1>4, <2>1, OuterAnswers
  <1> QED BY <1>1, <1>2, <1>3, <1>4

\* Every request is read back from its entry as it was written.
Readable ==
    \A r \in Request, t \in Nat :
      Unambiguous([term |-> t, clientId |-> Command[r].clientId, seq |-> Command[r].seq,
                   data |-> Command[r].data])

\* A caller that is told a result has its own request committed at the index it
\* waited for, and one that is answered from the session table has it, or a
\* later one of its client, among the committed entries (leader_role.go:199-292,
\* 370-386).
THEOREM AnswersRight == ASSUME Readable PROVE Spec => []AnswersAreCommitted
  <1>1. Shape /\ Answers => AnswersAreCommitted
    <2> SUFFICES ASSUME Shape, Answers, NEW r \in Request
                 PROVE  /\ calls[r].at = "done" =>
                             /\ calls[r].index <= Len(chosen)
                             /\ LET e == Deserialize(chosen[calls[r].index])
                                IN  Command[r] = [clientId |-> e.clientId, seq |-> e.seq,
                                                  data |-> e.data]
                        /\ (calls[r].at = "cached" /\ ReplayHarmless) =>
                             \E k \in 1..Len(chosen) : Recognises(chosen[k], r)
      BY DEF AnswersAreCommitted, Recognises
    <2>0. Len(chosen) \in Nat /\ Len(replayed) \in Nat /\ chosen \in Seq(Seq(Cell))
      BY Types DEF Shape
    <2>1. ASSUME calls[r].at = "done"
          PROVE  /\ calls[r].index <= Len(chosen)
                 /\ LET e == Deserialize(chosen[calls[r].index])
                    IN  Command[r] = [clientId |-> e.clientId, seq |-> e.seq, data |-> e.data]
      <3>1. calls[r].index \in 1..Len(chosen) /\ IsEntryOf(chosen[calls[r].index], r)
        BY <2>1 DEF Answers, AnsweredRight
      <3>2. PICK t \in Nat : chosen[calls[r].index] = Stored(Command[r], t)
        BY <3>1 DEF IsEntryOf
      <3> DEFINE e == [term |-> t, clientId |-> Command[r].clientId, seq |-> Command[r].seq,
                       data |-> Command[r].data]
      <3>3. e \in LogEntry /\ Unambiguous(e)
        BY ServingAssumption, Readable DEF Readable, LogEntry, Session, Cell
      <3>4. Deserialize(Serialize(e)) = e
        BY <3>3, RoundTrip
      <3>5. Command[r] = [clientId |-> e.clientId, seq |-> e.seq, data |-> e.data]
        BY ServingAssumption DEF Session
      <3> QED BY <2>0, <3>1, <3>2, <3>4, <3>5 DEF Stored
    <2>2. ASSUME calls[r].at = "cached", ReplayHarmless
          PROVE  \E k \in 1..Len(chosen) : Recognises(chosen[k], r)
      <3>1. CASE \E k \in 1..Len(chosen) : Recognises(chosen[k], r)
        BY <3>1
      <3>2. CASE \E lg \in starts : \E k \in 1..Len(lg) : Recognises(lg[k], r)
        <4>1. PICK lg \in starts : \E k \in 1..Len(lg) : Recognises(lg[k], r)
          BY <3>2
        <4>2. PICK k \in 1..Len(lg) : Recognises(lg[k], r)
          BY <4>1
        <4>3. Len(lg) \in Nat /\ Len(lg) <= Len(chosen) /\ SubSeq(chosen, 1, Len(lg)) = lg
          BY <2>2, Types DEF ReplayHarmless, Shape
        <4>4. k \in 1..Len(chosen) /\ \A i \in 1..Len(lg) : chosen[i] \in Seq(Cell)
          BY <2>0, <4>3, ElementOfSeq
        <4>5. SubSeq(chosen, 1, Len(lg))[k] = chosen[k]
          BY <2>0, <4>3, <4>4, SubSeqProperties
        <4> QED BY <4>2, <4>3, <4>4, <4>5
      <3> QED BY <2>2, <3>1, <3>2 DEF Answers, CachedRight
    <2> QED BY <2>1, <2>2
  <1>2. Init => Answers
    BY DEF Init, Answers, Waiters, AnsweredRight, CachedRight
  <1> QED BY <1>1, <1>2, InitShape, NextShape, InitOrder, NextOrder, InitCoverage, NextCoverage,
             NextAnswers, PTL DEF Spec

----------------------------------------------------------------------------
(* The count.                                                              *)

\* Within a day of the start nothing that was counted is forgotten.
LEMMA NothingForgotten ==
    ASSUME Shape, Count, minute - since < NumberOfSlots
    PROVE  LET d == MoveTo(counter, minute % NumberOfSlots)
           IN  /\ d.present = counter.present
               /\ \A j \in Slot : d.slots[j] # {} =>
                    \E t \in since..minute : j = t % NumberOfSlots
  <1> DEFINE N == NumberOfSlots
             m == minute % N
             c == counter
             d == MoveTo(c, m)
             M == MinutesPassed(c.minute, m)
  <1>0. /\ c \in CounterState /\ N \in Nat \ {0} /\ minute \in Nat /\ since \in Nat
        /\ m \in Slot /\ M \subseteq Slot
    BY Types, SlotsAssumption, MinuteIsASlot DEF Shape, MinutesPassed
  <1>1. Young(c) /\ since <= minute
    BY DEF Count
  <1>2. CASE c.minute = -1 /\ \A j \in Slot : c.slots[j] = {}
    <2>1. m # -1
      BY <1>0 DEF Slot
    <2>2. d = [c EXCEPT !.minute = m]
      BY <1>2, <2>1 DEF MoveTo
    <2>3. d.present = c.present /\ d.slots = c.slots
      BY <1>0, <2>2 DEF CounterState
    <2> QED BY <1>2, <2>3
  <1>3. CASE \E l \in since..minute :
                /\ c.minute = l % N
                /\ \A j \in Slot : c.slots[j] # {} => \E t \in since..l : j = t % N
    <2>1. PICK l \in since..minute :
            /\ c.minute = l % N
            /\ \A j \in Slot : c.slots[j] # {} => \E t \in since..l : j = t % N
      BY <1>3
    <2>2. l \in Nat /\ l <= minute /\ since <= l
      BY <1>0
    <2>3. \A j \in Slot : c.slots[j] # {} => \E t \in since..minute : j = t % N
      <3>1. \A t \in since..l : t \in since..minute
        BY <1>0, <2>2
      <3> QED BY <2>1, <3>1
    <2>4. CASE m = c.minute
      <3>1. d = c
        BY <2>4 DEF MoveTo
      <3> QED BY <2>3, <3>1
    <2>5. CASE m # c.minute
      <3>1. c.minute # -1
        <4>1. l % N \in Slot
          BY <2>2, MinuteIsASlot
        <4> QED BY <1>0, <2>1, <4>1 DEF Slot
      <3>2. ASSUME NEW j \in M PROVE c.slots[j] = {}
        <4> SUFFICES ASSUME c.slots[j] # {} PROVE FALSE
          OBVIOUS
        <4>1. PICK t \in since..l : j = t % N
          BY <1>0, <2>1
        <4>2. t \in Nat /\ t <= l /\ minute - t < N
          BY <1>0, <2>2
        <4>3. t % N \notin MinutesPassed(l % N, minute % N)
          BY <1>0, <2>1, <2>2, <2>5, <4>2, RecentMinuteStays
        <4> QED BY <2>1, <4>1, <4>3
      <3>3. d = [ClearMinutes(c, M) EXCEPT !.minute = m]
        BY <2>5, <3>1 DEF MoveTo
      <3> HIDE DEF m, M, N
      <3>4. /\ d.slots = [j \in Slot |-> IF j \in M THEN {} ELSE c.slots[j]]
            /\ d.present = {id \in c.present : \A j \in M : id \notin c.slots[j]}
        <4> DEFINE S == [j \in Slot |-> IF j \in M THEN {} ELSE c.slots[j]]
                   P == {id \in c.present : \A j \in M : id \notin c.slots[j]}
        <4>1. d = [[c EXCEPT !.slots = S, !.present = P] EXCEPT !.minute = m]
          BY <3>3 DEF ClearMinutes
        <4> HIDE DEF S, P, d
        <4>2. d.slots = S /\ d.present = P
          BY <1>0, <4>1 DEF CounterState
        <4> QED BY <4>2 DEF S, P
      <3> HIDE DEF d
      <3>5. d.present = c.present
        BY <3>2, <3>4
      <3>6. \A j \in Slot : d.slots[j] # {} => c.slots[j] # {}
        BY <3>4
      <3> QED BY <2>3, <3>5, <3>6 DEF d, m, N
    <2> QED BY <2>4, <2>5
  <1> QED BY <1>1, <1>2, <1>3 DEF Young

LEMMA RunCount ==
    ASSUME Shape, Count, NEW k \in Thread, Run(k), UNCHANGED minute
    PROVE  Count'
  <1> DEFINE u == threads[k]
             id == Deserialize(u.entry).data
             m == minute % NumberOfSlots
             d == MoveTo(counter, m)
             x == [index |-> u.idx, entry |-> u.entry,
                   by |-> IF starting THEN "replay" ELSE "apply"]
  <1>0. /\ counter \in CounterState /\ minute \in Nat /\ since \in Nat /\ id \in Id
        /\ NumberOfSlots \in Nat \ {0} /\ since' = since /\ since <= minute
    BY RunOK, Types, SlotsAssumption DEF Shape, Count
  <1> SUFFICES ASSUME minute - since < NumberOfSlots
               PROVE  /\ counter'.present = Counted'
                      /\ IsFiniteSet(counter'.present)
                      /\ counter'.value = Cardinality(counter'.present)
                      /\ Young(counter)'
    BY <1>0 DEF Count
  <1>1. executed' = executed \cup {x} /\ counter' = Apply(counter, id, minute)
    BY RunOK
  <1>2. Counted' = Counted \cup {id}
    <2>1. Deserialize(x.entry).data = id
      OBVIOUS
    <2> HIDE DEF x, id
    <2> QED BY <1>1, <2>1 DEF Counted
  <1>3. /\ m \in Slot /\ d.minute = m /\ d.value = counter.value
        /\ id \in d.present => counter' = d
        /\ id \notin d.present =>
             /\ counter'.minute = m /\ counter'.value = counter.value + 1
             /\ counter'.present = d.present \cup {id}
             /\ \A j \in Slot : j # m => counter'.slots[j] = d.slots[j]
    BY <1>0, <1>1, ApplyOK
  <1>4. /\ d.present = counter.present
        /\ \A j \in Slot : d.slots[j] # {} => \E t \in since..minute : j = t % NumberOfSlots
    BY NothingForgotten
  <1>5. minute \in since..minute /\ m = minute % NumberOfSlots
    BY <1>0
  <1> HIDE DEF m, d, x, id
  <1>6. /\ counter.present = Counted /\ IsFiniteSet(counter.present)
        /\ counter.value = Cardinality(counter.present)
    BY DEF Count
  <1>7. counter'.present = Counted' /\ counter'.minute = m
    BY <1>2, <1>3, <1>4, <1>6
  <1>8. IsFiniteSet(counter'.present) /\ counter'.value = Cardinality(counter'.present)
    <2>1. CASE id \in counter.present
      BY <1>3, <1>4, <1>6, <2>1
    <2>2. CASE id \notin counter.present
      <3>1. /\ IsFiniteSet(counter.present \cup {id})
            /\ Cardinality(counter.present \cup {id}) = Cardinality(counter.present) + 1
        BY <1>6, <2>2, FS_AddElement
      <3> QED BY <1>3, <1>4, <1>6, <2>2, <3>1
    <2> QED BY <2>1, <2>2
  <1>9. \A j \in Slot : counter'.slots[j] # {} => \E t \in since..minute : j = t % NumberOfSlots
    <2> SUFFICES ASSUME NEW j \in Slot, counter'.slots[j] # {}
                 PROVE  \E t \in since..minute : j = t % NumberOfSlots
      OBVIOUS
    <2>1. CASE j = m
      BY <1>5, <2>1
    <2>2. CASE j # m
      <3>1. counter'.slots[j] = d.slots[j]
        BY <1>3, <2>2
      <3> QED BY <1>4, <3>1
    <2> QED BY <2>1, <2>2
  <1>10. Young(counter)'
    <2>1. \E l \in since..minute :
            /\ counter'.minute = l % NumberOfSlots
            /\ \A j \in Slot :
                 counter'.slots[j] # {} => \E t \in since..l : j = t % NumberOfSlots
      BY <1>5, <1>7, <1>9
    <2> QED BY <1>0, <2>1 DEF Young
  <1> QED BY <1>7, <1>8, <1>10

LEMMA QuietCount ==
    ASSUME Count, UNCHANGED <<counter, executed, minute, since>>
    PROVE  Count'
  BY DEF Count, Young, Counted

LEMMA FreshCounter ==
    /\ NewCounter.present = {} /\ NewCounter.minute = -1 /\ NewCounter.value = 0
    /\ \A m \in Slot : NewCounter.slots[m] = {}
    /\ IsFiniteSet({}) /\ Cardinality({}) = 0
  BY FS_EmptySet, SlotsAssumption DEF NewCounter, Slot

LEMMA NextCount == Shape /\ Shape' /\ Order /\ Count /\ [Next]_vars => Count'
  <1> SUFFICES ASSUME Shape, Shape', Order, Count, [Next]_vars PROVE Count'
    OBVIOUS
  <1>0. minute \in Nat /\ since \in Nat /\ NumberOfSlots \in Nat \ {0} /\ since <= minute
    BY Types, SlotsAssumption DEF Shape, Count
  <1>1. ASSUME NEW k \in Thread, ThreadStep(k) PROVE Count'
    <2>1. UNCHANGED minute
      BY <1>1 DEF ThreadStep
    <2>2. CASE Run(k)
      BY <2>1, <2>2, RunCount
    <2>3. CASE UNCHANGED fsmVars
      BY <2>1, <2>3, QuietCount DEF fsmVars
    <2>4. Run(k) \/ UNCHANGED fsmVars
      BY <1>1, ThreadCases DEF Pauses, Stores, TellWaiters
    <2> QED BY <2>2, <2>3, <2>4
  <1>2. CASE Restart
    <2>1. counter' = NewCounter /\ executed' = {} /\ minute' = minute /\ since' = minute
      BY <1>2 DEF Restart
    <2>2. Counted' = {}
      BY <2>1 DEF Counted
    <2>3. Young(counter)'
      BY <2>1, FreshCounter DEF Young
    <2> QED BY <1>0, <2>1, <2>2, <2>3, FreshCounter DEF Count
  <1>3. CASE MinutePasses
    <2>1. minute' = minute + 1 /\ UNCHANGED <<counter, executed, since>>
      BY <1>3 DEF MinutePasses, fsmVars
    <2>2. since <= minute' /\ (minute' - since < NumberOfSlots => minute - since < NumberOfSlots)
      BY <1>0, <2>1
    <2>3. Young(counter) => Young(counter)'
      <3>1. \A l \in since..minute : l \in since..minute'
        BY <1>0, <2>1
      <3> QED BY <2>1, <3>1 DEF Young
    <2> QED BY <2>1, <2>2, <2>3 DEF Count, Counted
  <1>4. CASE Next /\ ~Restart /\ ~MinutePasses /\ \A k \in Thread : ~ThreadStep(k)
    <2>1. UNCHANGED <<counter, executed, since>>
      BY <1>4, OuterSteps DEF OuterStep, fsmVars
    <2>2. minute' = minute
      <3>1. ASSUME NEW r \in Request, Check(r) \/ Lookup(r) \/ Submit(r) \/ Reject(r) \/ GiveUp(r)
            PROVE  minute' = minute
        BY <3>1 DEF Check, Lookup, Submit, Reject, GiveUp
      <3>2. CASE Elect \/ StepDown \/ Disable \/ Enable
        BY <3>2 DEF Elect, StepDown, Disable, Enable
      <3>3. ASSUME NEW k \in 1..Len(log), NEW o \in 1..Current, Commit(k, o)
            PROVE  minute' = minute
        BY <3>3 DEF Commit
      <3>4. ASSUME NEW j \in 0..Len(log), NEW new \in Foreign, NEW c \in 0..(j + Len(new)),
                   Receive(j, new, c)
            PROVE  minute' = minute
        BY <3>4 DEF Receive
      <3> QED BY <1>4, <3>1, <3>2, <3>3, <3>4 DEF Next
    <2> QED BY <2>1, <2>2, QuietCount
  <1>5. CASE UNCHANGED vars
    BY <1>5, QuietCount DEF vars, fsmVars
  <1> QED BY <1>1, <1>2, <1>3, <1>4, <1>5

\* For a day from the start of the process the counter is the number of
\* different payloads executed, however often the clock moves and the process
\* starts again: an entry that two loops both apply, or a payload that several
\* entries have, is counted once (counter.go:42-93, fsm.go:32-40).
THEOREM OnceCounted == Spec => []CountedOnce
  <1>1. Count => CountedOnce
    BY DEF Count, CountedOnce, Counted
  <1>2. Init => Count
    <2> SUFFICES ASSUME Init PROVE Count
      OBVIOUS
    <2>1. Counted = {} /\ minute \in Nat /\ since = minute
      BY SlotsAssumption DEF Init, Counted
    <2>2. Young(counter)
      BY FreshCounter DEF Init, Young
    <2> QED BY <2>1, <2>2, FreshCounter DEF Init, Count
  <1> QED BY <1>1, <1>2, InitShape, NextShape, InitOrder, NextOrder, NextCount, PTL DEF Spec
============================================================================
