------------------------------ MODULE RaftLog ------------------------------
(***************************************************************************)
(* The replicated log as the roles see it, and the pure functions they run *)
(* on it.  The log itself is github.com/hirebarend/go-log, a library; the  *)
(* code uses it as a sequence of serialized entries numbered from 1, with  *)
(* Read, Write (append), TruncateFrom and GetLastIndex.  Here it is a      *)
(* TLA+ sequence of entries [term, data], so index k is position k.        *)
(*                                                                         *)
(* Everything in this module is about a node that has not yet compacted    *)
(* its log (snapshotIndex = 0 in raft.go), which is where every node is    *)
(* until SnapshotThreshold entries have been applied.                      *)
(***************************************************************************)
EXTENDS Integers, Sequences, FiniteSetsExt, Functions

\* DeserializeLogEntry(log.Read(k)).Term, with 0 where the read fails: the
\* prevLogEntryTerm of a request whose predecessor the sender does not hold.
TermAt(log, k) == IF k \in 1..Len(log) THEN log[k].term ELSE 0

\* GetLastLogEntryIndexAndTerm: (0, 0) for the empty log.
LastIndex(log) == Len(log)
LastTerm(log)  == TermAt(log, Len(log))

\* Wrong variant: the longer log is the more recent one, whatever its terms.
LongerLogIsMoreRecent(log, index, term) == index >= LastIndex(log)

\* The vote and pre-vote criterion: is a log that ends in (index, term) at
\* least as recent as this one?
IsLogEqualOrMoreRecent(log, index, term) ==
    \/ term > LastTerm(log)
    \/ term = LastTerm(log) /\ index >= LastIndex(log)

\* The scan goes down from the end of the log and gives up at the first
\* entry of a smaller term.
GetLastLogEntryIndexOfTerm(log, term) ==
    LET reached == {k \in 1..Len(log) : log[k].term <= term}
        stop    == Max(reached)
    IN  IF term # 0 /\ reached # {} /\ log[stop].term = term THEN stop ELSE 0

\* First index of the run of entries that have the same term as entry k.
FirstIndexOfRun(log, k) ==
    Min({j \in 1..k : \A m \in j..k : log[m].term = log[k].term})

\* Wrong variant: accepts any predecessor the log is long enough to have.
PredecessorTermIgnored(log, index, term) ==
    [ok |-> TRUE, conflictIndex |-> 0, conflictTerm |-> 0]

\* checkLogConsistency: does this log hold (index, term)?  If not, where the
\* leader should look next.  The caller has already refused an index past
\* the end of the log.
CheckLogConsistency(log, index, term) ==
    IF index = 0 \/ TermAt(log, index) = term
      THEN [ok |-> TRUE, conflictIndex |-> 0, conflictTerm |-> 0]
      ELSE [ok |-> FALSE, conflictIndex |-> FirstIndexOfRun(log, index),
            conflictTerm |-> log[index].term]

\* The entries of a request that the log does not already hold: those past
\* its end and those whose term differs.
Unmatched(log, prev, entries) ==
    {k \in 1..Len(entries) : prev + k > Len(log)
                             \/ log[prev + k].term # entries[k].term}

\* appendEntries when nothing fails: keep what matches, cut at the first
\* entry that does not, and write the rest.
AppendEntries(log, prev, entries) ==
    LET new == Unmatched(log, prev, entries)
    IN  IF new = {} THEN log
        ELSE SubSeq(log, 1, prev + Min(new) - 1)
               \o SubSeq(entries, Min(new), Len(entries))

\* What appendEntries leaves when a write fails after n new entries: the
\* conflicting tail is gone, the first n new entries are there.
AppendEntriesCut(log, prev, entries, n) ==
    LET new == Unmatched(log, prev, entries)
    IN  IF new = {} THEN log
        ELSE SubSeq(log, 1, prev + Min(new) - 1)
               \o SubSeq(entries, Min(new), Min(new) + n - 1)

\* setCommitIndex: clamped to the end of the log, never lowered.
SetCommitIndex(log, current, commitIndex) ==
    LET clamped == IF commitIndex > LastIndex(log) THEN LastIndex(log) ELSE commitIndex
    IN  IF clamped > current THEN clamped ELSE current

\* Wrong variant: the element after the right one.
MajorityMatchOneShort(matchIndex, majority) ==
    Max({m \in Range(matchIndex) :
           Cardinality({n \in DOMAIN matchIndex : matchIndex[n] >= m}) >= majority - 1})

\* tryToAdvanceCommitIndex sorts the match indexes and takes element
\* n - n/2 - 1: the largest index that a majority has reached.
MajorityMatch(matchIndex, majority) ==
    Max({m \in Range(matchIndex) :
           Cardinality({n \in DOMAIN matchIndex : matchIndex[n] >= m}) >= majority})
============================================================================
