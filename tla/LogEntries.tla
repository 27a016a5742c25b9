---------------------------- MODULE LogEntries ----------------------------
(***************************************************************************)
(* log_entry.go: the two formats an entry is stored in, and the heuristic  *)
(* that tells them apart.  A stored entry is a sequence of cells, one for  *)
(* the term, one for the length of the client id, one for the sequence     *)
(* number and one for each unit of the client id and of the data.          *)
(***************************************************************************)
EXTENDS Naturals, Sequences

CONSTANT MaxClientIdLen  \* 1024: a longer client id is not recognised

ASSUME ClientIdAssumption == MaxClientIdLen \in Nat \ {0}

Cell     == Nat
LogEntry == [term : Cell, clientId : Seq(Cell), seq : Cell, data : Seq(Cell)]

Serialize(e) ==
    IF e.clientId = <<>> /\ e.seq = 0
      THEN <<e.term>> \o e.data
      ELSE <<e.term, Len(e.clientId)>> \o e.clientId \o <<e.seq>> \o e.data

\* The heuristic: the cell after the term can be the length of a client id.
LooksLikeSession(raw) ==
    /\ Len(raw) >= 2
    /\ raw[2] > 0 /\ raw[2] <= MaxClientIdLen
    /\ Len(raw) >= 3 + raw[2]

Deserialize(raw) ==
    IF LooksLikeSession(raw)
      THEN LET n == raw[2]
           IN  [term |-> raw[1], clientId |-> SubSeq(raw, 3, 2 + n), seq |-> raw[3 + n],
                data |-> SubSeq(raw, 4 + n, Len(raw))]
      ELSE [term |-> raw[1], clientId |-> <<>>, seq |-> 0, data |-> SubSeq(raw, 2, Len(raw))]

\* The entries the two formats can tell apart: a client id of a length that
\* is recognised, or no session at all and data that does not look like one.
Unambiguous(e) ==
    IF e.clientId = <<>> THEN e.seq = 0 /\ ~LooksLikeSession(<<e.term>> \o e.data)
                         ELSE Len(e.clientId) <= MaxClientIdLen
============================================================================
