----------------------------- MODULE Sessions -----------------------------
(***************************************************************************)
(* session.go: the table that recognises a client's retries.  A table maps *)
(* each client seen to its highest sequence number applied; the result     *)
(* stored with it is the same for every entry (CounterFSM.Apply returns    *)
(* true).  <<>> is the empty client id, of which nothing is recorded.      *)
(***************************************************************************)
EXTENDS Naturals, Sequences

NewSessionTable == [client \in {} |-> 0]

\* Wrong variant: only a later number of the client is taken for new, and so
\* is the same one.
IsDuplicateEarlierOnly(table, client, seq) ==
    client # <<>> /\ client \in DOMAIN table /\ seq < table[client]

IsDuplicate(table, client, seq) ==
    client # <<>> /\ client \in DOMAIN table /\ seq <= table[client]

Record(table, client, seq) ==
    IF client = <<>> \/ (client \in DOMAIN table /\ seq <= table[client]) THEN table
    ELSE [x \in DOMAIN table \cup {client} |-> IF x = client THEN seq ELSE table[x]]
============================================================================
