----------------------------- MODULE Elections -----------------------------
(***************************************************************************)
(* What the election machinery of go-raft promises, without roles, remote  *)
(* calls, stores or failures: terms only rise, a node casts one ballot per *)
(* term and none for a term it has left, and an office is taken with the   *)
(* ballots of a quorum and held in one term only.                          *)
(***************************************************************************)
EXTENDS Naturals

CONSTANTS
    Node,   \* the electors, and the candidates
    Quorum  \* sets of electors, any two of which meet

VARIABLES
    term,    \* term[i]: the term of i
    ballots, \* <<elector, term, candidate>> of every ballot cast
    leaders  \* who is in office, each in its own term

vars == <<term, ballots, leaders>>

Supporters(i) == {v \in Node : <<v, term[i], i>> \in ballots}

Init ==
    /\ term = [i \in Node |-> 0]
    /\ ballots = {}
    /\ leaders = {}

\* No term falls, and whoever stays in office stays in its term.
Forward ==
    /\ \A i \in Node : term'[i] >= term[i]
    /\ leaders' \subseteq {i \in leaders : term'[i] = term[i]}

\* Terms are left and offices are laid down, for whatever reason.
Advance == UNCHANGED ballots /\ Forward

\* v, perhaps on entering a term, casts its ballot in it: it has cast none for
\* a later term and none for another candidate in this one.
Vote(v, c) ==
    /\ ballots' = ballots \cup {<<v, term'[v], c>>}
    /\ \A x \in ballots : (x[1] = v /\ x[2] >= term'[v]) => x = <<v, term'[v], c>>
    /\ \A i \in Node \ {v} : term'[i] = term[i]
    /\ Forward

\* i takes office in its term with the ballots of a quorum.
Win(i) ==
    /\ Supporters(i) \in Quorum
    /\ leaders' = leaders \cup {i}
    /\ UNCHANGED <<term, ballots>>

Next ==
    \/ Advance
    \/ \E v, c \in Node : Vote(v, c)
    \/ \E i \in Node : Win(i)

Steps == [][Next]_vars

Spec == Init /\ Steps
============================================================================
