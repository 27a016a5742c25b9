---------------------------- MODULE MCRaftFive ----------------------------
(* Instance of Raft with five nodes, for what three nodes rule out: two     *)
(* majorities that leave out the same node and differ all the same.        *)
EXTENDS MCRaft

CONSTANTS d, e

NoEvents == [k \in EventKind |-> 0]

(* a was elected in term 1 by all, and its no-op is everywhere; the reply of  *)
(* b has not been dealt with yet.  c has won term 2 with d and e, and was     *)
(* restarted when its own no-op was on the way to b.  a has won term 3 with   *)
(* d and e, has logged a no-op and sent it.  b has heard of neither election. *)
Entry3 == [term |-> 3, data |-> NoOp]

InitOvertaken ==
    /\ NoneYet
    /\ LET Old    == [nextIndex |-> [p \in Node |-> IF p = b THEN 1 ELSE 2],
                      matchIndex |-> [p \in Node |-> IF p = b THEN 0 ELSE 1],
                      inflight |-> {b}]
           Fresh  == [nextIndex |-> [p \in Node |-> IF p = a THEN 3 ELSE 2],
                      matchIndex |-> [p \in Node |-> IF p = a THEN 2 ELSE 0],
                      inflight |-> Node \ {a}]
           LateAck == [Replicate(a, b, 1, Entry1, 0) EXCEPT
                         !.prevIndex = 0, !.prevTerm = 0, !.phase = "done",
                         !.reply = [NoAppend EXCEPT !.term = 1, !.success = TRUE]]
           Orphan  == [Replicate(c, b, 2, Entry2, 0) EXCEPT !.phase = "orphan"]
           Sent    == {[Replicate(a, p, 3, Entry3, 1) EXCEPT !.obj = 2] : p \in Node \ {a}}
       IN  Start([i \in Node |-> CASE i = a -> Process(3, a, a, 1, "leader", {a, d, e})
                                   [] i = b -> Process(1, a, a, 0, "follower", {})
                                   [] i = c -> Process(2, c, Nil, 0, "follower", {})
                                   [] OTHER -> Process(3, a, Nil, 0, "follower", {})],
                 [i \in Node |-> CASE i = a -> <<Entry1, Entry3>>
                                   [] i = c -> <<Entry1, Entry2>>
                                   [] OTHER -> <<Entry1>>],
                 [i \in Node |-> IF i = a THEN <<Old, Fresh>> ELSE <<>>],
                 {LateAck, Orphan} \cup Sent,
                 {<<i, 1, a>> : i \in Node} \cup {<<i, 2, c>> : i \in {c, d, e}}
                   \cup {<<i, 3, a>> : i \in {a, d, e}},
                 Decided1)
============================================================================
