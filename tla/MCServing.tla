----------------------------- MODULE MCServing -----------------------------
(* Instances of Serving for TLC.                                           *)
EXTENDS Serving

CONSTANTS first, other

\* A client's request, and one without a session whose data begins with a cell
\* that could be the length of a client id.  The client's retry comes through
\* another leader.
MCCommand ==
    [r \in Request |-> IF r = other THEN [clientId |-> <<>>, seq |-> 0, data |-> <<1, 9>>]
                       ELSE [clientId |-> <<5>>, seq |-> 1, data |-> <<8, 8>>]]

Bounds(call, elect, stepdown, receive, minutes, disable, giveup, crash) ==
    [e \in EventKind |-> CASE e = "call" -> call
                           [] e = "elect" -> elect
                           [] e = "stepdown" -> stepdown
                           [] e = "receive" -> receive
                           [] e = "minute" -> minutes
                           [] e = "disable" -> disable
                           [] e = "giveup" -> giveup
                           [] e = "crash" -> crash]

AnyEvents == Bounds(2, 2, 2, 2, 2, 1, 1, 2)

\* One call, and an office before the one it is made in.
TwoOffices == Bounds(1, 2, 1, 0, 0, 0, 0, 0)

\* One call, and a crash.
OneCrash == Bounds(1, 1, 0, 0, 0, 0, 0, 1)

Payloads == {<<1, 9>>, <<8, 8>>}
=============================================================================
