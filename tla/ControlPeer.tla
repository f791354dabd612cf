----------------------------- MODULE ControlPeer ------------------------------
(***************************************************************************)
(* What the controller may rely on at the other end of a control           *)
(* connection, whatever happens behind it:                                 *)
(*                                                                         *)
(*   - lines are consumed in order; every Hello and every init is answered *)
(*     by exactly one ACK, in the order of the requests, and fin and       *)
(*     queries by nothing;                                                 *)
(*   - reports leave in the order they were made, at most Capacity of them *)
(*     are waiting, and none is made between a fin and the next init: what *)
(*     still arrives then was made before.                                 *)
(***************************************************************************)
EXTENDS Sequences, Naturals

CONSTANTS Lines, Reports, AckLine, Capacity, Kind(_)

VARIABLES
    inbox,    \* lines of the controller that are not consumed yet
    outbox,   \* lines for the controller
    backlog,  \* reports made and not written yet
    closed    \* between a fin and the next init

peer == <<inbox, outbox, backlog, closed>>

Init == inbox = << >> /\ outbox = << >> /\ backlog = << >> /\ closed = FALSE

(* The controller's side. *)
Write == \E l \in Lines : inbox' = Append(inbox, l) /\ UNCHANGED <<outbox, backlog, closed>>

Read == outbox # << >> /\ outbox' = Tail(outbox) /\ UNCHANGED <<inbox, backlog, closed>>

Consume(kinds) ==
    /\ inbox # << >> /\ Kind(Head(inbox)) \in kinds
    /\ inbox' = Tail(inbox)

Answer ==
    /\ Consume({"Hello", "init"})
    /\ outbox' = Append(outbox, AckLine)
    /\ UNCHANGED <<backlog, closed>>

Absorb == Consume({"query"}) /\ UNCHANGED <<outbox, backlog, closed>>

Close == Consume({"fin"}) /\ closed' = TRUE /\ UNCHANGED <<outbox, backlog>>

(* The session opens again while init is being answered. *)
Reopen ==
    /\ inbox # << >> /\ Kind(Head(inbox)) = "init"
    /\ closed' = FALSE
    /\ UNCHANGED <<inbox, outbox, backlog>>

(* One report, or the two that open and close an error notify's block. *)
Make ==
    /\ ~closed
    /\ backlog' \in Seq(Reports)
    /\ Len(backlog') \in Len(backlog) + 1 .. Len(backlog) + 2
    /\ Len(backlog') <= Capacity
    /\ \A i \in 1..Len(backlog) : backlog'[i] = backlog[i]
    /\ UNCHANGED <<inbox, outbox, closed>>

Emit ==
    /\ backlog # << >>
    /\ outbox' = Append(outbox, Head(backlog))
    /\ backlog' = Tail(backlog)
    /\ UNCHANGED <<inbox, closed>>

Next == Write \/ Read \/ Answer \/ Absorb \/ Close \/ Reopen \/ Make \/ Emit

Spec == Init /\ [][Next]_peer
=============================================================================
