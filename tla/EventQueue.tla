----------------------------- MODULE EventQueue -----------------------------
(***************************************************************************)
(* What the event buffer of the client library promises: a first-in        *)
(* first-out queue of bounded length that gives up its oldest entry when   *)
(* another one comes in (the comment on event_push() in lib/socket.c).     *)
(***************************************************************************)
EXTENDS Naturals, Sequences

CONSTANTS Item,      \* what is queued
          Capacity   \* the most that is kept

VARIABLE queue

Init == queue = <<>>

Put(e) == queue' = Append(IF Len(queue) = Capacity THEN Tail(queue) ELSE queue, e)

Get == queue # <<>> /\ queue' = Tail(queue)

Next == Get \/ \E e \in Item : Put(e)

Spec == Init /\ [][Next]_queue
=============================================================================
