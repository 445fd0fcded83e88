------------------------- MODULE DispatchLifecycle -------------------------
(***************************************************************************)
(* What the engine promises about each dispatch request, whatever else it  *)
(* is doing: the request is queued once, announced, and then delivered, or *)
(* it fails at some point before delivery.                                 *)
(***************************************************************************)
CONSTANT Ids

VARIABLE status

Init == status = [r \in Ids |-> "absent"]

Move(r, from, to) ==
  /\ status[r] \in from
  /\ status' = [status EXCEPT ![r] = to]

Queue(r)   == Move(r, {"absent"}, "pending")
Notify(r)  == Move(r, {"pending"}, "notified")
Deliver(r) == Move(r, {"notified"}, "delivered")
Fail(r)    == Move(r, {"pending", "notified"}, "failed")

Next == \E r \in Ids : Queue(r) \/ Notify(r) \/ Deliver(r) \/ Fail(r)

Spec == Init /\ [][Next]_status
=============================================================================
