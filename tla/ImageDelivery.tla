--------------------------- MODULE ImageDelivery ---------------------------
(***************************************************************************)
(* What recv_image promises: it installs the blocks of an image one by     *)
(* one, never loses a block once it is installed, and ends well only when  *)
(* every block is there.  It may give up at any time.                      *)
(***************************************************************************)
CONSTANT Blocks

VARIABLES
    delivered, \* the blocks of the image that are on the device
    status     \* running, complete, stopped

Init ==
    /\ delivered = {}
    /\ status = "running"

(* One more block is on the device; the last one completes the image. *)
Install ==
    /\ status = "running"
    /\ \E b \in Blocks \ delivered : delivered' = delivered \cup {b}
    /\ status' = IF delivered' = Blocks THEN "complete" ELSE "running"

GiveUp ==
    /\ status = "running"
    /\ status' = "stopped"
    /\ UNCHANGED delivered

Next == Install \/ GiveUp

Spec == Init /\ [][Next]_<<delivered, status>>
=============================================================================
