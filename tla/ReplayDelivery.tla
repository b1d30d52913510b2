--------------------------- MODULE ReplayDelivery ---------------------------
(***************************************************************************)
(* What the export side of the session recorder promises for the log       *)
(* records it accepts, whatever batching, timers, page unloads and the     *)
(* network do: records leave the page in the order in which they were      *)
(* accepted, each in at most one request, and only the end of the page may *)
(* leave records behind that no request carries.  What becomes of a        *)
(* request is not promised: it may be lost, and requests may overtake each *)
(* other.                                                                  *)
(***************************************************************************)
EXTENDS Naturals, Sequences

CONSTANT Logs   \* the log records

VARIABLES
  accepted,   \* all records handed over, in order
  shipped,    \* how many of them have left the page
  requests,   \* the requests made, each a sequence of records
  alive       \* the page still runs

vars == <<accepted, shipped, requests, alive>>

Init ==
  /\ accepted = <<>>
  /\ shipped = 0
  /\ requests = <<>>
  /\ alive = TRUE

\* records are handed over, in one piece
Accept ==
  /\ alive
  /\ \E n \in 1..Len(accepted') :
       /\ Len(accepted') = Len(accepted) + n
       /\ SubSeq(accepted', 1, Len(accepted)) = accepted
  /\ UNCHANGED <<shipped, requests, alive>>

\* the oldest records that have not left yet go out in one request
Ship ==
  /\ alive
  /\ \E n \in 1..(Len(accepted) - shipped) :
       /\ shipped' = shipped + n
       /\ requests' = Append(requests,
                             SubSeq(accepted, shipped + 1, shipped + n))
  /\ UNCHANGED <<accepted, alive>>

Die ==
  /\ alive
  /\ alive' = FALSE
  /\ UNCHANGED <<accepted, shipped, requests>>

Next == Accept \/ Ship \/ Die

Spec == Init /\ [][Next]_vars

=============================================================================
