------------------------------ MODULE PduChannel ------------------------------
(***************************************************************************)
(* What the receive path promises to the RDP layer: a channel of PDUs that  *)
(* delivers each one once, in the order the server wrote them, and only     *)
(* when all of its bytes have been written.  How the byte stream was cut    *)
(* into sealed frames and TCP segments, which control messages were mixed   *)
(* in and how often a receive was cancelled cannot be seen here.            *)
(***************************************************************************)
EXTENDS Integers, Sequences

CONSTANTS NPdus,   \* PDUs in the server's stream
          PduEnd   \* PduEnd[p]: the position in the stream at which PDU p ends

VARIABLES written,   \* bytes of the PDU stream the server has written
          delivered  \* the PDUs delivered so far, in order

Init == written = 0 /\ delivered = <<>>

Write == /\ written' \in written..PduEnd[NPdus]
         /\ UNCHANGED delivered

Deliver == /\ Len(delivered) < NPdus
           /\ PduEnd[Len(delivered) + 1] <= written
           /\ delivered' = Append(delivered, Len(delivered) + 1)
           /\ UNCHANGED written

Next == Write \/ Deliver

Spec == Init /\ [][Next]_<<written, delivered>>

=============================================================================
