-------------------------- MODULE MCSealedTransport --------------------------
(* Small instance: four PDUs of 1, 2, 1 and 1 bytes, one of each kind. *)
EXTENDS SealedTransport

MCPduEnd == [p \in 0..4 |-> <<0, 1, 3, 4, 5>>[p + 1]]
MCPduKind == <<"plain", "demand", "deactivate", "plain">>

=============================================================================
