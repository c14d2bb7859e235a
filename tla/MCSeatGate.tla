------------------------------ MODULE MCSeatGate ------------------------------
(* Instances of SeatGate.                                                  *)
EXTENDS SeatGate

MCSubagents == {"p", "q", "r"}
=============================================================================
