------------------------------ MODULE MCGateway ------------------------------
(* Small instance of Gateway: two clients race for one slot, and a queue of  *)
(* two overflows twice.                                                    *)
EXTENDS Gateway
=============================================================================
