--------------------------- MODULE MCPinExchange ---------------------------
(* The instance of PinExchange for TLC. *)
EXTENDS PinExchange
============================================================================
