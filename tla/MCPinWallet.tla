---------------------------- MODULE MCPinWallet ----------------------------
(***************************************************************************)
(* The PIN-protected wallet with a small number of PINs set.               *)
(***************************************************************************)
EXTENDS PinWallet, FiniteSets

\* bound: the records between which a start may choose
FewInDoubt == Cardinality(card) <= 4
============================================================================
