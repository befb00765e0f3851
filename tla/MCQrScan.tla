------------------------------ MODULE MCQrScan ------------------------------
(***************************************************************************)
(* Two BBQr transfers that share a header but not a part, one of them in   *)
(* shorter blocks; one that is over the ceiling; a packed one of a single  *)
(* frame that does not inflate; a BC-UR message of two parts and one that  *)
(* is corrupt; a plain code; frames that cannot be parsed.                 *)
(***************************************************************************)
EXTENDS QrScan, TLC

MCCode ==
       "a"   :> [kind |-> "bbqr", header |-> "2P", num |-> 2, block |-> 2, last |-> 2, ok |-> TRUE]
    @@ "b"   :> [kind |-> "bbqr", header |-> "2P", num |-> 2, block |-> 1, last |-> 2, ok |-> TRUE]
    @@ "big" :> [kind |-> "bbqr", header |-> "2P", num |-> 2, block |-> 3, last |-> 1, ok |-> TRUE]
    @@ "z"   :> [kind |-> "bbqr", header |-> "ZP", num |-> 1, block |-> 1, last |-> 1, ok |-> FALSE]
    @@ "bad" :> [kind |-> "badbbqr", header |-> "2P", num |-> 1, block |-> 1, last |-> 1, ok |-> TRUE]
    @@ "u"   :> [kind |-> "ur", header |-> "ur", num |-> 2, block |-> 1, last |-> 1, ok |-> TRUE]
    @@ "v"   :> [kind |-> "ur", header |-> "ur", num |-> 1, block |-> 1, last |-> 1, ok |-> FALSE]
    @@ "w"   :> [kind |-> "badur", header |-> "ur", num |-> 1, block |-> 1, last |-> 1, ok |-> TRUE]
    @@ "raw" :> [kind |-> "raw", header |-> "none", num |-> 1, block |-> 1, last |-> 1, ok |-> TRUE]

=============================================================================
