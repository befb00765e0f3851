------------------------------- MODULE SignTx -------------------------------
(***************************************************************************)
(* The sign_tx call (main/process/sign_tx.c): a transaction in one         *)
(* message, then one tx_input message for each input, then the signatures, *)
(* in either of two flows.  In the older one the signatures are the        *)
(* answers to the tx_input messages, kept until the user has agreed; in    *)
(* the anti-exfil flow every tx_input is answered at once by a commitment, *)
(* and every signature answers a get_signature message.                    *)
(*                                                                         *)
(* The client is any program: what it says of coins, scripts and change is *)
(* its word.  coins is what is really spent.  Bitcoin only.                *)
(***************************************************************************)
EXTENDS Naturals, Sequences, FiniteSets, SequencesExt

CONSTANTS
    Coins,        \* what an input may really spend
    Messages,     \* what a client may send after the transaction
    Outputs,      \* what an output may be, with its entry of the "change" array
    MaxInputs,    \* bound: inputs of a transaction
    MaxOutputs    \* bound: outputs

NoInput == [path |-> FALSE, witness |-> "absent", p2tr |-> FALSE, commitment |-> FALSE,
            input_tx |-> "none", satoshi |-> 0, entropy |-> "none"]

\* A coin is spent by a signature of one kind.  witness and p2tr are what a
\* message says of it; input_tx is the transaction it comes from, or another.
\* to: the wallet's own script, one shared with a key of the client's choice
\* (a Green 2of3 account), or anybody's; entry: what the client claims.
ASSUME TxAssumption ==
    /\ Coins \subseteq [kind : {"pre", "v0", "v1"}, amount : Nat]
    /\ Messages \subseteq [method : {"tx_input", "bad tx_input", "get_signature", "other"},
                           path : BOOLEAN, witness : {"yes", "no", "absent"}, p2tr : BOOLEAN,
                           commitment : BOOLEAN, input_tx : {"none", "right", "wrong"},
                           satoshi : Nat, entropy : {"none", "valid", "short"}]
    /\ Outputs \subseteq [to : {"own", "shared", "other"}, entry : {"none", "wallet", "recovery"},
                          is_change : BOOLEAN, odd : BOOLEAN, amount : Nat]
    /\ MaxInputs \in Nat \ {0} /\ MaxOutputs \in Nat \ {0}

VARIABLES
    pc,
    use_ae,          \* use_ae_signatures
    num_inputs,      \* of the transaction
    outputs,
    coins,           \* what the inputs read so far really spend
    inputs,          \* signing_data: what the messages said of them
    input_amount,
    spent,           \* history: the sum of coins
    answers,         \* for each message loaded, the replies sent to it
    agreed           \* history: the outputs and the fee the user said yes to

tx   == <<use_ae, num_inputs, outputs>>

\* What the tx_input messages leave.
taken == <<coins, inputs, input_amount, spent>>

vars == <<pc, tx, taken, answers, agreed>>

----------------------------------------------------------------------------
(* Replies.  A message is known by its place among those loaded; the       *)
(* current one is the last.                                                *)

Current == Len(answers)

Error     == [reply |-> "error"]
Ok        == [reply |-> "ok"]
Empty     == [reply |-> "empty"]
Committed == [reply |-> "commitment"]

Answer(id, reply) == answers' = [answers EXCEPT ![id] = Append(@, reply)]

\* jade_process_load_in_message and an answer to what came.
LoadAndAnswer(replies) == answers' = Append(answers, replies)

Reject ==
    /\ Answer(Current, Error)
    /\ pc' = "done"

\* The load returns with no message: the client is gone.
Lost == pc' = "lost" /\ UNCHANGED answers

\* Mutant of RejectLast: the anti-exfil flow rejects the message it has already
\* answered.
RejectLastAnswered ==
    Reject

\* In the anti-exfil flow the last tx_input has been answered: the error goes to
\* the message after it, whatever that is.
RejectLast ==
    IF use_ae THEN (LoadAndAnswer(<<Error>>) /\ pc' = "done") \/ Lost ELSE Reject

----------------------------------------------------------------------------
(* The transaction and its outputs.                                        *)

Ids == 1 .. num_inputs

\* The script that the entry makes is the output's, or there is no entry.
ScriptMatches(o) ==
    CASE o.entry = "none"     -> TRUE
      [] o.entry = "wallet"   -> o.to = "own"
      [] o.entry = "recovery" -> o.to = "shared"

\* OUTPUT_FLAG_CHANGE: never for a 2of3 account, whose third key is the client's.
Change(o) == o.entry = "wallet" /\ o.is_change

\* displayable_outputs: a warning shows an output, and when all are hidden none is.
ToShow ==
    LET shown == {i \in DOMAIN outputs : outputs[i].odd \/ ~Change(outputs[i])}
    IN  IF shown = {} THEN DOMAIN outputs ELSE shown

Total == SumFunction([i \in DOMAIN outputs |-> outputs[i].amount])

Init ==
    /\ pc = "params"
    /\ use_ae \in BOOLEAN
    /\ num_inputs \in 1 .. MaxInputs
    /\ outputs \in BoundedSeq(Outputs, MaxOutputs) \ {<<>>}
    /\ coins = <<>> /\ inputs = <<>>
    /\ input_amount = 0 /\ spent = 0
    /\ answers = << <<>> >>
    /\ agreed = [outputs |-> {}, fee |-> {}]

ParamsRead ==
    /\ pc = "params"
    /\ \A i \in DOMAIN outputs : ScriptMatches(outputs[i])
    /\ pc' = "outputs"
    /\ UNCHANGED <<tx, taken, answers, agreed>>

\* A parameter is missing or malformed, or a script is not what its path makes.
ParamsRejected ==
    /\ pc = "params"
    /\ Reject
    /\ UNCHANGED <<tx, taken, agreed>>

OutputsYes ==
    /\ pc = "outputs"
    /\ Answer(Current, Ok)
    /\ agreed' = [agreed EXCEPT !.outputs = ToShow]
    /\ pc' = "input"
    /\ UNCHANGED <<tx, taken>>

OutputsNo ==
    /\ pc = "outputs"
    /\ Reject
    /\ UNCHANGED <<tx, taken, agreed>>

----------------------------------------------------------------------------
(* One tx_input after the other.                                           *)

WitnessType(m) == IF m.witness = "yes" THEN "v0" ELSE "pre"

\* The script of an input to be signed tells whether it is taproot.
SigType(m) == IF m.path /\ m.p2tr THEN "v1" ELSE WitnessType(m)

\* params_tx_input_signing_data: what a message with a path must have; there are
\* no commitments to a taproot signature.
SigningDataOK(m) ==
    m.path =>
        /\ m.witness # "absent"
        /\ ~(m.p2tr /\ use_ae /\ m.commitment)

\* Mutant of TaprootFlowOK: a taproot input is signed in either flow.
TaprootAnyFlow(m) == TRUE

\* A taproot input is signed in the anti-exfil flow only.
TaprootFlowOK(m) == m.path /\ m.p2tr => use_ae

\* Mutant of AmountOK: an amount without its transaction is believed of any
\* segwit input.
AmountAnyOK(m) == m.input_tx = "right" \/ (m.input_tx = "none" /\ SigType(m) = "v0")

\* The transaction an input comes from is there and is the right one; only a
\* single segwit input may state its amount, as its signature covers it.
AmountOK(m) ==
    \/ m.input_tx = "right"
    \/ m.input_tx = "none" /\ SigType(m) = "v0" /\ num_inputs = 1

Amount(m, coin) == IF m.input_tx = "right" THEN coin.amount ELSE m.satoshi

\* The message is taken and, in the anti-exfil flow, answered.
InputTaken ==
    /\ pc = "input" /\ Len(inputs) < num_inputs
    /\ \E m \in Messages, coin \in Coins :
        /\ m.method = "tx_input" /\ SigningDataOK(m) /\ AmountOK(m) /\ TaprootFlowOK(m)
        /\ coins' = Append(coins, coin)
        /\ inputs' = Append(inputs, [path |-> m.path, sig_type |-> SigType(m), id |-> Current + 1,
                                     use_ae |-> use_ae /\ m.path /\ m.commitment,
                                     amount |-> Amount(m, coin)])
        /\ input_amount' = input_amount + Amount(m, coin)
        /\ spent' = spent + coin.amount
        /\ LoadAndAnswer(IF ~use_ae THEN <<>>
                         ELSE IF m.path /\ m.commitment THEN <<Committed>> ELSE <<Empty>>)
    /\ UNCHANGED <<pc, tx, agreed>>

\* Another message, a malformed one, or a hash or commitment that cannot be made.
InputRejected ==
    /\ pc = "input" /\ Len(inputs) < num_inputs
    /\ \E m \in Messages :
        m.method # "tx_input" \/ ~SigningDataOK(m) \/ ~AmountOK(m) \/ ~TaprootFlowOK(m) \/ m.path
    /\ LoadAndAnswer(<<Error>>)
    /\ pc' = "done"
    /\ UNCHANGED <<tx, taken, agreed>>

InputLost ==
    /\ pc = "input" /\ Len(inputs) < num_inputs
    /\ Lost
    /\ UNCHANGED <<tx, taken, agreed>>

\* The taproot hashes need every input; one that cannot be made ends the call.
TaprootFails ==
    /\ pc = "input" /\ Len(inputs) = num_inputs
    /\ \E i \in Ids : inputs[i].path /\ inputs[i].sig_type = "v1"
    /\ RejectLast
    /\ UNCHANGED <<tx, taken, agreed>>

TooLittle ==
    /\ pc = "input" /\ Len(inputs) = num_inputs
    /\ Total > input_amount
    /\ RejectLast
    /\ UNCHANGED <<tx, taken, agreed>>

\* show_btc_fee_confirmation_activity asserts that something is spent.
AskFee ==
    /\ pc = "input" /\ Len(inputs) = num_inputs
    /\ Total <= input_amount
    /\ pc' = IF Total = 0 THEN "aborted" ELSE "fee"
    /\ UNCHANGED <<tx, taken, answers, agreed>>

----------------------------------------------------------------------------
(* The fee, and the signatures.                                            *)

\* With nothing to sign a further message says so and changes nothing.
FeeYes ==
    /\ pc = "fee"
    /\ agreed' = [agreed EXCEPT !.fee = {input_amount - Total}]
    /\ pc' = "sign"
    /\ UNCHANGED <<tx, taken, answers>>

FeeNo ==
    /\ pc = "fee"
    /\ RejectLast
    /\ UNCHANGED <<tx, taken, agreed>>

\* wallet_get_tx_input_hash: the amounts that the hash of an input covers.
Covers(i) ==
    CASE inputs[i].sig_type = "pre" -> {}
      [] inputs[i].sig_type = "v0"  -> {<<i, inputs[i].amount>>}
      [] inputs[i].sig_type = "v1"  -> {<<j, inputs[j].amount>> : j \in Ids}

\* wallet_sign_tx_input_hash.
Signature(i, ae) ==
    [reply |-> "signature", input |-> i, sig_type |-> inputs[i].sig_type, ae |-> ae,
     covers |-> Covers(i)]

\* send_ec_signature_replies: all are made before the first is sent.
SendEC ==
    /\ pc = "sign" /\ ~use_ae
    /\ answers' = [id \in DOMAIN answers |->
                      LET its == {i \in Ids : inputs[i].id = id}
                      IN  IF its = {} THEN answers[id]
                          ELSE LET i == CHOOSE i \in its : TRUE
                               IN  Append(answers[id], IF inputs[i].path THEN Signature(i, FALSE) ELSE Empty)]
    /\ pc' = "done"
    /\ UNCHANGED <<tx, taken, agreed>>

SendECFails ==
    /\ pc = "sign" /\ ~use_ae
    /\ \E i \in Ids : inputs[i].path /\ Answer(inputs[i].id, Error)
    /\ pc' = "done"
    /\ UNCHANGED <<tx, taken, agreed>>

\* The input whose get_signature is due: the first answered by none.
Due == Current - num_inputs

\* Entropy and commitment come together or not at all.
EntropyOK(m, i) == inputs[i].path => m.entropy # "short" /\ (m.entropy = "valid") = inputs[i].use_ae

\* send_ae_signature_replies.
SendAE ==
    /\ pc = "sign" /\ use_ae
    /\ \E m \in Messages :
        /\ m.method = "get_signature" /\ EntropyOK(m, Due)
        /\ LoadAndAnswer(<<IF inputs[Due].path THEN Signature(Due, m.entropy = "valid") ELSE Empty>>)
    /\ pc' = IF Due = num_inputs THEN "done" ELSE "sign"
    /\ UNCHANGED <<tx, taken, agreed>>

\* Another message, entropy that does not fit, or no signature to be had.
SendAEFails ==
    /\ pc = "sign" /\ use_ae
    /\ \E m \in Messages : m.method # "get_signature" \/ ~EntropyOK(m, Due) \/ inputs[Due].path
    /\ LoadAndAnswer(<<Error>>)
    /\ pc' = "done"
    /\ UNCHANGED <<tx, taken, agreed>>

SendAELost ==
    /\ pc = "sign" /\ use_ae
    /\ Lost
    /\ UNCHANGED <<tx, taken, agreed>>

Next ==
    \/ ParamsRead \/ ParamsRejected
    \/ OutputsYes \/ OutputsNo
    \/ InputTaken \/ InputRejected \/ InputLost
    \/ TaprootFails \/ TooLittle \/ AskFee
    \/ FeeYes \/ FeeNo
    \/ SendEC \/ SendECFails
    \/ SendAE \/ SendAEFails \/ SendAELost

Spec == Init /\ [][Next]_vars

----------------------------------------------------------------------------
(* Properties.                                                             *)

Reply ==
    {Error, Ok, Empty, Committed}
        \cup [reply : {"signature"}, input : Nat, sig_type : {"pre", "v0", "v1"}, ae : BOOLEAN,
              covers : SUBSET (Nat \X Nat)]

Replies == UNION {ToSet(answers[id]) : id \in DOMAIN answers}
Signatures == {r \in Replies : r.reply = "signature"}

\* Type correctness.  No fee is ever agreed to that is not what the messages said
\* less the outputs, or is below zero; a taproot input is never signed outside
\* the anti-exfil flow, nor with a commitment.
TypeOK ==
    /\ pc \in {"params", "outputs", "input", "fee", "sign", "done", "lost", "aborted"}
    /\ use_ae \in BOOLEAN /\ num_inputs \in 1 .. MaxInputs
    /\ outputs \in Seq(Outputs) /\ coins \in Seq(Coins)
    /\ inputs \in Seq([path : BOOLEAN, sig_type : {"pre", "v0", "v1"}, id : Nat, use_ae : BOOLEAN, amount : Nat])
    /\ Len(inputs) = Len(coins) /\ Len(inputs) <= num_inputs
    /\ input_amount \in Nat /\ spent \in Nat
    /\ answers \in Seq(Seq(Reply))
    /\ agreed \in [outputs : SUBSET DOMAIN outputs, fee : SUBSET {input_amount - Total}]
    /\ agreed.fee # {} => Total <= input_amount
    /\ \A s \in Signatures : s.sig_type = "v1" => use_ae /\ ~s.ae

\* A signature that the network would take: of the coin's kind, and over the
\* amounts that are really spent.
Usable(s) ==
    /\ s.sig_type = coins[s.input].kind
    /\ \A c \in s.covers : c[2] = coins[c[1]].amount

\* Whatever the client says of amounts, witnesses and change, a signature worth
\* anything was given after the user had seen the fee that is really paid, every
\* output that is not the wallet's own, and every unusual one that is.
SignsWhatWasShown ==
    \A s \in Signatures : Usable(s) =>
        /\ agreed.fee = {spent - Total}
        /\ \A i \in DOMAIN outputs : outputs[i].to # "own" \/ outputs[i].odd => i \in agreed.outputs

\* No message is answered twice, and a signature answers the message that asks
\* for it: that input's tx_input in the one flow, the get_signature of the same
\* rank in the other.  When the call ends, every message of the anti-exfil flow
\* has its answer; in the other one the inputs are answered all or by one error.
AnswersMatch ==
    /\ \A id \in DOMAIN answers : Len(answers[id]) <= 1
    /\ \A id \in DOMAIN answers : \A s \in ToSet(answers[id]) \cap Signatures :
           /\ id = s.input + 1 + (IF use_ae THEN num_inputs ELSE 0)
           /\ s.ae = inputs[s.input].use_ae
    /\ pc = "done" =>
           LET silent == {id \in DOMAIN answers : answers[id] = <<>>}
           IN  silent # {} => ~use_ae /\ Error \in Replies /\ Signatures = {}

============================================================================
