------------------------------ MODULE SignPsbt ------------------------------
(***************************************************************************)
(* Signing a PSBT (main/process/sign_psbt.c), scanned as a QR code or sent *)
(* in a message: the wallet offered when the PSBT names another one, the   *)
(* pass over the inputs that decides what counts as change, the screens    *)
(* the user confirms (main/ui/sign_tx.c), and the signatures.  A PSBT is   *)
(* written by somebody else: its key paths need not be those of its        *)
(* scripts.                                                                *)
(*                                                                         *)
(* A script is what can spend it: the single key of a wallet, a multisig   *)
(* policy, a Green account of a wallet (with a third key, when it is 2of3) *)
(* or anything else.  Deriving keys and building scripts to compare is     *)
(* equality of such values.  Bitcoin only: the checks a PSET adds are left *)
(* out.                                                                    *)
(***************************************************************************)
EXTENDS Naturals, Sequences, FiniteSets, SequencesExt

CONSTANTS
    NumSlots,      \* the wallets held, numbered by their position
    Policies,      \* multisig policies and descriptors
    Registered,    \* wallet -> the policies registered with it
    ThirdKeys,     \* third keys of Green 2of3 accounts, whoever's they are
    Inputs,        \* what an input of a PSBT may be
    Outputs,       \* what an output may be
    MaxInputs,     \* bound: inputs of a PSBT
    MaxOutputs,    \* bound: outputs
    MaxPresses     \* bound: presses of KEY3, or after it

Wallets == 1 .. NumSlots
Scripts ==
    ({"single", "green"} \X Wallets) \cup ({"green3"} \X (Wallets \X ThirdKeys))
    \cup ({"multi"} \X Policies) \cup {<<"other", 0>>}

\* How the key paths of an item look: one key, several, a Green account's, a Green
\* 2of3 account's, or such an account's of which the wallet is the recovery signer.
Maps == {"single", "multi", "green", "green3", "recovery"}

\* names: the wallets whose fingerprint the item carries; ours: the wallets one
\* of whose keys is there; path: of that key; third: the key on a recovery path.
ASSUME PsbtAssumption ==
    /\ NumSlots \in Nat \ {0} /\ MaxInputs \in Nat \ {0} /\ MaxOutputs \in Nat \ {0} /\ MaxPresses \in Nat
    /\ Registered \in [Wallets -> SUBSET Policies]
    /\ Inputs \subseteq [script : Scripts, map : Maps, names : SUBSET Wallets, ours : SUBSET Wallets,
                         path : {"usual", "long"}, amount : Nat]
    /\ Outputs \subseteq [script : Scripts, map : Maps, ours : SUBSET Wallets, third : ThirdKeys,
                          path : {"change", "receive", "odd change", "long"}, amount : Nat]
    /\ \A i \in Inputs : i.ours \subseteq i.names

VARIABLES
    pc,
    process,        \* the PSBT came in a message, not from a scan
    inputs,         \* of the PSBT
    outputs,
    active,         \* the wallet in use
    at,             \* the position, input or output a loop has reached
    signing_flags,
    record,         \* multisig_data or descriptor: the policies that were found
    input_amount,
    output_info,
    sig_types,      \* the inputs flagged for signing
    sigs,           \* the signatures in the PSBT: input and wallet
    esc,            \* gui_escape_pending
    presses,        \* bound: presses of KEY3 and after it
    agreed          \* history: what the user said yes to

psbt  == <<process, inputs, outputs>>
pass  == <<signing_flags, record, input_amount, sig_types>>
vars  == <<pc, psbt, active, at, pass, output_info, sigs, esc, presses, agreed>>

----------------------------------------------------------------------------
\* The key of the wallet in use is among the item's (key_iter_*_begin_public).
Found(item) == active \in item.ours

Nobody == [switch |-> 0, unsigned |-> FALSE, outputs |-> {}, fee |-> FALSE]

Goto(step) == pc' = step /\ at' = 1

Init ==
    /\ pc = "offer"
    /\ process \in BOOLEAN
    /\ inputs \in BoundedSeq(Inputs, MaxInputs) \ {<<>>}
    /\ outputs = <<>>
    /\ active \in Wallets
    /\ at = 1
    /\ signing_flags = {}
    /\ record = {}
    /\ input_amount = 0
    /\ output_info = <<>>
    /\ sig_types = {}
    /\ sigs = {}
    /\ esc = FALSE
    /\ presses = 0
    /\ agreed = Nobody

----------------------------------------------------------------------------
(* Presses.  KEY3 raises the flag and answers the screen by its decline;   *)
(* any other press takes the flag back.                                    *)

Screens == {"switch", "nothing", "show", "fee"}

Key3 ==
    /\ pc \in Screens
    /\ presses < MaxPresses
    /\ presses' = presses + 1
    /\ esc' = TRUE

StrayPress ==
    /\ esc
    /\ pc \notin Screens
    /\ presses < MaxPresses
    /\ presses' = presses + 1
    /\ esc' = FALSE
    /\ UNCHANGED <<pc, psbt, active, at, pass, output_info, sigs, agreed>>

\* A screen is answered no, by its own button or by KEY3.
No == Key3 \/ (pc \in Screens /\ esc' = FALSE /\ UNCHANGED presses)

Yes == esc' = FALSE /\ UNCHANGED presses

\* sign_psbt returns USER_CANCELLED or an error: the PSBT is freed as it is.
Declined == pc' = "cancelled" /\ at' = 1

----------------------------------------------------------------------------
(* offer_wallet_named_by_psbt.                                             *)

Named(w) == \E i \in DOMAIN inputs : w \in inputs[i].names

NoOffer ==
    /\ pc = "offer"
    /\ at = 1
    /\ process \/ Named(active)
    /\ Goto("input")
    /\ UNCHANGED <<psbt, active, pass, output_info, sigs, esc, presses, agreed>>

\* The next position: skipped when it is not named; KEY3 ends the search.
OfferNext ==
    /\ pc = "offer"
    /\ ~process /\ (at = 1 => ~Named(active))
    /\ IF at > NumSlots \/ esc THEN Goto("offered")
       ELSE IF Named(at) THEN pc' = "switch" /\ UNCHANGED at
       ELSE at' = at + 1 /\ UNCHANGED pc
    /\ UNCHANGED <<psbt, active, pass, output_info, sigs, esc, presses, agreed>>

SwitchYes ==
    /\ pc = "switch"
    /\ Yes
    /\ active' = at
    /\ agreed' = [agreed EXCEPT !.switch = at]
    /\ Goto("offered")
    /\ UNCHANGED <<psbt, pass, output_info, sigs>>

SwitchNo ==
    /\ pc = "switch"
    /\ No
    /\ pc' = "offer" /\ at' = at + 1
    /\ UNCHANGED <<psbt, active, pass, output_info, sigs, agreed>>

\* KEY3 ends signing here, unless another press has taken it back.
Offered ==
    /\ pc = "offered"
    /\ IF esc THEN Declined ELSE Goto("input")
    /\ UNCHANGED <<psbt, active, pass, output_info, sigs, esc, presses, agreed>>

----------------------------------------------------------------------------
(* The pass over the inputs.                                               *)

SINGLESIG == "singlesig"
MULTISIG  == "multisig"
GREEN     == "green"
SINGLE_RECORD == "single record"
ABANDONED == "abandoned"

\* verify_multisig_script_matches, verify_descriptor_script_matches: the
\* policy's keys are the item's, and make its script.
Matches(item, policy) == item.map = "multi" /\ item.script = <<"multi", policy>>

\* get_suitable_multisig_record, get_suitable_descriptor_record: the records
\* that load with the wallet in use.
Suitable(item) == {p \in Registered[active] : Matches(item, p)}

Kind(item) ==
    CASE item.map = "single"                         -> SINGLESIG
      [] item.map \in {"green", "green3", "recovery"} -> GREEN
      [] OTHER                                       -> MULTISIG

\* Mutant of Flags: a record that no longer fits is kept.
FlagsKept(item, flags, found) ==
    IF ABANDONED \in flags THEN flags
    ELSE IF flags \cap {SINGLESIG, GREEN} # {} THEN flags \cup {ABANDONED}
    ELSE IF item.path = "long" \/ SINGLE_RECORD \in flags THEN flags
    ELSE flags \cup {IF Suitable(item) # {} THEN SINGLE_RECORD ELSE ABANDONED}

\* Mutant of Flags: the flag of the record goes when it does not fit, the record
\* does not.
FlagsCleared(item, flags, found) ==
    IF ABANDONED \in flags THEN flags
    ELSE IF flags \cap {SINGLESIG, GREEN} # {} THEN (flags \ {SINGLE_RECORD}) \cup {ABANDONED}
    ELSE IF item.path = "long" \/ SINGLE_RECORD \in flags THEN flags
    ELSE flags \cup {IF Suitable(item) # {} THEN SINGLE_RECORD ELSE ABANDONED}

\* Mutant of Flags: each input needs a record of its own.
FlagsFirstOnly(item, flags, found) ==
    IF ABANDONED \in flags THEN flags
    ELSE IF flags \cap {SINGLESIG, GREEN, SINGLE_RECORD} # {} THEN flags \cup {ABANDONED}
    ELSE IF item.path = "long" THEN flags
    ELSE flags \cup {IF Suitable(item) # {} THEN SINGLE_RECORD ELSE ABANDONED}

\* What becomes of multisig change detection at an input that is signed; flags
\* already names the input's kind, found is the record of the inputs before.
Flags(item, flags, found) ==
    IF ABANDONED \in flags THEN flags
    ELSE IF flags \cap {SINGLESIG, GREEN} # {} THEN flags \cup {ABANDONED}
    ELSE IF item.path = "long" THEN flags
    ELSE IF SINGLE_RECORD \in flags
         THEN IF \A p \in found : Matches(item, p) THEN flags ELSE flags \cup {ABANDONED}
    ELSE flags \cup {IF Suitable(item) # {} THEN SINGLE_RECORD ELSE ABANDONED}

SumInput ==
    /\ pc = "input"
    /\ at <= Len(inputs)
    /\ LET input == inputs[at]
           flags == Flags(input, signing_flags \cup {Kind(input)}, record)
       IN  /\ input_amount' = input_amount + input.amount
           /\ IF Found(input)
              THEN /\ sig_types' = sig_types \cup {at}
                   /\ signing_flags' = flags
                   /\ IF SINGLE_RECORD \in flags \ signing_flags
                      THEN \E p \in Suitable(input) : record' = {p}
                      ELSE UNCHANGED record
              ELSE UNCHANGED <<sig_types, signing_flags, record>>
    /\ at' = at + 1
    /\ UNCHANGED <<pc, psbt, active, output_info, sigs, esc, presses, agreed>>

\* Input utxo missing, or an unsupported sighash.
InputFails ==
    /\ pc = "input"
    /\ at <= Len(inputs)
    /\ Goto("failed")
    /\ UNCHANGED <<psbt, active, pass, output_info, sigs, esc, presses, agreed>>

InputsDone ==
    /\ pc = "input"
    /\ at > Len(inputs)
    /\ Goto(IF signing_flags = {} THEN "nothing" ELSE "outputs")
    /\ UNCHANGED <<psbt, active, pass, output_info, sigs, esc, presses, agreed>>

NothingYes ==
    /\ pc = "nothing"
    /\ Yes
    /\ agreed' = [agreed EXCEPT !.unsigned = TRUE]
    /\ Goto("outputs")
    /\ UNCHANGED <<psbt, active, pass, output_info, sigs>>

NothingNo ==
    /\ pc = "nothing"
    /\ No
    /\ Declined
    /\ UNCHANGED <<psbt, active, pass, output_info, sigs, agreed>>

----------------------------------------------------------------------------
(* psbt_update_outputs, and the screens.                                   *)

Shown   == [is_ours |-> FALSE, change |-> FALSE, message |-> FALSE]
Ours(o) == [is_ours |-> TRUE,
            change  |-> o.path \in {"change", "odd change"},
            message |-> o.path = "odd change"]

\* verify_ga_script_matches: the third key of a 2of3 account is the PSBT's; where
\* the wallet is the recovery signer nothing can be verified.
MatchesGreen(o) ==
    \/ o.map = "green" /\ o.script = <<"green", active>>
    \/ o.map = "green3" /\ o.script = <<"green3", <<active, o.third>>>>

\* An output with a key of the wallet in use is its own when the script its
\* key makes is the output's, and inputs of its kind, for several keys only of
\* its kind and of one record, are signed.
Info(o) ==
    IF ~Found(o) \/ o.path = "long" THEN Shown
    ELSE IF o.map = "single"
         THEN IF SINGLESIG \in signing_flags /\ o.script = <<"single", active>> THEN Ours(o) ELSE Shown
    ELSE IF signing_flags = {GREEN, ABANDONED}
         THEN IF MatchesGreen(o) THEN [is_ours |-> TRUE, change |-> TRUE, message |-> FALSE] ELSE Shown
    ELSE IF signing_flags = {MULTISIG, SINGLE_RECORD}
         THEN IF \A p \in record : Matches(o, p) THEN Ours(o) ELSE Shown
    ELSE Shown

Total(outs) == FoldSeq(LAMBDA o, sum : o.amount + sum, 0, outs)

\* The outputs of the PSBT are looked at here for the first time.
UpdateOutputs ==
    /\ pc = "outputs"
    /\ outputs' \in BoundedSeq(Outputs, MaxOutputs) \ {<<>>}
    /\ output_info' = [i \in DOMAIN outputs' |-> Info(outputs'[i])]
    /\ IF Total(outputs') > input_amount THEN Goto("failed") ELSE Goto("show")
    /\ UNCHANGED <<process, inputs, active, pass, sigs, esc, presses, agreed>>

\* display_output.
Displayed(i) == output_info[i].message \/ ~output_info[i].change

\* Mutant of ToShow: a warning does not bring change back.
ToShowQuiet == {i \in DOMAIN outputs : ~output_info[i].change}

\* displayable_outputs: when all would be hidden, none is.
ToShow ==
    IF \E i \in DOMAIN outputs : Displayed(i) THEN {i \in DOMAIN outputs : Displayed(i)} ELSE DOMAIN outputs

SkipOutput ==
    /\ pc = "show"
    /\ at \in DOMAIN outputs \ ToShow
    /\ at' = at + 1
    /\ UNCHANGED <<pc, psbt, active, pass, output_info, sigs, esc, presses, agreed>>

OutputYes ==
    /\ pc = "show"
    /\ at \in ToShow
    /\ Yes
    /\ agreed' = [agreed EXCEPT !.outputs = @ \cup {at}]
    /\ at' = at + 1
    /\ UNCHANGED <<pc, psbt, active, pass, output_info, sigs>>

OutputNo ==
    /\ pc = "show"
    /\ at \in ToShow
    /\ No
    /\ Declined
    /\ UNCHANGED <<psbt, active, pass, output_info, sigs, agreed>>

\* show_btc_fee_confirmation_activity asserts that something is spent.
OutputsShown ==
    /\ pc = "show"
    /\ at > Len(outputs)
    /\ Goto(IF Total(outputs) = 0 THEN "aborted" ELSE "fee")
    /\ UNCHANGED <<psbt, active, pass, output_info, sigs, esc, presses, agreed>>

FeeYes ==
    /\ pc = "fee"
    /\ Yes
    /\ agreed' = [agreed EXCEPT !.fee = TRUE]
    /\ Goto("sign")
    /\ UNCHANGED <<psbt, active, pass, output_info, sigs>>

FeeNo ==
    /\ pc = "fee"
    /\ No
    /\ Declined
    /\ UNCHANGED <<psbt, active, pass, output_info, sigs, agreed>>

----------------------------------------------------------------------------
(* The signatures, and what becomes of the PSBT.                           *)

Sign ==
    /\ pc = "sign"
    /\ at <= Len(inputs)
    /\ sigs' = IF at \in sig_types THEN sigs \cup {<<at, active>>} ELSE sigs
    /\ at' = at + 1
    /\ UNCHANGED <<pc, psbt, active, pass, output_info, esc, presses, agreed>>

SignFails ==
    /\ pc = "sign"
    /\ at \in sig_types
    /\ Goto("failed")
    /\ UNCHANGED <<psbt, active, pass, output_info, sigs, esc, presses, agreed>>

\* sign_display_psbt shows it as a QR code, sign_psbt_process replies with it,
\* unless it cannot be encoded.
Signed ==
    /\ pc = "sign"
    /\ at > Len(inputs)
    /\ \E built \in BOOLEAN : Goto(IF built THEN "signed" ELSE "failed")
    /\ UNCHANGED <<psbt, active, pass, output_info, sigs, esc, presses, agreed>>

Asks ==
    \/ SwitchYes \/ SwitchNo
    \/ NothingYes \/ NothingNo
    \/ OutputYes \/ OutputNo
    \/ FeeYes \/ FeeNo

Works ==
    \/ NoOffer \/ OfferNext \/ Offered
    \/ SumInput \/ InputFails \/ InputsDone
    \/ UpdateOutputs \/ SkipOutput \/ OutputsShown
    \/ Sign \/ SignFails \/ Signed

Next == Asks \/ Works \/ StrayPress

Spec == Init /\ [][Next]_vars

----------------------------------------------------------------------------
(* Properties.                                                             *)

Flagged == {SINGLESIG, MULTISIG, GREEN, SINGLE_RECORD, ABANDONED}

\* Type correctness; a record is held exactly when its flag says so.
TypeOK ==
    /\ pc \in Screens \cup {"offer", "offered", "input", "outputs", "sign", "signed", "cancelled", "failed", "aborted"}
    /\ process \in BOOLEAN
    /\ inputs \in Seq(Inputs) /\ outputs \in Seq(Outputs)
    /\ active \in Wallets
    /\ at \in Nat \ {0}
    /\ signing_flags \subseteq Flagged
    /\ record \subseteq Policies /\ Cardinality(record) = (IF SINGLE_RECORD \in signing_flags THEN 1 ELSE 0)
    /\ input_amount \in Nat
    /\ output_info \in Seq([is_ours : BOOLEAN, change : BOOLEAN, message : BOOLEAN])
    /\ sig_types \subseteq DOMAIN inputs
    /\ sigs \subseteq (DOMAIN inputs) \X Wallets
    /\ esc \in BOOLEAN /\ presses \in 0 .. MaxPresses
    /\ agreed \in [switch : 0 .. NumSlots, unsigned : BOOLEAN, outputs : SUBSET Nat, fee : BOOLEAN]

Unseen == DOMAIN outputs \ agreed.outputs

\* An output the user did not confirm goes back to the wallet that signs: to its
\* own key, to its Green account, or to the one registered policy that every
\* signed input is spent from, in whichever order the inputs come.  Whatever the
\* PSBT says of its key paths, coins neither leave unseen nor move unseen between
\* registered wallets, with one exception: with nothing but Green inputs to sign,
\* an unseen output may be a Green 2of3 account's, whose keys are the wallet's,
\* Green's and a third that the PSBT names.  (An input whose key path is too long
\* is signed without being compared: the early continue of the loop over the
\* inputs.)
UnseenIsOwn ==
    sigs # {} =>
        \A i \in Unseen :
            \/ outputs[i].script = <<"single", active>>
            \/ /\ outputs[i].script \in {<<"green", active>>, <<"green3", <<active, outputs[i].third>>>>}
               /\ \A j \in DOMAIN inputs : Found(inputs[j]) => Kind(inputs[j]) = GREEN
            \/ /\ \E p \in Registered[active] : outputs[i].script = <<"multi", p>>
               /\ \A j \in DOMAIN inputs :
                      Found(inputs[j]) /\ inputs[j].path # "long" => inputs[j].script = outputs[i].script

\* The converse: with nothing but inputs of one registered policy, its usual
\* change is recognised, so that the user confirms what really leaves.
OwnChangeIsHidden ==
    pc \in {"fee", "sign", "signed"} =>
        \A p \in Registered[active] : \A i \in DOMAIN outputs :
            /\ sig_types # {}
            /\ \A j \in sig_types : Matches(inputs[j], p) /\ inputs[j].path = "usual"
            /\ Matches(outputs[i], p) /\ Found(outputs[i]) /\ outputs[i].path = "change"
            => output_info[i].change /\ ~output_info[i].message

\* No signature without a yes to the fee and to every output on display, and by
\* no wallet but the one that was in use or that a yes switched to; KEY3, even one
\* that a later press takes back, never leads to a signature by itself.  A PSBT
\* that is shown or sent back carries a signature for every input that has a key
\* of that wallet, or the user was told that there are none.
SignsAsAgreed ==
    /\ sigs # {} =>
        /\ agreed.fee
        /\ \A i \in DOMAIN outputs : ~output_info[i].change \/ output_info[i].message => i \in agreed.outputs
        /\ agreed.outputs # {}
        /\ \A s \in sigs : s[2] = active /\ active \in inputs[s[1]].ours
        /\ agreed.switch # 0 => active = agreed.switch /\ ~process
    /\ pc = "signed" =>
        /\ \A i \in DOMAIN inputs : Found(inputs[i]) => <<i, active>> \in sigs
        /\ sigs = {} => agreed.unsigned

============================================================================
