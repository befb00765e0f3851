--------------------------- MODULE SignPsbtProofs ---------------------------
(***************************************************************************)
(* Proofs about the signing of PSBTs: whatever a PSBT says of its key      *)
(* paths, however many inputs and outputs it has and in whichever order    *)
(* they come, an output that the user did not confirm is the signing       *)
(* wallet's own, and no signature is made that the user did not agree to.  *)
(*                                                                         *)
(* The last section is about the scan that brings a PSBT in: for codes of  *)
(* any number and length of parts, what is handed over is one payload and  *)
(* whole.                                                                  *)
(***************************************************************************)
EXTENDS SignPsbt, QrScan, FiniteSetTheorems, TLAPS

----------------------------------------------------------------------------
(* The inductive invariant.                                                *)

Offering == {"offer", "switch", "offered"}
Summing  == {"input"}
Summed   == {"nothing", "outputs"}
Showing  == {"show"}
Agreeing == {"fee", "sign", "signed"}

\* The inputs before the n-th that the wallet in use signs.
Mine(n) == {j \in 1 .. Len(inputs) : j < n /\ Found(inputs[j])}
AllMine == {j \in 1 .. Len(inputs) : Found(inputs[j])}

\* Nothing was looked at yet.
Untouched ==
    /\ signing_flags = {} /\ record = {} /\ sig_types = {}
    /\ agreed.unsigned = FALSE

\* Until the outputs are looked at there is nothing to agree to.
NoOutputs == outputs = <<>> /\ agreed.outputs = {} /\ agreed.fee = FALSE

\* The wallet in use changes by a yes to the offer, which a message never makes.
OfferInv ==
    /\ pc \in Offering \cup Summing \cup Summed => NoOutputs
    /\ pc \in Offering => Untouched
    /\ pc \in {"offer", "switch"} => agreed.switch = 0
    /\ pc = "offer" /\ at # 1 => ~process
    /\ pc = "switch" => ~process /\ at <= NumSlots
    /\ agreed.switch # 0 => active = agreed.switch /\ ~process

\* The flags name the kind of every input signed, and the record is one of the
\* wallet in use.  As long as change detection was not
\* abandoned only multisig inputs were met, and the record fits all of them.
RecordInv ==
    /\ sig_types = {} <=> signing_flags = {}
    /\ \A j \in sig_types : Kind(inputs[j]) \in signing_flags
    /\ SINGLE_RECORD \in signing_flags => \E p \in Registered[active] : record = {p}
    /\ SINGLE_RECORD \notin signing_flags =>
          /\ record = {}
          /\ ABANDONED \notin signing_flags => \A j \in sig_types : inputs[j].path = "long"
    /\ ABANDONED \notin signing_flags =>
          /\ signing_flags \subseteq {MULTISIG, SINGLE_RECORD}
          /\ \A p \in record : \A j \in sig_types : inputs[j].path # "long" => Matches(inputs[j], p)

\* The inputs signed so far are all spent from one policy, by usual paths.
OnePolicy(p) ==
    sig_types # {} /\ \A j \in sig_types : Matches(inputs[j], p) /\ inputs[j].path = "usual"

\* Then its record is the one that was found.
PolicyInv ==
    \A p \in Registered[active] : OnePolicy(p) =>
        signing_flags = {MULTISIG, SINGLE_RECORD} /\ record = {p}

PassInv ==
    /\ sig_types \subseteq AllMine
    /\ pc \in Summing => at <= Len(inputs) + 1 /\ sig_types = Mine(at)
    /\ pc \in Summed \cup Showing \cup Agreeing => sig_types = AllMine
    /\ pc = "nothing" => signing_flags = {}
    /\ pc \in {"outputs"} \cup Showing \cup Agreeing => signing_flags # {} \/ agreed.unsigned

\* What the wallet made of the outputs.
Informed ==
    /\ outputs # <<>> /\ Len(output_info) = Len(outputs)
    /\ \A i \in 1 .. Len(outputs) : output_info[i] = Info(outputs[i])

\* What the user has seen of them.
ShowInv ==
    /\ pc \in Showing \cup Agreeing => Informed
    /\ pc \in Showing => at <= Len(outputs) + 1 /\ agreed.outputs = {i \in ToShow : i < at}
    /\ pc \in Agreeing => agreed.outputs = ToShow
    /\ pc \in {"sign", "signed"} => agreed.fee = TRUE

\* The signatures made so far.
SigsInv ==
    /\ \A s \in sigs : s[1] \in sig_types /\ s[2] = active
    /\ pc \notin {"sign", "signed", "failed"} => sigs = {}
    /\ pc = "sign" => at <= Len(inputs) + 1 /\ \A j \in sig_types : j < at => <<j, active>> \in sigs
    /\ pc = "signed" => \A j \in sig_types : <<j, active>> \in sigs
    /\ sigs # {} => Informed /\ sig_types = AllMine /\ agreed.outputs = ToShow /\ agreed.fee = TRUE

IInv == TypeOK /\ OfferInv /\ RecordInv /\ PolicyInv /\ PassInv /\ ShowInv /\ SigsInv

\* The parts of the type invariant: what the steps of the call move, and what
\* they work on.
Steps == Screens \cup {"offer", "offered", "input", "outputs", "sign", "signed", "cancelled", "failed",
                       "aborted"}
Infos  == [is_ours : BOOLEAN, change : BOOLEAN, message : BOOLEAN]
Agreed == [switch : 0 .. NumSlots, unsigned : BOOLEAN, outputs : SUBSET Nat, fee : BOOLEAN]

ControlType == pc \in Steps /\ at \in Nat \ {0}
PressType   == esc \in BOOLEAN /\ presses \in 0 .. MaxPresses
PsbtType    == process \in BOOLEAN /\ inputs \in Seq(Inputs) /\ outputs \in Seq(Outputs)
WalletType  == active \in Wallets /\ agreed \in Agreed
PassType    ==
    /\ signing_flags \subseteq Flagged /\ record \subseteq Policies
    /\ Cardinality(record) = (IF SINGLE_RECORD \in signing_flags THEN 1 ELSE 0)
    /\ input_amount \in Nat /\ sig_types \subseteq DOMAIN inputs
InfoType    == output_info \in Seq(Infos)
SigsType    == sigs \subseteq (DOMAIN inputs) \X Wallets

Typed == ControlType /\ PressType /\ PsbtType /\ WalletType /\ PassType /\ InfoType /\ SigsType

----------------------------------------------------------------------------
(* The types, and what the operators return.                               *)

\* The bounds are naturals.
LEMMA Bounds ==
    /\ NumSlots \in Nat /\ NumSlots > 0 /\ MaxPresses \in Nat
    /\ Registered \in [Wallets -> SUBSET Policies]
<1>1. /\ NumSlots \in Nat \ {0} /\ MaxPresses \in Nat
      /\ Registered \in [Wallets -> SUBSET Policies]
  BY PsbtAssumption, Zenon
<1> QED
  BY <1>1

\* The empty sequence.
LEMMA EmptyFacts ==
    /\ Len(<<>>) = 0
    /\ \A S : <<>> \in Seq(S)
    /\ \A S : \A s \in Seq(S) : /\ Len(s) \in Nat /\ DOMAIN s = 1 .. Len(s)
                                /\ (s = <<>> <=> Len(s) = 0)
                                /\ \A i \in 1 .. Len(s) : s[i] \in S
<1>1. ASSUME NEW S, NEW s \in Seq(S)
      PROVE  /\ Len(s) \in Nat /\ DOMAIN s = 1 .. Len(s) /\ (s = <<>> <=> Len(s) = 0)
             /\ \A i \in 1 .. Len(s) : s[i] \in S
  OBVIOUS
<1> QED
  BY <1>1

\* A bounded sequence is one.
LEMMA Bounded ==
    ASSUME NEW S, NEW n \in Nat, NEW s \in BoundedSeq(S, n)
    PROVE  s \in Seq(S)
<1>1. PICK m \in 0 .. n : s \in [1 .. m -> S]
  BY DEF BoundedSeq, SeqOf
<1> QED
  BY <1>1

\* The type invariant is its parts.
LEMMA TypeParts == TypeOK <=> Typed
BY DEF TypeOK, Typed, ControlType, PressType, PsbtType, WalletType, PassType, InfoType, SigsType,
   Steps, Infos, Agreed

\* The same of the state after a step.
LEMMA TypePartsNext == TypeOK' <=> Typed'
BY TypeParts, PTL

\* What an invariant state has.
LEMMA Holds ==
    ASSUME IInv
    PROVE  /\ Typed /\ OfferInv /\ RecordInv /\ PolicyInv /\ PassInv /\ ShowInv /\ SigsInv
           /\ Len(inputs) \in Nat /\ DOMAIN inputs = 1 .. Len(inputs)
           /\ \A j \in 1 .. Len(inputs) : inputs[j] \in Inputs
           /\ Len(outputs) \in Nat /\ DOMAIN outputs = 1 .. Len(outputs)
           /\ \A i \in 1 .. Len(outputs) : outputs[i] \in Outputs
           /\ (outputs = <<>> <=> Len(outputs) = 0)
<1>1. Typed /\ inputs \in Seq(Inputs) /\ outputs \in Seq(Outputs)
  BY TypeParts DEF IInv, Typed, PsbtType
<1> QED
  BY <1>1, EmptyFacts DEF IInv

\* A policy's keys and script are those of no other.
LEMMA OneMatch ==
    ASSUME NEW item, NEW p, NEW q, Matches(item, p), Matches(item, q)
    PROVE  p = q
BY DEF Matches

\* The kind of an input is none of the flags of the record.
LEMMA KindFacts ==
    ASSUME NEW item
    PROVE  /\ Kind(item) \in {SINGLESIG, MULTISIG, GREEN}
           /\ item.map = "multi" => Kind(item) = MULTISIG
           /\ Kind(item) \in Flagged
BY DEF Kind, SINGLESIG, MULTISIG, GREEN, Flagged

\* What Flags makes of the flags: it drops none; it adds the record's flag only
\* at a multisig input that has a suitable record, with nothing abandoned; and
\* what is not abandoned has only multisig inputs, which the record fits.
LEMMA FlagsFacts ==
    ASSUME NEW item, NEW flags \in SUBSET Flagged, NEW found
    PROVE  LET all == Flags(item, flags \cup {Kind(item)}, found)
           IN  /\ flags \subseteq all /\ all \subseteq Flagged /\ Kind(item) \in all
               /\ SINGLE_RECORD \in all /\ SINGLE_RECORD \notin flags =>
                     Suitable(item) # {} /\ ABANDONED \notin all /\ item.path # "long"
               /\ ABANDONED \notin all =>
                     /\ ABANDONED \notin flags
                     /\ all \subseteq {MULTISIG, SINGLE_RECORD}
                     /\ SINGLE_RECORD \in flags /\ item.path # "long" =>
                           \A p \in found : Matches(item, p)
                     /\ SINGLE_RECORD \notin all => item.path = "long"
<1> DEFINE f == flags \cup {Kind(item)}
<1>1. Kind(item) \in {SINGLESIG, MULTISIG, GREEN} /\ f \subseteq Flagged
  BY KindFacts
<1>2. SINGLE_RECORD \in f <=> SINGLE_RECORD \in flags
  BY <1>1 DEF SINGLESIG, MULTISIG, GREEN, SINGLE_RECORD
<1>3. ABANDONED \in f <=> ABANDONED \in flags
  BY <1>1 DEF SINGLESIG, MULTISIG, GREEN, ABANDONED
<1>4. SINGLE_RECORD # ABANDONED /\ {SINGLE_RECORD, ABANDONED} \subseteq Flagged
  BY DEF SINGLE_RECORD, ABANDONED, Flagged
<1>5. f \cap {SINGLESIG, GREEN} = {} /\ ABANDONED \notin f => f \subseteq {MULTISIG, SINGLE_RECORD}
  BY <1>1 DEF Flagged
<1>6. flags \subseteq f /\ Kind(item) \in f
  OBVIOUS
<1> HIDE DEF f
<1>7. CASE ABANDONED \in f
  BY <1>1, <1>2, <1>3, <1>6, <1>7 DEF Flags, f
<1>8. CASE ABANDONED \notin f /\ f \cap {SINGLESIG, GREEN} # {}
  <2>1. Flags(item, f, found) = f \cup {ABANDONED}
    BY <1>8 DEF Flags
  <2> QED
    BY <1>1, <1>2, <1>4, <1>6, <2>1 DEF f
<1>9. CASE ABANDONED \notin f /\ f \cap {SINGLESIG, GREEN} = {} /\ item.path = "long"
  <2>1. Flags(item, f, found) = f
    BY <1>9 DEF Flags
  <2> QED
    BY <1>1, <1>2, <1>3, <1>5, <1>6, <1>9, <2>1 DEF f
<1>10. CASE /\ ABANDONED \notin f /\ f \cap {SINGLESIG, GREEN} = {} /\ item.path # "long"
            /\ SINGLE_RECORD \in f
  <2>1. CASE \A p \in found : Matches(item, p)
    <3>1. Flags(item, f, found) = f
      BY <1>10, <2>1 DEF Flags
    <3> QED
      BY <1>1, <1>2, <1>3, <1>5, <1>6, <1>10, <2>1, <3>1 DEF f
  <2>2. CASE ~(\A p \in found : Matches(item, p))
    <3>1. Flags(item, f, found) = f \cup {ABANDONED}
      BY <1>10, <2>2 DEF Flags
    <3> QED
      BY <1>1, <1>2, <1>4, <1>6, <1>10, <3>1 DEF f
  <2> QED
    BY <2>1, <2>2
<1>11. CASE /\ ABANDONED \notin f /\ f \cap {SINGLESIG, GREEN} = {} /\ item.path # "long"
            /\ SINGLE_RECORD \notin f
  <2>1. CASE Suitable(item) # {}
    <3>1. Flags(item, f, found) = f \cup {SINGLE_RECORD}
      BY <1>11, <2>1 DEF Flags
    <3> QED
      BY <1>1, <1>2, <1>3, <1>4, <1>5, <1>6, <1>11, <2>1, <3>1 DEF f
  <2>2. CASE Suitable(item) = {}
    <3>1. Flags(item, f, found) = f \cup {ABANDONED}
      BY <1>11, <2>2 DEF Flags
    <3> QED
      BY <1>1, <1>2, <1>4, <1>6, <1>11, <3>1 DEF f
  <2> QED
    BY <2>1, <2>2
<1> QED
  BY <1>7, <1>8, <1>9, <1>10, <1>11

\* A first input of a registered policy sets the record's flag, and one of the
\* record's policy changes no flag.
LEMMA FlagsUsual ==
    ASSUME NEW item, NEW p, Matches(item, p), item.path = "usual"
    PROVE  /\ p \in Registered[active] =>
                 /\ p \in Suitable(item)
                 /\ Flags(item, {} \cup {Kind(item)}, {}) = {MULTISIG, SINGLE_RECORD}
           /\ Flags(item, {MULTISIG, SINGLE_RECORD} \cup {Kind(item)}, {p}) =
                 {MULTISIG, SINGLE_RECORD}
<1>1. Kind(item) = MULTISIG
  BY KindFacts DEF Matches
<1>2. p \in Registered[active] => p \in Suitable(item)
  BY DEF Suitable
<1>3. /\ {} \cup {Kind(item)} = {MULTISIG}
      /\ {MULTISIG, SINGLE_RECORD} \cup {Kind(item)} = {MULTISIG, SINGLE_RECORD}
  BY <1>1
<1>4. /\ ABANDONED \notin {MULTISIG, SINGLE_RECORD}
      /\ {MULTISIG, SINGLE_RECORD} \cap {SINGLESIG, GREEN} = {}
      /\ ABANDONED \notin {MULTISIG} /\ SINGLE_RECORD \notin {MULTISIG}
      /\ {MULTISIG} \cap {SINGLESIG, GREEN} = {}
  BY DEF SINGLESIG, MULTISIG, GREEN, SINGLE_RECORD, ABANDONED
<1>5. Flags(item, {MULTISIG, SINGLE_RECORD}, {p}) = {MULTISIG, SINGLE_RECORD}
  BY <1>4 DEF Flags
<1>6. Suitable(item) # {} => Flags(item, {MULTISIG}, {}) = {MULTISIG, SINGLE_RECORD}
  BY <1>4 DEF Flags
<1> QED
  BY <1>2, <1>3, <1>5, <1>6

----------------------------------------------------------------------------
(* Steps that move the call on.                                            *)

\* A press sets the flag of KEY3 or takes it back.
LEMMA PressNext ==
    ASSUME Typed, \/ Yes \/ No \/ UNCHANGED <<esc, presses>>
    PROVE  PressType'
<1>1. esc' = esc \/ esc' = TRUE \/ esc' = FALSE
  BY Zenon DEF Yes, No, Key3
<1>2. esc' \in BOOLEAN
  BY <1>1, Zenon DEF Typed, PressType
<1>3. presses' \in 0 .. MaxPresses
  BY Bounds DEF Typed, PressType, Yes, No, Key3
<1> QED
  BY <1>2, <1>3 DEF PressType

\* What the steps of the call work on.
work == <<psbt, active, pass, output_info, sigs, agreed>>

\* A step that leaves it alone keeps what is known of it.
LEMMA SameWork ==
    ASSUME IInv, UNCHANGED work
    PROVE  /\ PsbtType' /\ WalletType' /\ PassType' /\ InfoType' /\ SigsType'
           /\ RecordInv' /\ PolicyInv'
           /\ Untouched => Untouched'
           /\ NoOutputs => NoOutputs'
           /\ Informed => Informed'
           /\ AllMine' = AllMine /\ ToShow' = ToShow
           /\ UNCHANGED <<process, inputs, outputs, active, signing_flags, record, input_amount,
                          sig_types, output_info, sigs, agreed>>
<1>1. UNCHANGED <<process, inputs, outputs, active, signing_flags, record, input_amount, sig_types,
                  output_info, sigs, agreed>>
  BY DEF work, psbt, pass
<1>2. PsbtType' /\ WalletType' /\ PassType' /\ InfoType' /\ SigsType'
  BY <1>1, Holds DEF Typed, PsbtType, WalletType, PassType, InfoType, SigsType
<1>3. RecordInv' /\ PolicyInv'
  BY <1>1, Holds DEF RecordInv, PolicyInv, OnePolicy
<1>4. (Untouched => Untouched') /\ (NoOutputs => NoOutputs')
  BY <1>1 DEF Untouched, NoOutputs
<1>5. \A o : Info(o)' = Info(o)
  BY <1>1 DEF Info, MatchesGreen, Found
<1>6. Informed => Informed'
  BY <1>1, <1>5 DEF Informed
<1>7. AllMine' = AllMine
  BY <1>1 DEF AllMine, Found
<1>8. ToShow' = ToShow
  BY <1>1 DEF ToShow, Displayed
<1> QED
  BY <1>1, <1>2, <1>3, <1>4, <1>6, <1>7, <1>8

\* The search for a wallet to offer ends, goes on, or stops at one to offer.
LEMMA OfferInvs == ASSUME IInv, NoOffer \/ OfferNext \/ SwitchNo \/ Offered PROVE IInv'
<1>1. /\ UNCHANGED work /\ pc \in Offering
      /\ Yes \/ No \/ UNCHANGED <<esc, presses>>
  BY DEF NoOffer, OfferNext, SwitchNo, Offered, work, Offering
<1>2. /\ Typed /\ Untouched /\ NoOutputs /\ sigs = {} /\ at \in Nat \ {0}
  BY <1>1, Holds DEF OfferInv, SigsInv, Offering, Typed, ControlType
<1>3. /\ pc' \in {"offer", "switch", "offered", "input", "cancelled"} /\ at' \in Nat \ {0}
      /\ pc' = "offer" /\ at' # 1 => ~process
      /\ pc' = "switch" => ~process /\ at' <= NumSlots
      /\ pc' = "input" => at' = 1
      /\ pc' \in {"offer", "switch"} => pc \in {"offer", "switch"}
  BY <1>2, Holds, Bounds DEF NoOffer, OfferNext, SwitchNo, Offered, Goto, Declined, OfferInv
<1>4. Typed'
  BY <1>1, <1>2, <1>3, SameWork, PressNext DEF Typed, ControlType, Steps, Screens
<1>5. OfferInv'
  BY <1>2, <1>3, Holds, SameWork, <1>1
     DEF OfferInv, Offering, Summing, Summed
<1>6. PassInv'
  <2>1. sig_types' = {} /\ signing_flags' = {}
    BY <1>1, <1>2, SameWork DEF Untouched
  <2>2. Mine(1)' = {}
    BY DEF Mine
  <2>3. Len(inputs') \in Nat
    BY <1>1, Holds, SameWork
  <2>4. pc' = "input" => at' <= Len(inputs') + 1 /\ sig_types' = Mine(at)'
    BY <1>3, <2>1, <2>2, <2>3 DEF Mine
  <2> QED
    BY <1>3, <2>1, <2>4 DEF PassInv, Summing, Summed, Showing, Agreeing
<1>7. ShowInv'
  BY <1>3 DEF ShowInv, Showing, Agreeing
<1>8. SigsInv'
  BY <1>1, <1>2, <1>3, SameWork DEF SigsInv
<1> QED
  BY <1>1, <1>4, <1>5, <1>6, <1>7, <1>8, SameWork, TypePartsNext DEF IInv

\* The user takes the offer: the wallet in use is another, before anything was
\* looked at with the one before.
LEMMA SwitchYesInv == ASSUME IInv, SwitchYes PROVE IInv'
<1>1. /\ pc = "switch" /\ active' = at /\ agreed' = [agreed EXCEPT !.switch = at]
      /\ pc' = "offered" /\ at' = 1 /\ Yes
      /\ UNCHANGED <<process, inputs, outputs, signing_flags, record, input_amount, sig_types,
                     output_info, sigs>>
  BY DEF SwitchYes, Goto, psbt, pass
<1>2. /\ Typed /\ Untouched /\ NoOutputs /\ sigs = {} /\ ~process /\ at \in Wallets
  BY <1>1, Holds, Bounds DEF OfferInv, SigsInv, Offering, Typed, ControlType, Wallets
<1>3. agreed \in Agreed /\ at \in 0 .. NumSlots
  BY <1>2, Bounds DEF Typed, WalletType, Wallets
<1>4. /\ agreed' \in Agreed /\ agreed'.switch = at /\ agreed'.unsigned = agreed.unsigned
      /\ agreed'.outputs = agreed.outputs /\ agreed'.fee = agreed.fee
  BY <1>1, <1>3 DEF Agreed
<1>5. Typed'
  <2>1. PressType' /\ ControlType' /\ WalletType'
    BY <1>1, <1>2, <1>4, PressNext DEF ControlType, WalletType, Steps, Screens
  <2> QED
    BY <1>1, <1>2, <2>1 DEF Typed, PsbtType, PassType, InfoType, SigsType
<1>6. Untouched' /\ NoOutputs' /\ sigs' = {} /\ sig_types' = {} /\ record' = {} /\ signing_flags' = {}
  BY <1>1, <1>2, <1>4 DEF Untouched, NoOutputs
<1>7. OfferInv'
  BY <1>1, <1>2, <1>4, <1>6 DEF OfferInv, Offering, Summing, Summed
<1>8. RecordInv' /\ PolicyInv'
  BY <1>6 DEF RecordInv, PolicyInv, OnePolicy
<1>9. PassInv' /\ ShowInv' /\ SigsInv'
  BY <1>1, <1>6 DEF PassInv, ShowInv, SigsInv, Summing, Summed, Showing, Agreeing
<1> QED
  BY <1>5, <1>7, <1>8, <1>9, TypePartsNext DEF IInv

\* The call ends with what was signed by then, which is nothing before the fee.
LEMMA EndsInv ==
    ASSUME IInv, UNCHANGED work, pc' \in {"cancelled", "failed", "aborted"}, at' = 1,
           pc' \in {"cancelled", "aborted"} => pc \notin {"sign", "signed", "failed"},
           Yes \/ No \/ UNCHANGED <<esc, presses>>
    PROVE  IInv'
<1>1. Typed'
  BY Holds, SameWork, PressNext DEF Typed, ControlType, Steps, Screens
<1>2. OfferInv'
  BY Holds, SameWork DEF OfferInv, Offering, Summing, Summed
<1>3. PassInv' /\ ShowInv'
  BY Holds, SameWork DEF PassInv, ShowInv, Summing, Summed, Showing, Agreeing
<1>4. SigsInv'
  BY Holds, SameWork DEF SigsInv
<1> QED
  BY <1>1, <1>2, <1>3, <1>4, SameWork, TypePartsNext DEF IInv

\* An answer of no, or a failure.
LEMMA EndStepsInv ==
    ASSUME IInv, InputFails \/ NothingNo \/ OutputNo \/ FeeNo \/ SignFails PROVE IInv'
<1>1. /\ UNCHANGED work /\ pc' \in {"cancelled", "failed"} /\ at' = 1
      /\ pc' = "cancelled" => pc \notin {"sign", "signed", "failed"}
      /\ Yes \/ No \/ UNCHANGED <<esc, presses>>
  BY DEF InputFails, NothingNo, OutputNo, FeeNo, SignFails, Goto, Declined, work
<1> QED
  BY <1>1, EndsInv

\* A press while no screen waits, or none at all.
LEMMA StrayPressInv == ASSUME IInv, StrayPress \/ UNCHANGED vars PROVE IInv'
<1>1. UNCHANGED work /\ UNCHANGED <<pc, at>>
  BY DEF StrayPress, vars, work
<1>2. PressType'
  <2>1. esc' = esc \/ esc' = FALSE
    BY Zenon DEF StrayPress, vars
  <2>2. esc' \in BOOLEAN
    BY <2>1, Holds, Zenon DEF Typed, PressType
  <2>3. presses' \in 0 .. MaxPresses
    BY Holds, Bounds DEF Typed, PressType, StrayPress, vars
  <2> QED
    BY <2>2, <2>3 DEF PressType
<1>3. Typed'
  BY <1>1, <1>2, Holds, SameWork DEF Typed, ControlType
<1>4. OfferInv'
  BY <1>1, Holds, SameWork DEF OfferInv
<1>5. PassInv'
  <2>1. Mine(at)' = Mine(at)
    BY <1>1, SameWork DEF Mine, Found
  <2> QED
    BY <1>1, <2>1, Holds, SameWork DEF PassInv
<1>6. ShowInv'
  BY <1>1, Holds, SameWork DEF ShowInv
<1>7. SigsInv'
  BY <1>1, Holds, SameWork DEF SigsInv
<1> QED
  BY <1>1, <1>3, <1>4, <1>5, <1>6, <1>7, SameWork, TypePartsNext DEF IInv

----------------------------------------------------------------------------
(* The pass over the inputs.                                               *)

\* The inputs before the next one.
LEMMA MineNext ==
    ASSUME IInv, pc = "input", at <= Len(inputs)
    PROVE  /\ inputs[at] \in Inputs /\ at \in 1 .. Len(inputs)
           /\ Found(inputs[at]) => Mine(at + 1) = Mine(at) \cup {at}
           /\ ~Found(inputs[at]) => Mine(at + 1) = Mine(at)
<1>1. at \in Nat \ {0} /\ Len(inputs) \in Nat
  BY Holds DEF Typed, ControlType
<1>2. at \in 1 .. Len(inputs)
  BY <1>1
<1>3. \A j \in 1 .. Len(inputs) : j < at + 1 <=> j < at \/ j = at
  BY <1>1
<1>4. Found(inputs[at]) => Mine(at + 1) = Mine(at) \cup {at}
  BY <1>1, <1>2, <1>3 DEF Mine
<1>5. ~Found(inputs[at]) => Mine(at + 1) = Mine(at)
  BY <1>2, <1>3 DEF Mine
<1> QED
  BY <1>2, <1>4, <1>5, Holds

\* The sum of the amounts moves on, whether the input is signed or not.
LEMMA SumInputFrame ==
    ASSUME IInv, SumInput
    PROVE  /\ pc = "input" /\ pc' = "input" /\ at \in 1 .. Len(inputs) /\ at' = at + 1
           /\ UNCHANGED <<process, inputs, outputs, active, output_info, sigs, esc, presses, agreed>>
           /\ input_amount' \in Nat /\ ControlType' /\ PressType' /\ PsbtType' /\ WalletType'
           /\ InfoType' /\ SigsType' /\ OfferInv' /\ ShowInv'
           /\ sigs = {} /\ sig_types = Mine(at)
           /\ AllMine' = AllMine /\ at' <= Len(inputs') + 1 /\ Mine(at)' = Mine(at + 1)
<1>1. /\ pc = "input" /\ pc' = "input" /\ at <= Len(inputs) /\ at' = at + 1
      /\ UNCHANGED <<process, inputs, outputs, active, output_info, sigs, esc, presses, agreed>>
      /\ input_amount' = input_amount + inputs[at].amount
  BY DEF SumInput, psbt
<1>2. at \in 1 .. Len(inputs) /\ inputs[at] \in Inputs /\ Typed /\ at \in Nat \ {0}
  BY <1>1, Holds, MineNext DEF Typed, ControlType
<1>3. inputs[at].amount \in Nat
  BY <1>2, PsbtAssumption
<1>4. input_amount' \in Nat
  BY <1>1, <1>2, <1>3 DEF Typed, PassType
<1>5. ControlType' /\ PressType' /\ PsbtType' /\ WalletType' /\ InfoType' /\ SigsType'
  BY <1>1, <1>2 DEF Typed, ControlType, PressType, PsbtType, WalletType, InfoType, SigsType
<1>6. OfferInv'
  BY <1>1, Holds DEF OfferInv, Offering, Summing, Summed, NoOutputs
<1>7. ShowInv'
  BY <1>1 DEF ShowInv, Showing, Agreeing
<1>8. sigs = {} /\ sig_types = Mine(at)
  BY <1>1, Holds DEF SigsInv, PassInv, Summing
<1>9. AllMine' = AllMine /\ Mine(at)' = Mine(at + 1)
  BY <1>1 DEF AllMine, Mine, Found
<1>10. at' <= Len(inputs') + 1
  BY <1>1, <1>2, Holds
<1> QED
  BY <1>1, <1>2, <1>4, <1>5, <1>6, <1>7, <1>8, <1>9, <1>10

\* An input that is not the wallet's.
LEMMA SumOtherInv == ASSUME IInv, SumInput, ~Found(inputs[at]) PROVE IInv'
<1>1. UNCHANGED <<sig_types, signing_flags, record>>
  BY DEF SumInput
<1>2. PassType' /\ RecordInv' /\ PolicyInv'
  <2>1. UNCHANGED <<inputs, active>> /\ input_amount' \in Nat
    BY SumInputFrame
  <2> QED
    BY <1>1, <2>1, Holds DEF Typed, PassType, RecordInv, PolicyInv, OnePolicy
<1>3. sig_types' = Mine(at)'
  BY <1>1, SumInputFrame, MineNext, Holds
<1>4. PassInv'
  BY <1>1, <1>3, SumInputFrame, Holds DEF PassInv, Summing, Summed, Showing, Agreeing
<1>5. SigsInv'
  BY SumInputFrame DEF SigsInv
<1>6. Typed'
  BY <1>2, SumInputFrame DEF Typed
<1> QED
  BY <1>2, <1>4, <1>5, <1>6, SumInputFrame, TypePartsNext DEF IInv

\* An input that is: its kind is noted, and the record is looked for, compared
\* or given up.
LEMMA SumMineInv == ASSUME IInv, SumInput, Found(inputs[at]) PROVE IInv'
<1> DEFINE input == inputs[at]
           flags == Flags(input, signing_flags \cup {Kind(input)}, record)
<1>1. /\ pc = "input" /\ pc' = "input" /\ at \in 1 .. Len(inputs) /\ at' = at + 1
      /\ UNCHANGED <<inputs, active, sigs>> /\ input_amount' \in Nat
      /\ sigs = {} /\ sig_types = Mine(at) /\ Mine(at)' = Mine(at + 1)
  BY SumInputFrame
<1>2. Typed /\ RecordInv /\ PolicyInv /\ PassInv /\ DOMAIN inputs = 1 .. Len(inputs)
  BY Holds
<1>3. /\ sig_types' = sig_types \cup {at} /\ signing_flags' = flags
      /\ SINGLE_RECORD \in flags \ signing_flags => \E p \in Suitable(input) : record' = {p}
      /\ SINGLE_RECORD \notin flags \ signing_flags => record' = record
  BY DEF SumInput
<1>4. /\ signing_flags \subseteq flags /\ flags \subseteq Flagged /\ Kind(input) \in flags
      /\ SINGLE_RECORD \in flags /\ SINGLE_RECORD \notin signing_flags =>
            Suitable(input) # {} /\ ABANDONED \notin flags /\ input.path # "long"
      /\ ABANDONED \notin flags =>
            /\ ABANDONED \notin signing_flags
            /\ flags \subseteq {MULTISIG, SINGLE_RECORD}
            /\ SINGLE_RECORD \in signing_flags /\ input.path # "long" =>
                  \A p \in record : Matches(input, p)
            /\ SINGLE_RECORD \notin flags => input.path = "long"
  <2>1. signing_flags \in SUBSET Flagged
    BY <1>2 DEF Typed, PassType
  <2> QED
    BY <2>1, FlagsFacts
<1> HIDE DEF flags
<1>5. /\ SINGLE_RECORD \in flags => \E p \in Registered[active] : record' = {p}
      /\ SINGLE_RECORD \notin flags => record' = {}
  <2>1. CASE SINGLE_RECORD \in flags \ signing_flags
    BY <1>3, <2>1 DEF Suitable
  <2>2. CASE SINGLE_RECORD \notin flags \ signing_flags
    BY <1>2, <1>3, <1>4, <2>2 DEF RecordInv
  <2> QED
    BY <2>1, <2>2
<1>6. RecordInv'
  <2>1. sig_types' # {} /\ signing_flags' # {}
    BY <1>3, <1>4
  <2>2. ASSUME SINGLE_RECORD \notin flags, ABANDONED \notin flags, NEW j \in sig_types'
        PROVE  inputs[j].path = "long"
    <3>1. SINGLE_RECORD \notin signing_flags /\ ABANDONED \notin signing_flags
      BY <1>4, <2>2
    <3> QED
      BY <1>2, <1>3, <1>4, <2>2, <3>1 DEF RecordInv
  <2>3. ASSUME ABANDONED \notin flags, NEW p \in record', NEW j \in sig_types', inputs[j].path # "long"
        PROVE  Matches(inputs[j], p)
    <3>1. CASE SINGLE_RECORD \in flags \ signing_flags
      <4>1. j = at
        <5>1. SINGLE_RECORD \notin signing_flags /\ ABANDONED \notin signing_flags
          BY <1>4, <2>3, <3>1
        <5>2. j \notin sig_types
          BY <1>2, <2>3, <5>1 DEF RecordInv
        <5> QED
          BY <1>3, <2>3, <5>2
      <4>2. p \in Suitable(input)
        BY <1>3, <2>3, <3>1
      <4> QED
        BY <4>1, <4>2 DEF Suitable
    <3>2. CASE SINGLE_RECORD \notin flags \ signing_flags
      <4>1. record' = record /\ ABANDONED \notin signing_flags
        BY <1>3, <1>4, <2>3, <3>2
      <4>2. CASE j \in sig_types
        BY <1>2, <2>3, <4>1, <4>2 DEF RecordInv
      <4>3. CASE j = at
        <5>1. SINGLE_RECORD \in signing_flags
          BY <1>2, <2>3, <4>1 DEF RecordInv
        <5> QED
          BY <1>4, <2>3, <4>1, <4>3, <5>1
      <4> QED
        BY <1>3, <2>3, <4>2, <4>3
    <3> QED
      BY <3>1, <3>2
  <2>4. \A j, p : Matches(inputs[j], p)' <=> Matches(inputs[j], p)
    BY <1>1 DEF Matches
  <2>5. (\A j \in sig_types : Kind(inputs[j]) \in signing_flags)'
    BY <1>1, <1>2, <1>3, <1>4 DEF RecordInv, Kind
  <2> QED
    BY <1>1, <1>3, <1>4, <1>5, <2>1, <2>2, <2>3, <2>4, <2>5 DEF RecordInv
<1>7. PolicyInv'
  <2> SUFFICES ASSUME NEW p \in Registered[active],
                      \A j \in sig_types' : Matches(inputs[j], p) /\ inputs[j].path = "usual"
               PROVE  signing_flags' = {MULTISIG, SINGLE_RECORD} /\ record' = {p}
    BY <1>1 DEF PolicyInv, OnePolicy, Matches
  <2>1. Matches(input, p) /\ input.path = "usual"
    BY <1>3
  <2>2. CASE sig_types = {}
    <3>1. signing_flags = {} /\ record = {}
      BY <1>2, <2>2 DEF RecordInv
    <3>2. flags = {MULTISIG, SINGLE_RECORD}
      BY <2>1, <3>1, FlagsUsual DEF flags
    <3>3. PICK q \in Suitable(input) : record' = {q}
      BY <1>3, <3>1, <3>2
    <3>4. q = p
      BY <2>1, <3>3, OneMatch DEF Suitable
    <3> QED
      BY <1>3, <3>2, <3>3, <3>4
  <2>3. CASE sig_types # {}
    <3>1. signing_flags = {MULTISIG, SINGLE_RECORD} /\ record = {p}
      BY <1>2, <1>3, <2>3 DEF PolicyInv, OnePolicy
    <3>2. flags = {MULTISIG, SINGLE_RECORD}
      BY <2>1, <3>1, FlagsUsual DEF flags
    <3> QED
      BY <1>3, <3>1, <3>2
  <2> QED
    BY <2>2, <2>3
<1>8. PassType'
  <2>1. /\ record' \subseteq Policies
        /\ Cardinality(record') = IF SINGLE_RECORD \in flags THEN 1 ELSE 0
    <3>1. CASE SINGLE_RECORD \in flags
      <4>1. PICK p \in Registered[active] : record' = {p}
        BY <1>5, <3>1
      <4>2. p \in Policies
        BY <1>2, <4>1, Bounds DEF Typed, WalletType
      <4> QED
        BY <3>1, <4>1, <4>2, FS_Singleton
    <3>2. CASE SINGLE_RECORD \notin flags
      BY <1>5, <3>2, FS_EmptySet
    <3> QED
      BY <3>1, <3>2
  <2>2. sig_types' \subseteq DOMAIN inputs'
    BY <1>1, <1>2, <1>3 DEF Typed, PassType
  <2> QED
    BY <1>1, <1>3, <1>4, <2>1, <2>2 DEF PassType
<1>9. PassInv'
  <2>1. sig_types' = Mine(at)'
    BY <1>1, <1>3, MineNext
  <2>2. sig_types' \subseteq AllMine'
    BY <1>2, <1>3, <1>1, SumInputFrame DEF PassInv, AllMine
  <2>3. at' <= Len(inputs') + 1
    BY SumInputFrame
  <2> QED
    BY <1>1, <2>1, <2>2, <2>3 DEF PassInv, Summing, Summed, Showing, Agreeing
<1>10. SigsInv'
  BY SumInputFrame DEF SigsInv
<1>11. Typed'
  BY <1>8, SumInputFrame DEF Typed
<1> QED
  BY <1>6, <1>7, <1>9, <1>10, <1>11, SumInputFrame, TypePartsNext DEF IInv

\* All inputs have been looked at.
LEMMA InputsDoneInv == ASSUME IInv, InputsDone PROVE IInv'
<1>1. /\ UNCHANGED work /\ UNCHANGED <<esc, presses>> /\ pc = "input" /\ at > Len(inputs) /\ at' = 1
      /\ pc' = IF signing_flags = {} THEN "nothing" ELSE "outputs"
  BY DEF InputsDone, Goto, work
<1>2. Typed /\ NoOutputs /\ sigs = {} /\ sig_types = Mine(at)
  BY <1>1, Holds DEF OfferInv, SigsInv, PassInv, Summing
<1>3. Mine(at) = AllMine
  BY <1>1, <1>2, Holds DEF Mine, AllMine, Typed, ControlType
<1>4. Typed'
  BY <1>1, <1>2, SameWork, PressNext DEF Typed, ControlType, Steps, Screens
<1>5. OfferInv'
  BY <1>1, <1>2, Holds, SameWork DEF OfferInv, Offering, Summing, Summed
<1>6. PassInv'
  BY <1>1, <1>2, <1>3, SameWork DEF PassInv, Summing, Summed, Showing, Agreeing
<1>7. ShowInv' /\ SigsInv'
  BY <1>1, <1>2, SameWork DEF ShowInv, SigsInv, Showing, Agreeing
<1> QED
  BY <1>1, <1>4, <1>5, <1>6, <1>7, SameWork, TypePartsNext DEF IInv

\* The user is told that there is nothing to sign, and goes on.
LEMMA NothingYesInv == ASSUME IInv, NothingYes PROVE IInv'
<1>1. /\ pc = "nothing" /\ Yes /\ agreed' = [agreed EXCEPT !.unsigned = TRUE] /\ pc' = "outputs"
      /\ at' = 1
      /\ UNCHANGED <<process, inputs, outputs, active, signing_flags, record, input_amount,
                     sig_types, output_info, sigs>>
  BY DEF NothingYes, Goto, psbt, pass
<1>2. Typed /\ NoOutputs /\ sigs = {} /\ RecordInv /\ PolicyInv /\ PassInv /\ OfferInv
  BY <1>1, Holds DEF OfferInv, SigsInv, Summed
<1>3. /\ agreed' \in Agreed /\ agreed'.switch = agreed.switch /\ agreed'.unsigned = TRUE
      /\ agreed'.outputs = agreed.outputs /\ agreed'.fee = agreed.fee
  BY <1>1, <1>2 DEF Typed, WalletType, Agreed
<1>4. Typed'
  <2>1. PressType' /\ ControlType' /\ WalletType'
    BY <1>1, <1>2, <1>3, PressNext DEF Typed, ControlType, WalletType, Steps, Screens
  <2> QED
    BY <1>1, <1>2, <2>1 DEF Typed, PsbtType, PassType, InfoType, SigsType
<1>5. OfferInv'
  BY <1>1, <1>2, <1>3 DEF OfferInv, Offering, Summing, Summed, NoOutputs
<1>6. RecordInv' /\ PolicyInv'
  BY <1>1, <1>2 DEF RecordInv, PolicyInv, OnePolicy
<1>7. PassInv'
  <2>1. AllMine' = AllMine
    BY <1>1 DEF AllMine, Found
  <2> QED
    BY <1>1, <1>2, <1>3, <2>1 DEF PassInv, Summing, Summed, Showing, Agreeing
<1>8. ShowInv' /\ SigsInv'
  BY <1>1, <1>2 DEF ShowInv, SigsInv, Showing, Agreeing
<1> QED
  BY <1>4, <1>5, <1>6, <1>7, <1>8, TypePartsNext DEF IInv

----------------------------------------------------------------------------
(* The outputs, the fee and the signatures.                                *)

\* What the wallet makes of an output.
LEMMA InfoTyped == ASSUME NEW o PROVE Info(o) \in Infos
<1>1. Shown \in Infos
  BY DEF Shown, Infos
<1>2. Ours(o) \in Infos
  BY DEF Ours, Infos
<1>3. [is_ours |-> TRUE, change |-> TRUE, message |-> FALSE] \in Infos
  BY DEF Infos
<1> QED
  BY <1>1, <1>2, <1>3 DEF Info

\* Something is always displayed: when all would be hidden, none is.
LEMMA ToShowFacts ==
    ASSUME IInv
    PROVE  /\ ToShow \subseteq 1 .. Len(outputs)
           /\ outputs # <<>> => ToShow # {}
           /\ \A i \in 1 .. Len(outputs) : Displayed(i) => i \in ToShow
<1>1. /\ Len(outputs) \in Nat /\ DOMAIN outputs = 1 .. Len(outputs)
      /\ (outputs = <<>> <=> Len(outputs) = 0)
  BY Holds
<1>2. outputs # <<>> => 1 \in 1 .. Len(outputs)
  BY <1>1
<1> QED
  BY <1>1, <1>2 DEF ToShow

\* The outputs are looked at.
LEMMA UpdateOutputsInv == ASSUME IInv, UpdateOutputs PROVE IInv'
<1>1. /\ pc = "outputs" /\ outputs' \in BoundedSeq(Outputs, MaxOutputs) \ {<<>>}
      /\ output_info' = [i \in DOMAIN outputs' |-> Info(outputs'[i])]
      /\ pc' \in {"failed", "show"} /\ at' = 1 /\ UNCHANGED <<esc, presses>>
      /\ UNCHANGED <<process, inputs, active, signing_flags, record, input_amount, sig_types,
                     sigs, agreed>>
  BY DEF UpdateOutputs, Goto, pass
<1>2. /\ Typed /\ NoOutputs /\ sigs = {} /\ RecordInv /\ PolicyInv /\ PassInv /\ OfferInv
      /\ sig_types = AllMine
  BY <1>1, Holds DEF OfferInv, SigsInv, PassInv, Summed
<1>3. outputs' \in Seq(Outputs) /\ outputs' # <<>>
  BY <1>1, Bounded, PsbtAssumption
<1>4. Len(outputs') \in Nat /\ DOMAIN outputs' = 1 .. Len(outputs') /\ Len(outputs') # 0
  BY <1>3, EmptyFacts
<1>5. output_info' \in Seq(Infos) /\ Len(output_info') = Len(outputs')
  <2>1. output_info' \in [1 .. Len(outputs') -> Infos]
    BY <1>1, <1>4, InfoTyped
  <2> QED
    BY <1>4, <2>1
<1>6. \A o : Info(o)' = Info(o)
  BY <1>1 DEF Info, MatchesGreen, Found
<1>7. Informed'
  BY <1>1, <1>3, <1>4, <1>5, <1>6 DEF Informed
<1>8. Typed'
  <2>1. PressType' /\ ControlType' /\ PsbtType' /\ InfoType'
    BY <1>1, <1>2, <1>3, <1>5, PressNext
       DEF Typed, ControlType, PsbtType, InfoType, Steps, Screens
  <2> QED
    BY <1>1, <1>2, <2>1 DEF Typed, WalletType, PassType, SigsType
<1>9. OfferInv'
  BY <1>1, <1>2 DEF OfferInv, Offering, Summing, Summed
<1>10. RecordInv' /\ PolicyInv'
  BY <1>1, <1>2 DEF RecordInv, PolicyInv, OnePolicy
<1>11. PassInv'
  <2>1. AllMine' = AllMine
    BY <1>1 DEF AllMine, Found
  <2> QED
    BY <1>1, <1>2, <2>1 DEF PassInv, Summing, Summed, Showing, Agreeing
<1>12. ShowInv'
  <2>1. agreed'.outputs = {}
    BY <1>1, <1>2 DEF NoOutputs
  <2>2. \A i \in ToShow' : ~(i < 1)
    <3>1. \A i \in 1 .. Len(outputs') : ~(i < 1)
      OBVIOUS
    <3> QED
      BY <1>4, <3>1 DEF ToShow
  <2>3. agreed'.outputs = {i \in ToShow' : i < at'} /\ at' <= Len(outputs') + 1
    BY <1>1, <1>4, <2>1, <2>2
  <2> QED
    BY <1>1, <1>7, <2>3 DEF ShowInv, Showing, Agreeing
<1>13. SigsInv'
  BY <1>1, <1>2 DEF SigsInv
<1> QED
  BY <1>8, <1>9, <1>10, <1>11, <1>12, <1>13, TypePartsNext DEF IInv

\* An output that is not displayed is passed over.
LEMMA SkipOutputInv == ASSUME IInv, SkipOutput PROVE IInv'
<1>1. /\ pc = "show" /\ pc' = "show" /\ at \in DOMAIN outputs \ ToShow /\ at' = at + 1
      /\ UNCHANGED work /\ UNCHANGED <<esc, presses>>
  BY DEF SkipOutput, work
<1>2. /\ Typed /\ Informed /\ agreed.outputs = {i \in ToShow : i < at} /\ sigs = {}
      /\ at \in 1 .. Len(outputs) /\ Len(outputs) \in Nat
  BY <1>1, Holds DEF ShowInv, SigsInv, Showing
<1>3. Typed'
  BY <1>1, <1>2, SameWork, PressNext DEF Typed, ControlType
<1>4. OfferInv'
  BY <1>1, Holds, SameWork DEF OfferInv, Offering, Summing, Summed
<1>5. PassInv'
  BY <1>1, Holds, SameWork DEF PassInv, Summing, Summed, Showing, Agreeing
<1>6. {i \in ToShow : i < at} = {i \in ToShow : i < at + 1}
  <2>1. \A i \in ToShow : i \in Nat /\ i # at
    BY <1>1, ToShowFacts
  <2> QED
    BY <1>2, <2>1
<1>7. ShowInv'
  BY <1>1, <1>2, <1>6, SameWork DEF ShowInv, Showing, Agreeing
<1>8. SigsInv'
  BY <1>1, <1>2, SameWork DEF SigsInv
<1> QED
  BY <1>1, <1>3, <1>4, <1>5, <1>7, <1>8, SameWork, TypePartsNext DEF IInv

\* What the user agrees to adds to what is known of the transaction.
LEMMA AgreedMore ==
    ASSUME IInv, UNCHANGED <<psbt, active, pass, output_info, sigs>>,
           pc \notin Offering \cup Summing \cup Summed, agreed' \in Agreed,
           agreed'.switch = agreed.switch, agreed'.unsigned = agreed.unsigned
    PROVE  /\ PsbtType' /\ WalletType' /\ PassType' /\ InfoType' /\ SigsType'
           /\ RecordInv' /\ PolicyInv' /\ (Informed => Informed')
           /\ AllMine' = AllMine /\ ToShow' = ToShow
           /\ UNCHANGED <<process, inputs, outputs, active, signing_flags, sig_types, output_info,
                          sigs>>
<1>1. UNCHANGED <<process, inputs, outputs, active, signing_flags, record, input_amount, sig_types,
                  output_info, sigs>>
  BY DEF psbt, pass
<1>2. PsbtType' /\ WalletType' /\ PassType' /\ InfoType' /\ SigsType'
  BY <1>1, Holds DEF Typed, PsbtType, WalletType, PassType, InfoType, SigsType
<1>3. RecordInv' /\ PolicyInv'
  BY <1>1, Holds DEF RecordInv, PolicyInv, OnePolicy
<1>4. \A o : Info(o)' = Info(o)
  BY <1>1 DEF Info, MatchesGreen, Found
<1>5. Informed => Informed'
  BY <1>1, <1>4 DEF Informed
<1>6. AllMine' = AllMine /\ ToShow' = ToShow
  BY <1>1 DEF AllMine, Found, ToShow, Displayed
<1> QED
  BY <1>1, <1>2, <1>3, <1>5, <1>6

\* The user confirms an output.
LEMMA OutputYesInv == ASSUME IInv, OutputYes PROVE IInv'
<1>1. /\ pc = "show" /\ pc' = "show" /\ at \in ToShow /\ at' = at + 1 /\ Yes
      /\ agreed' = [agreed EXCEPT !.outputs = @ \cup {at}]
      /\ UNCHANGED <<psbt, active, pass, output_info, sigs>>
  BY DEF OutputYes
<1>2. /\ Typed /\ Informed /\ agreed.outputs = {i \in ToShow : i < at} /\ sigs = {}
      /\ at \in 1 .. Len(outputs) /\ Len(outputs) \in Nat
  BY <1>1, Holds, ToShowFacts DEF ShowInv, SigsInv, Showing
<1>3. /\ agreed' \in Agreed /\ agreed'.switch = agreed.switch
      /\ agreed'.unsigned = agreed.unsigned /\ agreed'.outputs = agreed.outputs \cup {at}
      /\ agreed'.fee = agreed.fee
  BY <1>1, <1>2 DEF Typed, WalletType, Agreed
<1>4. pc \notin Offering \cup Summing \cup Summed
  BY <1>1 DEF Offering, Summing, Summed
<1>5. Typed'
  BY <1>1, <1>2, <1>3, <1>4, AgreedMore, PressNext DEF Typed, ControlType
<1>6. OfferInv'
  BY <1>1, <1>3, <1>4, Holds, AgreedMore DEF OfferInv, Offering, Summing, Summed
<1>7. PassInv'
  BY <1>1, <1>3, <1>4, Holds, AgreedMore DEF PassInv, Summing, Summed, Showing, Agreeing
<1>8. agreed.outputs \cup {at} = {i \in ToShow : i < at + 1}
  <2>1. \A i \in ToShow : i \in Nat
    BY ToShowFacts
  <2> QED
    BY <1>1, <1>2, <2>1
<1>9. ShowInv'
  BY <1>1, <1>2, <1>3, <1>4, <1>8, AgreedMore DEF ShowInv, Showing, Agreeing
<1>10. SigsInv'
  BY <1>1, <1>2, <1>3, <1>4, AgreedMore DEF SigsInv
<1> QED
  BY <1>1, <1>3, <1>4, <1>5, <1>6, <1>7, <1>9, <1>10, AgreedMore, TypePartsNext DEF IInv

\* All outputs on display were confirmed.
LEMMA OutputsShownInv == ASSUME IInv, OutputsShown PROVE IInv'
<1>1. /\ pc = "show" /\ at > Len(outputs) /\ pc' \in {"aborted", "fee"} /\ at' = 1
      /\ UNCHANGED work /\ UNCHANGED <<esc, presses>>
  BY DEF OutputsShown, Goto, work
<1>2. CASE pc' = "aborted"
  BY <1>1, <1>2, EndsInv
<1>3. CASE pc' = "fee"
  <2>1. /\ Typed /\ Informed /\ agreed.outputs = {i \in ToShow : i < at} /\ sigs = {}
        /\ Len(outputs) \in Nat /\ at \in Nat
    BY <1>1, Holds DEF ShowInv, SigsInv, Showing, Typed, ControlType
  <2>2. agreed.outputs = ToShow
    <3>1. \A i \in 1 .. Len(outputs) : i < at
      BY <1>1, <2>1
    <3> QED
      BY <2>1, <3>1, ToShowFacts
  <2>3. Typed'
    BY <1>1, <2>1, SameWork, PressNext DEF Typed, ControlType, Steps, Screens
  <2>4. OfferInv'
    BY <1>1, <1>3, Holds, SameWork DEF OfferInv, Offering, Summing, Summed
  <2>5. PassInv'
    BY <1>1, <1>3, Holds, SameWork DEF PassInv, Summing, Summed, Showing, Agreeing
  <2>6. ShowInv' /\ SigsInv'
    BY <1>1, <1>3, <2>1, <2>2, SameWork DEF ShowInv, SigsInv, Showing, Agreeing
  <2> QED
    BY <1>1, <2>3, <2>4, <2>5, <2>6, SameWork, TypePartsNext DEF IInv
<1> QED
  BY <1>1, <1>2, <1>3

\* The user confirms the fee.
LEMMA FeeYesInv == ASSUME IInv, FeeYes PROVE IInv'
<1>1. /\ pc = "fee" /\ pc' = "sign" /\ at' = 1 /\ Yes /\ agreed' = [agreed EXCEPT !.fee = TRUE]
      /\ UNCHANGED <<psbt, active, pass, output_info, sigs>>
  BY DEF FeeYes, Goto
<1>2. Typed /\ Informed /\ agreed.outputs = ToShow /\ sigs = {} /\ sig_types = AllMine
  BY <1>1, Holds DEF ShowInv, SigsInv, PassInv, Agreeing
<1>3. /\ agreed' \in Agreed /\ agreed'.switch = agreed.switch
      /\ agreed'.unsigned = agreed.unsigned /\ agreed'.outputs = agreed.outputs
      /\ agreed'.fee = TRUE
  BY <1>1, <1>2 DEF Typed, WalletType, Agreed
<1>4. pc \notin Offering \cup Summing \cup Summed
  BY <1>1 DEF Offering, Summing, Summed
<1>5. Typed'
  BY <1>1, <1>2, <1>3, <1>4, AgreedMore, PressNext DEF Typed, ControlType, Steps, Screens
<1>6. OfferInv'
  BY <1>1, <1>3, <1>4, Holds, AgreedMore DEF OfferInv, Offering, Summing, Summed
<1>7. PassInv'
  BY <1>1, <1>3, <1>4, Holds, AgreedMore DEF PassInv, Summing, Summed, Showing, Agreeing
<1>8. ShowInv'
  BY <1>1, <1>2, <1>3, <1>4, AgreedMore DEF ShowInv, Showing, Agreeing
<1>9. SigsInv'
  <2>1. \A j \in AllMine : ~(j < 1)
    BY Holds DEF AllMine
  <2>2. 1 <= Len(inputs) + 1 /\ inputs' = inputs
    BY Holds, <1>1, <1>3, <1>4, AgreedMore
  <2> QED
    BY <1>1, <1>2, <1>3, <1>4, <2>1, <2>2, AgreedMore DEF SigsInv
<1> QED
  BY <1>1, <1>3, <1>4, <1>5, <1>6, <1>7, <1>8, <1>9, AgreedMore, TypePartsNext DEF IInv

\* An input is signed, if it was flagged.
LEMMA SignInv == ASSUME IInv, Sign PROVE IInv'
<1>1. /\ pc = "sign" /\ pc' = "sign" /\ at <= Len(inputs) /\ at' = at + 1
      /\ sigs' = IF at \in sig_types THEN sigs \cup {<<at, active>>} ELSE sigs
      /\ UNCHANGED <<process, inputs, outputs, active, signing_flags, record, input_amount,
                     sig_types, output_info, esc, presses, agreed>>
  BY DEF Sign, psbt, pass
<1>2. /\ Typed /\ RecordInv /\ PolicyInv /\ PassInv /\ OfferInv /\ ShowInv /\ SigsInv
      /\ Informed /\ agreed.outputs = ToShow /\ sig_types = AllMine /\ agreed.fee = TRUE
      /\ at \in Nat \ {0} /\ Len(inputs) \in Nat
  BY <1>1, Holds DEF ShowInv, PassInv, Agreeing, Typed, ControlType
<1>3. Typed'
  <2>1. SigsType'
    BY <1>1, <1>2 DEF Typed, SigsType, PassType, WalletType
  <2> QED
    BY <1>1, <1>2, <2>1 DEF Typed, ControlType, PressType, PsbtType, WalletType, PassType, InfoType
<1>4. OfferInv'
  BY <1>1, <1>2 DEF OfferInv, Offering, Summing, Summed
<1>5. RecordInv' /\ PolicyInv'
  BY <1>1, <1>2 DEF RecordInv, PolicyInv, OnePolicy
<1>6. AllMine' = AllMine /\ ToShow' = ToShow
  BY <1>1 DEF AllMine, Found, ToShow, Displayed
<1>7. Informed'
  <2>1. \A o : Info(o)' = Info(o)
    BY <1>1 DEF Info, MatchesGreen, Found
  <2> QED
    BY <1>1, <1>2, <2>1 DEF Informed
<1>8. PassInv'
  BY <1>1, <1>2, <1>6 DEF PassInv, Summing, Summed, Showing, Agreeing
<1>9. ShowInv'
  BY <1>1, <1>2, <1>6, <1>7 DEF ShowInv, Showing, Agreeing
<1>10. SigsInv'
  <2>1. \A s \in sigs' : s[1] \in sig_types /\ s[2] = active
    BY <1>1, <1>2 DEF SigsInv
  <2>2. at' <= Len(inputs') + 1
    BY <1>1, <1>2
  <2>3. ASSUME NEW j \in sig_types, j < at + 1 PROVE <<j, active>> \in sigs'
    <3>1. j \in Nat
      BY <1>2 DEF AllMine
    <3>2. j < at \/ j = at
      BY <1>2, <2>3, <3>1
    <3> QED
      BY <1>1, <1>2, <2>3, <3>2 DEF SigsInv
  <2> QED
    BY <1>1, <1>2, <1>6, <1>7, <2>1, <2>2, <2>3 DEF SigsInv
<1> QED
  BY <1>3, <1>4, <1>5, <1>8, <1>9, <1>10, TypePartsNext DEF IInv

\* All flagged inputs are signed.
LEMMA SignedInv == ASSUME IInv, Signed PROVE IInv'
<1>1. /\ pc = "sign" /\ at > Len(inputs) /\ pc' \in {"signed", "failed"} /\ at' = 1
      /\ UNCHANGED work /\ UNCHANGED <<esc, presses>>
  BY DEF Signed, Goto, work
<1>2. CASE pc' = "failed"
  BY <1>1, <1>2, EndsInv
<1>3. CASE pc' = "signed"
  <2>1. /\ Typed /\ Informed /\ agreed.outputs = ToShow /\ sig_types = AllMine
        /\ agreed.fee = TRUE /\ SigsInv /\ Len(inputs) \in Nat /\ at \in Nat
    BY <1>1, Holds DEF ShowInv, PassInv, Agreeing, Typed, ControlType
  <2>2. \A j \in sig_types : <<j, active>> \in sigs
    <3>1. \A j \in 1 .. Len(inputs) : j < at
      BY <1>1, <2>1
    <3> QED
      BY <1>1, <2>1, <3>1 DEF SigsInv, AllMine
  <2>3. Typed'
    BY <1>1, <2>1, SameWork, PressNext DEF Typed, ControlType, Steps, Screens
  <2>4. OfferInv'
    BY <1>1, <1>3, Holds, SameWork DEF OfferInv, Offering, Summing, Summed
  <2>5. PassInv'
    BY <1>1, <1>3, Holds, SameWork DEF PassInv, Summing, Summed, Showing, Agreeing
  <2>6. ShowInv'
    BY <1>1, <1>3, <2>1, SameWork DEF ShowInv, Showing, Agreeing
  <2>7. SigsInv'
    BY <1>1, <1>3, <2>1, <2>2, SameWork DEF SigsInv
  <2> QED
    BY <1>1, <2>3, <2>4, <2>5, <2>6, <2>7, SameWork, TypePartsNext DEF IInv
<1> QED
  BY <1>1, <1>2, <1>3

----------------------------------------------------------------------------
(* The theorems.                                                           *)

\* A PSBT that has just arrived satisfies the invariant.
LEMMA InvInit == Init => IInv
<1> SUFFICES ASSUME Init PROVE IInv
  OBVIOUS
<1>1. /\ pc = "offer" /\ at = 1 /\ outputs = <<>> /\ output_info = <<>> /\ signing_flags = {}
      /\ record = {} /\ input_amount = 0 /\ sig_types = {} /\ sigs = {} /\ active \in Wallets
      /\ presses = 0 /\ agreed = Nobody /\ inputs \in BoundedSeq(Inputs, MaxInputs)
  BY DEF Init
<1>2. inputs \in Seq(Inputs)
  BY <1>1, Bounded, PsbtAssumption
<1>3. agreed \in Agreed /\ agreed.switch = 0 /\ agreed.outputs = {} /\ agreed.fee = FALSE
      /\ agreed.unsigned = FALSE
  BY <1>1, Bounds DEF Nobody, Agreed
<1>4. PressType
  <2>1. esc \in BOOLEAN
    BY Zenon DEF Init
  <2> QED
    BY <1>1, <2>1, Bounds DEF PressType
<1>5. PsbtType
  <2>1. process \in BOOLEAN
    BY Zenon DEF Init
  <2> QED
    BY <1>1, <1>2, <2>1, EmptyFacts DEF PsbtType
<1>6. PassType
  <2>1. Cardinality(record) = 0
    BY <1>1, FS_EmptySet
  <2> QED
    BY <1>1, <2>1 DEF PassType
<1>7. ControlType /\ WalletType /\ InfoType /\ SigsType
  BY <1>1, <1>3, EmptyFacts DEF ControlType, WalletType, InfoType, SigsType, Steps, Screens
<1>8. Typed
  BY <1>4, <1>5, <1>6, <1>7 DEF Typed
<1>9. OfferInv
  BY <1>1, <1>3 DEF OfferInv, Untouched, NoOutputs, Offering, Summing, Summed
<1>10. RecordInv /\ PolicyInv
  BY <1>1 DEF RecordInv, PolicyInv, OnePolicy
<1>11. PassInv /\ ShowInv /\ SigsInv
  BY <1>1 DEF PassInv, ShowInv, SigsInv, Summing, Summed, Showing, Agreeing
<1> QED
  BY <1>8, <1>9, <1>10, <1>11, TypeParts DEF IInv

\* Every step keeps it.
LEMMA InvStep == IInv /\ [Next]_vars => IInv'
<1> SUFFICES ASSUME IInv, [Next]_vars PROVE IInv'
  OBVIOUS
<1>1. CASE Asks
  BY <1>1, OfferInvs, SwitchYesInv, NothingYesInv, EndStepsInv, OutputYesInv, FeeYesInv DEF Asks
<1>2. CASE Works
  BY <1>2, OfferInvs, SumOtherInv, SumMineInv, EndStepsInv, InputsDoneInv, UpdateOutputsInv,
     SkipOutputInv, OutputsShownInv, SignInv, SignedInv DEF Works
<1>3. CASE StrayPress \/ UNCHANGED vars
  BY <1>3, StrayPressInv
<1> QED
  BY <1>1, <1>2, <1>3 DEF Next

\* The invariant holds in every state of every behaviour.
LEMMA Invariance == Spec => []IInv
BY InvInit, InvStep, PTL DEF Spec

\* Type correctness of the call: a record is held exactly when its flag is set,
\* and every signature is of an input of the PSBT.
THEOREM TypeCorrect == Spec => []TypeOK
<1>1. IInv => TypeOK
  BY DEF IInv
<1> QED
  BY <1>1, Invariance, PTL

\* What the wallet hides is its own: an output taken for change has its script,
\* and one taken for a policy's has the script of the record.
LEMMA HiddenIsOwn ==
    ASSUME IInv, NEW o, Info(o).change = TRUE
    PROVE  \/ o.script = <<"single", active>>
           \/ /\ signing_flags = {GREEN, ABANDONED}
              /\ o.script \in {<<"green", active>>, <<"green3", <<active, o.third>>>>}
           \/ signing_flags = {MULTISIG, SINGLE_RECORD} /\ \A p \in record : Matches(o, p)
<1>1. Shown.change = FALSE
  BY DEF Shown
<1> QED
  BY <1>1 DEF Info, MatchesGreen

\* Whatever the PSBT says of its key paths, and however many inputs and outputs
\* it has, an output that psbt_update_outputs takes for change and the user does
\* not see is the signing wallet's own key, or the one registered policy that
\* every signed input with a usual path is spent from, or, where only Green
\* inputs are signed, its Green account or a Green 2of3 account of the wallet,
\* Green and the third key that the PSBT names.
THEOREM UnseenAlwaysOwn == Spec => []UnseenIsOwn
<1>1. ASSUME IInv PROVE UnseenIsOwn
  <2> SUFFICES ASSUME sigs # {}, NEW i \in Unseen
               PROVE  \/ outputs[i].script = <<"single", active>>
                      \/ /\ outputs[i].script \in {<<"green", active>>,
                                                   <<"green3", <<active, outputs[i].third>>>>}
                         /\ \A j \in DOMAIN inputs : Found(inputs[j]) => Kind(inputs[j]) = GREEN
                      \/ /\ \E p \in Registered[active] : outputs[i].script = <<"multi", p>>
                         /\ \A j \in DOMAIN inputs :
                                Found(inputs[j]) /\ inputs[j].path # "long" =>
                                    inputs[j].script = outputs[i].script
    BY DEF UnseenIsOwn
  <2>1. Informed /\ sig_types = AllMine /\ agreed.outputs = ToShow /\ RecordInv
    BY <1>1, Holds DEF SigsInv
  <2>2. i \in 1 .. Len(outputs) /\ ~Displayed(i)
    BY <1>1, <2>1, Holds, ToShowFacts DEF Unseen
  <2>3. output_info[i] = Info(outputs[i]) /\ Info(outputs[i]) \in Infos
    BY <2>1, <2>2, InfoTyped DEF Informed
  <2>4. Info(outputs[i]).change = TRUE
    BY <2>2, <2>3 DEF Displayed, Infos
  <2>5. CASE signing_flags = {MULTISIG, SINGLE_RECORD} /\ \A p \in record : Matches(outputs[i], p)
    <3>1. ABANDONED \notin signing_flags
      BY <2>5 DEF ABANDONED, MULTISIG, SINGLE_RECORD
    <3>2. PICK p \in Registered[active] : record = {p}
      BY <2>1, <2>5 DEF RecordInv
    <3>3. outputs[i].script = <<"multi", p>>
      BY <2>5, <3>2 DEF Matches
    <3>4. ASSUME NEW j \in DOMAIN inputs, Found(inputs[j]), inputs[j].path # "long"
          PROVE  inputs[j].script = <<"multi", p>>
      <4>1. j \in sig_types
        BY <1>1, <2>1, <3>4, Holds DEF AllMine
      <4> QED
        BY <2>1, <3>1, <3>2, <3>4, <4>1 DEF RecordInv, Matches
    <3> QED
      BY <3>3, <3>4
  <2>6. ASSUME signing_flags = {GREEN, ABANDONED}, NEW j \in DOMAIN inputs, Found(inputs[j])
        PROVE  Kind(inputs[j]) = GREEN
    <3>1. j \in sig_types
      BY <1>1, <2>1, <2>6, Holds DEF AllMine
    <3>2. Kind(inputs[j]) \in {GREEN, ABANDONED}
      BY <2>1, <2>6, <3>1 DEF RecordInv
    <3> QED
      BY <3>2, KindFacts DEF SINGLESIG, MULTISIG, GREEN, ABANDONED
  <2> QED
    BY <1>1, <2>4, <2>5, <2>6, HiddenIsOwn
<1> QED
  BY <1>1, Invariance, PTL

\* With nothing but inputs of one registered policy, its usual change is
\* recognised: the pass over any number of inputs ends with that record.
THEOREM OwnChangeAlwaysHidden == Spec => []OwnChangeIsHidden
<1>1. ASSUME IInv PROVE OwnChangeIsHidden
  <2> SUFFICES ASSUME pc \in {"fee", "sign", "signed"}, NEW p \in Registered[active],
                      NEW i \in DOMAIN outputs, sig_types # {},
                      \A j \in sig_types : Matches(inputs[j], p) /\ inputs[j].path = "usual",
                      Matches(outputs[i], p), Found(outputs[i]), outputs[i].path = "change"
               PROVE  output_info[i].change /\ ~output_info[i].message
    BY DEF OwnChangeIsHidden
  <2>1. signing_flags = {MULTISIG, SINGLE_RECORD} /\ record = {p}
    BY <1>1, Holds DEF PolicyInv, OnePolicy
  <2>2. output_info[i] = Info(outputs[i])
    BY <1>1, Holds DEF ShowInv, Informed, Agreeing
  <2>3. signing_flags # {GREEN, ABANDONED}
    BY <2>1 DEF MULTISIG, SINGLE_RECORD, GREEN, ABANDONED
  <2>4. Info(outputs[i]) = Ours(outputs[i])
    BY <2>1, <2>3 DEF Info, Matches
  <2>5. Ours(outputs[i]).change = TRUE /\ Ours(outputs[i]).message = FALSE
    BY DEF Ours
  <2> QED
    BY <2>2, <2>4, <2>5
<1> QED
  BY <1>1, Invariance, PTL

\* sign_psbt makes no signature that the user did not agree to, by no other
\* wallet than the one in use or switched to, and what it returns as signed
\* carries every signature that wallet can make.
THEOREM AlwaysSignsAsAgreed == Spec => []SignsAsAgreed
<1>1. ASSUME IInv PROVE SignsAsAgreed
  <2>1. ASSUME sigs # {}
        PROVE  /\ agreed.fee
               /\ \A i \in DOMAIN outputs :
                     ~output_info[i].change \/ output_info[i].message => i \in agreed.outputs
               /\ agreed.outputs # {}
               /\ \A s \in sigs : s[2] = active /\ active \in inputs[s[1]].ours
               /\ agreed.switch # 0 => active = agreed.switch /\ ~process
    <3>1. /\ Informed /\ sig_types = AllMine /\ agreed.outputs = ToShow /\ agreed.fee = TRUE
          /\ \A s \in sigs : s[1] \in sig_types /\ s[2] = active
      BY <1>1, <2>1, Holds DEF SigsInv
    <3>2. \A i \in DOMAIN outputs :
              ~output_info[i].change \/ output_info[i].message => i \in agreed.outputs
      BY <1>1, <3>1, Holds, ToShowFacts DEF Displayed
    <3>3. agreed.outputs # {}
      BY <1>1, <3>1, ToShowFacts DEF Informed
    <3>4. \A s \in sigs : active \in inputs[s[1]].ours
      BY <3>1 DEF AllMine, Found
    <3> QED
      BY <1>1, <3>1, <3>2, <3>3, <3>4, Holds DEF OfferInv
  <2>2. ASSUME pc = "signed"
        PROVE  /\ \A i \in DOMAIN inputs : Found(inputs[i]) => <<i, active>> \in sigs
               /\ sigs = {} => agreed.unsigned
    <3>1. /\ sig_types = AllMine /\ \A j \in sig_types : <<j, active>> \in sigs
          /\ signing_flags # {} \/ agreed.unsigned
      BY <1>1, <2>2, Holds DEF PassInv, SigsInv, Agreeing
    <3>2. sigs = {} => sig_types = {} /\ signing_flags = {}
      BY <1>1, <3>1, Holds DEF RecordInv
    <3> QED
      BY <1>1, <3>1, <3>2, Holds DEF AllMine
  <2> QED
    BY <2>1, <2>2 DEF SignsAsAgreed
<1> QED
  BY <1>1, Invariance, PTL

----------------------------------------------------------------------------
(* The scan that brings a PSBT in.                                         *)

Cameras == {"none", "starting", "head", "capture", "buttons", "help", "exit"}
Pushes  == {"none", "exit", "help", "other", "key3"}

\* A frame that is part i of the transfer b collects, and fits its grid.
PartOf(b, i, f) ==
    /\ f \in Frame /\ f.index = i
    /\ Code[f.code].kind = "bbqr" /\ Code[f.code].header = b.header /\ Code[f.code].num = b.num
    /\ Fits(b, f)

\* What a collection holds: a grid under the ceiling and parts of one header.
Collects(b) ==
    /\ b.num \in Nat \ {0} /\ b.block \in Nat /\ b.num * b.block <= MAX_INPUT
    /\ DOMAIN b.parts \subseteq 0 .. b.num - 1
    /\ \A i \in DOMAIN b.parts : PartOf(b, i, b.parts[i])

Collection(b) ==
    \/ b = Nothing
    \/ /\ b = [num |-> b.num, header |-> b.header, block |-> b.block, parts |-> b.parts]
       /\ Collects(b)

\* One collector at most is at work, BBQr only if the caller wants it.
OneCollector ==
    /\ Collection(bbqr) /\ (bbqr.num # 0 => DOMAIN bbqr.parts # {} /\ enabled)
    /\ ur \subseteq Frame
    /\ ur # {} => bbqr.num = 0

\* The code that ended the scan is a whole payload or completed one.
Ended ==
    got # Blank =>
        /\ camera = "exit" /\ got \in Frame
        /\ \/ UrOk(ur)
           \/ Complete(bbqr)
           \/ /\ bbqr.num = 0
              /\ Code[got.code].kind \notin {"ur", "badur"}
              /\ enabled => ~IsBbqr(got)

\* Nothing of a scan is left when nobody waits for one.
AtRest ==
    /\ calling <=> camera # "none"
    /\ wanted => calling
    /\ ~calling => got = Blank /\ buffer = Blank /\ bbqr = Nothing /\ ur = {}

\* What was handed over.
BbqrPayload(parts, h, n) ==
    /\ DOMAIN parts = 0 .. n - 1
    /\ \A i \in 0 .. n - 1 : LET f == parts[i]
                             IN  /\ f.index = i
                                 /\ Code[f.code].kind = "bbqr"
                                 /\ Code[f.code].header = h /\ Code[f.code].num = n
                                 /\ i < n - 1 => Size(f) = Size(parts[0])
                                 /\ Size(f) <= Size(parts[0])

HandedOver ==
    /\ out.type \in {"none", "raw", "ur", "bbqr"}
    /\ out.type = "raw"  => /\ Code[out.parts.code].kind \notin {"ur", "badur"}
                            /\ enabled => ~IsBbqr(out.parts)
    /\ out.type = "ur"   => UrOk(out.parts)
    /\ out.type = "bbqr" =>
         \E h \in {Code[c].header : c \in Codes}, n \in {Code[c].num : c \in Codes} :
            enabled /\ BbqrPayload(out.parts, h, n)

ScanTyped ==
    /\ calling \in BOOLEAN /\ enabled \in BOOLEAN /\ skip \in BOOLEAN /\ wanted \in BOOLEAN /\ handle \in BOOLEAN
    /\ camera \in Cameras
    /\ event \in {"none", "exit", "help"} /\ press \in Pushes
    /\ got \in Picture /\ buffer \in Picture /\ frame \in Picture
    /\ host \in {"loop", "push"}

ScanInv == ScanTyped /\ OneCollector /\ Ended /\ AtRest /\ HandedOver

\* A frame shows a part of a code, and is not blank.
LEMMA FrameFacts ==
    ASSUME CodesConstants, NEW f \in Frame
    PROVE  /\ f.code \in Codes /\ f.index \in 0 .. Code[f.code].num - 1 /\ f.index \in Nat
           /\ Code[f.code].num \in Nat \ {0} /\ f # Blank
           /\ Size(f) \in Nat \ {0} /\ MAX_INPUT \in Nat
<1>1. PICK c \in Codes : f \in [code : {c}, index : 0 .. Code[c].num - 1]
  BY DEF Frame
<1>2. f.code = c /\ f.index \in 0 .. Code[c].num - 1
  BY <1>1
<1>3. /\ Code[c].num \in Nat \ {0} /\ Code[c].block \in Nat \ {0} /\ Code[c].last \in Nat \ {0}
      /\ "none" \notin Codes /\ MAX_INPUT \in Nat
  BY DEF CodesConstants
<1>4. f # Blank
  BY <1>2, <1>3 DEF Blank
<1>5. Size(f) \in Nat \ {0}
  BY <1>2, <1>3 DEF Size
<1> QED
  BY <1>2, <1>3, <1>4, <1>5

\* A part before the n-th ends inside n blocks.
LEMMA BlockFits ==
    ASSUME NEW i \in Nat, NEW n \in Nat, NEW b \in Nat, i < n
    PROVE  i * b + b <= n * b
<1>1. (i + 1) * b = i * b + b /\ i * b \in Nat
  OBVIOUS
<1>2. n - (i + 1) \in Nat
  OBVIOUS
<1>3. (n - (i + 1)) * b \in Nat
  BY <1>2
<1>4. n * b = (i + 1) * b + (n - (i + 1)) * b
  OBVIOUS
<1> QED
  BY <1>1, <1>3, <1>4

\* What is written of a part lies inside the buffer ("the write lands inside
\* ctx->data by construction", bbqr_collect).
LEMMA GridHolds ==
    ASSUME CodesConstants, OneCollector
    PROVE  GridOK
<1>1. SUFFICES ASSUME bbqr.num # 0
               PROVE /\ bbqr.num * bbqr.block <= MAX_INPUT
                     /\ DOMAIN bbqr.parts # {}
                     /\ \A i \in DOMAIN bbqr.parts :
                           /\ bbqr.parts[i].index = i
                           /\ i * bbqr.block + Size(bbqr.parts[i]) <= bbqr.num * bbqr.block
  BY DEF GridOK
<1>2. Collects(bbqr) /\ DOMAIN bbqr.parts # {}
  BY <1>1 DEF OneCollector, Collection, Nothing
<1>3. SUFFICES ASSUME NEW i \in DOMAIN bbqr.parts
               PROVE /\ bbqr.parts[i].index = i
                     /\ i * bbqr.block + Size(bbqr.parts[i]) <= bbqr.num * bbqr.block
  BY <1>2 DEF Collects
<1> DEFINE f == bbqr.parts[i]  b == bbqr.block  n == bbqr.num
<1>4. i \in 0 .. n - 1 /\ n \in Nat /\ b \in Nat /\ f \in Frame /\ f.index = i /\ Fits(bbqr, f)
  BY <1>2 DEF Collects, PartOf
<1>5. Size(f) \in Nat /\ Size(f) <= b
  BY <1>4, FrameFacts DEF Fits
<1> HIDE DEF f, b, n
<1>6. i \in Nat /\ i < n /\ i * b \in Nat /\ n * b \in Nat
  BY <1>4
<1>7. i * b + b <= n * b
  BY <1>4, <1>6, BlockFits
<1>8. i * b + Size(f) <= n * b
  BY <1>4, <1>5, <1>6, <1>7
<1> QED
  BY <1>4, <1>8 DEF f, b, n

\* Adding a part that fits keeps what a collection is.
LEMMA AddedCollects ==
    ASSUME NEW b, NEW f, b = [num |-> b.num, header |-> b.header, block |-> b.block, parts |-> b.parts],
           Collects(b), PartOf(b, f.index, f), f.index \in 0 .. b.num - 1
    PROVE  \E a : /\ a = [b EXCEPT !.parts = WithPart(b.parts, f)]
                  /\ a = [num |-> a.num, header |-> a.header, block |-> a.block, parts |-> a.parts]
                  /\ Collects(a) /\ DOMAIN a.parts # {}
<1> DEFINE p == WithPart(b.parts, f)
           a == [num |-> b.num, header |-> b.header, block |-> b.block, parts |-> p]
<1>1. DOMAIN p = DOMAIN b.parts \cup {f.index}
      /\ \A i \in DOMAIN p : p[i] = (IF i \in DOMAIN b.parts THEN b.parts[i] ELSE f)
  BY DEF WithPart
<1> HIDE DEF p
<1>2. [b EXCEPT !.parts = p] = a
  OBVIOUS
<1>3. /\ a.num = b.num /\ a.header = b.header /\ a.block = b.block /\ a.parts = p
      /\ a = [num |-> a.num, header |-> a.header, block |-> a.block, parts |-> a.parts]
  OBVIOUS
<1> HIDE DEF a
<1>4. \A i, g : PartOf(b, i, g) => PartOf(a, i, g)
  BY <1>3 DEF PartOf, Fits
<1>5. \A i \in DOMAIN p : PartOf(b, i, p[i])
  BY <1>1 DEF Collects
<1>6. Collects(a) /\ DOMAIN a.parts # {}
  BY <1>1, <1>3, <1>4, <1>5 DEF Collects
<1> QED
  BY Zenon, <1>2, <1>3, <1>6 DEF p

\* bbqr_collect keeps a collection that fits its buffer: it leaves it alone,
\* throws it away, begins one or adds a part.
LEMMA CollectHolds ==
    ASSUME CodesConstants, NEW b, NEW f \in Frame, IsBbqr(f),
           Collection(b), b.num # 0 => DOMAIN b.parts # {}
    PROVE  LET c == bbqr_collect(b, f)
           IN  Collection(c) /\ (c.num # 0 => DOMAIN c.parts # {})
<1> DEFINE n == Code[f.code].num
           r == Restarted(b, f)
           g == Begun(r, f)
<1>1. CASE Code[f.code].kind = "badbbqr" \/ Foreign(b, f)
  BY <1>1 DEF bbqr_collect
<1>2. CASE ~(Code[f.code].kind = "badbbqr" \/ Foreign(b, f))
  <2>1. Code[f.code].kind = "bbqr" /\ (b.num = 0 \/ (b.header = Code[f.code].header /\ b.num = n))
    BY <1>2 DEF IsBbqr, Foreign
  <2>2. r = b \/ r = Nothing
    BY DEF Restarted
  <2>3. Nothing.num = 0
    BY DEF Nothing
  <2>4. /\ f.index \in 0 .. n - 1 /\ n \in Nat \ {0} /\ Size(f) \in Nat \ {0} /\ MAX_INPUT \in Nat
    BY FrameFacts
  <2>5. \/ g = Nothing
        \/ /\ g = [num |-> g.num, header |-> g.header, block |-> g.block, parts |-> g.parts]
           /\ Collects(g) /\ g.header = Code[f.code].header /\ g.num = n
           /\ DOMAIN g.parts # {} \/ Fits(g, f)
    <3> HIDE DEF r
    <3>1. CASE r.num # 0
      <4>1. r = b /\ g = b /\ b.num # 0
        BY <2>2, <2>3, <3>1 DEF Begun
      <4> QED
        BY <2>1, <2>3, <4>1 DEF Collection
    <3>2. CASE r.num = 0
      <4> DEFINE new == [num |-> n, header |-> Code[f.code].header, block |-> Size(f), parts |-> <<>>]
      <4>1. \/ g = Nothing
            \/ g = new /\ ~(n > 1 /\ f.index = n - 1) /\ Size(f) * n <= MAX_INPUT
        <5>1. Size(f) * n \in Nat
          BY <2>4
        <5> QED
          BY <2>4, <3>2, <5>1 DEF Begun
      <4>2. CASE g = new /\ ~(n > 1 /\ f.index = n - 1) /\ Size(f) * n <= MAX_INPUT
        <5> HIDE DEF n, g
        <5>1. g.num = n /\ g.block = Size(f) /\ g.parts = <<>> /\ g.header = Code[f.code].header
          BY <4>2
        <5>2. g = [num |-> g.num, header |-> g.header, block |-> g.block, parts |-> g.parts]
          BY <4>2, <5>1
        <5>3. n * Size(f) <= MAX_INPUT
          <6>1. n * Size(f) = Size(f) * n
            BY <2>4
          <6> QED
            BY <4>2, <6>1
        <5>4. Collects(g)
          BY <2>4, <5>1, <5>3 DEF Collects
        <5>5. Fits(g, f)
          BY <2>4, <4>2, <5>1 DEF Fits
        <5> QED
          BY <5>1, <5>2, <5>4, <5>5
      <4> QED
        BY <4>1, <4>2
    <3> QED
      BY <3>1, <3>2
  <2>6. bbqr_collect(b, f) = Added(g, f)
    BY <1>2 DEF bbqr_collect
  <2> HIDE DEF g, n, r
  <2>7. CASE g = Nothing
    BY <2>3, <2>6, <2>7 DEF Added, Collection
  <2>8. CASE g # Nothing /\ Fits(g, f)
    <3>1. PartOf(g, f.index, f) /\ f.index \in 0 .. g.num - 1 /\ g.num # 0
      BY <2>1, <2>4, <2>5, <2>8 DEF PartOf, n
    <3>2. Added(g, f) = [g EXCEPT !.parts = WithPart(g.parts, f)]
      BY <2>8, <3>1 DEF Added
    <3>3. PICK a : /\ a = [g EXCEPT !.parts = WithPart(g.parts, f)]
                   /\ a = [num |-> a.num, header |-> a.header, block |-> a.block, parts |-> a.parts]
                   /\ Collects(a) /\ DOMAIN a.parts # {}
      BY Zenon, <2>5, <2>8, <3>1, AddedCollects
    <3> QED
      BY Zenon, <2>6, <3>2, <3>3 DEF Collection
  <2>9. CASE g # Nothing /\ ~Fits(g, f)
    BY <2>5, <2>6, <2>9 DEF Added, Collection
  <2> QED
    BY <2>7, <2>8, <2>9
<1> QED
  BY <1>1, <1>2

\* A step that leaves the payload alone keeps the invariant, if it neither
\* leaves the camera's last step nor starts a camera nobody waits for.
LEMMA ScanKept ==
    ASSUME ScanInv, ScanTyped', UNCHANGED <<calling, enabled, out, bbqr, ur, got>>,
           camera' = "none" <=> camera = "none", camera = "exit" => camera' = "exit",
           wanted' => camera # "none", ~calling => buffer' = Blank
    PROVE  ScanInv'
<1>1. OneCollector' /\ HandedOver'
  BY DEF ScanInv, OneCollector, HandedOver
<1>2. Ended'
  BY DEF ScanInv, Ended, Blank
<1>3. AtRest'
  BY DEF ScanInv, AtRest, Blank, Nothing
<1> QED
  BY <1>1, <1>2, <1>3 DEF ScanInv

\* The steps of the camera task that take no picture.
LEMMA CameraInv ==
    ASSUME ScanInv, Begin \/ LoopHead \/ Buttons
    PROVE  ScanInv'
<1>1. /\ UNCHANGED <<calling, enabled, out, bbqr, ur, got, skip, press, buffer, host, frame, handle>>
      /\ camera \in {"starting", "head", "buttons"} /\ camera' \in {"head", "capture", "help", "exit"}
      /\ event' \in {event, "none"} /\ wanted' \in {wanted, TRUE}
  BY DEF Begin, LoopHead, Buttons, scan, feed
<1>2. ScanTyped'
  BY <1>1 DEF ScanInv, ScanTyped, Cameras
<1>3. ~calling => buffer' = Blank
  BY <1>1 DEF ScanInv, AtRest
<1> QED
  BY <1>1, <1>2, <1>3, ScanKept

\* The user's presses.
LEMMA PressesInv ==
    ASSUME ScanInv,
           \/ \E b \in {"exit", "help"} : PressButton(b)
           \/ PressOther \/ PressKey3
           \/ \E b \in {"other", "key3"} : LeaveHelp(b)
    PROVE  ScanInv'
<1>1. /\ UNCHANGED <<calling, enabled, out, bbqr, ur, got, skip, wanted, buffer, host, frame, handle>>
      /\ camera # "none" /\ camera # "exit" /\ camera' \in {camera, "head"}
      /\ event' \in {event, "exit", "help"} /\ press' \in {"exit", "help", "other", "key3"}
  BY DEF PressButton, PressOther, PressKey3, LeaveHelp, scan, feed
<1>2. ScanTyped'
  BY <1>1 DEF ScanInv, ScanTyped, Cameras, Pushes
<1>3. ~calling => buffer' = Blank
  BY <1>1 DEF ScanInv, AtRest
<1>4. wanted' => camera # "none"
  BY <1>1
<1> QED
  BY <1>1, <1>2, <1>3, <1>4, ScanKept

\* The host's thread: a picture that comes late is dropped.
LEMMA HostInv ==
    ASSUME ScanInv,
           \/ \E p \in Picture : HostRead(p)
           \/ HostError \/ HostPush \/ HostIdle
    PROVE  ScanInv'
<1>1. /\ UNCHANGED <<calling, enabled, out, camera, bbqr, ur, got, skip, event, press, wanted>>
      /\ host' \in {"loop", "push"} /\ handle' \in {handle, TRUE, FALSE}
  BY DEF HostRead, HostError, HostPush, HostIdle, scan, ScanInv, ScanTyped
<1>2. /\ frame' \in Picture
      /\ buffer' = buffer \/ (wanted /\ buffer' = frame)
  BY DEF HostRead, HostError, HostPush, HostIdle, scan, ScanInv, ScanTyped, Picture
<1>3. ScanTyped'
  <2>1. buffer' \in Picture
    BY <1>2 DEF ScanInv, ScanTyped
  <2>2. Picture' = Picture
    OBVIOUS
  <2>3. handle' \in BOOLEAN
    BY <1>1 DEF ScanInv, ScanTyped
  <2> QED
    BY <1>1, <1>2, <2>1, <2>2, <2>3 DEF ScanInv, ScanTyped
<1>4. wanted => calling
  BY DEF ScanInv, AtRest
<1>5. ~calling => buffer' = Blank
  BY <1>2, <1>4 DEF ScanInv, AtRest
<1>6. wanted' => camera # "none"
  BY <1>1, <1>4 DEF ScanInv, AtRest
<1> QED
  BY <1>1, <1>3, <1>5, <1>6, ScanKept

\* A scan begins with nothing collected.
LEMMA CallInv ==
    ASSUME CodesConstants, ScanInv, NEW b \in BOOLEAN, Call(b)
    PROVE  ScanInv'
<1>1. /\ ~calling /\ calling' = TRUE /\ enabled' = b /\ out' = NoResult /\ camera' = "starting"
      /\ press' \in {"none", "key3"}
      /\ UNCHANGED <<skip, event, bbqr, ur, got, wanted, buffer, host, frame, handle>>
  BY DEF Call, scan, feed
<1>2. got = Blank /\ bbqr = Nothing /\ ur = {}
  BY <1>1 DEF ScanInv, AtRest
<1>3. ScanTyped'
  BY <1>1 DEF ScanInv, ScanTyped, Cameras, Pushes
<1>4. OneCollector'
  BY <1>1, <1>2 DEF OneCollector, Collection, Nothing
<1>5. Ended' /\ AtRest'
  BY <1>1, <1>2 DEF Ended, AtRest
<1>6. HandedOver'
  BY <1>1 DEF HandedOver, NoResult
<1> QED
  BY <1>3, <1>4, <1>5, <1>6 DEF ScanInv

\* All the parts of a collection make a payload.
LEMMA CompletePayload ==
    ASSUME CodesConstants, OneCollector, Complete(bbqr)
    PROVE  /\ enabled
           /\ \E h \in {Code[c].header : c \in Codes}, n \in {Code[c].num : c \in Codes} :
                 BbqrPayload(bbqr.parts, h, n)
<1> DEFINE n == bbqr.num  h == bbqr.header  p == bbqr.parts
<1>1. Collects(bbqr) /\ enabled
  BY DEF OneCollector, Collection, Complete, Nothing
<1>2. /\ n \in Nat \ {0} /\ DOMAIN p = 0 .. n - 1 /\ bbqr.block \in Nat
      /\ \A i \in 0 .. n - 1 : PartOf(bbqr, i, p[i])
  BY <1>1 DEF Collects, Complete
<1> HIDE DEF n, h, p
<1>3. 0 \in 0 .. n - 1 /\ \A i \in 0 .. n - 1 : i \in Nat /\ (i < n - 1 \/ i = n - 1)
  BY <1>2
<1>4. p[0] \in Frame /\ Code[p[0].code].header = h /\ Code[p[0].code].num = n
  BY <1>2, <1>3 DEF PartOf, n, h
<1>5. h \in {Code[c].header : c \in Codes} /\ n \in {Code[c].num : c \in Codes}
  BY <1>4, FrameFacts
<1>6. \A i \in 0 .. n - 1 : Size(p[i]) \in Nat
  BY <1>2, FrameFacts DEF PartOf
<1>7. \A i \in 0 .. n - 1 : (i < n - 1 => Size(p[i]) = bbqr.block) /\ (i = n - 1 => Size(p[i]) <= bbqr.block)
  BY <1>2, <1>3 DEF PartOf, Fits, n
<1>8. \A i \in 0 .. n - 1 : /\ i < n - 1 => Size(p[i]) = Size(p[0])
                            /\ Size(p[i]) <= Size(p[0])
  <2>1. SUFFICES ASSUME NEW i \in 0 .. n - 1
                 PROVE /\ i < n - 1 => Size(p[i]) = Size(p[0])
                       /\ Size(p[i]) <= Size(p[0])
    OBVIOUS
  <2>2. CASE n = 1
    <3>1. i = 0
      BY <1>2, <2>2
    <3>2. Size(p[0]) <= Size(p[0])
      BY <1>3, <1>6
    <3> QED
      BY <3>1, <3>2
  <2>3. CASE n # 1
    <3>1. 0 < n - 1
      BY <1>2, <2>3
    <3>2. Size(p[0]) = bbqr.block
      BY <1>3, <1>7, <3>1
    <3> QED
      BY <1>2, <1>3, <1>6, <1>7, <3>2
  <2> QED
    BY <2>2, <2>3
<1>9. BbqrPayload(p, h, n)
  BY <1>2, <1>8 DEF BbqrPayload, PartOf, n, h
<1> QED
  BY <1>1, <1>5, <1>9 DEF p

\* What is handed over is whole, and nothing of the scan is left behind.
LEMMA ReturnInv ==
    ASSUME CodesConstants, ScanInv, Return
    PROVE  ScanInv'
<1>1. /\ calling' = FALSE /\ camera = "exit" /\ camera' = "none" /\ out' \in Result
      /\ bbqr' = Nothing /\ ur' = {} /\ got' = Blank
      /\ wanted' = FALSE /\ buffer' = Blank
      /\ skip' = FALSE /\ event' = "none" /\ press' = "none"
      /\ UNCHANGED <<enabled, host, frame, handle>>
  BY DEF Return, feed
<1>2. ScanTyped'
  BY <1>1 DEF ScanInv, ScanTyped, Cameras, Pushes, Picture
<1>3. OneCollector'
  BY <1>1 DEF OneCollector, Collection, Nothing
<1>4. Ended' /\ AtRest'
  BY <1>1 DEF Ended, AtRest
<1>5. HandedOver'
  <2>1. CASE out' = NoResult
    BY <2>1 DEF HandedOver, NoResult
  <2>2. CASE got # Blank /\ UrOk(ur) /\ out' = [type |-> "ur", parts |-> ur]
    <3>1. out'.type = "ur" /\ UrOk(out'.parts)
      BY <2>2
    <3>2. UrOk(out.parts)'
      BY <3>1 DEF UrOk, UrWhole, Frame
    <3> QED
      BY <3>1, <3>2 DEF HandedOver
  <2>3. CASE got # Blank /\ Complete(bbqr) /\ out' = [type |-> "bbqr", parts |-> bbqr.parts]
    <3>1. PICK h \in {Code[c].header : c \in Codes}, n \in {Code[c].num : c \in Codes} :
            BbqrPayload(bbqr.parts, h, n)
      BY <2>3, CompletePayload DEF ScanInv
    <3>2. enabled /\ out'.type = "bbqr" /\ out'.parts = bbqr.parts
      BY <2>3, CompletePayload DEF ScanInv
    <3>3. enabled' /\ BbqrPayload(out'.parts, h, n)
      BY <1>1, <3>1, <3>2
    <3> QED
      BY <3>2, <3>3 DEF HandedOver, BbqrPayload, Size
  <2>4. CASE got # Blank /\ ~UrOk(ur) /\ ~Complete(bbqr) /\ out' = [type |-> "raw", parts |-> got]
    <3>1. Code[got.code].kind \notin {"ur", "badur"} /\ (enabled => ~IsBbqr(got))
      BY <2>4 DEF ScanInv, Ended
    <3>2. out'.type = "raw" /\ out'.parts = got /\ enabled' = enabled
      BY <1>1, <2>4
    <3> QED
      BY <3>1, <3>2 DEF HandedOver, IsBbqr
  <2> QED
    BY <1>1, <2>1, <2>2, <2>3, <2>4 DEF Result
<1> QED
  BY <1>2, <1>3, <1>4, <1>5 DEF ScanInv

\* What a code that was read does to the scan keeps the collectors apart, and
\* ends the scan only with a whole payload.
ReadGood ==
    /\ OneCollector'
    /\ got' \in Picture
    /\ got' # Blank =>
        /\ got' \in Frame
        /\ \/ UrOk(ur')
           \/ Complete(bbqr')
           \/ /\ bbqr'.num = 0
              /\ Code[got'.code].kind \notin {"ur", "badur"}
              /\ enabled => ~IsBbqr(got')

\* The parts of a message stay parts.
LEMMA UrTyped ==
    ASSUME NEW u \in SUBSET Frame, NEW f \in Frame
    PROVE  UrReceive(u, f) \in SUBSET Frame
BY DEF UrReceive

\* A code is looked at by one collector, or is the payload itself.
LEMMA CodeRead ==
    ASSUME CodesConstants, ScanInv, NEW f \in Frame, collect_any_bcur(f), enabled' = enabled
    PROVE  ReadGood
<1>1. f \in Picture /\ Blank \in Picture /\ OneCollector
  BY DEF Picture, ScanInv
<1>2. CASE Ignored
  <2>1. got' = Blank /\ bbqr' = bbqr /\ ur' = ur
    BY <1>2 DEF Ignored
  <2>2. OneCollector'
    BY <1>1, <2>1 DEF OneCollector
  <2> QED
    BY <1>1, <2>1, <2>2 DEF ReadGood
<1>3. CASE enabled /\ IsBbqr(f) /\ ur = {} /\ CollectBbqr(f)
  <2>1. /\ bbqr' = bbqr_collect(bbqr, f) /\ ur' = ur
        /\ got' = (IF Complete(bbqr') THEN f ELSE Blank)
    BY <1>3 DEF CollectBbqr
  <2>2. Collection(bbqr') /\ (bbqr'.num # 0 => DOMAIN bbqr'.parts # {})
    BY <1>1, <1>3, <2>1, CollectHolds DEF OneCollector
  <2>3. Collection(bbqr)'
    BY <2>2 DEF Collection, Collects, PartOf, Fits, Size, Nothing, Frame
  <2>4. OneCollector'
    BY <1>3, <2>1, <2>2, <2>3 DEF OneCollector
  <2> QED
    BY <1>1, <2>1, <2>4 DEF ReadGood
<1>4. CASE ~Owned /\ CollectUr(f)
  <2>1. /\ bbqr' = bbqr /\ ur' = UrReceive(ur, f) /\ got' = (IF UrOk(ur') THEN f ELSE Blank)
    BY <1>4 DEF CollectUr
  <2>2. ur' \in SUBSET Frame /\ bbqr'.num = 0
    BY <1>1, <1>4, <2>1, UrTyped DEF OneCollector, Owned
  <2>3. OneCollector'
    BY <1>1, <2>1, <2>2 DEF OneCollector
  <2> QED
    BY <1>1, <2>1, <2>3 DEF ReadGood
<1>5. CASE ~(enabled /\ IsBbqr(f)) /\ ~Owned /\ Code[f.code].kind \notin {"ur", "badur"} /\ Plain(f)
  <2>1. got' = f /\ bbqr' = bbqr /\ ur' = ur /\ bbqr'.num = 0
    BY <1>5 DEF Plain, Owned
  <2>2. OneCollector'
    BY <1>1, <2>1 DEF OneCollector
  <2> QED
    BY <1>1, <1>5, <2>1, <2>2 DEF ReadGood
<1> QED
  BY <1>2, <1>3, <1>4, <1>5 DEF collect_any_bcur

\* A picture is taken and read.
LEMMA CaptureInv ==
    ASSUME CodesConstants, ScanInv, NEW f \in Picture, Capture(f)
    PROVE  ScanInv'
<1>1. /\ camera = "capture" /\ skip' = ~skip
      /\ camera' = (IF got' # Blank THEN "exit" ELSE IF skip THEN "head" ELSE "buttons")
      /\ UNCHANGED <<calling, enabled, out, event, press, wanted, buffer, host, frame, handle>>
      /\ IF f = Blank THEN Ignored ELSE collect_any_bcur(f)
  BY DEF Capture, Onward, feed
<1>2. ReadGood
  <2>1. CASE f = Blank
    <3>1. got' = Blank /\ bbqr' = bbqr /\ ur' = ur /\ enabled' = enabled
      BY <1>1, <2>1 DEF Ignored
    <3>2. OneCollector'
      BY <3>1 DEF ScanInv, OneCollector
    <3> QED
      BY <3>1, <3>2 DEF ReadGood, Picture
  <2>2. CASE f # Blank
    <3>1. f \in Frame
      BY <2>2 DEF Picture
    <3> QED
      BY <1>1, <2>2, <3>1, CodeRead
  <2> QED
    BY <2>1, <2>2
<1>3. ScanTyped'
  <2>1. skip' \in BOOLEAN /\ camera' \in Cameras /\ camera' # "none"
    BY <1>1 DEF Cameras
  <2> QED
    BY <1>1, <1>2, <2>1 DEF ScanInv, ScanTyped, ReadGood
<1>4. Ended'
  <2>1. SUFFICES ASSUME got' # Blank
                 PROVE /\ camera' = "exit" /\ got' \in Frame
                       /\ \/ UrOk(ur)'
                          \/ Complete(bbqr)'
                          \/ /\ bbqr'.num = 0
                             /\ Code[got'.code].kind \notin {"ur", "badur"}
                             /\ enabled' => ~IsBbqr(got')
    BY DEF Ended, IsBbqr, Blank
  <2>2. UrOk(ur') => UrOk(ur)'
    BY DEF UrOk, UrWhole, Frame
  <2>3. Complete(bbqr') => Complete(bbqr)'
    BY DEF Complete
  <2> QED
    BY <1>1, <1>2, <2>1, <2>2, <2>3 DEF ReadGood
<1>5. AtRest'
  <2>1. calling
    BY <1>1 DEF ScanInv, AtRest
  <2>2. calling' /\ camera' # "none"
    BY <1>1, <2>1
  <2> QED
    BY <2>2 DEF AtRest
<1>6. HandedOver'
  BY <1>1 DEF ScanInv, HandedOver
<1> QED
  BY <1>2, <1>3, <1>4, <1>5, <1>6 DEF ScanInv, ReadGood

\* No scan has run at first.
LEMMA ScanInvInit ==
    ASSUME CodesConstants, ScanInit
    PROVE  ScanInv
<1>1. ScanTyped
  BY DEF ScanInit, ScanTyped, Cameras, Pushes, Picture
<1>2. OneCollector
  BY DEF ScanInit, OneCollector, Collection, Nothing
<1>3. Ended /\ AtRest
  BY DEF ScanInit, Ended, AtRest
<1>4. HandedOver
  BY DEF ScanInit, HandedOver, NoResult
<1> QED
  BY <1>1, <1>2, <1>3, <1>4 DEF ScanInv

\* Every step keeps the invariant.
LEMMA ScanStep ==
    ASSUME CodesConstants, ScanInv, [ScanNext]_scanVars
    PROVE  ScanInv'
<1>1. CASE \E b \in BOOLEAN : Call(b)
  BY <1>1, CallInv
<1>2. CASE Return
  BY <1>2, ReturnInv
<1>3. CASE Begin \/ LoopHead \/ Buttons
  BY <1>3, CameraInv
<1>4. CASE \E f \in Picture : Capture(f)
  BY <1>4, CaptureInv
<1>5. CASE \/ \E b \in {"exit", "help"} : PressButton(b)
           \/ PressOther \/ PressKey3
           \/ \E b \in {"other", "key3"} : LeaveHelp(b)
  BY <1>5, PressesInv
<1>6. CASE \/ \E p \in Picture : HostRead(p)
           \/ HostError \/ HostPush \/ HostIdle
  BY <1>6, HostInv
<1>7. CASE UNCHANGED scanVars
  <2>1. /\ UNCHANGED <<calling, enabled, out, bbqr, ur, got>> /\ UNCHANGED <<camera, wanted, buffer>>
        /\ UNCHANGED <<skip, event, press, host, frame, handle>>
    BY <1>7 DEF scanVars
  <2>2. ScanTyped'
    BY <2>1 DEF ScanInv, ScanTyped
  <2>3. (wanted' => camera # "none") /\ (~calling => buffer' = Blank)
    BY <2>1 DEF ScanInv, AtRest
  <2> QED
    BY <2>1, <2>2, <2>3, ScanKept
<1> QED
  BY <1>1, <1>2, <1>3, <1>4, <1>5, <1>6, <1>7 DEF ScanNext

\* The invariant of the scan holds in every state of every behaviour.
LEMMA ScanInvariance == ScanSpec => []ScanInv
<1>1. ScanInit => ScanInv
  BY CodesAssumption, ScanInvInit
<1>2. ScanInv /\ [ScanNext]_scanVars => ScanInv'
  BY CodesAssumption, ScanStep
<1> QED
  BY <1>1, <1>2, PTL DEF ScanSpec

\* Type correctness of the scan, and what bbqr_collect says of its buffer: for
\* codes of any number of parts and any block length, in whatever order parts
\* of several transfers are read, every part that is held was written inside
\* the buffer that the first one allocated, which is under the ceiling.
THEOREM ScanTypeCorrect == ScanSpec => []ScanTypeOK
<1>1. ScanInv => ScanTypeOK
  <2>1. SUFFICES ASSUME ScanInv PROVE ScanTypeOK
    OBVIOUS
  <2>2. GridOK
    BY <2>1, CodesAssumption, GridHolds DEF ScanInv
  <2> QED
    BY <2>1, <2>2 DEF ScanInv, ScanTyped, OneCollector, HandedOver, ScanTypeOK, Cameras, Pushes
<1> QED
  BY <1>1, ScanInvariance, PTL

\* bcur_scan_qr hands over one whole payload or nothing, whatever codes are held
\* up in between and however the sensor, the presses and the two threads
\* interleave; and nothing of a scan outlives it.
THEOREM ScanDelivers == ScanSpec => []DeliversOnePayload
<1>1. ScanInv => DeliversOnePayload
  <2>1. SUFFICES ASSUME ScanInv PROVE DeliversOnePayload
    OBVIOUS
  <2>2. camera = "exit" /\ got # Blank /\ bbqr.num # 0 => Complete(bbqr)
    BY <2>1 DEF ScanInv, Ended, OneCollector, UrOk, UrWhole
  <2>3. ~calling => buffer = Blank /\ bbqr = Nothing /\ ur = {}
    BY <2>1 DEF ScanInv, AtRest
  <2>4. HandedOver
    BY <2>1 DEF ScanInv
  <2> QED
    BY <2>2, <2>3, <2>4 DEF HandedOver, BbqrPayload, DeliversOnePayload
<1> QED
  BY <1>1, ScanInvariance, PTL

============================================================================
