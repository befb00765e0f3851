---------------------------- MODULE SignTxProofs ----------------------------
(***************************************************************************)
(* Proofs about the signing of transactions message by message: however    *)
(* many inputs and outputs there are and whatever the client says of them, *)
(* a signature worth anything comes after the true fee and the true        *)
(* outputs were agreed to, and every message gets its own answer.          *)
(***************************************************************************)
EXTENDS SignTx, TLAPS

----------------------------------------------------------------------------
(* The inductive invariant.                                                *)

Reading == {"params", "outputs"}
Taking  == {"input", "fee"}
Ending  == {"done", "lost"}

Plain == {Error, Ok, Empty, Committed}

\* The message that a signature answers.
Asked(i) == i + 1 + (IF use_ae THEN num_inputs ELSE 0)

Silent(id) == answers[id] = <<>>
PlainAt(id) == \E r \in Plain : answers[id] = <<r>>
SignedAt(id) ==
    \E i \in Ids : id = Asked(i) /\ inputs[i].path /\ answers[id] = <<Signature(i, inputs[i].use_ae)>>

\* What is in place once the user has agreed to everything.
Shown == agreed.outputs = ToShow /\ \A i \in DOMAIN outputs : ScriptMatches(outputs[i])
Decided ==
    /\ Shown
    /\ agreed.fee = {input_amount - Total} /\ Total <= input_amount
    /\ Len(inputs) = num_inputs

\* What the tx_input messages said: an amount is the coin's, unless the one
\* input's signature covers it.
InputInv ==
    \A i \in 1 .. Len(inputs) :
        /\ inputs[i].id = i + 1
        /\ inputs[i].use_ae => use_ae
        /\ inputs[i].path /\ inputs[i].sig_type = "v1" => use_ae /\ ~inputs[i].use_ae
        /\ inputs[i].amount = coins[i].amount \/ (num_inputs = 1 /\ inputs[i].sig_type = "v0")

TrueAmounts == \A i \in 1 .. Len(inputs) : inputs[i].amount = coins[i].amount
SumInv == TrueAmounts => input_amount = spent

\* What the user has agreed to so far.
AgreedInv ==
    /\ pc = "outputs" => \A i \in DOMAIN outputs : ScriptMatches(outputs[i])
    /\ pc \in Taking => Shown
    /\ pc = "fee" => Total <= input_amount /\ Len(inputs) = num_inputs
    /\ pc = "sign" => Decided
    /\ pc \in Reading \cup Taking => agreed.fee = {}

\* The messages loaded, and which of them wait for an answer.
InputsAwait == /\ ~Silent(1)
               /\ \A id \in 2 .. Len(answers) : Silent(id) <=> ~use_ae
AnswersInv ==
    /\ \A id \in 1 .. Len(answers) : Silent(id) \/ PlainAt(id) \/ (SignedAt(id) /\ Decided)
    /\ pc \in Reading => inputs = <<>> /\ answers = << <<>> >>
    /\ pc \in Taking => Len(answers) = Len(inputs) + 1 /\ InputsAwait
    /\ pc = "sign" => InputsAwait
    /\ pc = "sign" /\ ~use_ae => Len(answers) = num_inputs + 1
    /\ pc = "sign" /\ use_ae => num_inputs + 1 <= Len(answers) /\ Len(answers) <= 2 * num_inputs
    /\ pc \in Reading \cup Taking => \A id \in 1 .. Len(answers) : Silent(id) \/ PlainAt(id)

\* A message is left without an answer only where one error stands for all.
Excused ==
    /\ ~use_ae
    /\ \E id \in 1 .. Len(answers) : answers[id] = <<Error>>
    /\ \A id \in 1 .. Len(answers) : Silent(id) \/ PlainAt(id)
EndInv == pc = "done" => Excused \/ \A id \in 1 .. Len(answers) : ~Silent(id)

\* The parts of the type invariant; what it says of signatures follows from the
\* others.
Steps  == {"params", "outputs", "input", "fee", "sign", "done", "lost", "aborted"}
Kinds  == {"pre", "v0", "v1"}
InputType == [path : BOOLEAN, sig_type : Kinds, id : Nat, use_ae : BOOLEAN, amount : Nat]

ControlType == pc \in Steps
TxType      == use_ae \in BOOLEAN /\ num_inputs \in 1 .. MaxInputs /\ outputs \in Seq(Outputs)
TakenType   == /\ coins \in Seq(Coins) /\ inputs \in Seq(InputType)
               /\ Len(inputs) = Len(coins) /\ Len(inputs) <= num_inputs
               /\ input_amount \in Nat /\ spent \in Nat
AnswersType == answers \in Seq(Seq(Reply))
AgreedType  == /\ agreed \in [outputs : SUBSET DOMAIN outputs, fee : SUBSET {input_amount - Total}]
               /\ agreed.fee # {} => Total <= input_amount

Typed == ControlType /\ TxType /\ TakenType /\ AnswersType /\ AgreedType

IInv == Typed /\ InputInv /\ SumInv /\ AgreedInv /\ AnswersInv /\ EndInv

----------------------------------------------------------------------------
(* Sequences, the types, and what a step leaves alone.                     *)

\* The bounds are naturals.
LEMMA Bounds == MaxInputs \in Nat /\ MaxInputs > 0 /\ MaxOutputs \in Nat
<1>1. MaxInputs \in Nat \ {0} /\ MaxOutputs \in Nat \ {0}
  BY TxAssumption, Zenon
<1> QED
  BY <1>1

\* Coins, messages and outputs are records of their kinds.
LEMMA Records ==
    /\ \A c \in Coins : c.kind \in Kinds /\ c.amount \in Nat
    /\ \A m \in Messages : /\ m.path \in BOOLEAN /\ m.p2tr \in BOOLEAN /\ m.commitment \in BOOLEAN
                           /\ m.satoshi \in Nat
    /\ \A o \in Outputs : /\ o.to \in {"own", "shared", "other"} /\ o.odd \in BOOLEAN
                          /\ o.entry \in {"none", "wallet", "recovery"} /\ o.is_change \in BOOLEAN
<1>1. Coins \subseteq [kind : {"pre", "v0", "v1"}, amount : Nat]
  BY TxAssumption, Zenon
<1>2. Messages \subseteq [method : {"tx_input", "bad tx_input", "get_signature", "other"},
                          path : BOOLEAN, witness : {"yes", "no", "absent"}, p2tr : BOOLEAN,
                          commitment : BOOLEAN, input_tx : {"none", "right", "wrong"},
                          satoshi : Nat, entropy : {"none", "valid", "short"}]
  BY TxAssumption, Zenon
<1>3. Outputs \subseteq [to : {"own", "shared", "other"}, entry : {"none", "wallet", "recovery"},
                         is_change : BOOLEAN, odd : BOOLEAN, amount : Nat]
  BY TxAssumption, Zenon
<1>4. \A c \in Coins : c.kind \in Kinds /\ c.amount \in Nat
  BY <1>1 DEF Kinds
<1>5. \A m \in Messages : /\ m.path \in BOOLEAN /\ m.p2tr \in BOOLEAN /\ m.commitment \in BOOLEAN
                          /\ m.satoshi \in Nat
  BY <1>2
<1>6. \A o \in Outputs : /\ o.to \in {"own", "shared", "other"} /\ o.odd \in BOOLEAN
                         /\ o.entry \in {"none", "wallet", "recovery"} /\ o.is_change \in BOOLEAN
  BY <1>3
<1> QED
  BY <1>4, <1>5, <1>6

\* Sequences, and the empty one.
LEMMA SeqFacts ==
    /\ Len(<<>>) = 0
    /\ \A S : <<>> \in Seq(S)
    /\ \A S : \A s \in Seq(S) : /\ Len(s) \in Nat /\ DOMAIN s = 1 .. Len(s)
                                /\ (s = <<>> <=> Len(s) = 0)
                                /\ \A i \in 1 .. Len(s) : s[i] \in S
<1>1. ASSUME NEW S, NEW s \in Seq(S)
      PROVE  /\ Len(s) \in Nat /\ DOMAIN s = 1 .. Len(s) /\ (s = <<>> <=> Len(s) = 0)
             /\ \A i \in 1 .. Len(s) : s[i] \in S
  OBVIOUS
<1> QED
  BY <1>1

\* One element more.
LEMMA AppendFacts ==
    ASSUME NEW S, NEW s \in Seq(S), NEW e \in S
    PROVE  /\ Append(s, e) \in Seq(S) /\ Len(Append(s, e)) = Len(s) + 1
           /\ \A i \in 1 .. Len(s) : Append(s, e)[i] = s[i]
           /\ Append(s, e)[Len(s) + 1] = e
OBVIOUS

\* A sequence of one element.
LEMMA OneFacts ==
    ASSUME NEW S, NEW e \in S
    PROVE  <<e>> \in Seq(S) /\ <<e>> # <<>> /\ Len(<<e>>) = 1 /\ <<e>>[1] = e
OBVIOUS

\* A bounded sequence is one.
LEMMA Bounded ==
    ASSUME NEW S, NEW n \in Nat, NEW s \in BoundedSeq(S, n)
    PROVE  s \in Seq(S)
<1>1. PICK m \in 0 .. n : s \in [1 .. m -> S]
  BY DEF BoundedSeq, SeqOf
<1> QED
  BY <1>1

\* The plain replies carry no signature.
LEMMA PlainFacts ==
    /\ Plain \subseteq Reply
    /\ \A r \in Plain : r.reply \in {"error", "ok", "empty", "commitment"}
    /\ {Error, Ok, Empty, Committed} \subseteq Plain
BY DEF Plain, Reply, Error, Ok, Empty, Committed

\* A signature of an input that was read is a reply.
LEMMA SignatureTyped ==
    ASSUME Typed, NEW i \in 1 .. Len(inputs), NEW ae \in BOOLEAN, Len(inputs) = num_inputs
    PROVE  /\ Signature(i, ae) \in Reply
           /\ Signature(i, ae).reply = "signature" /\ Signature(i, ae).input = i
           /\ Signature(i, ae).sig_type = inputs[i].sig_type /\ Signature(i, ae).ae = ae
           /\ Signature(i, ae).covers = CASE inputs[i].sig_type = "pre" -> {}
                                          [] inputs[i].sig_type = "v0"  -> {<<i, inputs[i].amount>>}
                                          [] inputs[i].sig_type = "v1"  -> {<<j, inputs[j].amount>> : j \in Ids}
<1>1. /\ inputs \in Seq(InputType) /\ Len(inputs) \in Nat
      /\ \A j \in 1 .. Len(inputs) : inputs[j] \in InputType
  BY SeqFacts DEF Typed, TakenType
<1>2. inputs[i].sig_type \in {"pre", "v0", "v1"} /\ inputs[i].amount \in Nat /\ i \in Nat
  BY <1>1 DEF InputType, Kinds
<1>3. \A j \in Ids : j \in Nat /\ inputs[j].amount \in Nat
  BY <1>1 DEF Ids, InputType
<1> DEFINE c == CASE inputs[i].sig_type = "pre" -> {}
                  [] inputs[i].sig_type = "v0"  -> {<<i, inputs[i].amount>>}
                  [] inputs[i].sig_type = "v1"  -> {<<j, inputs[j].amount>> : j \in Ids}
<1>4. c \in SUBSET (Nat \X Nat)
  <2>1. {<<j, inputs[j].amount>> : j \in Ids} \in SUBSET (Nat \X Nat)
    BY <1>3
  <2>2. {<<i, inputs[i].amount>>} \in SUBSET (Nat \X Nat)
    BY <1>2
  <2>3. CASE inputs[i].sig_type = "pre"
    BY <2>3
  <2>4. CASE inputs[i].sig_type = "v0"
    BY <2>2, <2>4
  <2>5. CASE inputs[i].sig_type = "v1"
    BY <2>1, <2>5
  <2> QED
    BY <1>2, <2>3, <2>4, <2>5
<1>5. Signature(i, ae) = [reply |-> "signature", input |-> i, sig_type |-> inputs[i].sig_type,
                          ae |-> ae, covers |-> c]
  BY DEF Signature, Covers
<1> HIDE DEF c
<1>6. Signature(i, ae) \in [reply : {"signature"}, input : Nat, sig_type : {"pre", "v0", "v1"},
                            ae : BOOLEAN, covers : SUBSET (Nat \X Nat)]
  BY <1>2, <1>4, <1>5
<1> QED
  BY <1>5, <1>6 DEF Reply, c

\* What an invariant state has.
LEMMA Holds ==
    ASSUME IInv
    PROVE  /\ Typed /\ InputInv /\ SumInv /\ AgreedInv /\ AnswersInv /\ EndInv
           /\ num_inputs \in Nat /\ num_inputs > 0 /\ use_ae \in BOOLEAN
           /\ Len(inputs) \in Nat /\ Len(inputs) = Len(coins) /\ Len(inputs) <= num_inputs
           /\ \A i \in 1 .. Len(inputs) : inputs[i] \in InputType /\ coins[i] \in Coins
           /\ Len(answers) \in Nat /\ DOMAIN answers = 1 .. Len(answers)
           /\ \A id \in 1 .. Len(answers) : answers[id] \in Seq(Reply)
           /\ \A i \in DOMAIN outputs : outputs[i] \in Outputs
<1>1. Typed /\ TxType /\ TakenType /\ AnswersType
  BY DEF IInv, Typed
<1>2. num_inputs \in Nat /\ num_inputs > 0 /\ use_ae \in BOOLEAN
  BY <1>1, Bounds DEF TxType
<1>3. /\ Len(inputs) \in Nat /\ Len(inputs) = Len(coins) /\ Len(inputs) <= num_inputs
      /\ \A i \in 1 .. Len(inputs) : inputs[i] \in InputType /\ coins[i] \in Coins
  BY <1>1, SeqFacts DEF TakenType
<1>4. /\ Len(answers) \in Nat /\ DOMAIN answers = 1 .. Len(answers)
      /\ \A id \in 1 .. Len(answers) : answers[id] \in Seq(Reply)
  BY <1>1, SeqFacts DEF AnswersType
<1>5. \A i \in DOMAIN outputs : outputs[i] \in Outputs
  BY <1>1, SeqFacts DEF TxType
<1> QED
  BY <1>1, <1>2, <1>3, <1>4, <1>5 DEF IInv

\* Most steps change neither the transaction nor what its messages left.
LEMMA Frame ==
    ASSUME IInv, UNCHANGED <<tx, taken>>
    PROVE  /\ TxType' /\ TakenType' /\ InputInv' /\ SumInv'
           /\ use_ae' = use_ae /\ num_inputs' = num_inputs /\ inputs' = inputs /\ outputs' = outputs
           /\ input_amount' = input_amount /\ Total' = Total /\ ToShow' = ToShow
           /\ agreed' = agreed => AgreedType' /\ (Shown' <=> Shown) /\ (Decided' <=> Decided)
<1>1. /\ use_ae' = use_ae /\ num_inputs' = num_inputs /\ outputs' = outputs /\ coins' = coins
      /\ inputs' = inputs /\ input_amount' = input_amount /\ spent' = spent
  BY DEF tx, taken
<1>2. TxType' /\ TakenType'
  BY <1>1 DEF IInv, Typed, TxType, TakenType
<1>3. InputInv' /\ SumInv'
  BY <1>1 DEF IInv, InputInv, SumInv, TrueAmounts
<1>4. Total' = Total /\ ToShow' = ToShow
  BY <1>1 DEF Total, ToShow, Change
<1>5. ASSUME agreed' = agreed
      PROVE  AgreedType' /\ (Shown' <=> Shown) /\ (Decided' <=> Decided)
  <2>1. Shown' <=> Shown
    BY <1>1, <1>4, <1>5 DEF Shown, ScriptMatches
  <2> QED
    BY <1>1, <1>4, <1>5, <2>1 DEF IInv, Typed, AgreedType, Decided
<1> QED
  BY <1>1, <1>2, <1>3, <1>4, <1>5

\* With the same answers a message stands as before.
LEMMA SameStanding ==
    ASSUME IInv, UNCHANGED <<tx, taken>>, NEW id, answers'[id] = answers[id]
    PROVE  /\ Silent(id)' <=> Silent(id)
           /\ PlainAt(id)' <=> PlainAt(id)
           /\ SignedAt(id)' <=> SignedAt(id)
<1>1. use_ae' = use_ae /\ num_inputs' = num_inputs /\ inputs' = inputs
  BY Frame
<1>2. Silent(id)' <=> Silent(id)
  BY DEF Silent
<1>3. PlainAt(id)' <=> PlainAt(id)
  BY DEF PlainAt, Plain, Error, Ok, Empty, Committed
<1>4. SignedAt(id)' <=> SignedAt(id)
  BY <1>1 DEF SignedAt, Signature, Covers, Asked, Ids
<1> QED
  BY <1>2, <1>3, <1>4

----------------------------------------------------------------------------
(* Answers.                                                                *)

\* A message that is loaded and answered.
LEMMA Loaded ==
    ASSUME IInv, UNCHANGED <<tx, taken>>, NEW r \in Reply, answers' = Append(answers, <<r>>)
    PROVE  /\ AnswersType' /\ Len(answers') = Len(answers) + 1
           /\ \A id \in 1 .. Len(answers) : /\ Silent(id)' <=> Silent(id)
                                            /\ PlainAt(id)' <=> PlainAt(id)
                                            /\ SignedAt(id)' <=> SignedAt(id)
           /\ answers'[Len(answers) + 1] = <<r>>
           /\ \A n : n = Len(answers) + 1 => ~Silent(n)' /\ (r \in Plain => PlainAt(n)')
<1>1. answers \in Seq(Seq(Reply)) /\ <<r>> \in Seq(Reply) /\ <<r>> # <<>>
  BY Holds, OneFacts DEF Typed, AnswersType
<1>2. /\ answers' \in Seq(Seq(Reply)) /\ Len(answers') = Len(answers) + 1
      /\ \A id \in 1 .. Len(answers) : answers'[id] = answers[id]
      /\ answers'[Len(answers) + 1] = <<r>>
  BY <1>1, AppendFacts
<1>3. Len(answers)' = Len(answers) + 1 /\ answers'[Len(answers')] = <<r>>
  BY <1>2
<1>4. \A id \in 1 .. Len(answers) : /\ Silent(id)' <=> Silent(id)
                                    /\ PlainAt(id)' <=> PlainAt(id)
                                    /\ SignedAt(id)' <=> SignedAt(id)
  BY <1>2, SameStanding
<1>5. AnswersType'
  BY <1>2 DEF AnswersType, Reply, Error, Ok, Empty, Committed
<1>6. ASSUME NEW n, answers'[n] = <<r>>
      PROVE  ~Silent(n)' /\ (r \in Plain => PlainAt(n)')
  BY <1>1, <1>6 DEF Silent, PlainAt, Plain, Error, Ok, Empty, Committed
<1> QED
  BY <1>2, <1>4, <1>5, <1>6

\* An error to a message that waits for its answer.
LEMMA Answered ==
    ASSUME IInv, UNCHANGED <<tx, taken>>, NEW n \in 1 .. Len(answers), Silent(n),
           NEW r \in Plain, Answer(n, r)
    PROVE  /\ AnswersType' /\ Len(answers') = Len(answers)
           /\ \A id \in 1 .. Len(answers) : id # n => /\ Silent(id)' <=> Silent(id)
                                                      /\ PlainAt(id)' <=> PlainAt(id)
                                                      /\ SignedAt(id)' <=> SignedAt(id)
           /\ answers'[n] = <<r>> /\ ~Silent(n)' /\ PlainAt(n)'
<1>1. r \in Reply /\ <<r>> \in Seq(Reply) /\ <<r>> # <<>>
  BY PlainFacts, OneFacts
<1>2. answers \in Seq(Seq(Reply)) /\ Append(answers[n], r) = <<r>>
  BY Holds DEF Typed, AnswersType, Silent
<1>3. answers' = [answers EXCEPT ![n] = <<r>>]
  BY <1>2 DEF Answer
<1>4. /\ answers' \in Seq(Seq(Reply)) /\ Len(answers') = Len(answers)
      /\ \A id \in 1 .. Len(answers) : id # n => answers'[id] = answers[id]
      /\ answers'[n] = <<r>>
  BY <1>1, <1>2, <1>3
<1>5. \A id \in 1 .. Len(answers) : id # n => /\ Silent(id)' <=> Silent(id)
                                              /\ PlainAt(id)' <=> PlainAt(id)
                                              /\ SignedAt(id)' <=> SignedAt(id)
  BY <1>4, SameStanding
<1>6. AnswersType'
  BY <1>4 DEF AnswersType, Reply, Error, Ok, Empty, Committed
<1>7. ~Silent(n)' /\ PlainAt(n)'
  BY <1>1, <1>4 DEF Silent, PlainAt, Plain, Error, Ok, Empty, Committed
<1> QED
  BY <1>4, <1>5, <1>6, <1>7

\* A step that ends the call keeps the invariant if it keeps the answers.
LEMMA Ends ==
    ASSUME IInv, UNCHANGED <<tx, taken, agreed>>, pc' \in {"done", "lost"}, AnswersType',
           \A id \in 1 .. Len(answers') : Silent(id)' \/ PlainAt(id)' \/ (SignedAt(id)' /\ Decided),
           EndInv'
    PROVE  IInv'
<1>1. /\ UNCHANGED <<tx, taken>> /\ agreed' = agreed
      /\ pc' \notin Reading \cup Taking /\ pc' \notin {"outputs", "fee", "sign"} /\ pc' \in Steps
  BY DEF Reading, Taking, Steps
<1>2. /\ TxType' /\ TakenType' /\ InputInv' /\ SumInv' /\ AgreedType' /\ (Decided' <=> Decided)
  BY <1>1, Frame
<1>3. Typed'
  BY <1>1, <1>2 DEF Typed, ControlType, Steps
<1>4. AgreedInv'
  BY <1>1 DEF AgreedInv, Reading, Taking
<1>5. AnswersInv'
  BY <1>1, <1>2 DEF AnswersInv, Reading, Taking
<1> QED
  BY <1>2, <1>3, <1>4, <1>5 DEF IInv

\* A call whose client is gone.
LEMMA LostInv ==
    ASSUME IInv, UNCHANGED <<tx, taken, agreed>>, Lost
    PROVE  IInv'
<1>1. UNCHANGED <<tx, taken>> /\ answers' = answers /\ pc' = "lost"
  BY DEF Lost
<1>2. AnswersType'
  BY <1>1, Holds DEF Typed, AnswersType, Reply, Error, Ok, Empty, Committed
<1>3. \A id \in 1 .. Len(answers') : Silent(id)' \/ PlainAt(id)' \/ (SignedAt(id)' /\ Decided)
  BY <1>1, Holds, SameStanding DEF AnswersInv
<1>4. EndInv'
  BY <1>1 DEF EndInv
<1> QED
  BY <1>1, <1>2, <1>3, <1>4, Ends

\* A call that ends with an error to a further message, when no message is silent
\* or none is signed.
LEMMA ErrorLoadedInv ==
    ASSUME IInv, UNCHANGED <<tx, taken, agreed>>, LoadAndAnswer(<<Error>>), pc' = "done",
           \/ \A id \in 1 .. Len(answers) : ~Silent(id)
           \/ ~use_ae /\ \A id \in 1 .. Len(answers) : Silent(id) \/ PlainAt(id)
    PROVE  IInv'
<1>1. UNCHANGED <<tx, taken>> /\ answers' = Append(answers, <<Error>>) /\ Error \in Plain /\ Error \in Reply
  BY PlainFacts DEF LoadAndAnswer
<1>2. /\ AnswersType' /\ Len(answers') = Len(answers) + 1 /\ answers'[Len(answers) + 1] = <<Error>>
      /\ \A n : n = Len(answers) + 1 => ~Silent(n)' /\ PlainAt(n)'
      /\ \A id \in 1 .. Len(answers) : /\ Silent(id)' <=> Silent(id)
                                       /\ PlainAt(id)' <=> PlainAt(id)
                                       /\ SignedAt(id)' <=> SignedAt(id)
  BY <1>1, Loaded
<1>3. Len(answers) \in Nat /\ \A id \in 1 .. Len(answers') : id \in 1 .. Len(answers) \/ id = Len(answers) + 1
  BY <1>2, Holds
<1>4. \A id \in 1 .. Len(answers') : Silent(id)' \/ PlainAt(id)' \/ (SignedAt(id)' /\ Decided)
  BY <1>2, <1>3, Holds DEF AnswersInv
<1>5. CASE \A id \in 1 .. Len(answers) : ~Silent(id)
  <2>1. \A id \in 1 .. Len(answers') : ~Silent(id)'
    BY <1>2, <1>3, <1>5
  <2> QED
    BY <1>1, <1>2, <1>4, <2>1, Ends DEF EndInv
<1>6. CASE ~use_ae /\ \A id \in 1 .. Len(answers) : Silent(id) \/ PlainAt(id)
  <2>1. \A id \in 1 .. Len(answers') : Silent(id)' \/ PlainAt(id)'
    BY <1>2, <1>3, <1>6
  <2>2. Len(answers) + 1 \in 1 .. Len(answers')
    BY <1>2, Holds
  <2>3. Error' = Error /\ use_ae' = use_ae
    BY <1>1, Frame DEF Error
  <2>4. EndInv'
    BY <1>2, <1>6, <2>1, <2>2, <2>3 DEF EndInv, Excused
  <2> QED
    BY <1>1, <1>2, <1>4, <2>4, Ends
<1> QED
  BY <1>5, <1>6

\* A call that ends with an error to its current message, when that one waits for
\* its answer and no message is signed.
LEMMA RejectInv ==
    ASSUME IInv, UNCHANGED <<tx, taken, agreed>>, NEW n \in 1 .. Len(answers), Answer(n, Error), pc' = "done",
           Silent(n), \A id \in 1 .. Len(answers) : Silent(id) \/ PlainAt(id),
           ~use_ae \/ Len(answers) = 1
    PROVE  IInv'
<1>1. UNCHANGED <<tx, taken>> /\ Error \in Plain
  BY PlainFacts
<1>2. /\ AnswersType' /\ Len(answers') = Len(answers) /\ answers'[n] = <<Error>>
      /\ ~Silent(n)' /\ PlainAt(n)'
      /\ \A id \in 1 .. Len(answers) : id # n => /\ Silent(id)' <=> Silent(id)
                                                 /\ PlainAt(id)' <=> PlainAt(id)
                                                 /\ SignedAt(id)' <=> SignedAt(id)
  BY <1>1, Answered
<1>3. \A id \in 1 .. Len(answers') : Silent(id)' \/ PlainAt(id)'
  BY <1>2
<1>4. EndInv'
  <2>1. CASE Len(answers) = 1
    <3>1. \A id \in 1 .. Len(answers') : ~Silent(id)'
      BY <1>2, <2>1
    <3> QED
      BY <3>1 DEF EndInv
  <2>2. CASE ~use_ae
    <3>1. Error' = Error /\ use_ae' = use_ae
      BY <1>1, Frame DEF Error
    <3> QED
      BY <1>2, <1>3, <2>2, <3>1 DEF EndInv, Excused
  <2> QED
    BY <2>1, <2>2
<1> QED
  BY <1>1, <1>2, <1>3, <1>4, Ends

----------------------------------------------------------------------------
(* The transaction and its outputs.                                        *)

\* While the transaction is read its message is the only one.
LEMMA ReadingFacts ==
    ASSUME IInv, pc \in Reading
    PROVE  /\ Len(answers) = 1 /\ 1 \in 1 .. Len(answers) /\ Silent(1) /\ Current = 1
           /\ inputs = <<>> /\ Len(inputs) = 0
           /\ \A id \in 1 .. Len(answers) : Silent(id) \/ PlainAt(id)
<1>1. answers = << <<>> >> /\ inputs = <<>>
  BY Holds DEF AnswersInv
<1> QED
  BY <1>1, Holds DEF AnswersInv, Silent, Current

\* The parameters were read.
LEMMA ParamsReadInv ==
    ASSUME IInv, ParamsRead
    PROVE  IInv'
<1>1. /\ pc = "params" /\ pc' = "outputs" /\ UNCHANGED <<tx, taken>> /\ agreed' = agreed /\ answers' = answers
      /\ \A i \in DOMAIN outputs : ScriptMatches(outputs[i])
  BY DEF ParamsRead
<1>2. pc \in Reading
  BY <1>1 DEF Reading
<1>3. /\ TxType' /\ TakenType' /\ InputInv' /\ SumInv' /\ AgreedType'
      /\ outputs' = outputs /\ inputs' = inputs
  BY <1>1, Frame
<1>4. AnswersType'
  BY <1>1, Holds DEF Typed, AnswersType, Reply, Error, Ok, Empty, Committed
<1>5. Typed'
  BY <1>1, <1>3, <1>4 DEF Typed, ControlType, Steps
<1>6. AgreedInv'
  BY <1>1, <1>2, <1>3, Holds DEF AgreedInv, Reading, Taking, ScriptMatches
<1>7. \A id \in 1 .. Len(answers') : Silent(id)' \/ PlainAt(id)'
  BY <1>1, <1>2, SameStanding, ReadingFacts
<1>8. AnswersInv'
  BY <1>1, <1>2, <1>3, <1>7, Holds DEF AnswersInv, Reading, Taking
<1>9. EndInv'
  BY <1>1 DEF EndInv
<1> QED
  BY <1>3, <1>5, <1>6, <1>8, <1>9 DEF IInv

\* A parameter or the outputs are refused.
LEMMA ReadingEndsInv ==
    ASSUME IInv, ParamsRejected \/ OutputsNo
    PROVE  IInv'
<1>1. pc \in Reading /\ Answer(Current, Error) /\ pc' = "done" /\ UNCHANGED <<tx, taken, agreed>>
  BY DEF ParamsRejected, OutputsNo, Reject, Reading
<1> QED
  BY <1>1, ReadingFacts, RejectInv

\* The outputs were agreed to.
LEMMA OutputsYesInv ==
    ASSUME IInv, OutputsYes
    PROVE  IInv'
<1>1. /\ pc = "outputs" /\ Answer(Current, Ok) /\ pc' = "input" /\ UNCHANGED <<tx, taken>>
      /\ agreed' = [agreed EXCEPT !.outputs = ToShow]
  BY DEF OutputsYes
<1>2. pc \in Reading /\ Ok \in Plain
  BY <1>1, PlainFacts DEF Reading
<1>3. /\ TxType' /\ TakenType' /\ InputInv' /\ SumInv' /\ outputs' = outputs /\ inputs' = inputs
      /\ use_ae' = use_ae /\ Total' = Total /\ ToShow' = ToShow /\ input_amount' = input_amount
  BY <1>1, Frame
<1>4. /\ AnswersType' /\ Len(answers') = 1 /\ ~Silent(1)' /\ PlainAt(1)'
  BY <1>1, <1>2, ReadingFacts, Answered
<1>5. /\ agreed \in [outputs : SUBSET DOMAIN outputs, fee : SUBSET {input_amount - Total}]
      /\ agreed.fee = {} /\ \A i \in DOMAIN outputs : ScriptMatches(outputs[i])
  BY <1>1, <1>2, Holds DEF Typed, AgreedType, AgreedInv
<1>6. ToShow \in SUBSET DOMAIN outputs
  BY DEF ToShow
<1>7. /\ agreed' \in [outputs : SUBSET DOMAIN outputs, fee : SUBSET {input_amount - Total}]
      /\ agreed'.outputs = ToShow /\ agreed'.fee = {}
  BY <1>1, <1>5, <1>6
<1>8. AgreedType'
  BY <1>3, <1>7 DEF AgreedType
<1>9. Typed'
  BY <1>1, <1>3, <1>4, <1>8 DEF Typed, ControlType, Steps
<1>10. Shown'
  BY <1>3, <1>5, <1>7 DEF Shown, ScriptMatches
<1>11. AgreedInv'
  BY <1>1, <1>7, <1>10 DEF AgreedInv, Reading, Taking
<1>12. Len(inputs)' = 0 /\ \A id \in 1 .. Len(answers)' : id = 1
  BY <1>2, <1>3, <1>4, ReadingFacts
<1>13. InputsAwait'
  BY <1>4, <1>12 DEF InputsAwait
<1>14. AnswersInv'
  BY <1>1, <1>4, <1>12, <1>13 DEF AnswersInv, Reading, Taking
<1>15. EndInv'
  BY <1>1 DEF EndInv
<1> QED
  BY <1>3, <1>9, <1>11, <1>14, <1>15 DEF IInv

----------------------------------------------------------------------------
(* The inputs.                                                             *)

\* What a tx_input that is taken leaves.
LEMMA TakenFacts ==
    ASSUME NEW m \in Messages, NEW coin \in Coins, TxType, SigningDataOK(m), AmountOK(m),
           TaprootFlowOK(m)
    PROVE  /\ SigType(m) \in Kinds /\ Amount(m, coin) \in Nat
           /\ (use_ae /\ m.path /\ m.commitment) \in BOOLEAN
           /\ m.path /\ SigType(m) = "v1" => use_ae /\ ~m.commitment
           /\ Amount(m, coin) = coin.amount \/ (num_inputs = 1 /\ SigType(m) = "v0")
<1>1. /\ m.path \in BOOLEAN /\ m.p2tr \in BOOLEAN /\ m.commitment \in BOOLEAN /\ m.satoshi \in Nat
      /\ coin.amount \in Nat
  BY Records
<1>2. SigType(m) \in Kinds
  BY DEF SigType, WitnessType, Kinds
<1>3. Amount(m, coin) \in Nat
  BY <1>1 DEF Amount
<1>4. m.path /\ SigType(m) = "v1" => m.p2tr
  BY DEF SigType, WitnessType
<1>5. m.path /\ SigType(m) = "v1" => use_ae /\ ~m.commitment
  BY <1>1, <1>4 DEF SigningDataOK, TaprootFlowOK
<1>6. Amount(m, coin) = coin.amount \/ (num_inputs = 1 /\ SigType(m) = "v0")
  BY DEF Amount, AmountOK
<1> QED
  BY <1>2, <1>3, <1>5, <1>6

\* A tx_input was taken.
LEMMA InputTakenInv ==
    ASSUME IInv, InputTaken
    PROVE  IInv'
<1>1. PICK m \in Messages, coin \in Coins :
        /\ SigningDataOK(m) /\ AmountOK(m) /\ TaprootFlowOK(m)
        /\ coins' = Append(coins, coin)
        /\ inputs' = Append(inputs, [path |-> m.path, sig_type |-> SigType(m), id |-> Current + 1,
                                     use_ae |-> use_ae /\ m.path /\ m.commitment,
                                     amount |-> Amount(m, coin)])
        /\ input_amount' = input_amount + Amount(m, coin)
        /\ spent' = spent + coin.amount
        /\ LoadAndAnswer(IF ~use_ae THEN <<>>
                         ELSE IF m.path /\ m.commitment THEN <<Committed>> ELSE <<Empty>>)
  BY DEF InputTaken
<1>2. /\ pc = "input" /\ pc' = "input" /\ Len(inputs) < num_inputs /\ agreed' = agreed
      /\ use_ae' = use_ae /\ num_inputs' = num_inputs /\ outputs' = outputs
  BY DEF InputTaken, tx
<1>3. pc \in Taking /\ pc' \in Taking /\ pc' \notin Reading /\ pc' \notin {"fee", "sign", "done", "outputs"}
  BY <1>2 DEF Taking, Reading
<1>4. /\ SigType(m) \in Kinds /\ Amount(m, coin) \in Nat
      /\ (use_ae /\ m.path /\ m.commitment) \in BOOLEAN
      /\ m.path /\ SigType(m) = "v1" => use_ae /\ ~m.commitment
      /\ Amount(m, coin) = coin.amount \/ (num_inputs = 1 /\ SigType(m) = "v0")
  BY <1>1, Holds, TakenFacts DEF Typed
<1>5. m.path \in BOOLEAN /\ coin.amount \in Nat
  BY Records
<1> DEFINE rec == [path |-> m.path, sig_type |-> SigType(m), id |-> Current + 1,
                   use_ae |-> use_ae /\ m.path /\ m.commitment, amount |-> Amount(m, coin)]
           n == Len(inputs) + 1
<1>6. Len(answers) = n /\ Current = n /\ n \in Nat \ {0} /\ Len(coins) + 1 = n
  BY <1>3, Holds DEF AnswersInv, Current
<1>7. rec \in InputType
  BY <1>4, <1>5, <1>6 DEF InputType
<1>8. /\ inputs \in Seq(InputType) /\ coins \in Seq(Coins) /\ input_amount \in Nat /\ spent \in Nat
  BY Holds DEF Typed, TakenType
<1>9. /\ inputs' \in Seq(InputType) /\ Len(inputs') = n /\ inputs'[n] = rec
      /\ \A i \in 1 .. Len(inputs) : inputs'[i] = inputs[i]
      /\ coins' \in Seq(Coins) /\ Len(coins') = n /\ coins'[n] = coin
      /\ \A i \in 1 .. Len(inputs) : coins'[i] = coins[i]
  <2>1. inputs' = Append(inputs, rec) /\ coins' = Append(coins, coin) /\ Len(coins) = Len(inputs)
    BY <1>1, Holds
  <2> HIDE DEF rec
  <2> QED
    BY <1>7, <1>8, <2>1, AppendFacts
<1>10. \A i \in 1 .. Len(inputs') : i \in 1 .. Len(inputs) \/ i = n
  BY <1>6, <1>9, Holds
<1>11. rec.id = n + 1 /\ rec.amount = Amount(m, coin) /\ rec.path = m.path /\ rec.sig_type = SigType(m)
  BY <1>6
<1>12. rec.use_ae => use_ae /\ m.commitment
  OBVIOUS
<1> HIDE DEF rec
<1>13. TxType' /\ TakenType'
  <2>1. input_amount' \in Nat /\ spent' \in Nat
    BY <1>1, <1>4, <1>5, <1>8
  <2>2. n <= num_inputs
    BY <1>2, Holds
  <2> QED
    BY <1>2, <1>9, <2>1, <2>2, Holds DEF Typed, TxType, TakenType
<1>14. InputInv'
  <2> SUFFICES ASSUME NEW i \in 1 .. Len(inputs')
               PROVE  /\ inputs'[i].id = i + 1
                      /\ inputs'[i].use_ae => use_ae
                      /\ inputs'[i].path /\ inputs'[i].sig_type = "v1" => use_ae /\ ~inputs'[i].use_ae
                      /\ \/ inputs'[i].amount = coins'[i].amount
                         \/ num_inputs = 1 /\ inputs'[i].sig_type = "v0"
    BY <1>2 DEF InputInv
  <2>1. CASE i \in 1 .. Len(inputs)
    BY <1>9, <2>1, Holds DEF InputInv
  <2>2. CASE i = n
    BY <1>4, <1>9, <1>11, <1>12, <2>2
  <2> QED
    BY <1>10, <2>1, <2>2
<1>15. SumInv'
  <2> SUFFICES ASSUME TrueAmounts' PROVE input_amount' = spent'
    BY DEF SumInv
  <2>1. \A i \in 1 .. Len(inputs') : inputs'[i].amount = coins'[i].amount
    BY DEF TrueAmounts
  <2>2. n \in 1 .. Len(inputs') /\ 1 .. Len(inputs) \subseteq 1 .. Len(inputs')
    BY <1>6, <1>9, Holds
  <2>3. Amount(m, coin) = coin.amount
    BY <1>9, <1>11, <2>1, <2>2
  <2>4. TrueAmounts
    BY <1>9, <2>1, <2>2 DEF TrueAmounts
  <2> QED
    BY <1>1, <2>3, <2>4, Holds DEF SumInv
<1>16. /\ agreed.fee = {} /\ Shown
  BY <1>3, Holds DEF AgreedInv
<1>17. Total' = Total /\ ToShow' = ToShow
  BY <1>2 DEF Total, ToShow, Change
<1>18. AgreedType'
  <2>1. agreed \in [outputs : SUBSET DOMAIN outputs, fee : SUBSET {input_amount - Total}]
    BY Holds DEF Typed, AgreedType
  <2>2. agreed \in [outputs : SUBSET DOMAIN outputs, fee : SUBSET {input_amount' - Total}]
    BY <1>16, <2>1
  <2> QED
    BY <1>2, <1>16, <1>17, <2>2 DEF AgreedType
<1>19. AgreedInv'
  <2>1. Shown'
    BY <1>2, <1>16, <1>17 DEF Shown, ScriptMatches
  <2> QED
    BY <1>2, <1>3, <1>16, <2>1 DEF AgreedInv
<1> DEFINE new == IF ~use_ae THEN <<>> ELSE IF m.path /\ m.commitment THEN <<Committed>> ELSE <<Empty>>
<1>20. /\ new \in Seq(Reply) /\ (new = <<>> <=> ~use_ae)
       /\ new = <<>> \/ \E r \in Plain : new = <<r>>
  <2>1. /\ Committed \in Plain /\ Empty \in Plain /\ Committed \in Reply /\ Empty \in Reply
    BY PlainFacts
  <2>2. /\ <<Committed>> \in Seq(Reply) /\ <<Empty>> \in Seq(Reply) /\ <<>> \in Seq(Reply)
        /\ <<Committed>> # <<>> /\ <<Empty>> # <<>>
    BY <2>1, OneFacts, SeqFacts
  <2>3. CASE ~use_ae
    BY <2>2, <2>3
  <2>4. CASE use_ae /\ m.path /\ m.commitment
    BY <2>1, <2>2, <2>4
  <2>5. CASE use_ae /\ ~(m.path /\ m.commitment)
    BY <2>1, <2>2, <2>5
  <2> QED
    BY <2>3, <2>4, <2>5
<1>21. answers' = Append(answers, new)
  BY <1>1 DEF LoadAndAnswer
<1> HIDE DEF new
<1>22. /\ answers' \in Seq(Seq(Reply)) /\ Len(answers') = n + 1 /\ answers'[n + 1] = new
       /\ \A id \in 1 .. Len(answers) : answers'[id] = answers[id]
  BY <1>6, <1>20, <1>21, Holds, AppendFacts DEF Typed, AnswersType
<1>23. AnswersType'
  BY <1>22 DEF AnswersType, Reply, Error, Ok, Empty, Committed
<1>24. \A id \in 1 .. Len(answers') : id \in 1 .. Len(answers) \/ id = n + 1
  BY <1>6, <1>22
<1>25. \A id \in 1 .. Len(answers) : (Silent(id)' <=> Silent(id)) /\ (PlainAt(id)' <=> PlainAt(id))
  BY <1>22 DEF Silent, PlainAt, Plain, Error, Ok, Empty, Committed
<1>26. ASSUME NEW id, id = n + 1 PROVE (Silent(id)' <=> ~use_ae) /\ (Silent(id)' \/ PlainAt(id)')
  BY <1>20, <1>22, <1>26 DEF Silent, PlainAt, Plain, Error, Ok, Empty, Committed
<1>27. \A id \in 1 .. Len(answers') : Silent(id)' \/ PlainAt(id)'
  BY <1>3, <1>24, <1>25, <1>26, Holds DEF AnswersInv
<1>28. InputsAwait /\ 1 \in 1 .. Len(answers)
  BY <1>3, <1>6, Holds DEF AnswersInv
<1>29. InputsAwait'
  <2>1. ~Silent(1)'
    BY <1>25, <1>28 DEF InputsAwait
  <2>2. \A id \in 2 .. Len(answers') : Silent(id)' <=> ~use_ae
    <3>1. \A id \in 2 .. Len(answers') : (id \in 1 .. Len(answers) /\ id \in 2 .. Len(answers)) \/ id = n + 1
      BY <1>6, <1>22
    <3> QED
      BY <1>25, <1>26, <1>28, <3>1 DEF InputsAwait
  <2> QED
    BY <1>2, <2>1, <2>2 DEF InputsAwait
<1>30. AnswersInv'
  BY <1>3, <1>9, <1>22, <1>27, <1>29 DEF AnswersInv
<1>31. EndInv'
  BY <1>3 DEF EndInv
<1>32. Typed'
  BY <1>2, <1>13, <1>18, <1>23 DEF Typed, ControlType, Steps
<1> QED
  BY <1>14, <1>15, <1>19, <1>30, <1>31, <1>32 DEF IInv

\* Where an input is awaited or the fee is asked for, no signature has been made.
LEMMA TakingFacts ==
    ASSUME IInv, pc \in Taking
    PROVE  /\ \A id \in 1 .. Len(answers) : Silent(id) \/ PlainAt(id)
           /\ \/ \A id \in 1 .. Len(answers) : ~Silent(id)
              \/ ~use_ae
           /\ Len(answers) = Len(inputs) + 1
           /\ ~use_ae => \A id \in 2 .. Len(answers) : Silent(id)
<1>1. /\ \A id \in 1 .. Len(answers) : Silent(id) \/ PlainAt(id)
      /\ InputsAwait /\ Len(answers) = Len(inputs) + 1
  BY Holds DEF AnswersInv
<1>2. \A id \in 1 .. Len(answers) : id = 1 \/ id \in 2 .. Len(answers)
  BY Holds
<1> QED
  BY <1>1, <1>2 DEF InputsAwait

\* A tx_input was refused, or never came.
LEMMA InputEndsInv ==
    ASSUME IInv, InputRejected \/ InputLost
    PROVE  IInv'
<1>1. pc \in Taking /\ UNCHANGED <<tx, taken, agreed>>
  BY DEF InputRejected, InputLost, Taking
<1>2. CASE InputRejected
  BY <1>1, <1>2, TakingFacts, ErrorLoadedInv DEF InputRejected
<1>3. CASE InputLost
  BY <1>1, <1>3, LostInv DEF InputLost
<1> QED
  BY <1>2, <1>3

\* The call ends after all inputs: the error goes to the last of them in the one
\* flow, to the message after it in the other.
LEMMA RejectLastInv ==
    ASSUME IInv, RejectLast, pc \in Taking, Len(inputs) = num_inputs, UNCHANGED <<tx, taken, agreed>>
    PROVE  IInv'
<1>1. CASE use_ae /\ Lost
  BY <1>1, LostInv
<1>2. CASE use_ae /\ LoadAndAnswer(<<Error>>) /\ pc' = "done"
  BY <1>2, TakingFacts, ErrorLoadedInv
<1>3. CASE ~use_ae /\ Reject
  <2>1. Len(answers) \in 1 .. Len(answers) /\ Len(answers) \in 2 .. Len(answers)
    BY Holds, TakingFacts
  <2>2. Answer(Len(answers), Error) /\ pc' = "done"
    BY <1>3 DEF Reject, Current
  <2> QED
    BY <1>3, <2>1, <2>2, TakingFacts, RejectInv
<1> QED
  BY <1>1, <1>2, <1>3 DEF RejectLast

\* A taproot hash fails, the outputs exceed the inputs, or the fee is refused.
LEMMA TakingEndsInv ==
    ASSUME IInv, TaprootFails \/ TooLittle \/ FeeNo
    PROVE  IInv'
<1>1. pc \in Taking /\ RejectLast /\ UNCHANGED <<tx, taken, agreed>>
  BY DEF TaprootFails, TooLittle, FeeNo, Taking
<1>2. Len(inputs) = num_inputs
  BY Holds DEF TaprootFails, TooLittle, FeeNo, AgreedInv
<1> QED
  BY <1>1, <1>2, RejectLastInv

\* All inputs were read, or the fee was agreed to.
LEMMA FeeInvs ==
    ASSUME IInv, AskFee \/ FeeYes
    PROVE  IInv'
<1>1. /\ pc \in Taking /\ UNCHANGED <<tx, taken>> /\ answers' = answers
      /\ pc' \in {"aborted", "fee", "sign"} /\ Total <= input_amount /\ Len(inputs) = num_inputs
      /\ \/ agreed' = agreed /\ pc' # "sign"
         \/ agreed' = [agreed EXCEPT !.fee = {input_amount - Total}] /\ pc' = "sign"
  BY Holds DEF AskFee, FeeYes, Taking, AgreedInv
<1>2. /\ TxType' /\ TakenType' /\ InputInv' /\ SumInv' /\ outputs' = outputs /\ inputs' = inputs
      /\ use_ae' = use_ae /\ Total' = Total /\ ToShow' = ToShow /\ input_amount' = input_amount
      /\ num_inputs' = num_inputs
  BY <1>1, Frame
<1>3. /\ agreed \in [outputs : SUBSET DOMAIN outputs, fee : SUBSET {input_amount - Total}]
      /\ agreed.fee = {} /\ Shown
  BY <1>1, Holds DEF Typed, AgreedType, AgreedInv
<1>4. /\ agreed' \in [outputs : SUBSET DOMAIN outputs, fee : SUBSET {input_amount - Total}]
      /\ agreed'.outputs = agreed.outputs
      /\ pc' = "sign" => agreed'.fee = {input_amount - Total}
      /\ pc' # "sign" => agreed'.fee = {}
  BY <1>1, <1>3
<1>5. AnswersType'
  BY <1>1, Holds DEF Typed, AnswersType, Reply, Error, Ok, Empty, Committed
<1>6. Typed'
  BY <1>1, <1>2, <1>4, <1>5 DEF Typed, ControlType, Steps, AgreedType
<1>7. Shown'
  BY <1>2, <1>3, <1>4 DEF Shown, ScriptMatches
<1>8. AgreedInv'
  BY <1>1, <1>2, <1>4, <1>7 DEF AgreedInv, Decided, Reading, Taking
<1>9. \A id \in 1 .. Len(answers') : (Silent(id)' \/ PlainAt(id)') /\ (Silent(id)' <=> Silent(id))
  BY <1>1, TakingFacts, SameStanding
<1>10. InputsAwait /\ Len(answers) = Len(inputs) + 1
  BY <1>1, Holds DEF AnswersInv
<1>11. InputsAwait'
  <2>1. \A id \in 2 .. Len(answers) : id \in 1 .. Len(answers)
    BY Holds
  <2>2. 1 \in 1 .. Len(answers)
    BY <1>10, Holds
  <2> QED
    BY <1>1, <1>2, <1>9, <1>10, <2>1, <2>2 DEF InputsAwait
<1>12. num_inputs + 1 <= Len(answers) /\ Len(answers) <= 2 * num_inputs
  BY <1>1, <1>10, Holds
<1>13. AnswersInv'
  BY <1>1, <1>2, <1>9, <1>10, <1>11, <1>12 DEF AnswersInv, Reading, Taking
<1>14. EndInv'
  BY <1>1 DEF EndInv
<1> QED
  BY <1>2, <1>6, <1>8, <1>13, <1>14 DEF IInv

----------------------------------------------------------------------------
(* The signatures.                                                         *)

\* Once all is agreed to.
LEMMA SigningFacts ==
    ASSUME IInv, pc = "sign"
    PROVE  /\ Decided /\ InputsAwait /\ Len(inputs) = num_inputs /\ Ids = 1 .. Len(inputs)
           /\ ~use_ae => /\ Len(answers) = num_inputs + 1
                         /\ \A id \in 2 .. Len(answers) : Silent(id)
                         /\ \A id \in 1 .. Len(answers) : Silent(id) \/ PlainAt(id)
           /\ use_ae => /\ Due \in 1 .. num_inputs /\ Len(answers) + 1 = Asked(Due)
                        /\ \A id \in 1 .. Len(answers) : ~Silent(id)
<1>1. Decided /\ InputsAwait /\ Len(inputs) = num_inputs /\ Ids = 1 .. Len(inputs)
  BY Holds DEF AgreedInv, AnswersInv, Decided, Ids
<1>2. \A id \in 1 .. Len(answers) : id = 1 \/ id \in 2 .. Len(answers)
  BY Holds
<1>3. ASSUME ~use_ae
      PROVE  /\ Len(answers) = num_inputs + 1
             /\ \A id \in 2 .. Len(answers) : Silent(id)
             /\ \A id \in 1 .. Len(answers) : Silent(id) \/ PlainAt(id)
  <2>1. Len(answers) = num_inputs + 1 /\ \A id \in 2 .. Len(answers) : Silent(id)
    BY <1>1, <1>3, Holds DEF AnswersInv, InputsAwait
  <2>2. \A i \in Ids : Asked(i) # 1
    BY <1>3, Holds DEF Asked, Ids
  <2>3. ~SignedAt(1)
    BY <2>2 DEF SignedAt
  <2>4. 1 \in 1 .. Len(answers)
    BY <2>1, Holds
  <2>5. Silent(1) \/ PlainAt(1)
    BY <2>3, <2>4, Holds DEF AnswersInv
  <2> QED
    BY <1>2, <2>1, <2>5
<1>4. ASSUME use_ae
      PROVE  /\ Due \in 1 .. num_inputs /\ Len(answers) + 1 = Asked(Due)
             /\ \A id \in 1 .. Len(answers) : ~Silent(id)
  <2>1. num_inputs + 1 <= Len(answers) /\ Len(answers) <= 2 * num_inputs
    BY <1>4, Holds DEF AnswersInv
  <2>2. Due \in 1 .. num_inputs /\ Len(answers) + 1 = Asked(Due)
    BY <1>4, <2>1, Holds DEF Due, Current, Asked
  <2> QED
    BY <1>1, <1>2, <1>4, <2>2 DEF InputsAwait
<1> QED
  BY <1>1, <1>3, <1>4

\* What SendEC makes of the answers.
LEMMA SendECFacts ==
    ASSUME IInv, SendEC
    PROVE  /\ answers' \in Seq(Seq(Reply)) /\ Len(answers') = Len(answers)
           /\ answers'[1] = answers[1]
           /\ \A id \in 2 .. Len(answers) :
                 answers'[id] = <<IF inputs[id - 1].path THEN Signature(id - 1, FALSE) ELSE Empty>>
<1>1. /\ pc = "sign" /\ ~use_ae
      /\ answers' = [id \in DOMAIN answers |->
                      LET its == {i \in Ids : inputs[i].id = id}
                      IN  IF its = {} THEN answers[id]
                          ELSE LET i == CHOOSE i \in its : TRUE
                               IN  Append(answers[id], IF inputs[i].path THEN Signature(i, FALSE) ELSE Empty)]
  BY DEF SendEC
<1>2. /\ Len(answers) = num_inputs + 1 /\ \A id \in 2 .. Len(answers) : Silent(id)
      /\ Ids = 1 .. num_inputs /\ Len(inputs) = num_inputs
  BY <1>1, SigningFacts
<1>3. \A i \in Ids : inputs[i].id = i + 1
  BY <1>2, Holds DEF InputInv
<1>4. {i \in Ids : inputs[i].id = 1} = {}
  BY <1>2, <1>3, Holds
<1>5. DOMAIN answers = 1 .. Len(answers) /\ 1 \in DOMAIN answers
  BY <1>2, Holds
<1>6. answers'[1] = answers[1]
  BY <1>1, <1>4, <1>5
<1>7. ASSUME NEW id \in 2 .. Len(answers)
      PROVE  /\ answers'[id] = <<IF inputs[id - 1].path THEN Signature(id - 1, FALSE) ELSE Empty>>
             /\ answers'[id] \in Seq(Reply)
  <2>1. id - 1 \in Ids /\ id \in DOMAIN answers
    BY <1>2, <1>5, Holds
  <2>2. {i \in Ids : inputs[i].id = id} = {id - 1}
    BY <1>2, <1>3, <2>1, Holds
  <2>3. (CHOOSE i \in {id - 1} : TRUE) = id - 1
    OBVIOUS
  <2>4. answers[id] = <<>>
    BY <1>2 DEF Silent
  <2> DEFINE r == IF inputs[id - 1].path THEN Signature(id - 1, FALSE) ELSE Empty
  <2>5. answers'[id] = Append(<<>>, r)
    <3> DEFINE its == {i \in Ids : inputs[i].id = id}
    <3>1. answers'[id] = IF its = {} THEN answers[id]
                         ELSE LET i == CHOOSE i \in its : TRUE
                              IN  Append(answers[id], IF inputs[i].path THEN Signature(i, FALSE) ELSE Empty)
      BY <1>1, <2>1
    <3>2. its = {id - 1} /\ its # {}
      BY <2>2
    <3> HIDE DEF its
    <3>3. (CHOOSE i \in its : TRUE) = id - 1
      BY <2>3, <3>2
    <3> QED
      BY <2>4, <3>1, <3>2, <3>3, Zenon
  <2>6. r \in Reply
    BY <1>2, <2>1, Holds, SignatureTyped, PlainFacts
  <2> HIDE DEF r
  <2>7. answers'[id] = <<r>>
    BY <2>5
  <2>8. answers'[id] \in Seq(Reply)
    BY <2>6, <2>7, OneFacts
  <2> QED
    BY <2>7, <2>8 DEF r
<1>8. \A id \in 1 .. Len(answers) : id = 1 \/ id \in 2 .. Len(answers)
  BY Holds
<1>9. \A id \in 1 .. Len(answers) : answers'[id] \in Seq(Reply)
  BY <1>5, <1>6, <1>7, <1>8, Holds
<1>10. answers' = [id \in 1 .. Len(answers) |-> answers'[id]]
  BY <1>1, <1>5
<1>11. answers' \in [1 .. Len(answers) -> Seq(Reply)]
  BY <1>9, <1>10
<1>12. answers' \in Seq(Seq(Reply)) /\ Len(answers') = Len(answers)
  BY <1>11, Holds
<1> QED
  BY <1>6, <1>7, <1>12

\* All the signatures of the older flow are sent.
LEMMA SendECInv ==
    ASSUME IInv, SendEC
    PROVE  IInv'
<1>1. pc = "sign" /\ ~use_ae /\ pc' = "done" /\ UNCHANGED <<tx, taken, agreed>> /\ UNCHANGED <<tx, taken>>
  BY DEF SendEC
<1>2. /\ Decided /\ InputsAwait /\ Len(inputs) = num_inputs /\ Ids = 1 .. Len(inputs)
      /\ Len(answers) = num_inputs + 1
  BY <1>1, SigningFacts
<1>3. /\ answers' \in Seq(Seq(Reply)) /\ Len(answers') = Len(answers)
      /\ answers'[1] = answers[1]
      /\ \A id \in 2 .. Len(answers) :
            answers'[id] = <<IF inputs[id - 1].path THEN Signature(id - 1, FALSE) ELSE Empty>>
  BY SendECFacts
<1>4. /\ num_inputs' = num_inputs /\ inputs' = inputs /\ use_ae' = use_ae
  BY <1>1, Frame
<1>5. ASSUME NEW id \in 2 .. Len(answers)
      PROVE  ~Silent(id)' /\ (PlainAt(id)' \/ SignedAt(id)')
  <2>1. id - 1 \in Ids /\ id = Asked(id - 1) /\ id - 1 \in 1 .. Len(inputs)
    BY <1>1, <1>2, Holds DEF Asked
  <2>2. CASE inputs[id - 1].path
    <3>1. inputs[id - 1].use_ae = FALSE
      BY <1>1, <2>1, Holds DEF InputInv, InputType
    <3>2. answers'[id] = <<Signature(id - 1, inputs[id - 1].use_ae)>>
      BY <1>3, <2>2, <3>1
    <3>3. SignedAt(id)'
      BY <1>4, <2>1, <2>2, <3>2 DEF SignedAt, Signature, Covers, Asked, Ids
    <3>4. ~Silent(id)'
      BY <3>2 DEF Silent
    <3> QED
      BY <3>3, <3>4
  <2>3. CASE ~inputs[id - 1].path
    <3>1. answers'[id] = <<Empty>>
      BY <1>3, <2>3
    <3> QED
      BY <3>1 DEF PlainAt, Plain, Silent, Error, Ok, Empty, Committed
  <2> QED
    BY <2>2, <2>3
<1>6. \A id \in 1 .. Len(answers) : id = 1 \/ id \in 2 .. Len(answers)
  BY Holds
<1>7. ~Silent(1) /\ 1 \in 1 .. Len(answers)
  BY <1>2, Holds DEF InputsAwait
<1>8. ~Silent(1)' /\ (PlainAt(1)' \/ SignedAt(1)')
  BY <1>1, <1>3, <1>7, SameStanding, Holds DEF AnswersInv
<1>9. \A id \in 1 .. Len(answers') : ~Silent(id)' /\ (PlainAt(id)' \/ SignedAt(id)')
  BY <1>3, <1>5, <1>6, <1>8
<1>10. AnswersType'
  BY <1>3 DEF AnswersType, Reply, Error, Ok, Empty, Committed
<1>11. EndInv'
  BY <1>9 DEF EndInv
<1> QED
  BY <1>1, <1>2, <1>9, <1>10, <1>11, Ends

\* One of them cannot be made: none is sent.
LEMMA SendECFailsInv ==
    ASSUME IInv, SendECFails
    PROVE  IInv'
<1>1. /\ pc = "sign" /\ ~use_ae /\ pc' = "done" /\ UNCHANGED <<tx, taken, agreed>>
  BY DEF SendECFails
<1>2. PICK i \in Ids : Answer(inputs[i].id, Error)
  BY DEF SendECFails
<1>3. /\ Len(answers) = num_inputs + 1 /\ \A id \in 2 .. Len(answers) : Silent(id)
      /\ \A id \in 1 .. Len(answers) : Silent(id) \/ PlainAt(id)
      /\ Ids = 1 .. Len(inputs) /\ Len(inputs) = num_inputs
  BY <1>1, SigningFacts
<1>4. inputs[i].id = i + 1
  BY <1>3, Holds DEF InputInv
<1>5. inputs[i].id \in 2 .. Len(answers) /\ inputs[i].id \in 1 .. Len(answers)
  BY <1>3, <1>4, Holds
<1> QED
  BY <1>1, <1>2, <1>3, <1>5, RejectInv

\* A get_signature is answered.
LEMMA SendAEInv ==
    ASSUME IInv, SendAE
    PROVE  IInv'
<1>1. /\ pc = "sign" /\ use_ae /\ UNCHANGED <<tx, taken>> /\ agreed' = agreed
      /\ UNCHANGED <<tx, taken, agreed>>
      /\ pc' = IF Due = num_inputs THEN "done" ELSE "sign"
  BY DEF SendAE
<1>2. PICK m \in Messages :
        /\ EntropyOK(m, Due)
        /\ LoadAndAnswer(<<IF inputs[Due].path THEN Signature(Due, m.entropy = "valid") ELSE Empty>>)
  BY DEF SendAE
<1>3. /\ Decided /\ InputsAwait /\ Len(inputs) = num_inputs /\ Ids = 1 .. Len(inputs)
      /\ Due \in 1 .. num_inputs /\ Len(answers) + 1 = Asked(Due)
      /\ \A id \in 1 .. Len(answers) : ~Silent(id)
  BY <1>1, SigningFacts
<1> DEFINE r == IF inputs[Due].path THEN Signature(Due, m.entropy = "valid") ELSE Empty
<1>4. r \in Reply /\ answers' = Append(answers, <<r>>)
  BY <1>2, <1>3, Holds, SignatureTyped, PlainFacts DEF LoadAndAnswer
<1>5. inputs[Due].use_ae \in BOOLEAN
  BY <1>3, Holds DEF InputType
<1>6. \/ inputs[Due].path /\ r = Signature(Due, inputs[Due].use_ae)
      \/ r \in Plain
  BY <1>2, <1>5, PlainFacts DEF EntropyOK
<1> HIDE DEF r
<1>7. /\ AnswersType' /\ Len(answers') = Len(answers) + 1
      /\ \A id \in 1 .. Len(answers) : /\ Silent(id)' <=> Silent(id)
                                       /\ PlainAt(id)' <=> PlainAt(id)
                                       /\ SignedAt(id)' <=> SignedAt(id)
      /\ answers'[Len(answers) + 1] = <<r>>
      /\ \A n : n = Len(answers) + 1 => ~Silent(n)' /\ (r \in Plain => PlainAt(n)')
  BY <1>1, <1>4, Loaded
<1>8. /\ TxType' /\ TakenType' /\ InputInv' /\ SumInv' /\ AgreedType'
      /\ num_inputs' = num_inputs /\ inputs' = inputs /\ use_ae' = use_ae
      /\ (Decided' <=> Decided)
  BY <1>1, Frame
<1>9. ASSUME NEW n, n = Len(answers) + 1 PROVE PlainAt(n)' \/ SignedAt(n)'
  <2>1. CASE inputs[Due].path /\ r = Signature(Due, inputs[Due].use_ae)
    <3>1. PICK i \in Ids : i = Due
      BY <1>3
    <3>2. n = Asked(i) /\ inputs[i].path /\ answers'[n] = <<Signature(i, inputs[i].use_ae)>>
      BY <1>3, <1>7, <1>9, <2>1, <3>1
    <3>3. SignedAt(n)'
      BY <1>8, <3>2 DEF SignedAt, Signature, Covers, Asked, Ids
    <3> QED
      BY <3>3
  <2> QED
    BY <1>6, <1>7, <1>9, <2>1
<1>10. \A id \in 1 .. Len(answers') : id \in 1 .. Len(answers) \/ id = Len(answers) + 1
  BY <1>7, Holds
<1>11. \A id \in 1 .. Len(answers') : ~Silent(id)' /\ (PlainAt(id)' \/ SignedAt(id)')
  BY <1>3, <1>7, <1>9, <1>10, Holds DEF AnswersInv
<1>12. CASE Due = num_inputs
  <2>1. pc' = "done" /\ EndInv'
    BY <1>1, <1>11, <1>12 DEF EndInv
  <2> QED
    BY <1>1, <1>3, <1>7, <1>11, <2>1, Ends
<1>13. CASE Due # num_inputs
  <2>1. pc' = "sign"
    BY <1>1, <1>13
  <2>2. Typed'
    BY <1>7, <1>8, <2>1 DEF Typed, ControlType, Steps
  <2>3. AgreedInv'
    BY <1>3, <1>8, <2>1 DEF AgreedInv, Reading, Taking
  <2>4. \A id \in 2 .. Len(answers') : id \in 1 .. Len(answers')
    BY <1>7, Holds
  <2>5. 1 \in 1 .. Len(answers') /\ Len(answers') \in Nat
    BY <1>7, Holds
  <2>6. InputsAwait'
    BY <1>1, <1>8, <1>11, <2>4, <2>5 DEF InputsAwait
  <2>7. num_inputs + 1 <= Len(answers') /\ Len(answers') <= 2 * num_inputs
    BY <1>3, <1>7, <1>13, Holds DEF Due, Current
  <2>8. AnswersInv'
    BY <1>1, <1>3, <1>8, <1>11, <2>1, <2>6, <2>7 DEF AnswersInv, Reading, Taking
  <2>9. EndInv'
    BY <2>1 DEF EndInv
  <2> QED
    BY <1>8, <2>2, <2>3, <2>8, <2>9 DEF IInv
<1> QED
  BY <1>12, <1>13

\* A get_signature is refused, or never comes.
LEMMA SendAEEndsInv ==
    ASSUME IInv, SendAEFails \/ SendAELost
    PROVE  IInv'
<1>1. pc = "sign" /\ use_ae /\ UNCHANGED <<tx, taken, agreed>>
  BY DEF SendAEFails, SendAELost
<1>2. CASE SendAEFails
  BY <1>1, <1>2, SigningFacts, ErrorLoadedInv DEF SendAEFails
<1>3. CASE SendAELost
  BY <1>1, <1>3, LostInv DEF SendAELost
<1> QED
  BY <1>2, <1>3

----------------------------------------------------------------------------
(* The theorems.                                                           *)

\* The invariant holds when the call begins.
LEMMA InvInit == Init => IInv
<1> SUFFICES ASSUME Init PROVE IInv
  OBVIOUS
<1>1. /\ pc = "params" /\ use_ae \in BOOLEAN /\ num_inputs \in 1 .. MaxInputs
      /\ outputs \in BoundedSeq(Outputs, MaxOutputs) \ {<<>>}
      /\ coins = <<>> /\ inputs = <<>> /\ input_amount = 0 /\ spent = 0
      /\ answers = << <<>> >> /\ agreed = [outputs |-> {}, fee |-> {}]
  BY DEF Init
<1>2. TxType
  BY <1>1, Bounded, Bounds DEF TxType
<1>3. TakenType
  BY <1>1, Bounds, SeqFacts DEF TakenType
<1>4. AnswersType
  BY <1>1, SeqFacts, OneFacts DEF AnswersType
<1>5. AgreedType
  BY <1>1 DEF AgreedType
<1>6. Typed
  BY <1>1, <1>2, <1>3, <1>4, <1>5 DEF Typed, ControlType, Steps
<1>7. InputInv /\ SumInv
  BY <1>1, SeqFacts DEF InputInv, SumInv
<1>8. AgreedInv
  BY <1>1 DEF AgreedInv, Reading, Taking
<1>9. Len(answers) = 1 /\ Silent(1)
  BY <1>1 DEF Silent
<1>10. AnswersInv
  BY <1>1, <1>9 DEF AnswersInv, Reading, Taking
<1>11. EndInv
  BY <1>1 DEF EndInv
<1> QED
  BY <1>6, <1>7, <1>8, <1>10, <1>11 DEF IInv

\* Every step keeps it.
LEMMA InvStep == IInv /\ [Next]_vars => IInv'
<1> SUFFICES ASSUME IInv, [Next]_vars PROVE IInv'
  OBVIOUS
<1>1. CASE UNCHANGED vars
  <2>1. UNCHANGED <<tx, taken>> /\ pc' = pc /\ answers' = answers /\ agreed' = agreed
    BY <1>1 DEF vars
  <2>2. /\ use_ae' = use_ae /\ num_inputs' = num_inputs /\ inputs' = inputs /\ outputs' = outputs
        /\ TxType' /\ TakenType' /\ AgreedType' /\ InputInv' /\ SumInv' /\ (Shown' <=> Shown)
        /\ (Decided' <=> Decided) /\ Total' = Total /\ input_amount' = input_amount
    BY <2>1, Frame
  <2>3. AnswersType'
    BY <2>1, Holds DEF Typed, AnswersType, Reply, Error, Ok, Empty, Committed
  <2>4. \A id : /\ Silent(id)' <=> Silent(id)
                /\ PlainAt(id)' <=> PlainAt(id)
                /\ SignedAt(id)' <=> SignedAt(id)
    BY <2>1, SameStanding
  <2>5. AgreedInv'
    BY <2>1, <2>2, Holds DEF AgreedInv, ScriptMatches
  <2>6. InputsAwait' <=> InputsAwait
    BY <2>1, <2>2, <2>4 DEF InputsAwait
  <2>7. AnswersInv'
    BY <2>1, <2>2, <2>4, <2>6, Holds DEF AnswersInv
  <2>8. EndInv'
    BY <2>1, <2>2, <2>4, Holds DEF EndInv, Excused, Error
  <2>9. Typed'
    BY <2>1, <2>2, <2>3, Holds DEF Typed, ControlType, Steps
  <2> QED
    BY <2>2, <2>5, <2>7, <2>8, <2>9 DEF IInv
<1>2. CASE Next
  BY <1>2, ParamsReadInv, ReadingEndsInv, OutputsYesInv, InputTakenInv, InputEndsInv, TakingEndsInv,
     FeeInvs, SendECInv, SendECFailsInv, SendAEInv, SendAEEndsInv DEF Next
<1> QED
  BY <1>1, <1>2

\* The invariant holds in every state of every behaviour.
LEMMA Invariance == Spec => []IInv
BY InvInit, InvStep, PTL DEF Spec

\* A signature among the replies is the one its message asked for.
LEMMA SignatureFacts ==
    ASSUME IInv, NEW id \in DOMAIN answers, NEW s \in ToSet(answers[id]), s.reply = "signature"
    PROVE  /\ Decided /\ SignedAt(id)
           /\ \E i \in 1 .. Len(inputs) : /\ id = Asked(i) /\ inputs[i].path
                                          /\ s = Signature(i, inputs[i].use_ae)
<1>1. id \in 1 .. Len(answers)
  BY Holds
<1>2. PICK k \in DOMAIN answers[id] : s = answers[id][k]
  BY DEF ToSet
<1>3. ~Silent(id)
  BY <1>2 DEF Silent
<1>4. ASSUME PlainAt(id) PROVE FALSE
  <2>1. PICK r \in Plain : answers[id] = <<r>>
    BY <1>4 DEF PlainAt
  <2>2. s = r
    BY <1>2, <2>1
  <2> QED
    BY <2>2, PlainFacts
<1>5. SignedAt(id) /\ Decided
  BY <1>1, <1>3, <1>4, Holds DEF AnswersInv
<1>6. PICK i \in Ids : id = Asked(i) /\ inputs[i].path /\ answers[id] = <<Signature(i, inputs[i].use_ae)>>
  BY <1>5 DEF SignedAt
<1>7. s = Signature(i, inputs[i].use_ae)
  BY <1>2, <1>6
<1>8. i \in 1 .. Len(inputs)
  BY <1>5 DEF Decided, Ids
<1> QED
  BY <1>5, <1>6, <1>7, <1>8

\* The same of a signature anywhere.
LEMMA SignaturesFacts ==
    ASSUME IInv, NEW s \in Signatures
    PROVE  /\ Decided
           /\ \E i \in 1 .. Len(inputs) : inputs[i].path /\ s = Signature(i, inputs[i].use_ae)
<1>1. PICK id \in DOMAIN answers : s \in ToSet(answers[id])
  BY DEF Signatures, Replies
<1>2. s.reply = "signature"
  BY DEF Signatures
<1> QED
  BY <1>1, <1>2, SignatureFacts

\* Type correctness of the sign_tx call; the fee agreed to is what the messages
\* add up to less the outputs, and no taproot input is signed outside the
\* anti-exfil flow or with a commitment.
THEOREM TypeCorrect == Spec => []TypeOK
<1>1. ASSUME IInv PROVE TypeOK
  <2>1. Typed /\ InputInv
    BY <1>1, Holds
  <2>2. ASSUME NEW s \in Signatures, s.sig_type = "v1" PROVE use_ae /\ ~s.ae
    <3>1. PICK i \in 1 .. Len(inputs) : inputs[i].path /\ s = Signature(i, inputs[i].use_ae)
      BY <1>1, SignaturesFacts
    <3>2. Len(inputs) = num_inputs /\ inputs[i].use_ae \in BOOLEAN
      BY <1>1, SignaturesFacts, Holds DEF Decided, InputType
    <3>3. s.sig_type = inputs[i].sig_type /\ s.ae = inputs[i].use_ae
      BY <2>1, <3>1, <3>2, SignatureTyped
    <3> QED
      BY <2>1, <2>2, <3>1, <3>3 DEF InputInv
  <2> QED
    BY <2>1, <2>2 DEF TypeOK, Typed, ControlType, TxType, TakenType, AnswersType, AgreedType, Steps,
       Kinds, InputType
<1> QED
  BY <1>1, Invariance, PTL

\* An output that is not the wallet's own, or that is unusual, is one to show.
LEMMA ToShowFacts ==
    ASSUME IInv, Shown, NEW i \in DOMAIN outputs, outputs[i].to # "own" \/ outputs[i].odd
    PROVE  i \in ToShow
<1>1. ScriptMatches(outputs[i]) /\ outputs[i] \in Outputs
  BY Holds DEF Shown
<1>2. outputs[i].odd \/ ~Change(outputs[i])
  <2>1. CASE outputs[i].to # "own"
    <3>1. outputs[i].entry # "wallet"
      BY <1>1, <2>1 DEF ScriptMatches
    <3> QED
      BY <3>1 DEF Change
  <2> QED
    BY <2>1
<1> QED
  BY <1>2 DEF ToShow

\* A signature that the network would take covers only true amounts, or every
\* amount was read from the transaction it comes from.
LEMMA UsableIsTrue ==
    ASSUME IInv, NEW s \in Signatures, Usable(s)
    PROVE  TrueAmounts
<1>1. PICK i \in 1 .. Len(inputs) : s = Signature(i, inputs[i].use_ae)
  BY SignaturesFacts
<1>2. Len(inputs) = num_inputs /\ inputs[i].use_ae \in BOOLEAN /\ Typed /\ InputInv
  BY SignaturesFacts, Holds DEF Decided, InputType
<1> SUFFICES ASSUME NEW j \in 1 .. Len(inputs) PROVE inputs[j].amount = coins[j].amount
  BY DEF TrueAmounts
<1>3. CASE num_inputs = 1 /\ inputs[j].sig_type = "v0"
  <2>1. i = j
    BY <1>2, <1>3
  <2>2. s.covers = {<<i, inputs[i].amount>>}
    <3>1. s.covers = CASE inputs[i].sig_type = "pre" -> {}
                       [] inputs[i].sig_type = "v0"  -> {<<i, inputs[i].amount>>}
                       [] inputs[i].sig_type = "v1"  -> {<<k, inputs[k].amount>> : k \in Ids}
      BY <1>1, <1>2, SignatureTyped
    <3> QED
      BY <1>3, <2>1, <3>1
  <2>3. <<i, inputs[i].amount>>[2] = coins[<<i, inputs[i].amount>>[1]].amount
    BY <2>2 DEF Usable
  <2> QED
    BY <2>1, <2>3
<1> QED
  BY <1>2, <1>3 DEF InputInv

\* Whatever a client says of amounts, witnesses and change, and however many
\* inputs and outputs there are, a signature that the network would take was
\* given after the user had agreed to the fee that is really paid and to every
\* output that is not the wallet's own.
THEOREM AlwaysSignsWhatWasShown == Spec => []SignsWhatWasShown
<1>1. ASSUME IInv PROVE SignsWhatWasShown
  <2> SUFFICES ASSUME NEW s \in Signatures, Usable(s)
               PROVE  /\ agreed.fee = {spent - Total}
                      /\ \A i \in DOMAIN outputs :
                            outputs[i].to # "own" \/ outputs[i].odd => i \in agreed.outputs
    BY DEF SignsWhatWasShown
  <2>1. Decided
    BY <1>1, SignaturesFacts
  <2>2. input_amount = spent
    BY <1>1, UsableIsTrue, Holds DEF SumInv
  <2> QED
    BY <1>1, <2>1, <2>2, ToShowFacts DEF Decided, Shown
<1> QED
  BY <1>1, Invariance, PTL

\* No message of a sign_tx call is answered twice, and a signature answers the
\* message that asks for it, in either flow; at the end a message is without an
\* answer only where one error stands for all.
THEOREM AnswersAlwaysMatch == Spec => []AnswersMatch
<1>1. ASSUME IInv PROVE AnswersMatch
  <2>1. ASSUME NEW id \in DOMAIN answers PROVE Len(answers[id]) <= 1
    <3>1. id \in 1 .. Len(answers)
      BY <1>1, Holds
    <3>2. Silent(id) \/ PlainAt(id) \/ SignedAt(id)
      BY <1>1, <3>1, Holds DEF AnswersInv
    <3> QED
      <4>1. \A e : Len(<<e>>) = 1
        OBVIOUS
      <4>2. CASE Silent(id)
        BY <4>2, SeqFacts DEF Silent
      <4>3. CASE PlainAt(id)
        BY <4>1, <4>3 DEF PlainAt
      <4>4. CASE SignedAt(id)
        <5>1. PICK e : answers[id] = <<e>>
          BY <4>4, Zenon DEF SignedAt
        <5> QED
          BY <4>1, <5>1
      <4> QED
        BY <3>2, <4>2, <4>3, <4>4
  <2>2. ASSUME NEW id \in DOMAIN answers, NEW s \in ToSet(answers[id]) \cap Signatures
        PROVE  /\ id = s.input + 1 + (IF use_ae THEN num_inputs ELSE 0)
               /\ s.ae = inputs[s.input].use_ae
    <3>1. s.reply = "signature"
      BY DEF Signatures
    <3>2. PICK i \in 1 .. Len(inputs) : id = Asked(i) /\ s = Signature(i, inputs[i].use_ae)
      BY <1>1, <3>1, SignatureFacts
    <3>3. Len(inputs) = num_inputs /\ inputs[i].use_ae \in BOOLEAN
      BY <1>1, SignaturesFacts, Holds DEF Decided, InputType
    <3>4. s.input = i /\ s.ae = inputs[i].use_ae
      BY <1>1, <3>2, <3>3, SignatureTyped, Holds
    <3> QED
      BY <3>2, <3>4 DEF Asked
  <2>3. ASSUME pc = "done", NEW n \in DOMAIN answers, answers[n] = <<>>
        PROVE  ~use_ae /\ Error \in Replies /\ Signatures = {}
    <3>1. n \in 1 .. Len(answers) /\ Silent(n)
      BY <1>1, <2>3, Holds DEF Silent
    <3>2. Excused
      BY <1>1, <2>3, <3>1, Holds DEF EndInv
    <3>3. Error \in Replies
      <4>1. PICK id \in 1 .. Len(answers) : answers[id] = <<Error>>
        BY <3>2 DEF Excused
      <4>2. Error \in ToSet(answers[id]) /\ id \in DOMAIN answers
        BY <1>1, <4>1, Holds DEF ToSet
      <4> QED
        BY <4>2 DEF Replies
    <3>4. ASSUME NEW s \in Signatures PROVE FALSE
      <4>1. PICK id \in DOMAIN answers : s \in ToSet(answers[id])
        BY DEF Signatures, Replies
      <4>2. s.reply = "signature" /\ id \in 1 .. Len(answers)
        BY <1>1, Holds DEF Signatures
      <4>3. PICK k \in DOMAIN answers[id] : s = answers[id][k]
        BY <4>1 DEF ToSet
      <4>4. ~Silent(id)
        BY <4>3 DEF Silent
      <4>5. PICK r \in Plain : answers[id] = <<r>>
        BY <3>2, <4>2, <4>4 DEF Excused, PlainAt
      <4>6. s = r
        BY <4>3, <4>5
      <4> QED
        BY <4>2, <4>6, PlainFacts
    <3> QED
      BY <3>2, <3>3, <3>4 DEF Excused
  <2> QED
    BY <2>1, <2>2, <2>3 DEF AnswersMatch
<1> QED
  BY <1>1, Invariance, PTL

============================================================================
