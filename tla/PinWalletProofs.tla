-------------------------- MODULE PinWalletProofs --------------------------
(***************************************************************************)
(* Proofs about the PIN-protected wallet: that three wrong keys are all    *)
(* that is tried, that an acknowledged erase leaves no seed, that only a   *)
(* change of PIN cut short parts the blob from the server, and that the    *)
(* wallet implements the lock PinLock, whatever commits fail and wherever  *)
(* the power is cut, for any number of PINs set.  A factory reset that is  *)
(* begun and not acknowledged is the exception to each: it may bring back  *)
(* the generation before.                                                  *)
(***************************************************************************)
EXTENDS PinWallet, TLAPS

----------------------------------------------------------------------------
(* The inductive invariant.                                                *)

\* The maps in memory are one of the records a start may find.
MemOnCard ==
    /\ card # {}
    /\ pc # "down" => mem \in card
    /\ pc = "down" => mem = Nothing /\ ~flag

\* A flow is at a step of its own.
FlowOK ==
    /\ pc \in {"askpin", "load", "opened", "derive", "wrongpin", "askchange"} => op = "unlock"
    /\ pc \in {"setpin", "recount", "write"} => op \in {"save", "change"}
    /\ pc \in {"decrement", "decrypt"} => op \in {"unlock", "change"}
    /\ pc = "restrict" => op = "save"
    /\ pc = "askpin" => flag

\* The key in hand during an unlock is the server's or fits nothing; a flow
\* that will write the blob holds the server's new key, and is torn until then.
KeyInHand ==
    /\ op = "unlock" /\ pc \in {"load", "decrement", "decrypt"} => aes \in {NoKey, server}
    /\ op = "change" /\ pc \in {"decrement", "decrypt"} => torn /\ newaes = server
    /\ pc \in {"recount", "write"} => torn /\ newaes = server

\* What the last commit of a flow has established on the card.
Committed ==
    /\ pc = "decrypt" =>
          /\ card = {mem}
          /\ mem.counter \in 0 .. 2
          /\ mem.blob # NoKey => guesses + mem.counter <= 2
    /\ pc = "uncount" => \A r \in card : r.blob = NoKey
    /\ pc = "mark" => mem.blob = NoKey
    /\ pc = "unrestrict" /\ ~erased => mem.counter = 4
    /\ pc = "write" => card = {mem} /\ guesses = 0
    /\ pc \in {"write", "restrict"} => mem.counter = 3

\* The steps at which the flag may be ahead of the counter.
Settling == {"erasing", "decrypt", "erase", "uncount", "mark", "unrestrict", "keyflags"}

\* Outside of them a device that says it has a PIN has attempts left.
FlagOK == flag /\ ~botched /\ pc \notin Settling => Attempts(mem) > 0

\* What holds of the step and the variables it works with.
FlowInv == MemOnCard /\ FlowOK /\ KeyInHand /\ Committed /\ FlagOK

\* What holds of every record a start may find.
CardInv == AttemptsPaidFor /\ BlobHasCounter /\ ErasedStaysErased /\ LastPinOpens

\* The Boolean variables are typed.
FlagsTyped ==
    /\ flag \in BOOLEAN /\ cached \in BOOLEAN /\ change \in BOOLEAN /\ erased \in BOOLEAN
    /\ wiped \in BOOLEAN /\ torn \in BOOLEAN /\ botched \in BOOLEAN

IInv == TypeOK /\ FlowInv /\ CardInv

----------------------------------------------------------------------------
(* One lemma per action: it keeps the inductive invariant.                 *)

USE MaxKeyAssumption
    DEF Keys, NoKey, NoCounter, Records, Nothing, Attempts, WithBlob, WithCounter,
        Written, Commit, Goto, local, lasting, hist, Steps

\* A start takes one of the records on the card and derives the flag from its
\* counter.
LEMMA BootInv ==
    ASSUME IInv, NEW ok \in BOOLEAN, Boot(ok)
    PROVE  IInv'
<1>1. TypeOK'
  BY DEF Boot, IInv, TypeOK, FlowInv, MemOnCard, Committed
<1>2. FlowInv'
  BY DEF Boot, IInv, TypeOK, FlowInv, MemOnCard, FlowOK, KeyInHand, Committed,
         FlagOK, Settling, CardInv, BlobHasCounter, AttemptsPaidFor
<1>3. CardInv'
  BY DEF Boot, IInv, TypeOK, FlowInv, MemOnCard, FlowOK, KeyInHand, Committed,
         CardInv, AttemptsPaidFor, BlobHasCounter, ErasedStaysErased, LastPinOpens
<1> QED
  BY <1>1, <1>2, <1>3 DEF IInv

\* A power cut leaves one of the records.
LEMMA PowerCutInv ==
    ASSUME IInv, PowerCut
    PROVE  IInv'
<1>1. TypeOK'
  <2>1. FlagsTyped'
    BY Zenon DEF PowerCut, Volatile, IInv, TypeOK, FlagsTyped
  <2> QED
    BY <2>1 DEF PowerCut, Volatile, IInv, TypeOK, FlowInv, MemOnCard, Committed, FlagsTyped
<1>2. FlowInv'
  BY DEF PowerCut, Volatile, IInv, TypeOK, FlowInv, MemOnCard, FlowOK, KeyInHand, Committed,
         FlagOK, Settling, CardInv, BlobHasCounter, AttemptsPaidFor
<1>3. CardInv'
  BY DEF PowerCut, Volatile, IInv, TypeOK, FlowInv, MemOnCard, FlowOK, KeyInHand, Committed,
         CardInv, AttemptsPaidFor, BlobHasCounter, ErasedStaysErased, LastPinOpens
<1> QED
  BY <1>1, <1>2, <1>3 DEF IInv

\* The end of the process leaves the card alone.
LEMMA ProcessEndsInv ==
    ASSUME IInv, ProcessEnds
    PROVE  IInv'
<1>1. TypeOK'
  <2>1. FlagsTyped'
    BY Zenon DEF ProcessEnds, Volatile, IInv, TypeOK, FlagsTyped
  <2> QED
    BY <2>1 DEF ProcessEnds, Volatile, IInv, TypeOK, FlowInv, MemOnCard, Committed, FlagsTyped
<1>2. FlowInv'
  BY DEF ProcessEnds, Volatile, IInv, TypeOK, FlowInv, MemOnCard, FlowOK, KeyInHand, Committed,
         FlagOK, Settling, CardInv, BlobHasCounter, AttemptsPaidFor
<1>3. CardInv'
  BY DEF ProcessEnds, Volatile, IInv, TypeOK, FlowInv, MemOnCard, FlowOK, KeyInHand, Committed,
         CardInv, AttemptsPaidFor, BlobHasCounter, ErasedStaysErased, LastPinOpens
<1> QED
  BY <1>1, <1>2, <1>3 DEF IInv

\* The dashboard changes keys and what is cached only: a new wallet ...
LEMMA NewWalletInv ==
    ASSUME IInv, NewWallet
    PROVE  IInv'
<1>1. TypeOK'
  <2>1. FlagsTyped'
    BY Zenon DEF NewWallet, IInv, TypeOK, FlagsTyped
  <2> QED
    BY <2>1 DEF NewWallet, IInv, TypeOK, FlowInv, MemOnCard, Committed, FlagsTyped
<1>2. FlowInv'
  BY DEF NewWallet, IInv, TypeOK, FlowInv, MemOnCard, FlowOK, KeyInHand, Committed,
         FlagOK, Settling, CardInv, BlobHasCounter, AttemptsPaidFor
<1>3. CardInv'
  BY DEF NewWallet, IInv, TypeOK, FlowInv, MemOnCard, FlowOK, KeyInHand, Committed,
         CardInv, AttemptsPaidFor, BlobHasCounter, ErasedStaysErased, LastPinOpens
<1> QED
  BY <1>1, <1>2, <1>3 DEF IInv

\* ... a log out ...
LEMMA LogoutInv ==
    ASSUME IInv, Logout
    PROVE  IInv'
<1>1. TypeOK'
  <2>1. FlagsTyped'
    BY Zenon DEF Logout, IInv, TypeOK, FlagsTyped
  <2> QED
    BY <2>1 DEF Logout, IInv, TypeOK, FlowInv, MemOnCard, Committed, FlagsTyped
<1>2. FlowInv'
  BY DEF Logout, IInv, TypeOK, FlowInv, MemOnCard, FlowOK, KeyInHand, Committed,
         FlagOK, Settling, CardInv, BlobHasCounter, AttemptsPaidFor
<1>3. CardInv'
  BY DEF Logout, IInv, TypeOK, FlowInv, MemOnCard, FlowOK, KeyInHand, Committed,
         CardInv, AttemptsPaidFor, BlobHasCounter, ErasedStaysErased, LastPinOpens
<1> QED
  BY <1>1, <1>2, <1>3 DEF IInv

\* ... the request to change the PIN, while locked ...
LEMMA AskChangeInv ==
    ASSUME IInv, NEW yes \in BOOLEAN, AskChange(yes)
    PROVE  IInv'
<1>1. TypeOK'
  <2>1. FlagsTyped'
    BY Zenon DEF AskChange, IInv, TypeOK, FlagsTyped
  <2> QED
    BY <2>1 DEF AskChange, IInv, TypeOK, FlowInv, MemOnCard, Committed, FlagsTyped
<1>2. FlowInv'
  BY DEF AskChange, IInv, TypeOK, FlowInv, MemOnCard, FlowOK, KeyInHand, Committed,
         FlagOK, Settling, CardInv, BlobHasCounter, AttemptsPaidFor
<1>3. CardInv'
  BY DEF AskChange, IInv, TypeOK, FlowInv, MemOnCard, FlowOK, KeyInHand, Committed,
         CardInv, AttemptsPaidFor, BlobHasCounter, ErasedStaysErased, LastPinOpens
<1> QED
  BY <1>1, <1>2, <1>3 DEF IInv

\* ... and while open.
LEMMA RequestChangeInv ==
    ASSUME IInv, RequestChange
    PROVE  IInv'
<1>1. TypeOK'
  <2>1. FlagsTyped'
    BY Zenon DEF RequestChange, IInv, TypeOK, FlagsTyped
  <2> QED
    BY <2>1 DEF RequestChange, IInv, TypeOK, FlowInv, MemOnCard, Committed, FlagsTyped
<1>2. FlowInv'
  BY DEF RequestChange, IInv, TypeOK, FlowInv, MemOnCard, FlowOK, KeyInHand, Committed,
         FlagOK, Settling, CardInv, BlobHasCounter, AttemptsPaidFor
<1>3. CardInv'
  BY DEF RequestChange, IInv, TypeOK, FlowInv, MemOnCard, FlowOK, KeyInHand, Committed,
         CardInv, AttemptsPaidFor, BlobHasCounter, ErasedStaysErased, LastPinOpens
<1> QED
  BY <1>1, <1>2, <1>3 DEF IInv

\* Another setting is stored: the commit carries the record in memory.
LEMMA OtherCommitInv ==
    ASSUME IInv, NEW ok \in BOOLEAN, OtherCommit(ok)
    PROVE  IInv'
<1>1. TypeOK'
  BY DEF OtherCommit, IInv, TypeOK, FlowInv, MemOnCard, Committed
<1>2. FlowInv'
  BY DEF OtherCommit, IInv, TypeOK, FlowInv, MemOnCard, FlowOK, KeyInHand, Committed,
         FlagOK, Settling, CardInv, BlobHasCounter, AttemptsPaidFor
<1>3. CardInv'
  BY DEF OtherCommit, IInv, TypeOK, FlowInv, MemOnCard, FlowOK, KeyInHand, Committed,
         CardInv, AttemptsPaidFor, BlobHasCounter, ErasedStaysErased, LastPinOpens
<1> QED
  BY <1>1, <1>2, <1>3 DEF IInv

\* A factory reset that is begun may uncover the older record: the counts begin
\* anew ...
LEMMA ResetBeginInv ==
    ASSUME IInv, ResetBegin
    PROVE  IInv'
<1>1. TypeOK'
  <2>1. FlagsTyped'
    BY Zenon DEF ResetBegin, IInv, TypeOK, FlagsTyped
  <2> QED
    BY <2>1 DEF ResetBegin, IInv, TypeOK, FlowInv, MemOnCard, Committed, FlagsTyped
<1>2. FlowInv'
  BY DEF ResetBegin, IInv, TypeOK, FlowInv, MemOnCard, FlowOK, KeyInHand, Committed,
         FlagOK, Settling, CardInv, BlobHasCounter, AttemptsPaidFor
<1>3. CardInv'
  BY DEF ResetBegin, IInv, TypeOK, FlowInv, MemOnCard, FlowOK, KeyInHand, Committed,
         CardInv, AttemptsPaidFor, BlobHasCounter, ErasedStaysErased, LastPinOpens
<1> QED
  BY <1>1, <1>2, <1>3 DEF IInv

\* ... done, it leaves nothing ...
LEMMA ResetDoneInv ==
    ASSUME IInv, ResetDone
    PROVE  IInv'
<1>1. TypeOK'
  <2>1. FlagsTyped'
    BY Zenon DEF ResetDone, Volatile, IInv, TypeOK, FlagsTyped
  <2> QED
    BY <2>1 DEF ResetDone, Volatile, IInv, TypeOK, FlowInv, MemOnCard, Committed, FlagsTyped
<1>2. FlowInv'
  BY DEF ResetDone, Volatile, IInv, TypeOK, FlowInv, MemOnCard, FlowOK, KeyInHand, Committed,
         FlagOK, Settling, CardInv, BlobHasCounter, AttemptsPaidFor
<1>3. CardInv'
  BY DEF ResetDone, Volatile, IInv, TypeOK, FlowInv, MemOnCard, FlowOK, KeyInHand, Committed,
         CardInv, AttemptsPaidFor, BlobHasCounter, ErasedStaysErased, LastPinOpens
<1> QED
  BY <1>1, <1>2, <1>3 DEF IInv

\* ... and when it fails, an empty record in memory.
LEMMA ResetFailsInv ==
    ASSUME IInv, ResetFails
    PROVE  IInv'
<1>1. TypeOK'
  <2>1. FlagsTyped'
    BY Zenon DEF ResetFails, IInv, TypeOK, FlagsTyped
  <2> QED
    BY <2>1 DEF ResetFails, IInv, TypeOK, FlowInv, MemOnCard, Committed, FlagsTyped
<1>2. FlowInv'
  BY DEF ResetFails, IInv, TypeOK, FlowInv, MemOnCard, FlowOK, KeyInHand, Committed,
         FlagOK, Settling, CardInv, BlobHasCounter, AttemptsPaidFor
<1>3. CardInv'
  BY DEF ResetFails, IInv, TypeOK, FlowInv, MemOnCard, FlowOK, KeyInHand, Committed,
         CardInv, AttemptsPaidFor, BlobHasCounter, ErasedStaysErased, LastPinOpens
<1> QED
  BY <1>1, <1>2, <1>3 DEF IInv

\* The unlock asks for the PIN when the flag says there is one ...
LEMMA UnlockBeginInv ==
    ASSUME IInv, UnlockBegin
    PROVE  IInv'
<1>1. TypeOK'
  BY DEF UnlockBegin, IInv, TypeOK, FlowInv, MemOnCard, Committed
<1>2. FlowInv'
  BY DEF UnlockBegin, IInv, TypeOK, FlowInv, MemOnCard, FlowOK, KeyInHand, Committed,
         FlagOK, Settling, CardInv, BlobHasCounter, AttemptsPaidFor
<1>3. CardInv'
  BY DEF UnlockBegin, IInv, TypeOK, FlowInv, MemOnCard, FlowOK, KeyInHand, Committed,
         CardInv, AttemptsPaidFor, BlobHasCounter, ErasedStaysErased, LastPinOpens
<1> QED
  BY <1>1, <1>2, <1>3 DEF IInv

\* ... aborts without attempts ...
LEMMA AssertFailsInv ==
    ASSUME IInv, AssertFails
    PROVE  IInv'
<1>1. TypeOK'
  <2>1. FlagsTyped'
    BY Zenon DEF AssertFails, Volatile, IInv, TypeOK, FlagsTyped
  <2> QED
    BY <2>1 DEF AssertFails, Volatile, IInv, TypeOK, FlowInv, MemOnCard, Committed, FlagsTyped
<1>2. FlowInv'
  BY DEF AssertFails, Volatile, IInv, TypeOK, FlowInv, MemOnCard, FlowOK, KeyInHand, Committed,
         FlagOK, Settling, CardInv, BlobHasCounter, AttemptsPaidFor
<1>3. CardInv'
  BY DEF AssertFails, Volatile, IInv, TypeOK, FlowInv, MemOnCard, FlowOK, KeyInHand, Committed,
         CardInv, AttemptsPaidFor, BlobHasCounter, ErasedStaysErased, LastPinOpens
<1> QED
  BY <1>1, <1>2, <1>3 DEF IInv

\* ... gets the server's key or one that fits nothing ...
LEMMA GetPinInv ==
    ASSUME IInv, NEW right \in BOOLEAN, GetPin(right)
    PROVE  IInv'
<1>1. TypeOK'
  BY DEF GetPin, IInv, TypeOK, FlowInv, MemOnCard, Committed
<1>2. FlowInv'
  BY DEF GetPin, IInv, TypeOK, FlowInv, MemOnCard, FlowOK, KeyInHand, Committed,
         FlagOK, Settling, CardInv, BlobHasCounter, AttemptsPaidFor
<1>3. CardInv'
  BY DEF GetPin, IInv, TypeOK, FlowInv, MemOnCard, FlowOK, KeyInHand, Committed,
         CardInv, AttemptsPaidFor, BlobHasCounter, ErasedStaysErased, LastPinOpens
<1> QED
  BY <1>1, <1>2, <1>3 DEF IInv

\* ... or gives up.
LEMMA GetPinFailsInv ==
    ASSUME IInv, GetPinFails
    PROVE  IInv'
<1>1. TypeOK'
  BY DEF GetPinFails, IInv, TypeOK, FlowInv, MemOnCard, Committed
<1>2. FlowInv'
  BY DEF GetPinFails, IInv, TypeOK, FlowInv, MemOnCard, FlowOK, KeyInHand, Committed,
         FlagOK, Settling, CardInv, BlobHasCounter, AttemptsPaidFor
<1>3. CardInv'
  BY DEF GetPinFails, IInv, TypeOK, FlowInv, MemOnCard, FlowOK, KeyInHand, Committed,
         CardInv, AttemptsPaidFor, BlobHasCounter, ErasedStaysErased, LastPinOpens
<1> QED
  BY <1>1, <1>2, <1>3 DEF IInv

\* keychain_load refuses ...
LEMMA LoadRefusedInv ==
    ASSUME IInv, LoadRefused
    PROVE  IInv'
<1>1. TypeOK'
  BY DEF LoadRefused, IInv, TypeOK, FlowInv, MemOnCard, Committed
<1>2. FlowInv'
  BY DEF LoadRefused, IInv, TypeOK, FlowInv, MemOnCard, FlowOK, KeyInHand, Committed,
         FlagOK, Settling, CardInv, BlobHasCounter, AttemptsPaidFor
<1>3. CardInv'
  BY DEF LoadRefused, IInv, TypeOK, FlowInv, MemOnCard, FlowOK, KeyInHand, Committed,
         CardInv, AttemptsPaidFor, BlobHasCounter, ErasedStaysErased, LastPinOpens
<1> QED
  BY <1>1, <1>2, <1>3 DEF IInv

\* ... or goes on to the blob.
LEMMA LoadStartsInv ==
    ASSUME IInv, LoadStarts
    PROVE  IInv'
<1>1. TypeOK'
  BY DEF LoadStarts, IInv, TypeOK, FlowInv, MemOnCard, Committed
<1>2. FlowInv'
  BY DEF LoadStarts, IInv, TypeOK, FlowInv, MemOnCard, FlowOK, KeyInHand, Committed,
         FlagOK, Settling, CardInv, BlobHasCounter, AttemptsPaidFor
<1>3. CardInv'
  BY DEF LoadStarts, IInv, TypeOK, FlowInv, MemOnCard, FlowOK, KeyInHand, Committed,
         CardInv, AttemptsPaidFor, BlobHasCounter, ErasedStaysErased, LastPinOpens
<1> QED
  BY <1>1, <1>2, <1>3 DEF IInv

\* storage_decrement_counter: a counter that is not an attempt is rejected
\* ...
LEMMA CounterRejectedInv ==
    ASSUME IInv, CounterRejected
    PROVE  IInv'
<1>1. TypeOK'
  BY DEF CounterRejected, IInv, TypeOK, FlowInv, MemOnCard, Committed
<1>2. FlowInv'
  BY DEF CounterRejected, IInv, TypeOK, FlowInv, MemOnCard, FlowOK, KeyInHand, Committed,
         FlagOK, Settling, CardInv, BlobHasCounter, AttemptsPaidFor
<1>3. CardInv'
  BY DEF CounterRejected, IInv, TypeOK, FlowInv, MemOnCard, FlowOK, KeyInHand, Committed,
         CardInv, AttemptsPaidFor, BlobHasCounter, ErasedStaysErased, LastPinOpens
<1> QED
  BY <1>1, <1>2, <1>3 DEF IInv

\* ... and an attempt is paid for: at the decryption the card holds one
\* record, with the attempt taken off.
LEMMA DecrementInv ==
    ASSUME IInv, NEW ok \in BOOLEAN, Decrement(ok)
    PROVE  IInv'
<1>1. TypeOK'
  BY DEF Decrement, IInv, TypeOK, FlowInv, MemOnCard, Committed
<1>2. FlowInv'
  BY DEF Decrement, IInv, TypeOK, FlowInv, MemOnCard, FlowOK, KeyInHand, Committed,
         FlagOK, Settling, CardInv, BlobHasCounter, AttemptsPaidFor
<1>3. CardInv'
  BY DEF Decrement, IInv, TypeOK, FlowInv, MemOnCard, FlowOK, KeyInHand, Committed,
         CardInv, AttemptsPaidFor, BlobHasCounter, ErasedStaysErased, LastPinOpens
<1> QED
  BY <1>1, <1>2, <1>3 DEF IInv

\* No blob to decrypt.
LEMMA NoBlobInv ==
    ASSUME IInv, NoBlob
    PROVE  IInv'
<1>1. TypeOK'
  BY DEF NoBlob, IInv, TypeOK, FlowInv, MemOnCard, Committed
<1>2. FlowInv'
  BY DEF NoBlob, IInv, TypeOK, FlowInv, MemOnCard, FlowOK, KeyInHand, Committed,
         FlagOK, Settling, CardInv, BlobHasCounter, AttemptsPaidFor
<1>3. CardInv'
  BY DEF NoBlob, IInv, TypeOK, FlowInv, MemOnCard, FlowOK, KeyInHand, Committed,
         CardInv, AttemptsPaidFor, BlobHasCounter, ErasedStaysErased, LastPinOpens
<1> QED
  BY <1>1, <1>2, <1>3 DEF IInv

\* A wrong key uses the attempt that was paid for.
LEMMA WrongKeyInv ==
    ASSUME IInv, WrongKey
    PROVE  IInv'
<1>1. TypeOK'
  BY DEF WrongKey, LoadFailed, IInv, TypeOK, FlowInv, MemOnCard, Committed
<1>2. FlowInv'
  BY DEF WrongKey, LoadFailed, IInv, TypeOK, FlowInv, MemOnCard, FlowOK, KeyInHand, Committed,
         FlagOK, Settling, CardInv, BlobHasCounter, AttemptsPaidFor
<1>3. CardInv'
  BY DEF WrongKey, LoadFailed, IInv, TypeOK, FlowInv, MemOnCard, FlowOK, KeyInHand, Committed,
         CardInv, AttemptsPaidFor, BlobHasCounter, ErasedStaysErased, LastPinOpens
<1> QED
  BY <1>1, <1>2, <1>3 DEF IInv

\* The right key restores the counter and the count of wrong keys begins
\* anew.
LEMMA RightKeyInv ==
    ASSUME IInv, NEW ok \in BOOLEAN, RightKey(ok)
    PROVE  IInv'
<1>1. TypeOK'
  BY DEF RightKey, IInv, TypeOK, FlowInv, MemOnCard, Committed
<1>2. FlowInv'
  BY DEF RightKey, IInv, TypeOK, FlowInv, MemOnCard, FlowOK, KeyInHand, Committed,
         FlagOK, Settling, CardInv, BlobHasCounter, AttemptsPaidFor
<1>3. CardInv'
  BY DEF RightKey, IInv, TypeOK, FlowInv, MemOnCard, FlowOK, KeyInHand, Committed,
         CardInv, AttemptsPaidFor, BlobHasCounter, ErasedStaysErased, LastPinOpens
<1> QED
  BY <1>1, <1>2, <1>3 DEF IInv

\* storage_erase_encrypted_blob: the blob goes first ...
LEMMA EraseBlobInv ==
    ASSUME IInv, NEW ok \in BOOLEAN, EraseBlob(ok)
    PROVE  IInv'
<1>1. TypeOK'
  BY DEF EraseBlob, IInv, TypeOK, FlowInv, MemOnCard, Committed
<1>2. FlowInv'
  BY DEF EraseBlob, IInv, TypeOK, FlowInv, MemOnCard, FlowOK, KeyInHand, Committed,
         FlagOK, Settling, CardInv, BlobHasCounter, AttemptsPaidFor
<1>3. CardInv'
  BY DEF EraseBlob, IInv, TypeOK, FlowInv, MemOnCard, FlowOK, KeyInHand, Committed,
         CardInv, AttemptsPaidFor, BlobHasCounter, ErasedStaysErased, LastPinOpens
<1> QED
  BY <1>1, <1>2, <1>3 DEF IInv

\* ... the counter only once no record on the card has a blob ...
LEMMA EraseCounterInv ==
    ASSUME IInv, NEW ok \in BOOLEAN, EraseCounter(ok)
    PROVE  IInv'
<1>1. TypeOK'
  <2>1. flag' \in BOOLEAN
    <3>1. CASE ret = "rejected"
      BY <3>1 DEF EraseCounter, EraseReturns, LoadFailed
    <3>2. CASE ret = "noblob"
      BY <3>2 DEF EraseCounter, EraseReturns, LoadFailed
    <3>3. CASE ret \notin {"rejected", "noblob"}
      BY <3>3, Zenon DEF EraseCounter, EraseReturns, LoadFailed, IInv, TypeOK
    <3> QED
      BY <3>1, <3>2, <3>3
  <2>2. FlagsTyped'
    BY <2>1, Zenon DEF EraseCounter, EraseReturns, LoadFailed, IInv, TypeOK, FlagsTyped
  <2> QED
    BY <2>2 DEF EraseCounter, EraseReturns, LoadFailed, IInv, TypeOK, FlagsTyped
<1>2. FlowInv'
  BY DEF EraseCounter, EraseReturns, LoadFailed, IInv, TypeOK, FlowInv, MemOnCard, FlowOK, KeyInHand, Committed,
         FlagOK, Settling, CardInv, BlobHasCounter, AttemptsPaidFor
<1>3. CardInv'
  BY DEF EraseCounter, EraseReturns, LoadFailed, IInv, TypeOK, FlowInv, MemOnCard, FlowOK, KeyInHand, Committed,
         CardInv, AttemptsPaidFor, BlobHasCounter, ErasedStaysErased, LastPinOpens
<1> QED
  BY <1>1, <1>2, <1>3 DEF IInv

\* ... and the marker is written where the blob could not be removed.
LEMMA MarkInv ==
    ASSUME IInv, NEW ok \in BOOLEAN, Mark(ok)
    PROVE  IInv'
<1>1. TypeOK'
  <2>1. flag' \in BOOLEAN
    <3>1. CASE ret = "rejected"
      BY <3>1 DEF Mark, EraseReturns, LoadFailed
    <3>2. CASE ret = "noblob"
      BY <3>2 DEF Mark, EraseReturns, LoadFailed
    <3>3. CASE ret \notin {"rejected", "noblob"}
      BY <3>3, Zenon DEF Mark, EraseReturns, LoadFailed, IInv, TypeOK
    <3> QED
      BY <3>1, <3>2, <3>3
  <2>2. FlagsTyped'
    BY <2>1, Zenon DEF Mark, EraseReturns, LoadFailed, IInv, TypeOK, FlagsTyped
  <2> QED
    BY <2>2 DEF Mark, EraseReturns, LoadFailed, IInv, TypeOK, FlagsTyped
<1>2. FlowInv'
  BY DEF Mark, EraseReturns, LoadFailed, IInv, TypeOK, FlowInv, MemOnCard, FlowOK, KeyInHand, Committed,
         FlagOK, Settling, CardInv, BlobHasCounter, AttemptsPaidFor
<1>3. CardInv'
  BY DEF Mark, EraseReturns, LoadFailed, IInv, TypeOK, FlowInv, MemOnCard, FlowOK, KeyInHand, Committed,
         CardInv, AttemptsPaidFor, BlobHasCounter, ErasedStaysErased, LastPinOpens
<1> QED
  BY <1>1, <1>2, <1>3 DEF IInv

\* keychain_erase_encrypted: the flag follows the erase.
LEMMA UnrestrictInv ==
    ASSUME IInv, NEW ok \in BOOLEAN, Unrestrict(ok)
    PROVE  IInv'
<1>1. TypeOK'
  BY DEF Unrestrict, LoadFailed, IInv, TypeOK, FlowInv, MemOnCard, Committed
<1>2. FlowInv'
  BY DEF Unrestrict, LoadFailed, IInv, TypeOK, FlowInv, MemOnCard, FlowOK, KeyInHand, Committed,
         FlagOK, Settling, CardInv, BlobHasCounter, AttemptsPaidFor
<1>3. CardInv'
  BY DEF Unrestrict, LoadFailed, IInv, TypeOK, FlowInv, MemOnCard, FlowOK, KeyInHand, Committed,
         CardInv, AttemptsPaidFor, BlobHasCounter, ErasedStaysErased, LastPinOpens
<1> QED
  BY <1>1, <1>2, <1>3 DEF IInv

\* The wrong PIN is an ordinary one ...
LEMMA OrdinaryPinInv ==
    ASSUME IInv, OrdinaryPin
    PROVE  IInv'
<1>1. TypeOK'
  BY DEF OrdinaryPin, IInv, TypeOK, FlowInv, MemOnCard, Committed
<1>2. FlowInv'
  BY DEF OrdinaryPin, IInv, TypeOK, FlowInv, MemOnCard, FlowOK, KeyInHand, Committed,
         FlagOK, Settling, CardInv, BlobHasCounter, AttemptsPaidFor
<1>3. CardInv'
  BY DEF OrdinaryPin, IInv, TypeOK, FlowInv, MemOnCard, FlowOK, KeyInHand, Committed,
         CardInv, AttemptsPaidFor, BlobHasCounter, ErasedStaysErased, LastPinOpens
<1> QED
  BY <1>1, <1>2, <1>3 DEF IInv

\* ... or the one that erases ...
LEMMA ErasePinInv ==
    ASSUME IInv, ErasePin
    PROVE  IInv'
<1>1. TypeOK'
  BY DEF ErasePin, IInv, TypeOK, FlowInv, MemOnCard, Committed
<1>2. FlowInv'
  BY DEF ErasePin, IInv, TypeOK, FlowInv, MemOnCard, FlowOK, KeyInHand, Committed,
         FlagOK, Settling, CardInv, BlobHasCounter, AttemptsPaidFor
<1>3. CardInv'
  BY DEF ErasePin, IInv, TypeOK, FlowInv, MemOnCard, FlowOK, KeyInHand, Committed,
         CardInv, AttemptsPaidFor, BlobHasCounter, ErasedStaysErased, LastPinOpens
<1> QED
  BY <1>1, <1>2, <1>3 DEF IInv

\* ... and shuts the device down.
LEMMA ShutDownInv ==
    ASSUME IInv, NEW ok \in BOOLEAN, ShutDown(ok)
    PROVE  IInv'
<1>1. TypeOK'
  <2>1. FlagsTyped'
    BY Zenon DEF ShutDown, Volatile, IInv, TypeOK, FlagsTyped
  <2> QED
    BY <2>1 DEF ShutDown, Volatile, IInv, TypeOK, FlowInv, MemOnCard, Committed, FlagsTyped
<1>2. FlowInv'
  BY DEF ShutDown, Volatile, IInv, TypeOK, FlowInv, MemOnCard, FlowOK, KeyInHand, Committed,
         FlagOK, Settling, CardInv, BlobHasCounter, AttemptsPaidFor
<1>3. CardInv'
  BY DEF ShutDown, Volatile, IInv, TypeOK, FlowInv, MemOnCard, FlowOK, KeyInHand, Committed,
         CardInv, AttemptsPaidFor, BlobHasCounter, ErasedStaysErased, LastPinOpens
<1> QED
  BY <1>1, <1>2, <1>3 DEF IInv

\* The keys are ready, or wait for the passphrase ...
LEMMA OpenedInv ==
    ASSUME IInv, NEW entropy \in BOOLEAN, Opened(entropy)
    PROVE  IInv'
<1>1. TypeOK'
  <2>1. FlagsTyped'
    BY Zenon DEF Opened, KeysReady, IInv, TypeOK, FlagsTyped
  <2> QED
    BY <2>1 DEF Opened, KeysReady, IInv, TypeOK, FlowInv, MemOnCard, Committed, FlagsTyped
<1>2. FlowInv'
  BY DEF Opened, KeysReady, IInv, TypeOK, FlowInv, MemOnCard, FlowOK, KeyInHand, Committed,
         FlagOK, Settling, CardInv, BlobHasCounter, AttemptsPaidFor
<1>3. CardInv'
  BY DEF Opened, KeysReady, IInv, TypeOK, FlowInv, MemOnCard, FlowOK, KeyInHand, Committed,
         CardInv, AttemptsPaidFor, BlobHasCounter, ErasedStaysErased, LastPinOpens
<1> QED
  BY <1>1, <1>2, <1>3 DEF IInv

\* ... that is entered ...
LEMMA DeriveInv ==
    ASSUME IInv, Derive
    PROVE  IInv'
<1>1. TypeOK'
  <2>1. FlagsTyped'
    BY Zenon DEF Derive, KeysReady, IInv, TypeOK, FlagsTyped
  <2> QED
    BY <2>1 DEF Derive, KeysReady, IInv, TypeOK, FlowInv, MemOnCard, Committed, FlagsTyped
<1>2. FlowInv'
  BY DEF Derive, KeysReady, IInv, TypeOK, FlowInv, MemOnCard, FlowOK, KeyInHand, Committed,
         FlagOK, Settling, CardInv, BlobHasCounter, AttemptsPaidFor
<1>3. CardInv'
  BY DEF Derive, KeysReady, IInv, TypeOK, FlowInv, MemOnCard, FlowOK, KeyInHand, Committed,
         CardInv, AttemptsPaidFor, BlobHasCounter, ErasedStaysErased, LastPinOpens
<1> QED
  BY <1>1, <1>2, <1>3 DEF IInv

\* ... declined ...
LEMMA DeclinePassphraseInv ==
    ASSUME IInv, DeclinePassphrase
    PROVE  IInv'
<1>1. TypeOK'
  <2>1. FlagsTyped'
    BY Zenon DEF DeclinePassphrase, IInv, TypeOK, FlagsTyped
  <2> QED
    BY <2>1 DEF DeclinePassphrase, IInv, TypeOK, FlowInv, MemOnCard, Committed, FlagsTyped
<1>2. FlowInv'
  BY DEF DeclinePassphrase, IInv, TypeOK, FlowInv, MemOnCard, FlowOK, KeyInHand, Committed,
         FlagOK, Settling, CardInv, BlobHasCounter, AttemptsPaidFor
<1>3. CardInv'
  BY DEF DeclinePassphrase, IInv, TypeOK, FlowInv, MemOnCard, FlowOK, KeyInHand, Committed,
         CardInv, AttemptsPaidFor, BlobHasCounter, ErasedStaysErased, LastPinOpens
<1> QED
  BY <1>1, <1>2, <1>3 DEF IInv

\* ... or does not derive.
LEMMA DeriveFailsInv ==
    ASSUME IInv, DeriveFails
    PROVE  IInv'
<1>1. TypeOK'
  BY DEF DeriveFails, IInv, TypeOK, FlowInv, MemOnCard, Committed
<1>2. FlowInv'
  BY DEF DeriveFails, IInv, TypeOK, FlowInv, MemOnCard, FlowOK, KeyInHand, Committed,
         FlagOK, Settling, CardInv, BlobHasCounter, AttemptsPaidFor
<1>3. CardInv'
  BY DEF DeriveFails, IInv, TypeOK, FlowInv, MemOnCard, FlowOK, KeyInHand, Committed,
         CardInv, AttemptsPaidFor, BlobHasCounter, ErasedStaysErased, LastPinOpens
<1> QED
  BY <1>1, <1>2, <1>3 DEF IInv

\* The change of PIN is declined ...
LEMMA DeclineChangeInv ==
    ASSUME IInv, NEW answered \in BOOLEAN, DeclineChange(answered)
    PROVE  IInv'
<1>1. TypeOK'
  BY DEF DeclineChange, IInv, TypeOK, FlowInv, MemOnCard, Committed
<1>2. FlowInv'
  BY DEF DeclineChange, IInv, TypeOK, FlowInv, MemOnCard, FlowOK, KeyInHand, Committed,
         FlagOK, Settling, CardInv, BlobHasCounter, AttemptsPaidFor
<1>3. CardInv'
  BY DEF DeclineChange, IInv, TypeOK, FlowInv, MemOnCard, FlowOK, KeyInHand, Committed,
         CardInv, AttemptsPaidFor, BlobHasCounter, ErasedStaysErased, LastPinOpens
<1> QED
  BY <1>1, <1>2, <1>3 DEF IInv

\* ... or begun ...
LEMMA AcceptChangeInv ==
    ASSUME IInv, AcceptChange
    PROVE  IInv'
<1>1. TypeOK'
  BY DEF AcceptChange, IInv, TypeOK, FlowInv, MemOnCard, Committed
<1>2. FlowInv'
  BY DEF AcceptChange, IInv, TypeOK, FlowInv, MemOnCard, FlowOK, KeyInHand, Committed,
         FlagOK, Settling, CardInv, BlobHasCounter, AttemptsPaidFor
<1>3. CardInv'
  BY DEF AcceptChange, IInv, TypeOK, FlowInv, MemOnCard, FlowOK, KeyInHand, Committed,
         CardInv, AttemptsPaidFor, BlobHasCounter, ErasedStaysErased, LastPinOpens
<1> QED
  BY <1>1, <1>2, <1>3 DEF IInv

\* ... as the save of a new wallet is.
LEMMA SaveBeginInv ==
    ASSUME IInv, SaveBegin
    PROVE  IInv'
<1>1. TypeOK'
  BY DEF SaveBegin, IInv, TypeOK, FlowInv, MemOnCard, Committed
<1>2. FlowInv'
  BY DEF SaveBegin, IInv, TypeOK, FlowInv, MemOnCard, FlowOK, KeyInHand, Committed,
         FlagOK, Settling, CardInv, BlobHasCounter, AttemptsPaidFor
<1>3. CardInv'
  BY DEF SaveBegin, IInv, TypeOK, FlowInv, MemOnCard, FlowOK, KeyInHand, Committed,
         CardInv, AttemptsPaidFor, BlobHasCounter, ErasedStaysErased, LastPinOpens
<1> QED
  BY <1>1, <1>2, <1>3 DEF IInv

\* The new PIN does not reach the server ...
LEMMA SetPinFailsInv ==
    ASSUME IInv, SetPinFails
    PROVE  IInv'
<1>1. TypeOK'
  BY DEF SetPinFails, Abandoned, IInv, TypeOK, FlowInv, MemOnCard, Committed
<1>2. FlowInv'
  BY DEF SetPinFails, Abandoned, IInv, TypeOK, FlowInv, MemOnCard, FlowOK, KeyInHand, Committed,
         FlagOK, Settling, CardInv, BlobHasCounter, AttemptsPaidFor
<1>3. CardInv'
  BY DEF SetPinFails, Abandoned, IInv, TypeOK, FlowInv, MemOnCard, FlowOK, KeyInHand, Committed,
         CardInv, AttemptsPaidFor, BlobHasCounter, ErasedStaysErased, LastPinOpens
<1> QED
  BY <1>1, <1>2, <1>3 DEF IInv

\* ... or the server makes a new key, and the blob is torn from it.
LEMMA SetPinInv ==
    ASSUME IInv, NEW answered \in BOOLEAN, SetPin(answered)
    PROVE  IInv'
<1>1. TypeOK'
  BY DEF SetPin, Abandoned, IInv, TypeOK, FlowInv, MemOnCard, Committed
<1>2. FlowInv'
  BY DEF SetPin, Abandoned, IInv, TypeOK, FlowInv, MemOnCard, FlowOK, KeyInHand, Committed,
         FlagOK, Settling, CardInv, BlobHasCounter, AttemptsPaidFor
<1>3. CardInv'
  BY DEF SetPin, Abandoned, IInv, TypeOK, FlowInv, MemOnCard, FlowOK, KeyInHand, Committed,
         CardInv, AttemptsPaidFor, BlobHasCounter, ErasedStaysErased, LastPinOpens
<1> QED
  BY <1>1, <1>2, <1>3 DEF IInv

\* storage_set_encrypted_blob: the counter first ...
LEMMA RecountInv ==
    ASSUME IInv, NEW ok \in BOOLEAN, Recount(ok)
    PROVE  IInv'
<1>1. TypeOK'
  BY DEF Recount, Abandoned, IInv, TypeOK, FlowInv, MemOnCard, Committed
<1>2. FlowInv'
  BY DEF Recount, Abandoned, IInv, TypeOK, FlowInv, MemOnCard, FlowOK, KeyInHand, Committed,
         FlagOK, Settling, CardInv, BlobHasCounter, AttemptsPaidFor
<1>3. CardInv'
  BY DEF Recount, Abandoned, IInv, TypeOK, FlowInv, MemOnCard, FlowOK, KeyInHand, Committed,
         CardInv, AttemptsPaidFor, BlobHasCounter, ErasedStaysErased, LastPinOpens
<1> QED
  BY <1>1, <1>2, <1>3 DEF IInv

\* ... then the blob, with the server's key.
LEMMA WriteBlobInv ==
    ASSUME IInv, NEW ok \in BOOLEAN, WriteBlob(ok)
    PROVE  IInv'
<1>1. TypeOK'
  <2>1. FlagsTyped'
    BY Zenon DEF WriteBlob, Abandoned, IInv, TypeOK, FlagsTyped
  <2>2. pc' \in Steps
    BY DEF WriteBlob, Abandoned
  <2>3. mem' \in Records /\ card' \in SUBSET Records /\ older' \in Records
    BY DEF WriteBlob, IInv, TypeOK
  <2>4. card' # {} /\ UNCHANGED <<keys, server, local, nkeys, guesses>>
    BY DEF WriteBlob, IInv, TypeOK
  <2> QED
    BY <2>1, <2>2, <2>3, <2>4 DEF IInv, TypeOK, FlagsTyped
<1>2. FlowInv'
  BY DEF WriteBlob, Abandoned, IInv, TypeOK, FlowInv, MemOnCard, FlowOK, KeyInHand, Committed,
         FlagOK, Settling, CardInv, BlobHasCounter, AttemptsPaidFor
<1>3. CardInv'
  <2>1. /\ \A r \in card' : r = mem \/ r = WithBlob(newaes)
        /\ ok => card' = {WithBlob(newaes)}
        /\ mem.counter = 3 /\ guesses' = 0 /\ newaes = server
        /\ older' \in {older, mem}
    BY DEF WriteBlob, IInv, FlowInv, KeyInHand, Committed
  <2>2. AttemptsPaidFor' /\ BlobHasCounter'
    BY <2>1 DEF AttemptsPaidFor, BlobHasCounter, IInv, CardInv
  <2>3. ErasedStaysErased'
    BY DEF WriteBlob, ErasedStaysErased
  <2>4. LastPinOpens'
    <3>1. CASE ok
      BY <2>1, <3>1 DEF WriteBlob, LastPinOpens
    <3>2. CASE ~ok
      BY <3>2, Zenon DEF WriteBlob, LastPinOpens
    <3> QED
      BY <3>1, <3>2
  <2> QED
    BY <2>2, <2>3, <2>4 DEF CardInv
<1> QED
  BY <1>1, <1>2, <1>3 DEF IInv

\* keychain_store: the wallet is now one with a PIN.
LEMMA SavedInv ==
    ASSUME IInv, NEW ok \in BOOLEAN, Saved(ok)
    PROVE  IInv'
<1>1. TypeOK'
  <2>1. FlagsTyped'
    BY Zenon DEF Saved, IInv, TypeOK, FlagsTyped
  <2> QED
    BY <2>1 DEF Saved, IInv, TypeOK, FlowInv, MemOnCard, Committed, FlagsTyped
<1>2. FlowInv'
  BY DEF Saved, IInv, TypeOK, FlowInv, MemOnCard, FlowOK, KeyInHand, Committed,
         FlagOK, Settling, CardInv, BlobHasCounter, AttemptsPaidFor
<1>3. CardInv'
  BY DEF Saved, IInv, TypeOK, FlowInv, MemOnCard, FlowOK, KeyInHand, Committed,
         CardInv, AttemptsPaidFor, BlobHasCounter, ErasedStaysErased, LastPinOpens
<1> QED
  BY <1>1, <1>2, <1>3 DEF IInv

\* The network restriction is stored, or is there already.
LEMMA SetNetworkInv ==
    ASSUME IInv, NEW stored \in BOOLEAN, NEW ok \in BOOLEAN, SetNetwork(stored, ok)
    PROVE  IInv'
<1>1. TypeOK'
  BY DEF SetNetwork, IInv, TypeOK, FlowInv, MemOnCard, Committed
<1>2. FlowInv'
  BY DEF SetNetwork, IInv, TypeOK, FlowInv, MemOnCard, FlowOK, KeyInHand, Committed,
         FlagOK, Settling, CardInv, BlobHasCounter, AttemptsPaidFor
<1>3. CardInv'
  BY DEF SetNetwork, IInv, TypeOK, FlowInv, MemOnCard, FlowOK, KeyInHand, Committed,
         CardInv, AttemptsPaidFor, BlobHasCounter, ErasedStaysErased, LastPinOpens
<1> QED
  BY <1>1, <1>2, <1>3 DEF IInv

----------------------------------------------------------------------------
(* The theorems.                                                           *)

\* Every step of the device keeps the inductive invariant.
LEMMA InvStep ==
    ASSUME IInv, [Next]_vars
    PROVE  IInv'
<1>1. ASSUME NEW ok \in BOOLEAN, Boot(ok) PROVE IInv'
  BY <1>1, BootInv
<1>2. CASE PowerCut
  BY <1>2, PowerCutInv
<1>3. CASE ProcessEnds
  BY <1>3, ProcessEndsInv
<1>4. CASE NewWallet
  BY <1>4, NewWalletInv
<1>5. CASE Logout
  BY <1>5, LogoutInv
<1>6. ASSUME NEW yes \in BOOLEAN, AskChange(yes) PROVE IInv'
  BY <1>6, AskChangeInv
<1>7. CASE RequestChange
  BY <1>7, RequestChangeInv
<1>8. ASSUME NEW ok \in BOOLEAN, OtherCommit(ok) PROVE IInv'
  BY <1>8, OtherCommitInv
<1>9. CASE ResetBegin
  BY <1>9, ResetBeginInv
<1>10. CASE ResetDone
  BY <1>10, ResetDoneInv
<1>11. CASE ResetFails
  BY <1>11, ResetFailsInv
<1>12. CASE UnlockBegin
  BY <1>12, UnlockBeginInv
<1>13. CASE AssertFails
  BY <1>13, AssertFailsInv
<1>14. ASSUME NEW right \in BOOLEAN, GetPin(right) PROVE IInv'
  BY <1>14, GetPinInv
<1>15. CASE GetPinFails
  BY <1>15, GetPinFailsInv
<1>16. CASE LoadRefused
  BY <1>16, LoadRefusedInv
<1>17. CASE LoadStarts
  BY <1>17, LoadStartsInv
<1>18. CASE CounterRejected
  BY <1>18, CounterRejectedInv
<1>19. ASSUME NEW ok \in BOOLEAN, Decrement(ok) PROVE IInv'
  BY <1>19, DecrementInv
<1>20. CASE NoBlob
  BY <1>20, NoBlobInv
<1>21. CASE WrongKey
  BY <1>21, WrongKeyInv
<1>22. ASSUME NEW ok \in BOOLEAN, RightKey(ok) PROVE IInv'
  BY <1>22, RightKeyInv
<1>23. ASSUME NEW ok \in BOOLEAN, EraseBlob(ok) PROVE IInv'
  BY <1>23, EraseBlobInv
<1>24. ASSUME NEW ok \in BOOLEAN, EraseCounter(ok) PROVE IInv'
  BY <1>24, EraseCounterInv
<1>25. ASSUME NEW ok \in BOOLEAN, Mark(ok) PROVE IInv'
  BY <1>25, MarkInv
<1>26. ASSUME NEW ok \in BOOLEAN, Unrestrict(ok) PROVE IInv'
  BY <1>26, UnrestrictInv
<1>27. CASE OrdinaryPin
  BY <1>27, OrdinaryPinInv
<1>28. CASE ErasePin
  BY <1>28, ErasePinInv
<1>29. ASSUME NEW ok \in BOOLEAN, ShutDown(ok) PROVE IInv'
  BY <1>29, ShutDownInv
<1>30. ASSUME NEW entropy \in BOOLEAN, Opened(entropy) PROVE IInv'
  BY <1>30, OpenedInv
<1>31. CASE Derive
  BY <1>31, DeriveInv
<1>32. CASE DeclinePassphrase
  BY <1>32, DeclinePassphraseInv
<1>33. CASE DeriveFails
  BY <1>33, DeriveFailsInv
<1>34. ASSUME NEW answered \in BOOLEAN, DeclineChange(answered) PROVE IInv'
  BY <1>34, DeclineChangeInv
<1>35. CASE AcceptChange
  BY <1>35, AcceptChangeInv
<1>36. CASE SaveBegin
  BY <1>36, SaveBeginInv
<1>37. CASE SetPinFails
  BY <1>37, SetPinFailsInv
<1>38. ASSUME NEW answered \in BOOLEAN, SetPin(answered) PROVE IInv'
  BY <1>38, SetPinInv
<1>39. ASSUME NEW ok \in BOOLEAN, Recount(ok) PROVE IInv'
  BY <1>39, RecountInv
<1>40. ASSUME NEW ok \in BOOLEAN, WriteBlob(ok) PROVE IInv'
  BY <1>40, WriteBlobInv
<1>41. ASSUME NEW ok \in BOOLEAN, Saved(ok) PROVE IInv'
  BY <1>41, SavedInv
<1>42. ASSUME NEW stored \in BOOLEAN, NEW ok \in BOOLEAN, SetNetwork(stored, ok) PROVE IInv'
  BY <1>42, SetNetworkInv
<1>43. CASE UNCHANGED vars
  BY <1>43 DEF vars, IInv, TypeOK, FlowInv, MemOnCard, FlowOK, KeyInHand, Committed, FlagOK,
         Settling, CardInv, AttemptsPaidFor, BlobHasCounter, ErasedStaysErased, LastPinOpens
<1> QED
  BY <1>1, <1>2, <1>3, <1>4, <1>5, <1>6, <1>7, <1>8, <1>9, <1>10,
     <1>11, <1>12, <1>13, <1>14, <1>15, <1>16, <1>17, <1>18, <1>19, <1>20,
     <1>21, <1>22, <1>23, <1>24, <1>25, <1>26, <1>27, <1>28, <1>29, <1>30,
     <1>31, <1>32, <1>33, <1>34, <1>35, <1>36, <1>37, <1>38, <1>39, <1>40,
     <1>41, <1>42, <1>43 DEF Next

\* The first start finds an empty card.
LEMMA InvInit == Init => IInv
<1> SUFFICES ASSUME Init PROVE IInv
  OBVIOUS
<1>1. FlagsTyped
  BY Zenon DEF Init, FlagsTyped
<1>2. TypeOK
  BY <1>1 DEF Init, TypeOK, FlagsTyped
<1>3. FlowInv
  BY DEF Init, FlowInv, MemOnCard, FlowOK, KeyInHand, Committed, FlagOK, Settling
<1>4. CardInv
  BY DEF Init, CardInv, AttemptsPaidFor, BlobHasCounter, ErasedStaysErased, LastPinOpens
<1> QED
  BY <1>2, <1>3, <1>4 DEF IInv

\* The inductive invariant holds throughout.
LEMMA Invariance == Spec => []IInv
BY InvInit, InvStep, PTL DEF Spec

\* Type correctness, and with it that no more than three wrong keys are tried on
\* a blob between two times its counter is set to three or a factory reset is
\* begun.
THEOREM TypeCorrect == Spec => []TypeOK
<1>1. IInv => TypeOK
  BY DEF IInv
<1> QED
  BY <1>1, Invariance, PTL

\* The attempts a start offers and the wrong keys already tried are three
\* together, a seed on the card has its counter, and a device that asks for a
\* PIN has attempts left (storage_decrement_counter, storage_erase_encrypted_blob,
\* get_pin_get_aeskey), whatever commit fails or power cut comes.  Wrong keys
\* count from the last factory reset that was begun, which if cut short may give
\* back the attempts of the generation before (settings_store_erase).
THEOREM AttemptsAlwaysKept == Spec => []AttemptsKept
<1>1. IInv => AttemptsKept
  BY DEF IInv, FlowInv, FlowOK, FlagOK, Settling, CardInv, AttemptsKept, AttemptsLeft
<1> QED
  BY <1>1, Invariance, PTL

\* Once storage_erase_encrypted_blob or a factory reset has answered yes, no start
\* finds the seed again until another is stored or a factory reset is begun.
THEOREM EraseIsFinal == Spec => []ErasedStaysErased
<1>1. IInv => ErasedStaysErased
  BY DEF IInv, CardInv
<1> QED
  BY <1>1, Invariance, PTL

\* Unless a save or a change of PIN was cut short or a factory reset not finished,
\* every start that finds a usable wallet finds one that the last PIN set opens.
THEOREM LastPinAlwaysOpens == Spec => []LastPinOpens
<1>1. IInv => LastPinOpens
  BY DEF IInv, CardInv
<1> QED
  BY <1>1, Invariance, PTL

----------------------------------------------------------------------------
(* The wallet implements the lock.                                         *)

\* Whose keys are held at each step of a flow.
KeysFollow ==
    /\ pc \in {"down", "askpin", "load", "opened", "derive", "wrongpin"} => keys = "none"
    /\ pc \in {"decrement", "decrypt", "erase", "uncount", "mark", "unrestrict", "keyflags"} =>
          keys = IF op = "unlock" THEN "none" ELSE "open"
    /\ pc = "askchange" => keys = "open"
    /\ pc \in {"setpin", "recount", "write"} => keys # "none" /\ (op = "change" => keys = "open")
    /\ pc = "restrict" => keys # "none" /\ card = {mem} /\ mem.blob = server

\* The key of a new PIN is on no record until the blob is written.
NewKey ==
    /\ server <= nkeys
    /\ \A r \in card \cup {older} : r.blob <= nkeys
    /\ pc = "recount" \/ (op = "change" /\ pc \in {"decrement", "decrypt"}) =>
          server # NoKey /\ \A r \in card : r.blob # server
    /\ pc \in {"write", "restrict"} => server # NoKey

LockInv == KeysFollow /\ NewKey

\* They hold when the device is first started.
LEMMA KeysInit == Init => LockInv
BY DEF Init, LockInv, KeysFollow, NewKey

\* Every step of the device keeps them.
LEMMA KeysStep ==
    ASSUME IInv, LockInv, [Next]_vars
    PROVE  LockInv'
<1>1. ASSUME NEW ok \in BOOLEAN, Boot(ok) PROVE LockInv'
  BY <1>1 DEF Boot, LockInv, KeysFollow, NewKey
<1>2. CASE PowerCut
  BY <1>2 DEF PowerCut, Volatile, LockInv, KeysFollow, NewKey
<1>3. CASE ProcessEnds
  BY <1>3 DEF ProcessEnds, Volatile, LockInv, KeysFollow, NewKey
<1>4. CASE NewWallet
  BY <1>4 DEF NewWallet, LockInv, KeysFollow, NewKey
<1>5. CASE Logout
  BY <1>5 DEF Logout, LockInv, KeysFollow, NewKey
<1>6. ASSUME NEW yes \in BOOLEAN, AskChange(yes) PROVE LockInv'
  BY <1>6 DEF AskChange, LockInv, KeysFollow, NewKey,
     IInv, TypeOK
<1>7. CASE RequestChange
  BY <1>7 DEF RequestChange, LockInv, KeysFollow, NewKey
<1>8. ASSUME NEW ok \in BOOLEAN, OtherCommit(ok) PROVE LockInv'
  BY <1>8 DEF OtherCommit, LockInv, KeysFollow, NewKey,
     IInv, TypeOK, FlowInv, MemOnCard
<1>9. CASE ResetBegin
  BY <1>9 DEF ResetBegin, LockInv, KeysFollow, NewKey,
     IInv, TypeOK
<1>10. CASE ResetDone
  BY <1>10 DEF ResetDone, Volatile, LockInv, KeysFollow, NewKey,
     IInv, TypeOK
<1>11. CASE ResetFails
  BY <1>11 DEF ResetFails, LockInv, KeysFollow, NewKey,
     IInv, TypeOK
<1>12. CASE UnlockBegin
  BY <1>12 DEF UnlockBegin, LockInv, KeysFollow, NewKey
<1>13. CASE AssertFails
  BY <1>13 DEF AssertFails, Volatile, LockInv, KeysFollow, NewKey
<1>14. ASSUME NEW right \in BOOLEAN, GetPin(right) PROVE LockInv'
  BY <1>14 DEF GetPin, LockInv, KeysFollow, NewKey
<1>15. CASE GetPinFails
  BY <1>15 DEF GetPinFails, LockInv, KeysFollow, NewKey
<1>16. CASE LoadRefused
  BY <1>16 DEF LoadRefused, LockInv, KeysFollow, NewKey
<1>17. CASE LoadStarts
  BY <1>17 DEF LoadStarts, LockInv, KeysFollow, NewKey,
     IInv, TypeOK, FlowInv, FlowOK
<1>18. CASE CounterRejected
  BY <1>18 DEF CounterRejected, LockInv, KeysFollow, NewKey
<1>19. ASSUME NEW ok \in BOOLEAN, Decrement(ok) PROVE LockInv'
  BY <1>19 DEF Decrement, LockInv, KeysFollow, NewKey,
     IInv, TypeOK, FlowInv, MemOnCard
<1>20. CASE NoBlob
  BY <1>20 DEF NoBlob, LockInv, KeysFollow, NewKey
<1>21. CASE WrongKey
  BY <1>21 DEF WrongKey, LoadFailed, LockInv, KeysFollow, NewKey
<1>22. ASSUME NEW ok \in BOOLEAN, RightKey(ok) PROVE LockInv'
  BY <1>22 DEF RightKey, LockInv, KeysFollow, NewKey,
     IInv, TypeOK, FlowInv, FlowOK, KeyInHand, Committed
<1>23. ASSUME NEW ok \in BOOLEAN, EraseBlob(ok) PROVE LockInv'
  BY <1>23 DEF EraseBlob, LockInv, KeysFollow, NewKey,
     IInv, TypeOK
<1>24. ASSUME NEW ok \in BOOLEAN, EraseCounter(ok) PROVE LockInv'
  BY <1>24 DEF EraseCounter, EraseReturns, LoadFailed, LockInv, KeysFollow, NewKey,
     IInv, TypeOK, FlowInv, MemOnCard
<1>25. ASSUME NEW ok \in BOOLEAN, Mark(ok) PROVE LockInv'
  BY <1>25 DEF Mark, EraseReturns, LoadFailed, LockInv, KeysFollow, NewKey,
     IInv, TypeOK, FlowInv, KeyInHand, Committed
<1>26. ASSUME NEW ok \in BOOLEAN, Unrestrict(ok) PROVE LockInv'
  BY <1>26 DEF Unrestrict, LoadFailed, LockInv, KeysFollow, NewKey,
     IInv, TypeOK, FlowInv, MemOnCard
<1>27. CASE OrdinaryPin
  BY <1>27 DEF OrdinaryPin, LockInv, KeysFollow, NewKey
<1>28. CASE ErasePin
  BY <1>28 DEF ErasePin, LockInv, KeysFollow, NewKey,
     IInv, TypeOK, FlowInv, FlowOK
<1>29. ASSUME NEW ok \in BOOLEAN, ShutDown(ok) PROVE LockInv'
  BY <1>29 DEF ShutDown, Volatile, LockInv, KeysFollow, NewKey,
     IInv, TypeOK, FlowInv, MemOnCard
<1>30. ASSUME NEW entropy \in BOOLEAN, Opened(entropy) PROVE LockInv'
  BY <1>30 DEF Opened, KeysReady, LockInv, KeysFollow, NewKey
<1>31. CASE Derive
  BY <1>31 DEF Derive, KeysReady, LockInv, KeysFollow, NewKey
<1>32. CASE DeclinePassphrase
  BY <1>32 DEF DeclinePassphrase, LockInv, KeysFollow, NewKey
<1>33. CASE DeriveFails
  BY <1>33 DEF DeriveFails, LockInv, KeysFollow, NewKey
<1>34. ASSUME NEW answered \in BOOLEAN, DeclineChange(answered) PROVE LockInv'
  BY <1>34 DEF DeclineChange, LockInv, KeysFollow, NewKey
<1>35. CASE AcceptChange
  BY <1>35 DEF AcceptChange, LockInv, KeysFollow, NewKey
<1>36. CASE SaveBegin
  BY <1>36 DEF SaveBegin, LockInv, KeysFollow, NewKey
<1>37. CASE SetPinFails
  BY <1>37 DEF SetPinFails, Abandoned, LockInv, KeysFollow, NewKey
<1>38. ASSUME NEW answered \in BOOLEAN, SetPin(answered) PROVE LockInv'
  BY <1>38 DEF SetPin, Abandoned, LockInv, KeysFollow, NewKey,
     IInv, TypeOK, FlowInv, FlowOK
<1>39. ASSUME NEW ok \in BOOLEAN, Recount(ok) PROVE LockInv'
  BY <1>39 DEF Recount, Abandoned, LockInv, KeysFollow, NewKey,
     IInv, TypeOK, FlowInv, MemOnCard
<1>40. ASSUME NEW ok \in BOOLEAN, WriteBlob(ok) PROVE LockInv'
  BY <1>40 DEF WriteBlob, Abandoned, LockInv, KeysFollow, NewKey,
     IInv, TypeOK, FlowInv, KeyInHand, Committed
<1>41. ASSUME NEW ok \in BOOLEAN, Saved(ok) PROVE LockInv'
  BY <1>41 DEF Saved, LockInv, KeysFollow, NewKey
<1>42. ASSUME NEW stored \in BOOLEAN, NEW ok \in BOOLEAN, SetNetwork(stored, ok) PROVE LockInv'
  BY <1>42 DEF SetNetwork, LockInv, KeysFollow, NewKey,
     IInv, TypeOK, FlowInv, MemOnCard
<1>43. CASE UNCHANGED vars
  BY <1>43 DEF vars, LockInv, KeysFollow, NewKey
<1> QED
  BY <1>1, <1>2, <1>3, <1>4, <1>5, <1>6, <1>7, <1>8, <1>9, <1>10,
     <1>11, <1>12, <1>13, <1>14, <1>15, <1>16, <1>17, <1>18, <1>19, <1>20,
     <1>21, <1>22, <1>23, <1>24, <1>25, <1>26, <1>27, <1>28, <1>29, <1>30,
     <1>31, <1>32, <1>33, <1>34, <1>35, <1>36, <1>37, <1>38, <1>39, <1>40,
     <1>41, <1>42, <1>43 DEF Next

\* Each blob that the step leaves on the card was there before, with as many
\* attempts or more.
CardFades ==
    \A r \in card' : r.blob # NoKey =>
        \E x \in card : /\ x.blob = r.blob
                        /\ r.counter \in 1 .. 3 => x.counter \in 1 .. 3 /\ r.counter <= x.counter

\* The other slot holds what it did, a record that was the newest, or none.
OlderKept == older' \in card \cup {older, Nothing}

\* The step takes away: records, attempts, or the keys.
FadeStep ==
    /\ CardFades
    /\ OlderKept
    /\ keys' \in {keys, "none"}
    /\ pc' \notin {"opened", "derive"}
    /\ aes' \in {aes, NoKey}
    /\ UNCHANGED <<server, guesses>>

\* What the lock makes of the keys held and the step, before and after a step.
LEMMA LockFacts ==
    ASSUME TypeOK, TypeOK'
    PROVE  /\ keys = "open" => LockState = "open"
           /\ keys = "unsaved" => LockState = "fresh"
           /\ keys = "none" /\ pc \in {"opened", "derive"} => LockState = "proved"
           /\ keys = "none" /\ pc \notin {"opened", "derive"} => LockState = "locked"
           /\ keys' = "open" => LockState' = "open"
           /\ keys' = "unsaved" => LockState' = "fresh"
           /\ keys' = "none" /\ pc' \in {"opened", "derive"} => LockState' = "proved"
           /\ keys' = "none" /\ pc' \notin {"opened", "derive"} => LockState' = "locked"
BY DEF LockState, TypeOK

\* What is read off the card follows the card.
LEMMA CardStays ==
    ASSUME UNCHANGED <<card, older>>
    PROVE  UNCHANGED <<Seals, Past, Offers>>
BY DEF Seals, Past, Offers, Stored

\* A blob among the records is a seal, and a seal is the blob of a record.
LEMMA SealFacts ==
    /\ \A k : k \in Seals <=> \E r \in card : r.blob # NoKey /\ r.blob = k
    /\ \A k : k \in Seals' <=> \E r \in card' : r.blob # NoKey /\ r.blob = k
BY DEF Seals, Stored

\* An offer is the counter of a record with a blob, of one to three attempts.
LEMMA OfferFacts ==
    /\ \A o : o \in Offers <=> \E r \in card : r.blob # NoKey /\ r.counter \in 1 .. 3 /\ r.counter = o
    /\ \A o : o \in Offers' <=> \E r \in card' : r.blob # NoKey /\ r.counter \in 1 .. 3 /\ r.counter = o
BY DEF Offers, Stored

\* What the other slot holds was once on the card.
LEMMA PastFacts ==
    ASSUME OlderKept
    PROVE  Lock!Keeps
<1>1. Past' \subseteq Past \cup Seals
  BY SealFacts DEF OlderKept, Past
<1> QED
  BY <1>1 DEF Lock!Keeps

\* A step that only takes away fades the lock.
LEMMA FadeMaps ==
    ASSUME TypeOK, TypeOK', FadeStep
    PROVE  Lock!Fade
<1>1. Seals' \subseteq Seals
  BY SealFacts DEF FadeStep, CardFades
<1>2. \A o \in Offers' : \E p \in Offers : o <= p
  BY OfferFacts DEF FadeStep, CardFades
<1>3. LockState' \in {LockState, "locked"}
  BY LockFacts DEF FadeStep, TypeOK
<1>4. aes' \in {aes, NoKey} /\ UNCHANGED <<server, guesses>>
  BY DEF FadeStep
<1>5. Lock!Keeps
  BY PastFacts DEF FadeStep
<1> QED
  BY <1>1, <1>2, <1>3, <1>4, <1>5 DEF Lock!Fade

\* A factory reset may uncover the older record.
LEMMA ResetBeginMaps ==
    ASSUME TypeOK, TypeOK', ResetBegin
    PROVE  Lock!Reset
<1>1. LockState # "proved" /\ LockState' = LockState
  BY LockFacts DEF ResetBegin, TypeOK
<1>2. \A r \in card' : r.blob # NoKey => r \in card \/ r = older
  BY DEF ResetBegin
<1>3. Seals' \subseteq Seals \cup Past
  BY <1>2, SealFacts DEF Past
<1>4. Offers' \subseteq 1 .. 3
  BY OfferFacts
<1>5. Lock!Keeps
  BY PastFacts DEF ResetBegin, OlderKept
<1>6. guesses' = 0 /\ UNCHANGED <<server, aes>>
  BY DEF ResetBegin
<1> QED
  BY <1>1, <1>3, <1>4, <1>5, <1>6 DEF Lock!Reset

\* A new wallet's keys are made where none are held.
LEMMA NewWalletMaps ==
    ASSUME TypeOK, TypeOK', NewWallet
    PROVE  Lock!Begin
<1>1. LockState = "locked" /\ LockState' = "fresh"
  BY LockFacts DEF NewWallet
<1>2. UNCHANGED <<Seals, Past, Offers>> /\ UNCHANGED <<server, aes, guesses>>
  BY CardStays DEF NewWallet
<1> QED
  BY <1>1, <1>2 DEF Lock!Begin

\* A PIN is entered where no keys are held.
LEMMA GetPinMaps ==
    ASSUME TypeOK, TypeOK', LockInv, NEW right \in BOOLEAN, GetPin(right)
    PROVE  Lock!Give
<1>1. LockState = "locked" /\ LockState' = "locked"
  BY LockFacts DEF GetPin, LockInv, KeysFollow
<1>2. UNCHANGED <<Seals, Past, Offers>> /\ UNCHANGED <<server, guesses>>
  BY CardStays DEF GetPin
<1>3. aes' \in Keys \cup {NoKey}
  BY DEF TypeOK
<1> QED
  BY <1>1, <1>2, <1>3 DEF Lock!Give

\* A wrong key is tried on the one record that a start may find, whose counter
\* has paid for it.
LEMMA WrongKeyMaps ==
    ASSUME IInv, TypeOK', LockInv, WrongKey
    PROVE  Lock!Wrong
<1>1. LockState' = LockState
  BY LockFacts DEF WrongKey, LoadFailed, IInv, TypeOK
<1>2. UNCHANGED <<Seals, Past, Offers>> /\ UNCHANGED <<server, aes>>
  BY CardStays DEF WrongKey
<1>3. card = {mem} /\ mem.blob # NoKey /\ mem.blob # aes /\ guesses + mem.counter <= 2
  BY DEF WrongKey, IInv, FlowInv, Committed
<1>4. \E seal \in Seals : seal # aes
  BY <1>3, SealFacts
<1>5. guesses' = guesses + 1 /\ guesses' <= 3
  BY DEF WrongKey, TypeOK
<1>6. \A o \in Offers : o + guesses' <= 3
  BY <1>3, <1>5, OfferFacts DEF IInv, TypeOK
<1> QED
  BY <1>1, <1>2, <1>4, <1>5, <1>6 DEF Lock!Wrong

\* The key that fits is the server's, unless the wallet is open already.
LEMMA RightKeyMaps ==
    ASSUME IInv, TypeOK', LockInv, NEW ok \in BOOLEAN, RightKey(ok)
    PROVE  Lock!Right
<1>1. card = {mem} /\ mem.blob # NoKey /\ aes = mem.blob
  BY DEF RightKey, IInv, FlowInv, Committed
<1>2. op = "unlock" \/ op = "change"
  BY DEF RightKey, IInv, FlowInv, FlowOK
<1>3. op = "unlock" => LockState = "locked" /\ LockState' = "proved" /\ aes = server
  BY <1>1, LockFacts DEF RightKey, LockInv, KeysFollow, IInv, FlowInv, KeyInHand
<1>4. op = "change" => LockState = "open" /\ LockState' = "open"
  BY LockFacts DEF RightKey, LockInv, KeysFollow, IInv
<1>5. aes \in Seals
  BY <1>1, SealFacts
<1>6. \A r \in card' : r.blob = mem.blob
  BY <1>1 DEF RightKey
<1>7. mem \in card' \/ WithCounter(3) \in card'
  BY <1>1 DEF RightKey
<1>8. Seals' = Seals
  BY <1>1, <1>6, <1>7, SealFacts
<1>9. Offers' \subseteq 1 .. 3
  BY OfferFacts
<1>10. guesses' = 0 /\ UNCHANGED <<server, aes>>
  BY DEF RightKey
<1>11. Lock!Keeps
  BY PastFacts DEF RightKey, OlderKept
<1> QED
  BY <1>2, <1>3, <1>4, <1>5, <1>8, <1>9, <1>10, <1>11 DEF Lock!Right

\* The keys are made of what the right key opened, or the passphrase is asked
\* for first.
LEMMA OpenedMaps ==
    ASSUME IInv, TypeOK', LockInv, NEW entropy \in BOOLEAN, Opened(entropy)
    PROVE  Lock!Open \/ UNCHANGED Lock!lockVars
<1>1. UNCHANGED <<Seals, Past, Offers>> /\ UNCHANGED <<server, aes, guesses>>
  BY CardStays DEF Opened
<1>2. LockState = "proved" /\ LockState' \in {"proved", "open"}
  BY LockFacts DEF Opened, KeysReady, LockInv, KeysFollow, IInv
<1> QED
  BY <1>1, <1>2 DEF Lock!Open, Lock!lockVars

\* The keys are derived with the passphrase.
LEMMA DeriveMaps ==
    ASSUME IInv, TypeOK', LockInv, Derive
    PROVE  Lock!Open
<1>1. UNCHANGED <<Seals, Past, Offers>> /\ UNCHANGED <<server, aes, guesses>>
  BY CardStays DEF Derive
<1>2. LockState = "proved" /\ LockState' = "open"
  BY LockFacts DEF Derive, KeysReady, LockInv, KeysFollow, IInv
<1> QED
  BY <1>1, <1>2 DEF Lock!Open

\* A flow that works with a new PIN holds the keys.
LEMMA KeysHeld ==
    ASSUME IInv, TypeOK', LockInv, pc \in {"setpin", "recount", "write"}, keys' = keys
    PROVE  Lock!Holds /\ LockState' = LockState
<1>1. keys \in {"unsaved", "open"}
  BY DEF LockInv, KeysFollow, IInv, TypeOK
<1>2. LockState \in {"fresh", "open"} /\ LockState' = LockState
  BY <1>1, LockFacts DEF IInv
<1> QED
  BY <1>2 DEF Lock!Holds

\* The server's new key is on no record.
LEMMA SetPinMaps ==
    ASSUME IInv, TypeOK', LockInv, NEW answered \in BOOLEAN, SetPin(answered)
    PROVE  Lock!SetPin
<1>1. UNCHANGED <<Seals, Past, Offers>> /\ UNCHANGED <<aes, guesses>>
  BY CardStays DEF SetPin
<1>2. Lock!Holds /\ LockState' = LockState
  BY KeysHeld DEF SetPin
<1>3. server' = nkeys + 1 /\ server' \in Keys
  BY DEF SetPin, IInv, TypeOK
<1>4. server' \notin Seals /\ server' \notin Past
  BY <1>3, SealFacts DEF LockInv, NewKey, IInv, TypeOK, Past
<1> QED
  BY <1>1, <1>2, <1>3, <1>4 DEF Lock!SetPin

\* The counter is set for the blob that will be written.
LEMMA RecountMaps ==
    ASSUME IInv, TypeOK', LockInv, NEW ok \in BOOLEAN, Recount(ok)
    PROVE  Lock!Renew
<1>1. Lock!Holds /\ LockState' = LockState
  BY KeysHeld DEF Recount
<1>2. server \notin Seals
  BY SealFacts DEF Recount, LockInv, NewKey
<1>3. mem \in card
  BY DEF Recount, IInv, FlowInv, MemOnCard
<1>4. \A r \in card' : \E x \in card : x.blob = r.blob
  BY <1>3 DEF Recount
<1>5. Seals' \subseteq Seals
  BY <1>4, SealFacts
<1>6. Offers' \subseteq 1 .. 3
  BY OfferFacts
<1>7. guesses' = 0 /\ UNCHANGED <<server, aes>>
  BY DEF Recount
<1>8. Lock!Keeps
  BY PastFacts DEF Recount, OlderKept
<1> QED
  BY <1>1, <1>2, <1>5, <1>6, <1>7, <1>8 DEF Lock!Renew

\* The blob is written with the server's key.
LEMMA WriteBlobMaps ==
    ASSUME IInv, TypeOK', LockInv, NEW ok \in BOOLEAN, WriteBlob(ok)
    PROVE  Lock!Store
<1>1. Lock!Holds /\ LockState' = LockState
  BY KeysHeld DEF WriteBlob
<1>2. guesses = 0 /\ newaes = server
  BY DEF WriteBlob, IInv, FlowInv, Committed, KeyInHand
<1>3. \A r \in card' : r \in card \/ r.blob = server
  BY <1>2 DEF WriteBlob
<1>4. Seals' \subseteq Seals \cup {server}
  BY <1>3, SealFacts
<1>5. Offers' \subseteq 1 .. 3
  BY OfferFacts
<1>6. UNCHANGED <<server, aes, guesses>>
  BY DEF WriteBlob
<1>7. Lock!Keeps
  BY PastFacts DEF WriteBlob, OlderKept
<1> QED
  BY <1>1, <1>2, <1>4, <1>5, <1>6, <1>7 DEF Lock!Store

\* The wallet counts as stored once a start can find nothing else.
LEMMA SavedMaps ==
    ASSUME IInv, TypeOK', LockInv, NEW ok \in BOOLEAN, Saved(ok)
    PROVE  Lock!Keep
<1>1. card = {mem} /\ mem.blob = server /\ server # NoKey
  BY DEF Saved, LockInv, KeysFollow, NewKey
<1>2. card' = card
  BY <1>1 DEF Saved
<1>3. UNCHANGED <<Seals, Offers>> /\ UNCHANGED <<server, aes, guesses>>
  BY <1>2 DEF Saved, Seals, Offers, Stored
<1>4. Seals = {server}
  BY <1>1, SealFacts
<1>5. keys \in {"unsaved", "open"}
  BY DEF Saved, LockInv, KeysFollow, IInv, TypeOK
<1>6. Lock!Holds /\ LockState' = "open"
  BY <1>5, LockFacts DEF Saved, IInv, Lock!Holds
<1>7. Lock!Keeps
  BY PastFacts DEF Saved, OlderKept
<1> QED
  BY <1>3, <1>4, <1>6, <1>7 DEF Lock!Keep

\* Every step of the device is a step of the lock.
LEMMA StepMaps ==
    ASSUME IInv, LockInv, [Next]_vars
    PROVE  [Lock!Next]_(Lock!lockVars)
<1>0. TypeOK /\ TypeOK'
  BY InvStep DEF IInv
<1>1. ASSUME NEW ok \in BOOLEAN, Boot(ok) PROVE [Lock!Next]_(Lock!lockVars)
  <2>1. FadeStep
    BY <1>1 DEF Boot, FadeStep, CardFades, OlderKept
  <2> QED
    BY <2>1, <1>0, FadeMaps DEF Lock!Next
<1>2. CASE PowerCut
  <2>1. FadeStep
    BY <1>2 DEF PowerCut, Volatile, FadeStep, CardFades, OlderKept
  <2> QED
    BY <2>1, <1>0, FadeMaps DEF Lock!Next
<1>3. CASE ProcessEnds
  <2>1. FadeStep
    BY <1>3 DEF ProcessEnds, Volatile, FadeStep, CardFades, OlderKept
  <2> QED
    BY <2>1, <1>0, FadeMaps DEF Lock!Next
<1>4. CASE NewWallet
  BY <1>4, <1>0, NewWalletMaps DEF IInv, Lock!Next
<1>5. CASE Logout
  <2>1. FadeStep
    BY <1>5 DEF Logout, FadeStep, CardFades, OlderKept
  <2> QED
    BY <2>1, <1>0, FadeMaps DEF Lock!Next
<1>6. ASSUME NEW yes \in BOOLEAN, AskChange(yes) PROVE [Lock!Next]_(Lock!lockVars)
  <2>1. FadeStep
    BY <1>6 DEF AskChange, FadeStep, CardFades, OlderKept
  <2> QED
    BY <2>1, <1>0, FadeMaps DEF Lock!Next
<1>7. CASE RequestChange
  <2>1. FadeStep
    BY <1>7 DEF RequestChange, FadeStep, CardFades, OlderKept
  <2> QED
    BY <2>1, <1>0, FadeMaps DEF Lock!Next
<1>8. ASSUME NEW ok \in BOOLEAN, OtherCommit(ok) PROVE [Lock!Next]_(Lock!lockVars)
  <2>1. FadeStep
    BY <1>8 DEF OtherCommit, FadeStep, CardFades, OlderKept,
       IInv, FlowInv, MemOnCard
  <2> QED
    BY <2>1, <1>0, FadeMaps DEF Lock!Next
<1>9. CASE ResetBegin
  BY <1>9, <1>0, ResetBeginMaps DEF IInv, Lock!Next
<1>10. CASE ResetDone
  <2>1. FadeStep
    BY <1>10 DEF ResetDone, Volatile, FadeStep, CardFades, OlderKept
  <2> QED
    BY <2>1, <1>0, FadeMaps DEF Lock!Next
<1>11. CASE ResetFails
  <2>1. FadeStep
    BY <1>11 DEF ResetFails, FadeStep, CardFades, OlderKept
  <2> QED
    BY <2>1, <1>0, FadeMaps DEF Lock!Next
<1>12. CASE UnlockBegin
  <2>1. FadeStep
    BY <1>12 DEF UnlockBegin, FadeStep, CardFades, OlderKept
  <2> QED
    BY <2>1, <1>0, FadeMaps DEF Lock!Next
<1>13. CASE AssertFails
  <2>1. FadeStep
    BY <1>13 DEF AssertFails, Volatile, FadeStep, CardFades, OlderKept
  <2> QED
    BY <2>1, <1>0, FadeMaps DEF Lock!Next
<1>14. ASSUME NEW right \in BOOLEAN, GetPin(right) PROVE [Lock!Next]_(Lock!lockVars)
  BY <1>14, <1>0, GetPinMaps DEF IInv, Lock!Next
<1>15. CASE GetPinFails
  <2>1. FadeStep
    BY <1>15 DEF GetPinFails, FadeStep, CardFades, OlderKept
  <2> QED
    BY <2>1, <1>0, FadeMaps DEF Lock!Next
<1>16. CASE LoadRefused
  <2>1. FadeStep
    BY <1>16 DEF LoadRefused, FadeStep, CardFades, OlderKept
  <2> QED
    BY <2>1, <1>0, FadeMaps DEF Lock!Next
<1>17. CASE LoadStarts
  <2>1. FadeStep
    BY <1>17 DEF LoadStarts, FadeStep, CardFades, OlderKept
  <2> QED
    BY <2>1, <1>0, FadeMaps DEF Lock!Next
<1>18. CASE CounterRejected
  <2>1. FadeStep
    BY <1>18 DEF CounterRejected, FadeStep, CardFades, OlderKept
  <2> QED
    BY <2>1, <1>0, FadeMaps DEF Lock!Next
<1>19. ASSUME NEW ok \in BOOLEAN, Decrement(ok) PROVE [Lock!Next]_(Lock!lockVars)
  <2>1. FadeStep
    BY <1>19 DEF Decrement, FadeStep, CardFades, OlderKept,
       IInv, FlowInv, MemOnCard
  <2> QED
    BY <2>1, <1>0, FadeMaps DEF Lock!Next
<1>20. CASE NoBlob
  <2>1. FadeStep
    BY <1>20 DEF NoBlob, FadeStep, CardFades, OlderKept
  <2> QED
    BY <2>1, <1>0, FadeMaps DEF Lock!Next
<1>21. CASE WrongKey
  BY <1>21, <1>0, WrongKeyMaps DEF IInv, Lock!Next
<1>22. ASSUME NEW ok \in BOOLEAN, RightKey(ok) PROVE [Lock!Next]_(Lock!lockVars)
  BY <1>22, <1>0, RightKeyMaps DEF IInv, Lock!Next
<1>23. ASSUME NEW ok \in BOOLEAN, EraseBlob(ok) PROVE [Lock!Next]_(Lock!lockVars)
  <2>1. FadeStep
    BY <1>23 DEF EraseBlob, FadeStep, CardFades, OlderKept
  <2> QED
    BY <2>1, <1>0, FadeMaps DEF Lock!Next
<1>24. ASSUME NEW ok \in BOOLEAN, EraseCounter(ok) PROVE [Lock!Next]_(Lock!lockVars)
  <2>1. FadeStep
    BY <1>24 DEF EraseCounter, EraseReturns, LoadFailed, FadeStep, CardFades, OlderKept,
       IInv, FlowInv, MemOnCard
  <2> QED
    BY <2>1, <1>0, FadeMaps DEF Lock!Next
<1>25. ASSUME NEW ok \in BOOLEAN, Mark(ok) PROVE [Lock!Next]_(Lock!lockVars)
  <2>1. FadeStep
    BY <1>25 DEF Mark, EraseReturns, LoadFailed, FadeStep, CardFades, OlderKept,
       IInv, FlowInv, MemOnCard
  <2> QED
    BY <2>1, <1>0, FadeMaps DEF Lock!Next
<1>26. ASSUME NEW ok \in BOOLEAN, Unrestrict(ok) PROVE [Lock!Next]_(Lock!lockVars)
  <2>1. FadeStep
    BY <1>26 DEF Unrestrict, LoadFailed, FadeStep, CardFades, OlderKept,
       IInv, FlowInv, MemOnCard
  <2> QED
    BY <2>1, <1>0, FadeMaps DEF Lock!Next
<1>27. CASE OrdinaryPin
  <2>1. FadeStep
    BY <1>27 DEF OrdinaryPin, FadeStep, CardFades, OlderKept
  <2> QED
    BY <2>1, <1>0, FadeMaps DEF Lock!Next
<1>28. CASE ErasePin
  <2>1. FadeStep
    BY <1>28 DEF ErasePin, FadeStep, CardFades, OlderKept
  <2> QED
    BY <2>1, <1>0, FadeMaps DEF Lock!Next
<1>29. ASSUME NEW ok \in BOOLEAN, ShutDown(ok) PROVE [Lock!Next]_(Lock!lockVars)
  <2>1. FadeStep
    BY <1>29 DEF ShutDown, Volatile, FadeStep, CardFades, OlderKept,
       IInv, FlowInv, MemOnCard
  <2> QED
    BY <2>1, <1>0, FadeMaps DEF Lock!Next
<1>30. ASSUME NEW entropy \in BOOLEAN, Opened(entropy) PROVE [Lock!Next]_(Lock!lockVars)
  BY <1>30, <1>0, OpenedMaps DEF IInv, Lock!Next
<1>31. CASE Derive
  BY <1>31, <1>0, DeriveMaps DEF IInv, Lock!Next
<1>32. CASE DeclinePassphrase
  <2>1. FadeStep
    BY <1>32 DEF DeclinePassphrase, FadeStep, CardFades, OlderKept
  <2> QED
    BY <2>1, <1>0, FadeMaps DEF Lock!Next
<1>33. CASE DeriveFails
  <2>1. FadeStep
    BY <1>33 DEF DeriveFails, FadeStep, CardFades, OlderKept
  <2> QED
    BY <2>1, <1>0, FadeMaps DEF Lock!Next
<1>34. ASSUME NEW answered \in BOOLEAN, DeclineChange(answered) PROVE [Lock!Next]_(Lock!lockVars)
  <2>1. FadeStep
    BY <1>34 DEF DeclineChange, FadeStep, CardFades, OlderKept
  <2> QED
    BY <2>1, <1>0, FadeMaps DEF Lock!Next
<1>35. CASE AcceptChange
  <2>1. FadeStep
    BY <1>35 DEF AcceptChange, FadeStep, CardFades, OlderKept
  <2> QED
    BY <2>1, <1>0, FadeMaps DEF Lock!Next
<1>36. CASE SaveBegin
  <2>1. FadeStep
    BY <1>36 DEF SaveBegin, FadeStep, CardFades, OlderKept
  <2> QED
    BY <2>1, <1>0, FadeMaps DEF Lock!Next
<1>37. CASE SetPinFails
  <2>1. FadeStep
    BY <1>37 DEF SetPinFails, Abandoned, FadeStep, CardFades, OlderKept
  <2> QED
    BY <2>1, <1>0, FadeMaps DEF Lock!Next
<1>38. ASSUME NEW answered \in BOOLEAN, SetPin(answered) PROVE [Lock!Next]_(Lock!lockVars)
  BY <1>38, <1>0, SetPinMaps DEF IInv, Lock!Next
<1>39. ASSUME NEW ok \in BOOLEAN, Recount(ok) PROVE [Lock!Next]_(Lock!lockVars)
  BY <1>39, <1>0, RecountMaps DEF IInv, Lock!Next
<1>40. ASSUME NEW ok \in BOOLEAN, WriteBlob(ok) PROVE [Lock!Next]_(Lock!lockVars)
  BY <1>40, <1>0, WriteBlobMaps DEF IInv, Lock!Next
<1>41. ASSUME NEW ok \in BOOLEAN, Saved(ok) PROVE [Lock!Next]_(Lock!lockVars)
  BY <1>41, <1>0, SavedMaps DEF IInv, Lock!Next
<1>42. ASSUME NEW stored \in BOOLEAN, NEW ok \in BOOLEAN, SetNetwork(stored, ok) PROVE [Lock!Next]_(Lock!lockVars)
  <2>1. FadeStep
    BY <1>42 DEF SetNetwork, FadeStep, CardFades, OlderKept,
       IInv, FlowInv, MemOnCard
  <2> QED
    BY <2>1, <1>0, FadeMaps DEF Lock!Next
<1>43. CASE UNCHANGED vars
  <2>1. UNCHANGED <<server, aes, guesses>> /\ UNCHANGED <<card, older>> /\ UNCHANGED <<keys, pc>>
    BY <1>43 DEF vars
  <2>2. UNCHANGED <<Seals, Past, Offers>> /\ UNCHANGED LockState
    BY <2>1, CardStays DEF LockState
  <2> QED
    BY <2>1, <2>2 DEF Lock!lockVars
<1> QED
  BY <1>1, <1>2, <1>3, <1>4, <1>5, <1>6, <1>7, <1>8, <1>9, <1>10,
     <1>11, <1>12, <1>13, <1>14, <1>15, <1>16, <1>17, <1>18, <1>19, <1>20,
     <1>21, <1>22, <1>23, <1>24, <1>25, <1>26, <1>27, <1>28, <1>29, <1>30,
     <1>31, <1>32, <1>33, <1>34, <1>35, <1>36, <1>37, <1>38, <1>39, <1>40,
     <1>41, <1>42, <1>43 DEF Next

\* A device first started is a lock on nothing.
LEMMA InitMaps == Init => Lock!Init
<1> SUFFICES ASSUME Init PROVE Lock!Init
  OBVIOUS
<1>1. Seals = {} /\ Past = {} /\ Offers = {}
  BY DEF Init, Seals, Past, Offers, Stored
<1>2. LockState = "locked"
  BY DEF Init, LockState
<1> QED
  BY <1>1, <1>2 DEF Init, Lock!Init

\* The wallet implements the lock for any number of PINs set: whatever commits
\* fail and wherever the power is cut, it opens to the last PIN set alone, each
\* wrong key was paid for on the card, and only who holds the keys gets attempts
\* back, sets a PIN or stores a seed.  The one other way back is a factory reset,
\* which may leave the record of the generation before.
THEOREM WalletImplementsLock == Spec => ImplementsLock
<1>1. Init => IInv /\ LockInv
  BY InvInit, KeysInit
<1>2. IInv /\ LockInv /\ [Next]_vars => IInv' /\ LockInv' /\ [Lock!Next]_(Lock!lockVars)
  BY InvStep, KeysStep, StepMaps
<1> QED
  BY <1>1, <1>2, InitMaps, PTL DEF Spec, ImplementsLock, Lock!Spec

============================================================================
