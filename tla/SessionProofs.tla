--------------------------- MODULE SessionProofs ---------------------------
(***************************************************************************)
(* Proofs about the wallets held in memory: that the slot table is sound,  *)
(* that a wallet's menu is the menu of the wallet in use, that cached      *)
(* words are never another wallet's, that no assertion of the main task    *)
(* fails, and that a screen left with KEY3 changes nothing.  They hold for *)
(* any number of slots, recovery phrases and master secrets.               *)
(***************************************************************************)
EXTENDS Session, FiniteSetTheorems, WellFoundedInduction, TLAPS

----------------------------------------------------------------------------
(***************************************************************************)
(* The inductive invariant.  TableInv says what the slot table can be at   *)
(* any step; StepInv what each step of the main task may rely on, which is *)
(* what the code checked on the way there.                                 *)
(***************************************************************************)

Typing   == {"passphrase", "keyboard", "derive"}
Adding   == {"scan", "again", "held", "switch", "full", "load"}
Choosing == {"choose", "tempnote"}

Obtaining == pc = "obtain" \/ (pc \in Typing /\ flow.name \in {"setup", "seedqr", "message"})
Unlocking == pc \in {"unlock", "underived"} \/ (pc \in Typing /\ flow.name = "unlock")
Scanning  == pc \in Adding \/ (pc \in Typing /\ flow.name = "add")

\* A wallet no source has claimed is alone in the table; one the PIN is to
\* protect is still cached, and the card is empty.
UnclaimedIsAlone ==
    \A i \in Held : slots[i].source = None =>
        /\ \A j \in Held : j = i
        /\ ~slots[i].temp => cache # NoWallet /\ ~HasPin

HeldAreWallets == \A i \in Held : slots[i].wallet \in Wallets

\* Cached words of an open wallet are its own, and nobody has claimed it yet.
CacheOfActive ==
    cache # NoWallet /\ Loaded => Source = None /\ cache.words = slots[active].wallet.words

TableInv == SlotsSound /\ HeldAreWallets /\ UnclaimedIsAlone /\ CacheOfActive

\* The menus as they stand for slot i.
MenuFor(i) ==
    /\ list.rows = slots
    /\ list.title = slots[i].wallet
    /\ list.forget = slots[i].temp
    /\ list.backup = slots[i].entropy

Claimed == Loaded /\ Source # None
Unsaved == Loaded /\ ~Temporary /\ Source = None /\ ~HasPin /\ cache.words \in Phrases

\* With no wallet open, cached words are the stored wallet's, which a PIN has
\* just decrypted or a derivation that failed has left.
CacheInv ==
    cache # NoWallet /\ ~Loaded =>
        cache = blob /\ (failed \/ (flow.name = "unlock" /\ pc \in Typing))

\* Past an unlock, only a derivation that failed leaves them.
Leftover == cache # NoWallet /\ ~Loaded => cache = blob /\ failed

HomeInv == pc \in {"home", "return"} /\ ~show /\ Loaded => Source # None

ObtainInv ==
    Obtaining =>
        /\ ~Loaded /\ (flow.temp \/ ~HasPin)
        /\ flow.name \in {"setup", "seedqr", "message"}
        /\ flow.name = "seedqr" => flow.temp
        /\ flow.name = "message" => ~flow.temp /\ flow.source \in Sources
        /\ pc = "obtain" => ~flow.offer

TypingInv ==
    pc \in Typing =>
        /\ flow.wallet \in Wallets
        /\ flow.name \in {"setup", "seedqr", "message", "unlock", "add"}
        /\ flow.wallet.words \in Secrets => flow.name \in {"setup", "message"}
        /\ flow.offer => flow.wallet.words \in Phrases /\ ~flow.temp

UnlockInv ==
    Unlocking =>
        /\ ~Loaded /\ HasPin /\ flow.name = "unlock" /\ ~flow.offer /\ flow.source \in Sources
        /\ pc \in Typing => flow.wallet.words = blob.words

AuthQrInv ==
    pc = "authqr" =>
        /\ flow.name \in {"setup", "seedqr", "unlock", "changepin"}
        /\ flow.name = "seedqr" => Temporary
        /\ flow.name = "unlock" => ~Loaded
        /\ flow.name = "changepin" => Claimed
        /\ flow.offer /\ ~Temporary => flow.name = "setup" /\ Unsaved

ChooseInv == pc \in Choosing => flow.name = "setup" /\ Unsaved

SetPinInv == pc = "setpin" => Loaded /\ ~Temporary /\ cache # NoWallet /\ flow.source \in Sources

MenuInv ==
    /\ pc \in {"session", "wallet", "forget"} => Claimed /\ list.rows = slots
    /\ pc \in {"wallet", "forget"} => MenuFor(active)

ScanInv ==
    /\ Scanning =>
        /\ Claimed /\ flow.name = "add" /\ ~flow.offer /\ flow.source \in Sources
        /\ flow.before # 0 => active = flow.before /\ MenuFor(active)
    /\ pc \in {"again", "held", "switch", "load"} => flow.wallet \in Wallets
    /\ pc \in {"again", "held", "switch"} => SlotOf(flow.wallet) # {}
    /\ pc = "again" => flow.wallet.words \notin Secrets
    /\ pc = "load" => SlotOf(flow.wallet) = {} /\ Held # SlotIds
    /\ pc = "scanned" => Claimed /\ (active = flow.before => MenuFor(active))

StepInv ==
    /\ HomeInv /\ ObtainInv /\ TypingInv /\ UnlockInv /\ AuthQrInv /\ ChooseInv
    /\ SetPinInv /\ MenuInv /\ ScanInv /\ CacheInv

\* What a screen left with KEY3 means: the escape is up, and the steps that
\* change a claimed wallet without a press are not reached.
LeftInv ==
    /\ left = "left" => esc
    /\ pc = "home" => left = "no"
    /\ pc = "authqr" => left # "left"
    /\ pc = "authed" /\ left = "left" => Source = None

IInv == TypeOK /\ TableInv /\ StepInv /\ LeftInv

----------------------------------------------------------------------------
(* The operators that pick a slot.                                         *)

\* A set of slots that is not empty has a first one, so First picks a member
\* (the loops over keychain_slots that stop at the first match).
LEMMA FirstIsMember ==
    ASSUME NEW S \in SUBSET SlotIds, S # {}
    PROVE  First(S) \in S /\ \A j \in S : First(S) <= j
<1>1. S \subseteq Nat
  BY SessionAssumption DEF SlotIds
<1>2. PICK i \in S : \A j \in S : ~(<<j, i>> \in OpToRel(<, Nat))
  BY <1>1, NatLessThanWellFounded, WFMin, Zenon
<1>3. ASSUME NEW j \in S
      PROVE  i <= j
  <2>1. i \in Nat /\ j \in Nat
    BY <1>1
  <2>2. j < i => <<j, i>> \in OpToRel(<, Nat)
    <3> DEFINE ji == <<j, i>>
    <3>1. ji \in Nat \X Nat /\ ji[1] = j /\ ji[2] = i
      BY <2>1
    <3> HIDE DEF ji
    <3>2. j < i => ji \in OpToRel(<, Nat)
      BY <3>1 DEF OpToRel
    <3> QED
      BY <3>2 DEF ji
  <2>3. ~(j < i)
    BY <1>2, <2>2, Zenon
  <2> QED
    BY <2>1, <2>3
<1> QED
  BY <1>3 DEF First

\* The table is finite.
LEMMA SlotsFinite ==
    ASSUME NEW S \in SUBSET SlotIds
    PROVE  IsFiniteSet(S) /\ Cardinality(S) \in SlotIds \cup {0}
<1>1. IsFiniteSet(SlotIds) /\ Cardinality(SlotIds) = MAX_SEED_SLOTS
  BY FS_Interval, SessionAssumption DEF SlotIds
<1>2. IsFiniteSet(S) /\ Cardinality(S) <= MAX_SEED_SLOTS
  BY <1>1, FS_Subset
<1>3. Cardinality(S) \in Nat
  BY <1>2, FS_CardinalityType
<1> QED
  BY <1>2, <1>3, SessionAssumption DEF SlotIds

\* Every position of the list is some slot's: slot_at_position finds one.
LEMMA PositionIsTaken ==
    ASSUME NEW S \in SUBSET SlotIds, NEW n \in 1 .. Cardinality(S)
    PROVE  AtPosition(S, n) \in S
<1> DEFINE upto(i) == {j \in S : j <= i}
           f == [i \in S |-> Cardinality(upto(i))]
           N == 1 .. Cardinality(S)
<1>1. IsFiniteSet(S) /\ Cardinality(S) \in Nat
  BY SlotsFinite, FS_CardinalityType
<1>2. \A i \in S : i \in Nat
  BY SessionAssumption DEF SlotIds
<1>3. ASSUME NEW i \in S
      PROVE  IsFiniteSet(upto(i)) /\ Cardinality(upto(i)) \in N
  <2>1. upto(i) \in SUBSET S /\ i \in upto(i)
    BY <1>2
  <2>2. IsFiniteSet(upto(i)) /\ Cardinality(upto(i)) <= Cardinality(S)
    BY <2>1, <1>1, FS_Subset
  <2>3. Cardinality(upto(i)) \in Nat /\ Cardinality(upto(i)) # 0
    BY <2>1, <2>2, FS_CardinalityType, FS_EmptySet
  <2> HIDE DEF upto
  <2> QED
    BY <2>2, <2>3, <1>1
<1>4. ASSUME NEW i \in S, NEW k \in S, i < k
      PROVE  Cardinality(upto(i)) # Cardinality(upto(k))
  <2>1. upto(i) \in SUBSET upto(k) /\ k \in upto(k) /\ k \notin upto(i)
    BY <1>2, <1>4
  <2>2. IsFiniteSet(upto(k))
    BY <1>3
  <2> HIDE DEF upto
  <2>3. Cardinality(upto(k)) = Cardinality(upto(i)) => upto(k) = upto(i)
    BY <2>1, <2>2, FS_Subset
  <2> QED
    BY <2>1, <2>3
<1> HIDE DEF upto
<1>5. f \in [S -> N]
  BY <1>3
<1>6. \A i, k \in S : f[i] = f[k] => i = k
  BY <1>2, <1>4
<1>7. f \in Injection(S, N)
  BY <1>5, <1>6 DEF Injection, IsInjective
<1>8. IsFiniteSet(N) /\ Cardinality(N) = Cardinality(S)
  BY <1>1, FS_Interval
<1>9. f \in Surjection(S, N)
  BY <1>7, <1>8, FS_Injection
<1>10. PICK i \in S : f[i] = n
  BY <1>9 DEF Surjection
<1>11. Cardinality({j \in S : j <= i}) = n
  BY <1>10 DEF upto
<1> QED
  BY <1>11 DEF AtPosition

----------------------------------------------------------------------------
(* What the operations on the slot table keep.                             *)

USE DEF Goto, table, device, keys, Press, Escape, No, None

\* The table is typed.
TableTyped ==
    /\ slots \in [SlotIds -> SlotType]
    /\ active \in SlotIds \cup {0}
    /\ cache \in Wallets \cup {NoWallet}

\* The Boolean variables are typed.
FlagsTyped == show \in BOOLEAN /\ asked \in BOOLEAN /\ esc \in BOOLEAN /\ failed \in BOOLEAN

\* Nothing is no wallet, and an empty table, flow and menu are typed.
LEMMA EmptyIsTyped ==
    /\ NoWallet \notin Wallets
    /\ \A w \in Wallets : w.words # "none" /\ w.words \in Phrases \cup Secrets
    /\ FreeSlot \in SlotType
    /\ EmptyTable \in [SlotIds -> SlotType]
    /\ NoFlow \in FlowType
    /\ NoList \in ListType
<1>1. NoWallet \notin Wallets
  BY SessionAssumption DEF NoWallet, Wallets
<1>2. \A w \in Wallets : w.words # "none" /\ w.words \in Phrases \cup Secrets
  BY SessionAssumption DEF Wallets
<1>3. FreeSlot \in SlotType
  BY DEF FreeSlot, SlotType
<1>4. EmptyTable \in [SlotIds -> SlotType]
  BY <1>3 DEF EmptyTable
<1>5. NoFlow \in FlowType
  BY DEF NoFlow, FlowType
<1>6. NoList \in ListType
  BY <1>4 DEF NoList, ListType
<1> QED
  BY <1>1, <1>2, <1>3, <1>4, <1>5, <1>6

\* What is said of the table is kept as long as the table and the card are.
LEMMA TableStays ==
    ASSUME TypeOK, TableInv, UNCHANGED <<table, blob>>
    PROVE  TableTyped' /\ TableInv'
<1>1. TableTyped'
  BY DEF TypeOK, TableTyped
<1> QED
  BY <1>1 DEF TableInv, SlotsSound, ActiveIsHeld, NoWalletTwice, PersistedIsStored,
         HeldAreWallets, UnclaimedIsAlone, CacheOfActive, Held, Loaded, Source, HasPin

\* keychain_clear leaves an empty table.
LEMMA TableCleared ==
    ASSUME Clear
    PROVE  TableTyped' /\ TableInv'
<1>1. TableTyped'
  BY EmptyIsTyped DEF Clear, TableTyped
<1>2. Held' = {}
  BY DEF Clear, Held, EmptyTable, FreeSlot
<1> QED
  BY <1>1, <1>2 DEF Clear, TableInv, SlotsSound, ActiveIsHeld, NoWalletTwice, PersistedIsStored,
         HeldAreWallets, UnclaimedIsAlone, CacheOfActive, Loaded

\* A wallet that becomes the only one: it is claimed and on the card, or it is
\* temporary, or it is cached and the card is empty.
LEMMA TableOfOne ==
    ASSUME NEW r \in SlotType, r.held, r.wallet \in Wallets,
           slots' = [EmptyTable EXCEPT ![1] = r], active' = 1,
           cache' \in Wallets \cup {NoWallet},
           r.source = None /\ ~r.temp => cache' # NoWallet /\ blob' = NoWallet,
           r.source # None /\ ~r.temp => r.wallet.words = blob'.words,
           cache' # NoWallet => r.source = None /\ cache'.words = r.wallet.words
    PROVE  TableTyped' /\ TableInv' /\ slots'[1] = r
<1>1. 1 \in SlotIds
  BY SessionAssumption DEF SlotIds
<1>2. TableTyped'
  BY <1>1, EmptyIsTyped DEF TableTyped
<1>3. Held' = {1} /\ slots'[1] = r
  BY <1>1 DEF Held, EmptyTable, FreeSlot
<1> QED
  BY <1>2, <1>3, SessionAssumption DEF TableInv, SlotsSound, ActiveIsHeld, NoWalletTwice, PersistedIsStored,
         HeldAreWallets, UnclaimedIsAlone, CacheOfActive, Loaded, Source, HasPin

\* The wallet in use is claimed: a temporary one, or the one on the card.
LEMMA TableBound ==
    ASSUME TypeOK, TableInv, Loaded, NEW s \in Sources, NEW t \in BOOLEAN, Bind(s, t),
           t => blob' = blob,
           ~t => slots[active].wallet.words = blob'.words,
           ~t => \A j \in Held : ~slots[j].temp => j = active
    PROVE  TableTyped' /\ TableInv' /\ (Claimed)'
<1>1. active \in Held
  BY DEF TableInv, SlotsSound, ActiveIsHeld
<1>2. active \in SlotIds /\ slots \in [SlotIds -> SlotType]
  BY <1>1 DEF TypeOK, Held
<1>3. TableTyped'
  <2>1. slots[active] \in SlotType /\ s \in Sources \cup {None}
    BY <1>2
  <2>2. [slots[active] EXCEPT !.source = s, !.temp = t] \in SlotType
    BY <2>1 DEF SlotType
  <2>3. slots' = [slots EXCEPT ![active] = [slots[active] EXCEPT !.source = s, !.temp = t]]
    BY <1>2 DEF Bind
  <2>4. slots' \in [SlotIds -> SlotType]
    BY <1>2, <2>2, <2>3
  <2> QED
    BY <1>2, <2>4 DEF Bind, TableTyped
<1>4. /\ slots'[active] = [slots[active] EXCEPT !.source = s, !.temp = t]
      /\ \A j \in SlotIds \ {active} : slots'[j] = slots[j]
  BY <1>2 DEF Bind
<1>5. /\ slots'[active].held = slots[active].held
      /\ slots'[active].wallet = slots[active].wallet
      /\ slots'[active].source = s
      /\ slots'[active].temp = t
  BY <1>2, <1>4 DEF SlotType
<1>6. Held' = Held
  BY <1>4, <1>5 DEF Held
<1>7. active' = active /\ cache' = NoWallet /\ s # "none" /\ active # 0
  BY DEF Bind, Sources, Loaded
<1>8. SlotsSound'
  <2>1. \A j \in Held : j \in SlotIds /\ slots'[j].wallet = slots[j].wallet
    BY <1>4, <1>5 DEF Held
  <2>2. ActiveIsHeld' /\ NoWalletTwice'
    BY <1>1, <1>6, <1>7, <2>1 DEF TableInv, SlotsSound, ActiveIsHeld, NoWalletTwice, Loaded
  <2>3. \A j \in Held \ {active} : slots'[j] = slots[j]
    BY <1>4, <2>1
  <2>4. PersistedIsStored
    BY DEF TableInv, SlotsSound
  <2>5. ASSUME t PROVE PersistedIsStored'
    <3>1. slots'[active].temp
      BY <1>5, <2>5, Zenon
    <3>2. ASSUME NEW j \in Held, ~slots'[j].temp
          PROVE  /\ slots'[j] = slots[j]
                 /\ \A k \in Held : ~slots'[k].temp => k \in Held \ {active} /\ slots'[k] = slots[k]
      BY <2>3, <3>1, <3>2
    <3> QED
      BY <1>6, <2>4, <2>5, <3>2 DEF PersistedIsStored
  <2>6. ASSUME ~t PROVE PersistedIsStored'
    <3>1. \A j \in Held : ~slots'[j].temp => j = active
      BY <2>3, <2>6
    <3> QED
      BY <1>5, <1>6, <2>6, <3>1 DEF PersistedIsStored
  <2> QED
    BY <2>2, <2>5, <2>6 DEF SlotsSound
<1>9. HeldAreWallets' /\ UnclaimedIsAlone' /\ CacheOfActive'
  BY <1>1, <1>4, <1>5, <1>6, <1>7 DEF TableInv, HeldAreWallets, UnclaimedIsAlone, CacheOfActive,
         Held, Loaded
<1>10. (Claimed)'
  BY <1>5, <1>7 DEF Claimed, Loaded, Source
<1> QED
  BY <1>3, <1>8, <1>9, <1>10 DEF TableInv

\* Another wallet held takes over: both are claimed.
LEMMA TableSwitched ==
    ASSUME TypeOK, TableInv, Claimed, NEW i \in Held, Activate(i), blob' = blob
    PROVE  TableTyped' /\ TableInv' /\ (Claimed)'
<1>1. active \in Held /\ i \in SlotIds /\ i # 0
  BY SessionAssumption DEF TableInv, SlotsSound, ActiveIsHeld, Claimed, Held, SlotIds
<1>2. slots[i].source # None
  BY <1>1 DEF TableInv, UnclaimedIsAlone, Claimed, Source
<1>3. TableTyped'
  BY <1>1 DEF Activate, TypeOK, TableTyped
<1>4. cache' = NoWallet
  BY DEF Activate, TableInv, CacheOfActive, Claimed
<1> QED
  BY <1>1, <1>2, <1>3, <1>4 DEF Activate, TableInv, SlotsSound, ActiveIsHeld, NoWalletTwice,
         PersistedIsStored, HeldAreWallets, UnclaimedIsAlone, CacheOfActive, Held, Loaded, Source,
         HasPin, Claimed

\* The wallet in use is forgotten: another one that is claimed takes over, or
\* none is left.
LEMMA TableForgets ==
    ASSUME TypeOK, TableInv, Claimed, ForgetActive, blob' = blob
    PROVE  TableTyped' /\ TableInv' /\ (Loaded => Source # None)'
<1> DEFINE rest == Held \ {active}
<1>1. active \in Held /\ Held \subseteq SlotIds
  BY DEF TableInv, SlotsSound, ActiveIsHeld, Claimed, Held
<1>2. CASE rest = {}
  <2>1. Clear
    BY <1>2 DEF ForgetActive
  <2> QED
    BY <2>1, TableCleared DEF Clear, Loaded
<1>3. CASE rest # {}
  <2> DEFINE i == First(rest)
  <2>1. i \in rest
    BY <1>1, <1>3, FirstIsMember
  <2>2. active' = i /\ slots' = [slots EXCEPT ![active] = FreeSlot] /\ cache' = cache
    BY <1>3 DEF ForgetActive
  <2> HIDE DEF i
  <2>3. i \in SlotIds /\ i # 0 /\ active \in SlotIds
    BY <1>1, <2>1, SessionAssumption DEF SlotIds
  <2>4. slots \in [SlotIds -> SlotType] /\ cache \in Wallets \cup {NoWallet}
    BY DEF TypeOK
  <2>5. TableTyped'
    BY <2>2, <2>3, <2>4, EmptyIsTyped DEF TableTyped
  <2>6. /\ slots'[active] = FreeSlot
        /\ \A j \in SlotIds \ {active} : slots'[j] = slots[j]
    BY <2>2, <2>3, <2>4
  <2>7. Held' = rest
    BY <2>6 DEF Held, FreeSlot
  <2>8. slots[i].source # None /\ cache' = NoWallet
    BY <1>1, <2>1, <2>2 DEF TableInv, UnclaimedIsAlone, CacheOfActive, Claimed, Source
  <2>9. SlotsSound'
    BY <1>1, <2>1, <2>2, <2>3, <2>6, <2>7 DEF TableInv, SlotsSound, ActiveIsHeld, NoWalletTwice,
           PersistedIsStored, Loaded
  <2>10. HeldAreWallets' /\ UnclaimedIsAlone' /\ CacheOfActive'
    BY <1>1, <2>1, <2>6, <2>7, <2>8 DEF TableInv, HeldAreWallets, UnclaimedIsAlone, CacheOfActive,
           HasPin
  <2>11. (Loaded => Source # None)'
    BY <1>1, <2>1, <2>2, <2>6, <2>8 DEF Source
  <2> QED
    BY <2>5, <2>9, <2>10, <2>11 DEF TableInv
<1> QED
  BY <1>2, <1>3

\* A wallet that is not held yet is added beside claimed ones, in a free slot.
LEMMA TableGrows ==
    ASSUME TypeOK, TableInv, Claimed, blob' = blob,
           NEW i \in SlotIds \ Held, NEW r \in SlotType,
           slots' = [slots EXCEPT ![i] = r], active' = i, cache' = NoWallet,
           r.held, r.temp, r.source # None, r.wallet \in Wallets, SlotOf(r.wallet) = {}
    PROVE  TableTyped' /\ TableInv' /\ (Claimed)' /\ active' # active
<1>1. active \in Held /\ i \notin Held /\ i # 0
  BY SessionAssumption DEF TableInv, SlotsSound, ActiveIsHeld, Claimed, SlotIds
<1>2. slots \in [SlotIds -> SlotType]
  BY DEF TypeOK
<1>3. TableTyped'
  BY <1>2 DEF TableTyped
<1>4. slots'[i] = r /\ \A j \in SlotIds \ {i} : slots'[j] = slots[j]
  BY <1>2
<1>5. Held' = Held \cup {i}
  BY <1>4 DEF Held
<1>6. \A j \in Held : j \in SlotIds /\ j # i /\ slots[j].wallet # r.wallet
  BY <1>1 DEF Held, SlotOf
<1>7. \A j \in Held : slots[j].source # None
  BY <1>1 DEF TableInv, UnclaimedIsAlone, Claimed, Source
<1>8. SlotsSound'
  BY <1>1, <1>4, <1>5, <1>6 DEF TableInv, SlotsSound, ActiveIsHeld, NoWalletTwice,
         PersistedIsStored, Loaded
<1>9. HeldAreWallets' /\ UnclaimedIsAlone' /\ CacheOfActive'
  BY <1>1, <1>4, <1>5, <1>6, <1>7 DEF TableInv, HeldAreWallets, UnclaimedIsAlone, CacheOfActive
<1>10. (Claimed)' /\ active' # active
  BY <1>1, <1>4 DEF Claimed, Loaded, Source
<1> QED
  BY <1>3, <1>8, <1>9, <1>10 DEF TableInv

----------------------------------------------------------------------------
(* Facts that several actions rely on.                                     *)

\* A wallet that is open, not temporary and not on the card is unclaimed, so it
\* is the only one and still cached.
LEMMA OpenUnsaved ==
    ASSUME TypeOK, TableInv, Loaded, ~Temporary, ~HasPin
    PROVE  Source = None /\ cache # NoWallet
<1>1. active \in Held /\ ~slots[active].temp /\ slots[active].wallet \in Wallets
  BY DEF TableInv, SlotsSound, ActiveIsHeld, HeldAreWallets, Temporary
<1>2. slots[active].wallet.words # blob.words
  BY <1>1, EmptyIsTyped DEF HasPin, NoWallet
<1> QED
  BY <1>1, <1>2 DEF TableInv, SlotsSound, PersistedIsStored, UnclaimedIsAlone, Source, Loaded

\* An unclaimed wallet is alone, a persisted one is the only persisted one.
LEMMA OnlyPersisted ==
    ASSUME TypeOK, TableInv, Loaded, ~Temporary
    PROVE  \A j \in Held : ~slots[j].temp => j = active
  BY DEF TableInv, SlotsSound, ActiveIsHeld, PersistedIsStored, Temporary

\* A source is claimed, or is none.
LEMMA ClaimedSource ==
    ASSUME TypeOK, Claimed
    PROVE  Source \in Sources /\ active \in SlotIds
  BY DEF TypeOK, Claimed, Loaded, Source, SlotType

\* Between two operations the main task relies on little.
LEMMA IdleStep ==
    ASSUME pc' \in {"home", "return", "authed"},
           pc' # "authed" /\ ~show' /\ Loaded' => Source' # None,
           Leftover'
    PROVE  StepInv'
  BY DEF StepInv, HomeInv, ObtainInv, TypingInv, UnlockInv, AuthQrInv, ChooseInv, SetPinInv,
         MenuInv, ScanInv, CacheInv, Leftover, Obtaining, Unlocking, Scanning, Typing, Adding, Choosing

\* A wallet is filled into the flow.
LEMMA FlowFilled ==
    ASSUME flow \in FlowType, NEW w \in Wallets, NEW offer \in BOOLEAN,
           flow' = [flow EXCEPT !.wallet = w, !.offer = offer]
    PROVE  /\ flow' \in FlowType
           /\ flow'.wallet = w /\ flow'.offer = offer
           /\ flow'.name = flow.name /\ flow'.temp = flow.temp
           /\ flow'.source = flow.source /\ flow'.before = flow.before
  BY DEF FlowType

\* The same, with nothing to offer.
LEMMA FlowWallet ==
    ASSUME flow \in FlowType, NEW w \in Wallets, flow' = [flow EXCEPT !.wallet = w]
    PROVE  /\ flow' \in FlowType
           /\ flow'.wallet = w /\ flow'.offer = flow.offer
           /\ flow'.name = flow.name /\ flow'.temp = flow.temp
           /\ flow'.source = flow.source /\ flow'.before = flow.before
  BY DEF FlowType

\* Words alone are a wallet.
LEMMA WordsAreWallet ==
    ASSUME NEW p \in Phrases \cup Secrets, NEW b \in BOOLEAN
    PROVE  [words |-> p, phrase |-> b] \in Wallets /\ [words |-> p, phrase |-> b].words = p
  BY DEF Wallets

----------------------------------------------------------------------------
(* One lemma per action: it keeps the inductive invariant.                 *)

\* KEY3 between two screens only raises the flag.
LEMMA Key3Keeps ==
    ASSUME IInv, Key3
    PROVE  IInv'
<1>1. TableTyped' /\ TableInv'
  BY TableStays DEF Key3, IInv
<1>2. TypeOK'
  <2>1. FlagsTyped'
    BY Zenon DEF Key3, IInv, TypeOK, FlagsTyped
  <2> QED
    BY <1>1, <2>1, EmptyIsTyped DEF Key3, IInv, TypeOK, TableTyped, FlagsTyped, Steps
<1>3. StepInv'
  BY DEF Key3, IInv, StepInv, HomeInv, ObtainInv, TypingInv, UnlockInv, AuthQrInv, ChooseInv,
         SetPinInv, MenuInv, ScanInv, CacheInv, Obtaining, Unlocking, Scanning, Typing, Adding,
         Choosing, Claimed, Unsaved, MenuFor, Loaded, Temporary, Source, HasPin, SlotOf, Held, NoFlow
<1>4. LeftInv'
  BY DEF Key3, IInv, LeftInv, Loaded, Source
<1> QED
  BY <1>1, <1>2, <1>3, <1>4 DEF IInv

\* A press that no screen waits for only takes it down.
LEMMA StrayPressKeeps ==
    ASSUME IInv, StrayPress
    PROVE  IInv'
<1>1. TableTyped' /\ TableInv'
  BY TableStays DEF StrayPress, IInv
<1>2. TypeOK'
  <2>1. FlagsTyped'
    BY Zenon DEF StrayPress, IInv, TypeOK, FlagsTyped
  <2> QED
    BY <1>1, <2>1, EmptyIsTyped DEF StrayPress, IInv, TypeOK, TableTyped, FlagsTyped, Steps
<1>3. StepInv'
  BY DEF StrayPress, IInv, StepInv, HomeInv, ObtainInv, TypingInv, UnlockInv, AuthQrInv,
         ChooseInv, SetPinInv, MenuInv, ScanInv, CacheInv, Obtaining, Unlocking, Scanning, Typing,
         Adding, Choosing, Claimed, Unsaved, MenuFor, Loaded, Temporary, Source, HasPin, SlotOf, Held,
         NoFlow
<1>4. LeftInv'
  BY DEF StrayPress, IInv, LeftInv, Loaded, Source
<1> QED
  BY <1>1, <1>2, <1>3, <1>4 DEF IInv

\* A restart empties the memory.
LEMMA RestartKeeps ==
    ASSUME IInv, Restart
    PROVE  IInv'
<1>1. TableTyped' /\ TableInv'
  BY TableCleared DEF Restart
<1>2. TypeOK'
  <2>1. FlagsTyped'
    BY Zenon DEF Restart, Clear, IInv, TypeOK, FlagsTyped
  <2> QED
    BY <1>1, <2>1, EmptyIsTyped DEF Restart, Clear, IInv, TypeOK, TableTyped, FlagsTyped, Steps
<1>3. StepInv'
  BY DEF Restart, Clear, IInv, StepInv, HomeInv, ObtainInv, TypingInv, UnlockInv, AuthQrInv,
         ChooseInv, SetPinInv, MenuInv, ScanInv, CacheInv, Obtaining, Unlocking, Scanning, Typing,
         Adding, Choosing, Claimed, Unsaved, MenuFor, Loaded, Temporary, Source, HasPin, SlotOf, Held,
         NoFlow
<1>4. LeftInv'
  BY DEF Restart, Clear, IInv, LeftInv, Loaded, Source
<1> QED
  BY <1>1, <1>2, <1>3, <1>4 DEF IInv

\* The dashboard is back: what it shows has a source, so its assertion holds.
LEMMA HomeKeeps ==
    ASSUME IInv, Home
    PROVE  IInv'
<1>1. TableTyped' /\ TableInv'
  BY TableStays DEF Home, IInv
<1>2. TypeOK'
  <2>1. FlagsTyped'
    BY Zenon DEF Home, IInv, TypeOK, FlagsTyped
  <2> QED
    BY <1>1, <2>1, EmptyIsTyped DEF Home, IInv, TypeOK, TableTyped, FlagsTyped, Steps, StepInv,
           HomeInv
<1>3. StepInv'
  BY DEF Home, IInv, StepInv, HomeInv, ObtainInv, TypingInv, UnlockInv, AuthQrInv, ChooseInv,
         SetPinInv, MenuInv, ScanInv, CacheInv, Obtaining, Unlocking, Scanning, Typing, Adding,
         Choosing, Claimed, Unsaved, MenuFor, Loaded, Temporary, Source, HasPin, SlotOf, Held, NoFlow
<1>4. LeftInv'
  BY DEF Home, IInv, LeftInv, Loaded, Source
<1> QED
  BY <1>1, <1>2, <1>3, <1>4 DEF IInv

\* Setting up starts with an empty table and an empty card.
LEMMA SetUpKeeps ==
    ASSUME IInv, SetUp
    PROVE  IInv'
<1>1. TableTyped' /\ TableInv'
  BY TableStays DEF SetUp, Obtain, AtHome, NoFlow, IInv
<1>2. TypeOK'
  <2>1. FlagsTyped'
    BY Zenon DEF SetUp, Obtain, AtHome, NoFlow, IInv, TypeOK, FlagsTyped
  <2> QED
    BY <1>1, <2>1, EmptyIsTyped DEF SetUp, Obtain, AtHome, NoFlow, IInv, TypeOK, TableTyped,
           FlagsTyped, Steps, FlowType
<1>3. StepInv'
  BY DEF SetUp, Obtain, AtHome, NoFlow, IInv, StepInv, HomeInv, ObtainInv, TypingInv, UnlockInv,
         AuthQrInv, ChooseInv, SetPinInv, MenuInv, ScanInv, CacheInv, Obtaining, Unlocking, Scanning,
         Typing, Adding, Choosing, Claimed, Unsaved, MenuFor, Loaded, Temporary, Source, HasPin,
         SlotOf, Held
<1>4. LeftInv'
  BY DEF SetUp, Obtain, AtHome, NoFlow, IInv, LeftInv, Loaded, Source
<1> QED
  BY <1>1, <1>2, <1>3, <1>4 DEF IInv

\* Scanning a seed starts with an empty table.
LEMMA ScanSeedQrKeeps ==
    ASSUME IInv, ScanSeedQr
    PROVE  IInv'
<1>1. TableTyped' /\ TableInv'
  BY TableStays DEF ScanSeedQr, Obtain, AtHome, NoFlow, IInv
<1>2. TypeOK'
  <2>1. FlagsTyped'
    BY Zenon DEF ScanSeedQr, Obtain, AtHome, NoFlow, IInv, TypeOK, FlagsTyped
  <2> QED
    BY <1>1, <2>1, EmptyIsTyped DEF ScanSeedQr, Obtain, AtHome, NoFlow, IInv, TypeOK,
           TableTyped, FlagsTyped, Steps, FlowType
<1>3. StepInv'
  BY DEF ScanSeedQr, Obtain, AtHome, NoFlow, IInv, StepInv, HomeInv, ObtainInv, TypingInv,
         UnlockInv, AuthQrInv, ChooseInv, SetPinInv, MenuInv, ScanInv, CacheInv, Obtaining, Unlocking,
         Scanning, Typing, Adding, Choosing, Claimed, Unsaved, MenuFor, Loaded, Temporary, Source,
         HasPin, SlotOf, Held
<1>4. LeftInv'
  BY DEF ScanSeedQr, Obtain, AtHome, NoFlow, IInv, LeftInv, Loaded, Source
<1> QED
  BY <1>1, <1>2, <1>3, <1>4 DEF IInv

\* A temporary signer starts with an empty table.
LEMMA TempSignerKeeps ==
    ASSUME IInv, TempSigner
    PROVE  IInv'
<1>1. TableTyped' /\ TableInv'
  BY TableStays DEF TempSigner, Obtain, AtHome, NoFlow, IInv
<1>2. TypeOK'
  <2>1. FlagsTyped'
    BY Zenon DEF TempSigner, Obtain, AtHome, NoFlow, IInv, TypeOK, FlagsTyped
  <2> QED
    BY <1>1, <2>1, EmptyIsTyped DEF TempSigner, Obtain, AtHome, NoFlow, IInv, TypeOK,
           TableTyped, FlagsTyped, Steps, FlowType
<1>3. StepInv'
  BY DEF TempSigner, Obtain, AtHome, NoFlow, IInv, StepInv, HomeInv, ObtainInv, TypingInv,
         UnlockInv, AuthQrInv, ChooseInv, SetPinInv, MenuInv, ScanInv, CacheInv, Obtaining, Unlocking,
         Scanning, Typing, Adding, Choosing, Claimed, Unsaved, MenuFor, Loaded, Temporary, Source,
         HasPin, SlotOf, Held
<1>4. LeftInv'
  BY DEF TempSigner, Obtain, AtHome, NoFlow, IInv, LeftInv, Loaded, Source
<1> QED
  BY <1>1, <1>2, <1>3, <1>4 DEF IInv

\* The connect screen is shown.
LEMMA ConnectKeeps ==
    ASSUME IInv, Connect
    PROVE  IInv'
<1>1. TableTyped' /\ TableInv'
  BY TableStays DEF Connect, AtHome, IInv
<1>2. TypeOK'
  <2>1. FlagsTyped'
    BY Zenon DEF Connect, AtHome, IInv, TypeOK, FlagsTyped
  <2> QED
    BY <1>1, <2>1, EmptyIsTyped DEF Connect, AtHome, IInv, TypeOK, TableTyped, FlagsTyped, Steps
<1>3. StepInv'
  BY DEF Connect, AtHome, IInv, StepInv, HomeInv, ObtainInv, TypingInv, UnlockInv, AuthQrInv,
         ChooseInv, SetPinInv, MenuInv, ScanInv, CacheInv, Obtaining, Unlocking, Scanning, Typing,
         Adding, Choosing, Claimed, Unsaved, MenuFor, Loaded, Temporary, Source, HasPin, SlotOf, Held,
         NoFlow
<1>4. LeftInv'
  BY DEF Connect, AtHome, IInv, LeftInv, Loaded, Source
<1> QED
  BY <1>1, <1>2, <1>3, <1>4 DEF IInv

\* Back from the connect screen, a wallet still open is offered QR mode.
LEMMA ConnectBackKeeps ==
    ASSUME IInv, ConnectBack
    PROVE  IInv'
<1>1. TableTyped' /\ TableInv'
  BY TableStays DEF ConnectBack, NoFlow, IInv
<1>2. TypeOK'
  <2>1. FlagsTyped'
    BY Zenon DEF ConnectBack, NoFlow, IInv, TypeOK, FlagsTyped
  <2>2. flow' \in FlowType
    BY DEF ConnectBack, NoFlow, IInv, TypeOK, FlowType
  <2> QED
    BY <1>1, <2>1, <2>2 DEF ConnectBack, IInv, TypeOK, TableTyped, FlagsTyped, Steps
<1>3. StepInv'
  BY DEF ConnectBack, NoFlow, IInv, StepInv, HomeInv, ObtainInv, TypingInv, UnlockInv,
         AuthQrInv, ChooseInv, SetPinInv, MenuInv, ScanInv, CacheInv, Obtaining, Unlocking, Scanning,
         Typing, Adding, Choosing, Claimed, Unsaved, MenuFor, Loaded, Temporary, Source, HasPin,
         SlotOf, Held
<1>4. LeftInv'
  BY DEF ConnectBack, NoFlow, IInv, LeftInv, Loaded, Source
<1> QED
  BY <1>1, <1>2, <1>3, <1>4 DEF IInv

\* QR authentication starts with nothing open, or with a wallet that is claimed.
LEMMA UnlockQrKeeps ==
    ASSUME IInv, UnlockQr
    PROVE  IInv'
<1>1. TableTyped' /\ TableInv'
  BY TableStays DEF UnlockQr, AtHome, NoFlow, IInv
<1>2. TypeOK'
  <2>1. FlagsTyped'
    BY Zenon DEF UnlockQr, AtHome, NoFlow, IInv, TypeOK, FlagsTyped
  <2>2. flow' \in FlowType
    BY DEF UnlockQr, NoFlow, FlowType
  <2> QED
    BY <1>1, <2>1, <2>2 DEF UnlockQr, IInv, TypeOK, TableTyped, FlagsTyped, Steps
<1>3. StepInv'
  BY DEF UnlockQr, AtHome, NoFlow, IInv, StepInv, HomeInv, ObtainInv, TypingInv, UnlockInv,
         AuthQrInv, ChooseInv, SetPinInv, MenuInv, ScanInv, CacheInv, Obtaining, Unlocking, Scanning,
         Typing, Adding, Choosing, Claimed, Unsaved, MenuFor, Loaded, Temporary, Source, HasPin,
         SlotOf, Held
<1>4. LeftInv'
  BY DEF UnlockQr, AtHome, NoFlow, IInv, LeftInv, Loaded, Source
<1> QED
  BY <1>1, <1>2, <1>3, <1>4 DEF IInv

\* The logout message empties the table.
LEMMA LogoutKeeps ==
    ASSUME IInv, Logout
    PROVE  IInv'
<1>1. TableTyped' /\ TableInv'
  BY TableCleared DEF Logout
<1>2. TypeOK'
  <2>1. FlagsTyped'
    BY Zenon DEF Logout, Clear, IInv, TypeOK, FlagsTyped
  <2> QED
    BY <1>1, <2>1, EmptyIsTyped DEF Logout, Clear, IInv, TypeOK, TableTyped, FlagsTyped, Steps
<1>3. StepInv'
  BY DEF Logout, Clear, IInv, StepInv, HomeInv, ObtainInv, TypingInv, UnlockInv, AuthQrInv,
         ChooseInv, SetPinInv, MenuInv, ScanInv, CacheInv, Obtaining, Unlocking, Scanning, Typing,
         Adding, Choosing, Claimed, Unsaved, MenuFor, Loaded, Temporary, Source, HasPin, SlotOf, Held,
         NoFlow
<1>4. LeftInv'
  BY DEF Logout, Clear, IInv, LeftInv, Loaded, Source
<1> QED
  BY <1>1, <1>2, <1>3, <1>4 DEF IInv

\* So does the loss of the connection that unlocked it.
LEMMA ConnectionLostKeeps ==
    ASSUME IInv, ConnectionLost
    PROVE  IInv'
<1>1. TableTyped' /\ TableInv'
  BY TableCleared DEF ConnectionLost
<1>2. TypeOK'
  <2>1. FlagsTyped'
    BY Zenon DEF ConnectionLost, Clear, IInv, TypeOK, FlagsTyped
  <2> QED
    BY <1>1, <2>1, EmptyIsTyped DEF ConnectionLost, Clear, IInv, TypeOK, TableTyped, FlagsTyped, Steps
<1>3. StepInv'
  BY DEF ConnectionLost, Clear, IInv, StepInv, HomeInv, ObtainInv, TypingInv, UnlockInv, AuthQrInv,
         ChooseInv, SetPinInv, MenuInv, ScanInv, CacheInv, Obtaining, Unlocking, Scanning, Typing,
         Adding, Choosing, Claimed, Unsaved, MenuFor, Loaded, Temporary, Source, HasPin, SlotOf, Held,
         NoFlow
<1>4. LeftInv'
  BY DEF ConnectionLost, Clear, IInv, LeftInv, Loaded, Source
<1> QED
  BY <1>1, <1>2, <1>3, <1>4 DEF IInv

\* Words arrive where no wallet is open.
LEMMA WordsKeeps ==
    ASSUME IInv, Words
    PROVE  IInv'
<1>a. PICK p \in Phrases, offer \in Offers, ask \in BOOLEAN :
        /\ flow' = [flow EXCEPT !.wallet = [words |-> p, phrase |-> FALSE], !.offer = offer]
        /\ pc' = IF ask THEN "passphrase" ELSE "derive"
  BY DEF Words
<1>b. [words |-> p, phrase |-> FALSE] \in Wallets /\ [words |-> p, phrase |-> FALSE].words = p
  BY DEF Wallets
<1>c. offer \in BOOLEAN /\ (offer => ~flow.temp)
  BY DEF Offers
<1>d. PICK w \in Wallets : w.words = p /\ flow' = [flow EXCEPT !.wallet = w, !.offer = offer]
  BY <1>a, <1>b
<1>e. /\ flow' \in FlowType
      /\ flow'.wallet = w /\ flow'.offer = offer
      /\ flow'.name = flow.name /\ flow'.temp = flow.temp
      /\ flow'.source = flow.source /\ flow'.before = flow.before
  BY <1>c, <1>d, FlowFilled DEF IInv, TypeOK
<1>f. pc' \in {"passphrase", "derive"} /\ w.words \notin Secrets
  BY <1>a, <1>d, SessionAssumption
<1>g. pc = "obtain" /\ UNCHANGED <<table, device, list>>
  BY DEF Words
<1>1. TableTyped' /\ TableInv'
  BY TableStays DEF Words, Offers, IInv
<1>2. TypeOK'
  <2>1. FlagsTyped'
    BY Zenon DEF Words, Offers, IInv, TypeOK, FlagsTyped
  <2> QED
    BY <1>1, <1>e, <1>f, <1>g, <2>1 DEF Words, IInv, TypeOK, TableTyped, FlagsTyped, Steps
<1>3. StepInv'
  BY <1>c, <1>d, <1>e, <1>f, <1>g DEF IInv, StepInv, HomeInv, ObtainInv, TypingInv, UnlockInv,
         AuthQrInv, ChooseInv, SetPinInv, MenuInv, ScanInv, CacheInv, Obtaining, Unlocking, Scanning,
         Typing, Adding, Choosing, Claimed, Unsaved, MenuFor, Loaded, Temporary, Source, HasPin,
         SlotOf, Held
<1>4. LeftInv'
  BY DEF Words, Offers, IInv, LeftInv, Loaded, Source
<1> QED
  BY <1>1, <1>2, <1>3, <1>4 DEF IInv

\* So do complete shares.
LEMMA SharesKeeps ==
    ASSUME IInv, Shares
    PROVE  IInv'
<1>a. PICK p \in Secrets : flow' = [flow EXCEPT !.wallet = [words |-> p, phrase |-> FALSE]]
  BY DEF Shares
<1>b. PICK w \in Wallets : w.words = p /\ flow' = [flow EXCEPT !.wallet = w]
  BY <1>a DEF Wallets
<1>c. /\ flow' \in FlowType
      /\ flow'.wallet = w /\ flow'.offer = flow.offer
      /\ flow'.name = flow.name /\ flow'.temp = flow.temp
      /\ flow'.source = flow.source /\ flow'.before = flow.before
  BY <1>b, FlowWallet DEF IInv, TypeOK
<1>d. pc = "obtain" /\ pc' = "passphrase" /\ flow.name # "seedqr" /\ UNCHANGED <<table, device, list>>
  BY DEF Shares
<1>1. TableTyped' /\ TableInv'
  BY TableStays DEF Shares, IInv
<1>2. TypeOK'
  <2>1. FlagsTyped'
    BY Zenon DEF Shares, IInv, TypeOK, FlagsTyped
  <2> QED
    BY <1>1, <1>c, <1>d, <2>1 DEF Shares, IInv, TypeOK, TableTyped, FlagsTyped, Steps
<1>3. StepInv'
  BY <1>b, <1>c, <1>d DEF IInv, StepInv, HomeInv, ObtainInv, TypingInv, UnlockInv, AuthQrInv,
         ChooseInv, SetPinInv, MenuInv, ScanInv, CacheInv, Obtaining, Unlocking, Scanning, Typing,
         Adding, Choosing, Claimed, Unsaved, MenuFor, Loaded, Temporary, Source, HasPin, SlotOf, Held
<1>4. LeftInv'
  BY DEF Shares, IInv, LeftInv, Loaded, Source
<1> QED
  BY <1>1, <1>2, <1>3, <1>4 DEF IInv

\* Giving up leaves the table empty.
LEMMA GiveUpKeeps ==
    ASSUME IInv, GiveUp
    PROVE  IInv'
<1>1. TableTyped' /\ TableInv'
  BY TableStays DEF GiveUp, IInv
<1>2. TypeOK'
  <2>1. FlagsTyped'
    BY Zenon DEF GiveUp, IInv, TypeOK, FlagsTyped
  <2> QED
    BY <1>1, <2>1, EmptyIsTyped DEF GiveUp, IInv, TypeOK, TableTyped, FlagsTyped, Steps
<1>3. StepInv'
  BY DEF GiveUp, IInv, StepInv, HomeInv, ObtainInv, TypingInv, UnlockInv, AuthQrInv, ChooseInv,
         SetPinInv, MenuInv, ScanInv, CacheInv, Obtaining, Unlocking, Scanning, Typing, Adding,
         Choosing, Claimed, Unsaved, MenuFor, Loaded, Temporary, Source, HasPin, SlotOf, Held, NoFlow
<1>4. LeftInv'
  BY DEF GiveUp, IInv, LeftInv, StepInv, ObtainInv, Obtaining, Loaded, Source
<1> QED
  BY <1>1, <1>2, <1>3, <1>4 DEF IInv

\* The passphrase question changes no wallet.
LEMMA PassphraseKeeps ==
    ASSUME IInv, Passphrase
    PROVE  IInv'
<1>1. TableTyped' /\ TableInv'
  BY TableStays DEF Passphrase, IInv
<1>2. TypeOK'
  <2>1. FlagsTyped'
    BY Zenon DEF Passphrase, IInv, TypeOK, FlagsTyped
  <2> QED
    BY <1>1, <2>1, EmptyIsTyped DEF Passphrase, IInv, TypeOK, TableTyped, FlagsTyped, Steps
<1>3. StepInv'
  BY DEF Passphrase, IInv, StepInv, HomeInv, ObtainInv, TypingInv, UnlockInv, AuthQrInv,
         ChooseInv, SetPinInv, MenuInv, ScanInv, CacheInv, Obtaining, Unlocking, Scanning, Typing,
         Adding, Choosing, Claimed, Unsaved, MenuFor, Loaded, Temporary, Source, HasPin, SlotOf, Held,
         NoFlow
<1>4. LeftInv'
  BY DEF Passphrase, IInv, LeftInv, Loaded, Source
<1> QED
  BY <1>1, <1>2, <1>3, <1>4 DEF IInv

\* A passphrase changes the wallet on its way, not its words.
LEMMA KeyboardKeeps ==
    ASSUME IInv, Keyboard
    PROVE  IInv'
<1>a. flow.wallet \in Wallets /\ flow \in FlowType
  BY DEF Keyboard, IInv, TypeOK, StepInv, TypingInv, Typing
<1>b. PICK w \in Wallets : w.words = flow.wallet.words /\ flow' = [flow EXCEPT !.wallet = w]
  <2>1. CASE UNCHANGED flow
    BY <1>a, <2>1 DEF FlowType
  <2>2. ASSUME NEW typed \in BOOLEAN, flow' = [flow EXCEPT !.wallet.phrase = typed]
        PROVE  \E w \in Wallets : w.words = flow.wallet.words /\ flow' = [flow EXCEPT !.wallet = w]
    <3>1. [flow.wallet EXCEPT !.phrase = typed] \in Wallets
      BY <1>a DEF Wallets
    <3>2. [flow.wallet EXCEPT !.phrase = typed].words = flow.wallet.words
      BY <1>a DEF Wallets
    <3> QED
      BY <2>2, <3>1, <3>2
  <2> QED
    BY <2>1, <2>2 DEF Keyboard
<1>c. /\ flow' \in FlowType
      /\ flow'.wallet = w /\ flow'.offer = flow.offer
      /\ flow'.name = flow.name /\ flow'.temp = flow.temp
      /\ flow'.source = flow.source /\ flow'.before = flow.before
  BY <1>a, <1>b, FlowWallet
<1>d. pc = "keyboard" /\ pc' = "derive" /\ UNCHANGED <<table, device, list>>
  BY DEF Keyboard
<1>1. TableTyped' /\ TableInv'
  BY TableStays DEF Keyboard, IInv
<1>2. TypeOK'
  <2>1. FlagsTyped'
    BY Zenon DEF Keyboard, IInv, TypeOK, FlagsTyped
  <2> QED
    BY <1>1, <1>c, <1>d, <2>1 DEF Keyboard, IInv, TypeOK, TableTyped, FlagsTyped, Steps
<1>3. StepInv'
  BY <1>b, <1>c, <1>d DEF IInv, StepInv, HomeInv, ObtainInv, TypingInv, UnlockInv, AuthQrInv,
         ChooseInv, SetPinInv, MenuInv, ScanInv, CacheInv, Obtaining, Unlocking, Scanning, Typing,
         Adding, Choosing, Claimed, Unsaved, MenuFor, Loaded, Temporary, Source, HasPin, SlotOf, Held
<1>4. LeftInv'
  BY DEF Keyboard, IInv, LeftInv, Loaded, Source
<1> QED
  BY <1>1, <1>2, <1>3, <1>4 DEF IInv

\* The escape at the passphrase drops the words a PIN decrypted.
LEMMA DeriveLeftKeeps ==
    ASSUME IInv, DeriveLeft
    PROVE  IInv'
<1>a. /\ pc = "derive" /\ flow' = flow /\ UNCHANGED <<device, keys, list>>
      /\ flow.name \in {"setup", "seedqr", "message", "unlock", "add"}
      /\ flow.wallet.words \in Secrets => flow.name \in {"setup", "message"}
  BY DEF DeriveLeft, IInv, StepInv, TypingInv, Typing
<1>b. ASSUME flow.name = "unlock"
      PROVE  pc' = "authed" /\ Clear
  BY <1>a, <1>b DEF DeriveLeft
<1>c. ASSUME flow.name # "unlock"
      PROVE  /\ UNCHANGED table
             /\ \/ flow.wallet.words \in Secrets /\ pc' = "obtain"
                \/ flow.name = "message" /\ pc' = "authed"
                \/ flow.name = "add" /\ pc' = "scanned" /\ flow.before # 0
                \/ flow.name \in {"setup", "seedqr", "add"} /\ pc' = "return"
  BY <1>a, <1>c DEF DeriveLeft, Scanned
<1>1. TableTyped' /\ TableInv'
  BY <1>a, <1>b, <1>c, TableCleared, TableStays DEF IInv
<1>2. TypeOK'
  <2>1. FlagsTyped'
    BY Zenon DEF DeriveLeft, Clear, Scanned, IInv, TypeOK, FlagsTyped
  <2>2. pc' \in Steps
    BY <1>a, <1>b, <1>c DEF Steps
  <2> QED
    BY <1>1, <1>a, <2>1, <2>2 DEF IInv, TypeOK, TableTyped, FlagsTyped
<1>3. StepInv'
  <2>1. CASE flow.name = "unlock"
    BY <1>b, <2>1, IdleStep DEF Leftover, Clear
  <2>2. CASE flow.name # "unlock"
    <3>1. pc \in Typing /\ pc = "derive"
      BY <1>a DEF Typing
    <3>2. CASE flow.wallet.words \in Secrets /\ pc' = "obtain"
    BY <1>a, <1>c, <2>2, <3>1, <3>2, SessionAssumption DEF IInv, StepInv, HomeInv, ObtainInv,
           TypingInv, UnlockInv, AuthQrInv, ChooseInv, SetPinInv, MenuInv, ScanInv, CacheInv,
           Obtaining, Unlocking, Scanning, Typing, Adding, Choosing, Claimed, Unsaved, MenuFor, Loaded,
           Temporary, Source, HasPin, SlotOf, Held
    <3>3. CASE flow.name = "message" /\ pc' = "authed"
    BY <1>a, <1>c, <2>2, <3>1, <3>3 DEF IInv, StepInv, HomeInv, ObtainInv, TypingInv, UnlockInv,
           AuthQrInv, ChooseInv, SetPinInv, MenuInv, ScanInv, CacheInv, Obtaining, Unlocking, Scanning,
           Typing, Adding, Choosing, Claimed, Unsaved, MenuFor, Loaded, Temporary, Source, HasPin,
           SlotOf, Held
    <3>4. CASE flow.name = "add" /\ pc' = "scanned" /\ flow.before # 0
    BY <1>a, <1>c, <2>2, <3>1, <3>4 DEF IInv, StepInv, HomeInv, ObtainInv, TypingInv, UnlockInv,
           AuthQrInv, ChooseInv, SetPinInv, MenuInv, ScanInv, CacheInv, Obtaining, Unlocking, Scanning,
           Typing, Adding, Choosing, Claimed, Unsaved, MenuFor, Loaded, Temporary, Source, HasPin,
           SlotOf, Held
    <3>5. CASE flow.name \in {"setup", "seedqr", "add"} /\ pc' = "return"
    BY <1>a, <1>c, <2>2, <3>1, <3>5 DEF IInv, StepInv, HomeInv, ObtainInv, TypingInv, UnlockInv,
           AuthQrInv, ChooseInv, SetPinInv, MenuInv, ScanInv, CacheInv, Obtaining, Unlocking, Scanning,
           Typing, Adding, Choosing, Claimed, Unsaved, MenuFor, Loaded, Temporary, Source, HasPin,
           SlotOf, Held
    <3> QED
      BY <1>c, <2>2, <3>2, <3>3, <3>4, <3>5
  <2> QED
    BY <2>1, <2>2
<1>4. LeftInv'
  <2>1. CASE flow.name = "unlock"
    BY <1>a, <1>b, <2>1 DEF Clear, IInv, LeftInv, Loaded, Source
  <2>2. CASE flow.name # "unlock"
    BY <1>a, <1>c, <2>2 DEF IInv, LeftInv, StepInv, ObtainInv, Obtaining, Typing, Loaded, Source
  <2> QED
    BY <2>1, <2>2
<1> QED
  BY <1>1, <1>2, <1>3, <1>4 DEF IInv

\* A first wallet becomes the only one.
LEMMA DeriveSetKeeps ==
    ASSUME IInv, DeriveSet
    PROVE  IInv'
<1> DEFINE w == flow.wallet
           r == [Arrived(w, None, flow.temp) EXCEPT !.entropy = @ /\ TRUE]
<1>a. /\ pc = "derive" /\ flow \in FlowType /\ w \in Wallets /\ ~esc
      /\ flow.name \in {"setup", "seedqr", "message"}
      /\ flow.name = "seedqr" => flow.temp
      /\ flow.name = "message" => ~flow.temp /\ flow.source \in Sources
      /\ flow.offer => w.words \in Phrases /\ ~flow.temp
      /\ flow.temp \/ blob = NoWallet
  BY DEF DeriveSet, IInv, TypeOK, StepInv, TypingInv, ObtainInv, Obtaining, Typing, HasPin
<1>b. r \in SlotType /\ r.held /\ r.wallet = w /\ r.source = None /\ r.temp = flow.temp
  BY <1>a DEF Arrived, SlotType, FlowType
<1>c. slots' = [EmptyTable EXCEPT ![1] = r] /\ active' = 1 /\ UNCHANGED <<device, keys, flow, list>>
  BY DEF DeriveSet, SetOnly
<1>d. ~flow.temp => cache' \in Wallets /\ cache'.words = w.words
  BY <1>a DEF DeriveSet, SetOnly, Wallets
<1>e. flow.temp => cache' = NoWallet
  BY DEF DeriveSet, SetOnly
<1>f. pc' = IF flow.name = "message" THEN "setpin" ELSE IF flow.offer THEN "choose" ELSE "authqr"
  BY DEF DeriveSet
<1> HIDE DEF r
<1>g. cache' \in Wallets \cup {NoWallet} /\ (~flow.temp => cache' # NoWallet)
  BY <1>d, <1>e, EmptyIsTyped
<1>h. TableTyped' /\ TableInv' /\ slots'[1] = r
  BY <1>a, <1>b, <1>c, <1>d, <1>e, <1>g, TableOfOne
<1>i. \/ flow.name = "message" /\ pc' = "setpin"
      \/ flow.name # "message" /\ flow.offer /\ pc' = "choose"
      \/ flow.name # "message" /\ ~flow.offer /\ pc' = "authqr"
  BY <1>f
<1>1. TableTyped' /\ TableInv'
  BY <1>h
<1>2. TypeOK'
  <2>1. FlagsTyped'
    BY Zenon DEF DeriveSet, SetOnly, IInv, TypeOK, FlagsTyped
  <2> QED
    BY <1>c, <1>h, <1>i, <2>1 DEF IInv, TypeOK, TableTyped, FlagsTyped, Steps
<1>3. StepInv'
  <2>1. Loaded' /\ Source' = None /\ (Temporary' <=> flow.temp) /\ HasPin' = HasPin
    BY <1>b, <1>c, <1>h DEF Loaded, Source, Temporary, HasPin
  <2> QED
    BY <1>a, <1>c, <1>d, <1>g, <1>i, <2>1 DEF StepInv, HomeInv, ObtainInv, TypingInv, UnlockInv,
         AuthQrInv, ChooseInv, SetPinInv, MenuInv, ScanInv, CacheInv, Obtaining, Unlocking, Scanning,
         Typing, Adding, Choosing, Unsaved, HasPin, Claimed
<1>4. LeftInv'
  BY <1>a, <1>c, <1>i DEF IInv, LeftInv
<1> QED
  BY <1>1, <1>2, <1>3, <1>4 DEF IInv

\* A temporary wallet is claimed for the QR client.
LEMMA AuthQrTemporaryKeeps ==
    ASSUME IInv, AuthQrTemporary
    PROVE  IInv'
<1>a. Loaded /\ pc = "authqr" /\ pc' = "return" /\ blob' = blob /\ flow' = flow /\ list' = list
  BY DEF AuthQrTemporary, Temporary
<1>b. Bind("internal", TRUE) /\ "internal" \in Sources
  BY DEF AuthQrTemporary, Sources
<1>c. TableTyped' /\ TableInv' /\ (Claimed)'
  BY <1>a, <1>b, TableBound, Zenon DEF IInv
<1>1. TableTyped' /\ TableInv'
  BY <1>c
<1>2. TypeOK'
  <2>1. FlagsTyped'
    BY Zenon DEF AuthQrTemporary, Bind, IInv, TypeOK, FlagsTyped
  <2> QED
    BY <1>a, <1>c, <2>1 DEF AuthQrTemporary, IInv, TypeOK, TableTyped, FlagsTyped, Steps, Sources
<1>3. StepInv'
  BY <1>a, <1>c, IdleStep DEF Leftover, Claimed
<1>4. LeftInv'
  BY <1>a DEF AuthQrTemporary, IInv, LeftInv
<1> QED
  BY <1>1, <1>2, <1>3, <1>4 DEF IInv

\* The QR client starts; a PIN change closes the wallet first.
LEMMA AuthQrAcceptKeeps ==
    ASSUME IInv, AuthQrAccept
    PROVE  IInv'
<1>1. TableTyped' /\ TableInv'
  <2>1. CASE flow.name = "changepin"
    BY <2>1, TableCleared DEF AuthQrAccept
  <2>2. CASE flow.name # "changepin"
    BY <2>2, TableStays DEF AuthQrAccept, IInv
  <2> QED
    BY <2>1, <2>2
<1>2. TypeOK'
  <2>1. FlagsTyped'
    BY Zenon DEF AuthQrAccept, Clear, IInv, TypeOK, FlagsTyped
  <2>2. relogin' \in Sources \cup {None}
    BY ClaimedSource DEF AuthQrAccept, IInv, TypeOK, StepInv, AuthQrInv
  <2> QED
    BY <1>1, <2>1, <2>2 DEF AuthQrAccept, IInv, TypeOK, TableTyped, FlagsTyped, Steps, Sources
<1>3. StepInv'
  <2>1. Leftover'
    BY DEF AuthQrAccept, Clear, IInv, StepInv, CacheInv, Leftover, Typing, Loaded
  <2>2. pc' = "return" /\ show'
    BY Zenon DEF AuthQrAccept
  <2> QED
    BY <2>1, <2>2, IdleStep
<1>4. LeftInv'
  BY DEF AuthQrAccept, Clear, IInv, LeftInv, Loaded, Source
<1> QED
  BY <1>1, <1>2, <1>3, <1>4 DEF IInv

\* Declined: what nobody claimed goes, or the choice is asked again.
LEMMA AuthQrDeclineKeeps ==
    ASSUME IInv, AuthQrDecline
    PROVE  IInv'
<1>f. ForgetUnsourced => TableTyped' /\ TableInv' /\ (Loaded => Source # None)'
  <2>1. CASE Loaded /\ Source = None
    BY <2>1, TableCleared DEF ForgetUnsourced, Clear, Loaded
  <2>2. CASE ~(Loaded /\ Source = None)
    BY <2>2, TableStays DEF ForgetUnsourced, AuthQrDecline, IInv, Loaded, Source
  <2> QED
    BY <2>1, <2>2
<1>a. /\ pc = "authqr" /\ ~Temporary /\ UNCHANGED <<device, flow, list>>
      /\ flow.name \in {"setup", "seedqr", "unlock", "changepin"}
      /\ flow.name = "seedqr" => Temporary
      /\ flow.name = "unlock" => ~Loaded
      /\ flow.name = "changepin" => Claimed
      /\ flow.offer /\ ~Temporary => flow.name = "setup" /\ Unsaved
      /\ Leftover
  BY DEF AuthQrDecline, IInv, StepInv, AuthQrInv, CacheInv, Leftover, Typing
<1>b. \/ flow.offer /\ pc' = "choose" /\ UNCHANGED table
      \/ flow.name = "setup" /\ pc' = "return" /\ ForgetUnsourced
      \/ flow.name # "setup" /\ pc' = "return" /\ UNCHANGED table
  BY DEF AuthQrDecline
<1>1. TableTyped' /\ TableInv'
  BY <1>a, <1>b, <1>f, TableStays DEF IInv
<1>2. TypeOK'
  <2>1. FlagsTyped'
    BY Zenon DEF AuthQrDecline, ForgetUnsourced, Clear, IInv, TypeOK, FlagsTyped
  <2> QED
    BY <1>1, <1>a, <1>b, <2>1 DEF AuthQrDecline, IInv, TypeOK, TableTyped, FlagsTyped, Steps
<1>3. StepInv'
  <2>1. CASE flow.offer /\ pc' = "choose" /\ UNCHANGED table
    <3>1. Unsaved' /\ flow'.name = "setup"
      BY <1>a, <2>1 DEF Unsaved, Loaded, Temporary, Source, HasPin
    <3>2. Loaded'
      BY <3>1 DEF Unsaved
    <3> QED
      BY <2>1, <3>1, <3>2 DEF StepInv, HomeInv, ObtainInv, TypingInv, UnlockInv, AuthQrInv, ChooseInv,
             SetPinInv, MenuInv, ScanInv, CacheInv, Obtaining, Unlocking, Scanning, Typing, Adding
  <2>2. CASE flow.name = "setup" /\ pc' = "return" /\ ForgetUnsourced
    <3>1. Leftover'
      BY <1>a, <2>2 DEF ForgetUnsourced, Clear, Leftover, Loaded
    <3> QED
      BY <1>f, <2>2, <3>1, IdleStep
  <2>3. CASE flow.name # "setup" /\ pc' = "return" /\ UNCHANGED table
    <3>1. Leftover' /\ (Loaded => Source # None)'
      BY <1>a, <2>3 DEF Claimed, Leftover, Loaded, Source
    <3> QED
      BY <2>3, <3>1, IdleStep
  <2> QED
    BY <1>b, <2>1, <2>2, <2>3
<1>4. LeftInv'
  BY <1>b DEF AuthQrDecline, IInv, LeftInv
<1> QED
  BY <1>1, <1>2, <1>3, <1>4 DEF IInv

\* The QR-mode question is answered.
LEMMA ChooseKeeps ==
    ASSUME IInv, Choose
    PROVE  IInv'
<1>1. TableTyped' /\ TableInv'
  BY TableStays DEF Choose, IInv
<1>2. TypeOK'
  <2>1. FlagsTyped'
    BY Zenon DEF Choose, IInv, TypeOK, FlagsTyped
  <2> QED
    BY <1>1, <2>1, EmptyIsTyped DEF Choose, IInv, TypeOK, TableTyped, FlagsTyped, Steps
<1>3. StepInv'
  BY DEF Choose, IInv, StepInv, HomeInv, ObtainInv, TypingInv, UnlockInv, AuthQrInv, ChooseInv,
         SetPinInv, MenuInv, ScanInv, CacheInv, Obtaining, Unlocking, Scanning, Typing, Adding,
         Choosing, Claimed, Unsaved, MenuFor, Loaded, Temporary, Source, HasPin, SlotOf, Held, NoFlow
<1>4. LeftInv'
  BY DEF Choose, IInv, LeftInv, Loaded, Source
<1> QED
  BY <1>1, <1>2, <1>3, <1>4 DEF IInv

\* The way back drops the wallet that nobody claimed.
LEMMA ChooseBackKeeps ==
    ASSUME IInv, ChooseBack
    PROVE  IInv'
<1>f. ForgetUnsourced => TableTyped' /\ TableInv' /\ (Loaded => Source # None)'
  <2>1. CASE Loaded /\ Source = None
    BY <2>1, TableCleared DEF ForgetUnsourced, Clear, Loaded
  <2>2. CASE ~(Loaded /\ Source = None)
    BY <2>2, TableStays DEF ForgetUnsourced, ChooseBack, IInv, Loaded, Source
  <2> QED
    BY <2>1, <2>2
<1>1. TableTyped' /\ TableInv'
  BY <1>f DEF ChooseBack
<1>2. TypeOK'
  <2>1. FlagsTyped'
    BY Zenon DEF ChooseBack, ForgetUnsourced, Clear, IInv, TypeOK, FlagsTyped
  <2> QED
    BY <1>1, <2>1, EmptyIsTyped DEF ChooseBack, IInv, TypeOK, TableTyped, FlagsTyped, Steps
<1>3. StepInv'
  <2>1. Leftover'
    BY DEF ChooseBack, ForgetUnsourced, Clear, IInv, StepInv, CacheInv, Leftover, Typing, Loaded
  <2>2. pc' = "return" /\ (Loaded => Source # None)'
    BY <1>f DEF ChooseBack
  <2> QED
    BY <2>1, <2>2, IdleStep
<1>4. LeftInv'
  BY DEF ChooseBack, IInv, LeftInv, Loaded, Source
<1> QED
  BY <1>1, <1>2, <1>3, <1>4 DEF IInv

\* The wallet becomes temporary: the assertions of keychain_set_temporary hold.
LEMMA TempNoteKeeps ==
    ASSUME IInv, TempNote
    PROVE  IInv'
<1>a. /\ pc = "tempnote" /\ flow.name = "setup" /\ Unsaved /\ UNCHANGED <<active, cache, failed, device, flow, list>>
      /\ slots \in [SlotIds -> SlotType] /\ active \in SlotIds /\ active \in Held
  BY DEF TempNote, IInv, TypeOK, StepInv, ChooseInv, Choosing, Unsaved, Loaded, TableInv, SlotsSound,
         ActiveIsHeld, Held
<1>b. \/ pc' = "authqr" /\ Press /\ slots' = [slots EXCEPT ![active].temp = TRUE]
      \/ pc' = "choose" /\ UNCHANGED slots
  BY <1>a DEF TempNote, Unsaved
<1>c. ASSUME pc' = "authqr", slots' = [slots EXCEPT ![active].temp = TRUE]
      PROVE  TableTyped' /\ TableInv' /\ Temporary'
  <2>1. TableTyped'
    <3>1. [slots[active] EXCEPT !.temp = TRUE] \in SlotType
      BY <1>a DEF SlotType
    <3>2. slots' = [slots EXCEPT ![active] = [slots[active] EXCEPT !.temp = TRUE]]
      BY <1>a, <1>c
    <3>3. slots' \in [SlotIds -> SlotType]
      BY <1>a, <3>1, <3>2
    <3> QED
      BY <1>a, <3>3 DEF IInv, TypeOK, TableTyped
  <2>2. Held = {active} /\ slots[active].source = None
    BY <1>a DEF Unsaved, Source, IInv, TableInv, UnclaimedIsAlone
  <2>3. /\ slots'[active] = [slots[active] EXCEPT !.temp = TRUE]
        /\ \A j \in SlotIds \ {active} : slots'[j] = slots[j]
    BY <1>a, <1>c
  <2>4. /\ slots'[active].held = slots[active].held
        /\ slots'[active].wallet = slots[active].wallet
        /\ slots'[active].source = slots[active].source
    BY <1>a, <2>3 DEF SlotType
  <2>5. slots'[active].temp
    BY <1>a, <2>3 DEF SlotType
  <2>6. Held' = {active} /\ active' = active /\ cache' = cache
    BY <1>a, <2>2, <2>3, <2>4 DEF Held
  <2>7. SlotsSound'
    BY <1>a, <2>2, <2>5, <2>6 DEF SlotsSound, ActiveIsHeld, NoWalletTwice, PersistedIsStored, Loaded, Unsaved
  <2>8. HeldAreWallets' /\ UnclaimedIsAlone' /\ CacheOfActive'
    BY <1>a, <2>2, <2>4, <2>5, <2>6 DEF IInv, TableInv, HeldAreWallets, UnclaimedIsAlone, CacheOfActive,
           Loaded, Source
  <2>9. Temporary'
    BY <1>a, <2>5, <2>6 DEF Temporary, Loaded, Unsaved
  <2> QED
    BY <2>1, <2>7, <2>8, <2>9 DEF TableInv
<1>1. TableTyped' /\ TableInv'
  BY <1>a, <1>b, <1>c, TableStays DEF IInv
<1>2. TypeOK'
  <2>1. FlagsTyped'
    BY Zenon DEF TempNote, IInv, TypeOK, FlagsTyped
  <2> QED
    BY <1>1, <1>a, <1>b, <2>1 DEF TempNote, IInv, TypeOK, TableTyped, FlagsTyped, Steps
<1>3. StepInv'
  <2>1. CASE pc' = "authqr" /\ slots' = [slots EXCEPT ![active].temp = TRUE]
    <3>1. Temporary' /\ Loaded' /\ flow'.name = "setup"
      BY <1>a, <1>c, <2>1 DEF Temporary
    <3> QED
      BY <2>1, <3>1 DEF StepInv, HomeInv, ObtainInv, TypingInv, UnlockInv, AuthQrInv, ChooseInv, Choosing,
             SetPinInv, MenuInv, ScanInv, CacheInv, Obtaining, Unlocking, Scanning, Typing, Adding
  <2>2. CASE pc' = "choose" /\ UNCHANGED slots
  BY <1>a, <2>2 DEF StepInv, HomeInv, ObtainInv, TypingInv, UnlockInv, AuthQrInv, ChooseInv,
         SetPinInv, MenuInv, ScanInv, CacheInv, Obtaining, Unlocking, Scanning, Typing, Adding,
         Choosing, Claimed, Unsaved, MenuFor, Loaded, Temporary, Source, HasPin, SlotOf, Held
  <2> QED
    BY <1>b, <2>1, <2>2
<1>4. LeftInv'
  BY <1>b DEF TempNote, IInv, LeftInv
<1> QED
  BY <1>1, <1>2, <1>3, <1>4 DEF IInv

\* A temporary wallet is claimed by the first source that asks.
LEMMA AuthTemporaryKeeps ==
    ASSUME IInv, NEW s \in Sources, AuthTemporary(s)
    PROVE  IInv'
<1>a. /\ pc = "home" /\ pc' = "authed" /\ Loaded
      /\ UNCHANGED <<blob, show, init, relogin, keys, list, flow>>
  BY DEF AuthTemporary, Auth, Temporary
<1>b. ASSUME Source = None
      PROVE  TableTyped' /\ TableInv' /\ (Claimed)'
  <2>1. Bind(s, TRUE)
    BY <1>b DEF AuthTemporary
  <2> QED
    BY <1>a, <2>1, TableBound, Zenon DEF IInv
<1>c. ASSUME Source # None
      PROVE  TableTyped' /\ TableInv' /\ (Claimed)'
  BY <1>a, <1>c, TableStays DEF AuthTemporary, IInv, Claimed, Loaded, Source
<1>1. TableTyped' /\ TableInv'
  BY <1>b, <1>c
<1>2. TypeOK'
  <2>1. FlagsTyped'
    BY Zenon DEF AuthTemporary, Bind, Auth, IInv, TypeOK, FlagsTyped
  <2> QED
    BY <1>1, <2>1, EmptyIsTyped DEF AuthTemporary, Auth, IInv, TypeOK, TableTyped, FlagsTyped,
           Steps
<1>3. StepInv'
  BY <1>a, <1>b, <1>c, IdleStep DEF Leftover, Claimed
<1>4. LeftInv'
  BY <1>a DEF IInv, LeftInv
<1> QED
  BY <1>1, <1>2, <1>3, <1>4 DEF IInv

\* A source whose wallet is open is let in.
LEMMA AuthReadyKeeps ==
    ASSUME IInv, NEW s \in Sources, AuthReady(s)
    PROVE  IInv'
<1>1. TableTyped' /\ TableInv'
  BY TableStays DEF AuthReady, Auth, IInv
<1>2. TypeOK'
  <2>1. FlagsTyped'
    BY Zenon DEF AuthReady, Auth, IInv, TypeOK, FlagsTyped
  <2> QED
    BY <1>1, <2>1, EmptyIsTyped DEF AuthReady, Auth, IInv, TypeOK, TableTyped, FlagsTyped, Steps
<1>3. StepInv'
  BY DEF AuthReady, Auth, IInv, StepInv, HomeInv, ObtainInv, TypingInv, UnlockInv, AuthQrInv,
         ChooseInv, SetPinInv, MenuInv, ScanInv, CacheInv, Obtaining, Unlocking, Scanning, Typing,
         Adding, Choosing, Claimed, Unsaved, MenuFor, Loaded, Temporary, Source, HasPin, SlotOf, Held,
         NoFlow
<1>4. LeftInv'
  BY DEF AuthReady, Auth, IInv, LeftInv, Loaded, Source
<1> QED
  BY <1>1, <1>2, <1>3, <1>4 DEF IInv

\* A source that has to unlock starts with an empty table.
LEMMA AuthLockedKeeps ==
    ASSUME IInv, NEW s \in Sources, AuthLocked(s)
    PROVE  IInv'
<1>1. TableTyped' /\ TableInv'
  <2>1. CASE Loaded
    BY <2>1, TableCleared DEF AuthLocked
  <2>2. CASE ~Loaded
    BY <2>2, TableStays DEF AuthLocked, Auth, IInv
  <2> QED
    BY <2>1, <2>2
<1>2. TypeOK'
  <2>1. FlagsTyped'
    BY Zenon DEF AuthLocked, Auth, Clear, NoFlow, IInv, TypeOK, FlagsTyped
  <2> QED
    BY <1>1, <2>1, EmptyIsTyped DEF AuthLocked, Auth, Clear, NoFlow, IInv, TypeOK, TableTyped,
           FlagsTyped, Steps, FlowType
<1>3. StepInv'
  BY DEF AuthLocked, Auth, Clear, NoFlow, IInv, StepInv, HomeInv, ObtainInv, TypingInv,
         UnlockInv, AuthQrInv, ChooseInv, SetPinInv, MenuInv, ScanInv, CacheInv, Obtaining, Unlocking,
         Scanning, Typing, Adding, Choosing, Claimed, Unsaved, MenuFor, Loaded, Temporary, Source,
         HasPin, SlotOf, Held
<1>4. LeftInv'
  BY DEF AuthLocked, Auth, Clear, NoFlow, IInv, LeftInv, Loaded, Source
<1> QED
  BY <1>1, <1>2, <1>3, <1>4 DEF IInv

\* A wallet that is open and not on the card is an unclaimed one, still cached.
LEMMA AuthUnsavedKeeps ==
    ASSUME IInv, NEW s \in Sources, AuthUnsaved(s)
    PROVE  IInv'
<1>a. cache # NoWallet
  BY OpenUnsaved DEF AuthUnsaved, IInv
<1>1. TableTyped' /\ TableInv'
  BY TableStays DEF AuthUnsaved, Auth, NoFlow, IInv
<1>2. TypeOK'
  <2>1. FlagsTyped'
    BY Zenon DEF AuthUnsaved, Auth, NoFlow, IInv, TypeOK, FlagsTyped
  <2> QED
    BY <1>1, <2>1, EmptyIsTyped DEF AuthUnsaved, Auth, NoFlow, IInv, TypeOK, TableTyped,
           FlagsTyped, Steps, FlowType
<1>3. StepInv'
  BY <1>a DEF AuthUnsaved, Auth, NoFlow, IInv, StepInv, HomeInv, ObtainInv, TypingInv,
         UnlockInv, AuthQrInv, ChooseInv, SetPinInv, MenuInv, ScanInv, CacheInv, Obtaining, Unlocking,
         Scanning, Typing, Adding, Choosing, Claimed, Unsaved, MenuFor, Loaded, Temporary, Source,
         HasPin, SlotOf, Held
<1>4. LeftInv'
  BY DEF AuthUnsaved, Auth, NoFlow, IInv, LeftInv, Loaded, Source
<1> QED
  BY <1>1, <1>2, <1>3, <1>4 DEF IInv

\* A source sets up a wallet where none is.
LEMMA AuthNewKeeps ==
    ASSUME IInv, NEW s \in Sources, AuthNew(s)
    PROVE  IInv'
<1>1. TableTyped' /\ TableInv'
  BY TableStays DEF AuthNew, Obtain, NoFlow, IInv
<1>2. TypeOK'
  <2>1. FlagsTyped'
    BY Zenon DEF AuthNew, Obtain, NoFlow, IInv, TypeOK, FlagsTyped
  <2> QED
    BY <1>1, <2>1, EmptyIsTyped DEF AuthNew, Obtain, NoFlow, IInv, TypeOK, TableTyped,
           FlagsTyped, Steps, FlowType
<1>3. StepInv'
  BY DEF AuthNew, Obtain, NoFlow, IInv, StepInv, HomeInv, ObtainInv, TypingInv, UnlockInv,
         AuthQrInv, ChooseInv, SetPinInv, MenuInv, ScanInv, CacheInv, Obtaining, Unlocking, Scanning,
         Typing, Adding, Choosing, Claimed, Unsaved, MenuFor, Loaded, Temporary, Source, HasPin,
         SlotOf, Held
<1>4. LeftInv'
  BY DEF AuthNew, Obtain, NoFlow, IInv, LeftInv, Loaded, Source
<1> QED
  BY <1>1, <1>2, <1>3, <1>4 DEF IInv

\* The wallet is stored and claimed, or stays as it was.
LEMMA SetPinKeeps ==
    ASSUME IInv, SetPin
    PROVE  IInv'
<1>a. /\ pc = "setpin" /\ pc' = "authed" /\ UNCHANGED <<show, init, relogin, asked, flow, list>>
      /\ Loaded /\ ~Temporary /\ cache # NoWallet /\ flow.source \in Sources
  BY DEF SetPin, IInv, StepInv, SetPinInv
<1>b. Source = None /\ slots[active].wallet.words = cache.words
  BY <1>a DEF IInv, TableInv, CacheOfActive
<1>c. \/ UNCHANGED <<table, blob>>
      \/ Press /\ blob' = cache /\ Bind(flow.source, FALSE)
  BY DEF SetPin
<1>d. ASSUME blob' = cache, Bind(flow.source, FALSE)
      PROVE  TableTyped' /\ TableInv' /\ (Claimed)'
  <2>1. \A j \in Held : ~slots[j].temp => j = active
    BY <1>a, OnlyPersisted DEF IInv
  <2>2. slots[active].wallet.words = blob'.words
    BY <1>b, <1>d
  <2> QED
    BY <1>a, <1>d, <2>1, <2>2, TableBound, Zenon DEF IInv
<1>1. TableTyped' /\ TableInv'
  BY <1>c, <1>d, TableStays DEF IInv
<1>2. TypeOK'
  <2>1. FlagsTyped'
    BY Zenon DEF SetPin, Bind, IInv, TypeOK, FlagsTyped
  <2>2. blob' \in Wallets \cup {NoWallet} /\ left' \in {"no", "left", "revised"}
    BY <1>c DEF SetPin, IInv, TypeOK
  <2> QED
    BY <1>1, <1>a, <2>1, <2>2 DEF IInv, TypeOK, TableTyped, FlagsTyped, Steps
<1>3. StepInv'
  <2>1. Loaded'
    BY <1>a, <1>c DEF Loaded, Bind
  <2> QED
    BY <1>a, <2>1, IdleStep DEF Leftover
<1>4. LeftInv'
  <2>1. UNCHANGED <<table, blob>> => Source' = None
    BY <1>b DEF Source, Loaded
  <2>2. pc' = "authed" /\ (left' = "left" => esc') /\ (Press => left' # "left")
    BY DEF SetPin
  <2> QED
    BY <1>c, <2>1, <2>2 DEF LeftInv
<1> QED
  BY <1>1, <1>2, <1>3, <1>4 DEF IInv

\* A failed unlock finds and leaves the table empty.
LEMMA UnlockFailsKeeps ==
    ASSUME IInv, UnlockFails
    PROVE  IInv'
<1>a. ~Loaded /\ pc = "unlock" /\ pc' = "authed" /\ UNCHANGED table
  BY DEF UnlockFails, IInv, StepInv, UnlockInv, Unlocking
<1>b. active' = 0 /\ Held = {} /\ Held' = {}
  BY <1>a DEF IInv, TableInv, SlotsSound, ActiveIsHeld, Loaded, Held
<1>c. cache' # NoWallet => cache' = blob' /\ failed'
  BY <1>a DEF UnlockFails, IInv, StepInv, CacheInv, Typing
<1>1. TableTyped' /\ TableInv'
  <2>1. TableTyped'
    BY <1>a DEF IInv, TypeOK, TableTyped
  <2> QED
    BY <1>b, <2>1 DEF TableInv, SlotsSound, ActiveIsHeld, NoWalletTwice, PersistedIsStored,
           HeldAreWallets, UnclaimedIsAlone, CacheOfActive, Loaded
<1>2. TypeOK'
  <2>1. FlagsTyped'
    BY Zenon DEF UnlockFails, IInv, TypeOK, FlagsTyped
  <2> QED
    BY <1>1, <2>1, EmptyIsTyped DEF UnlockFails, IInv, TypeOK, TableTyped, FlagsTyped, Steps
<1>3. StepInv'
  BY <1>a, <1>b, <1>c, IdleStep DEF Leftover, Loaded
<1>4. LeftInv'
  BY <1>b DEF UnlockFails, IInv, LeftInv, Loaded, Source
<1> QED
  BY <1>1, <1>2, <1>3, <1>4 DEF IInv

\* The PIN opens a master secret, or caches words until their passphrase.
LEMMA UnlockOpensKeeps ==
    ASSUME IInv, UnlockOpens
    PROVE  IInv'
<1>a. /\ pc = "unlock" /\ ~Loaded /\ HasPin /\ flow.source \in Sources /\ flow.name = "unlock"
      /\ blob \in Wallets /\ blob' = blob /\ cache = NoWallet /\ flow \in FlowType
      /\ UNCHANGED <<device, list>> /\ esc' = FALSE /\ left' = "no"
  BY DEF UnlockOpens, IInv, TypeOK, StepInv, UnlockInv, Unlocking, HasPin
<1>b. ASSUME blob.words \in Secrets
      PROVE  pc' = "authed" /\ flow' = flow /\ TableTyped' /\ TableInv' /\ (Claimed)' /\ cache' = NoWallet
  <2> DEFINE r == [Arrived(blob, flow.source, FALSE) EXCEPT !.entropy = @ /\ FALSE]
  <2>1. r \in SlotType /\ r.held /\ r.wallet = blob /\ r.source = flow.source /\ ~r.temp
    BY <1>a, <1>b DEF Arrived, SlotType
  <2>2. slots' = [EmptyTable EXCEPT ![1] = r] /\ active' = 1 /\ cache' = NoWallet
    BY <1>a, <1>b DEF SetOnly, UnlockOpens
  <2> HIDE DEF r
  <2>3. r.source # None
    BY <1>a, <1>b, <2>1 DEF Sources
  <2>4. blob' = blob
    BY <1>a, <1>b
  <2>5. TableTyped' /\ TableInv' /\ slots'[1] = r
    BY <1>a, <1>b, <2>1, <2>2, <2>3, <2>4, TableOfOne
  <2>6. (Claimed)'
    BY <2>1, <2>2, <2>3, <2>5 DEF Claimed, Loaded, Source
  <2> QED
    BY <1>a, <1>b, <2>2, <2>5, <2>6 DEF UnlockOpens
<1>c. ASSUME blob.words \notin Secrets
      PROVE  /\ pc' \in {"passphrase", "derive"} /\ cache' = blob /\ UNCHANGED <<slots, active>>
             /\ flow' = [flow EXCEPT !.wallet = blob]
  BY <1>c DEF UnlockOpens
<1>d. ASSUME blob.words \notin Secrets
      PROVE  TableTyped' /\ TableInv'
  <2>1. TableTyped'
    BY <1>a, <1>c, <1>d DEF IInv, TypeOK, TableTyped
  <2>2. active' = 0 /\ Held = {} /\ Held' = {}
    BY <1>a, <1>c, <1>d DEF IInv, TableInv, SlotsSound, ActiveIsHeld, Loaded, Held
  <2> QED
    BY <2>1, <2>2 DEF TableInv, SlotsSound, ActiveIsHeld, NoWalletTwice, PersistedIsStored,
           HeldAreWallets, UnclaimedIsAlone, CacheOfActive, Loaded
<1>e. ASSUME blob.words \notin Secrets
      PROVE  /\ flow' \in FlowType
             /\ flow'.wallet = blob /\ flow'.offer = flow.offer
             /\ flow'.name = flow.name /\ flow'.temp = flow.temp
             /\ flow'.source = flow.source /\ flow'.before = flow.before
  BY <1>a, <1>c, <1>e, FlowWallet
<1>1. TableTyped' /\ TableInv'
  BY <1>b, <1>d
<1>2. TypeOK'
  <2>1. FlagsTyped'
    BY Zenon DEF UnlockOpens, SetOnly, IInv, TypeOK, FlagsTyped
  <2>2. pc' \in Steps /\ flow' \in FlowType
    BY <1>a, <1>b, <1>c, <1>e DEF Steps
  <2> QED
    BY <1>1, <1>a, <2>1, <2>2 DEF IInv, TypeOK, TableTyped, FlagsTyped
<1>3. StepInv'
  <2>1. CASE blob.words \in Secrets
    BY <1>b, <2>1, IdleStep DEF Leftover, Claimed
  <2>2. CASE blob.words \notin Secrets
    <3>1. ~flow.offer
      BY <1>a DEF IInv, StepInv, UnlockInv, Unlocking
    <3> QED
    BY <1>a, <1>c, <1>e, <2>2, <3>1 DEF StepInv, HomeInv, ObtainInv, TypingInv, UnlockInv,
           AuthQrInv, ChooseInv, SetPinInv, MenuInv, ScanInv, CacheInv, Obtaining, Unlocking, Scanning,
           Typing, Adding, Choosing, Claimed, Unsaved, MenuFor, Loaded, Temporary, Source, HasPin,
           SlotOf, Held
  <2> QED
    BY <2>1, <2>2
<1>4. LeftInv'
  BY <1>a, <1>b, <1>c DEF LeftInv
<1> QED
  BY <1>1, <1>2, <1>3, <1>4 DEF IInv

\* The words a PIN decrypted become the only wallet, or stay cached without one.
LEMMA DeriveUnlockKeeps ==
    ASSUME IInv, DeriveUnlock
    PROVE  IInv'
<1>a. /\ pc = "derive" /\ ~esc /\ flow.wallet \in Wallets /\ flow.source \in Sources
      /\ flow.name = "unlock" /\ flow.wallet.words = blob.words /\ ~Loaded /\ HasPin /\ ~flow.offer
      /\ UNCHANGED <<device, keys, flow, list>>
  BY DEF DeriveUnlock, IInv, StepInv, TypingInv, UnlockInv, Unlocking, Typing
<1>b. ASSUME SetOnly(flow.wallet, flow.source, FALSE, FALSE)
      PROVE  TableTyped' /\ TableInv' /\ (Claimed)' /\ cache' = NoWallet
  <2> DEFINE r == [Arrived(flow.wallet, flow.source, FALSE) EXCEPT !.entropy = @ /\ FALSE]
  <2>1. r \in SlotType /\ r.held /\ r.wallet = flow.wallet /\ r.source = flow.source /\ ~r.temp
    BY <1>a DEF Arrived, SlotType
  <2>2. slots' = [EmptyTable EXCEPT ![1] = r] /\ active' = 1 /\ cache' = NoWallet
    BY <1>a, <1>b DEF SetOnly
  <2> HIDE DEF r
  <2>3. r.source # None
    BY <1>a, <2>1 DEF Sources
  <2>4. blob' = blob
    BY <1>a
  <2>5. TableTyped' /\ TableInv' /\ slots'[1] = r
    BY <1>a, <2>1, <2>2, <2>3, <2>4, TableOfOne
  <2>6. (Claimed)'
    BY <2>1, <2>2, <2>3, <2>5 DEF Claimed, Loaded, Source
  <2> QED
    BY <2>2, <2>5, <2>6
<1>c. \/ SetOnly(flow.wallet, flow.source, FALSE, FALSE) /\ pc' = "authed"
      \/ UNCHANGED <<slots, active, cache>> /\ failed' = TRUE /\ pc' = "underived"
  BY DEF DeriveUnlock
<1>d. ASSUME UNCHANGED <<slots, active, cache>>
      PROVE  TableTyped' /\ TableInv'
  <2>1. TableTyped'
    BY <1>d DEF IInv, TypeOK, TableTyped
  <2> QED
    BY <1>a, <1>d, <2>1 DEF IInv, TableInv, SlotsSound, ActiveIsHeld, NoWalletTwice, PersistedIsStored,
           HeldAreWallets, UnclaimedIsAlone, CacheOfActive, Held, Loaded, Source, HasPin
<1>1. TableTyped' /\ TableInv'
  BY <1>b, <1>c, <1>d
<1>2. TypeOK'
  <2>1. FlagsTyped'
    BY Zenon DEF DeriveUnlock, SetOnly, IInv, TypeOK, FlagsTyped
  <2>2. pc' \in Steps
    BY <1>c DEF Steps
  <2> QED
    BY <1>1, <1>a, <2>1, <2>2 DEF IInv, TypeOK, TableTyped, FlagsTyped
<1>3. StepInv'
  <2>1. CASE SetOnly(flow.wallet, flow.source, FALSE, FALSE) /\ pc' = "authed"
    BY <1>b, <2>1, IdleStep DEF Leftover
  <2>2. CASE UNCHANGED <<slots, active, cache>> /\ failed' = TRUE /\ pc' = "underived"
    <3>1. cache # NoWallet => cache = blob
      BY <1>a DEF IInv, StepInv, CacheInv
    <3> QED
      BY <1>a, <2>2, <3>1 DEF StepInv, HomeInv, ObtainInv, TypingInv, UnlockInv,
             AuthQrInv, ChooseInv, SetPinInv, MenuInv, ScanInv, CacheInv, Obtaining, Unlocking, Scanning,
             Typing, Adding, Choosing, Loaded, HasPin
  <2> QED
    BY <1>c, <2>1, <2>2
<1>4. LeftInv'
  BY <1>a, <1>c DEF IInv, LeftInv
<1> QED
  BY <1>1, <1>2, <1>3, <1>4 DEF IInv

\* The message that a derivation failed is dismissed, with its words still cached.
LEMMA UnderivedKeeps ==
    ASSUME IInv, Underived
    PROVE  IInv'
<1>1. TableTyped' /\ TableInv'
  BY TableStays DEF Underived, IInv
<1>a. ~Loaded /\ pc = "underived" /\ pc' = "authed" /\ UNCHANGED <<table, device, flow, list>>
  BY DEF Underived, IInv, StepInv, UnlockInv, Unlocking
<1>b. cache # NoWallet => cache = blob /\ failed
  BY <1>a DEF IInv, StepInv, CacheInv, Typing
<1>2. TypeOK'
  <2>1. FlagsTyped'
    BY Zenon DEF Underived, IInv, TypeOK, FlagsTyped
  <2> QED
    BY <1>1, <2>1 DEF Underived, IInv, TypeOK, TableTyped, FlagsTyped, Steps
<1>3. StepInv'
  BY <1>a, <1>b, IdleStep DEF Leftover, Loaded
<1>4. LeftInv'
  BY <1>a DEF Underived, IInv, LeftInv, Loaded, Source
<1> QED
  BY <1>1, <1>2, <1>3, <1>4 DEF IInv

\* The message ends: a relogin hands the wallet to the source it was taken from.
LEMMA AuthEndsKeeps ==
    ASSUME IInv, AuthEnds
    PROVE  IInv'
<1>a. /\ pc = "authed" /\ pc' = "return" /\ UNCHANGED <<blob, asked, keys, flow, list>>
      /\ init' = None /\ relogin' = None
  BY DEF AuthEnds
<1>b. \/ UNCHANGED table
      \/ relogin \in Sources /\ ~Temporary /\ HasPin /\ Source = "internal" /\ Bind(relogin, FALSE)
  BY DEF AuthEnds, IInv, TypeOK
<1>c. ASSUME relogin \in Sources, ~Temporary, HasPin, Source = "internal", Bind(relogin, FALSE)
      PROVE  TableTyped' /\ TableInv' /\ (Claimed)'
  <2>1. Loaded
    BY <1>c DEF Source
  <2>2. \A j \in Held : ~slots[j].temp => j = active
    BY <1>c, <2>1, OnlyPersisted DEF IInv
  <2>3. slots[active].wallet.words = blob'.words
    BY <1>a, <1>c, <2>1 DEF IInv, TableInv, SlotsSound, ActiveIsHeld, PersistedIsStored, Temporary, Source
  <2> QED
    BY <1>c, <2>1, <2>2, <2>3, TableBound, Zenon DEF IInv
<1>1. TableTyped' /\ TableInv'
  BY <1>a, <1>b, <1>c, TableStays DEF IInv
<1>2. TypeOK'
  <2>1. FlagsTyped'
    BY Zenon DEF AuthEnds, Bind, IInv, TypeOK, FlagsTyped
  <2> QED
    BY <1>1, <1>a, <2>1 DEF IInv, TypeOK, TableTyped, FlagsTyped, Steps
<1>3. StepInv'
  <2>1. CASE UNCHANGED table
    <3>1. cache # NoWallet /\ ~Loaded => cache = blob /\ failed
      BY <1>a DEF IInv, StepInv, CacheInv, Typing
    <3>2. show' <=> Loaded /\ Source = None
      BY Zenon DEF AuthEnds
    <3>3. /\ Leftover'
          /\ (~show /\ Loaded => Source # None)'
      BY <1>a, <2>1, <3>1, <3>2 DEF Leftover, Loaded, Source
    <3> QED
      BY <1>a, <3>3, IdleStep
  <2>2. CASE /\ relogin \in Sources /\ ~Temporary /\ HasPin /\ Source = "internal"
             /\ Bind(relogin, FALSE)
    BY <1>a, <1>c, <2>2, IdleStep DEF Leftover, Claimed
  <2> QED
    BY <1>b, <2>1, <2>2
<1>4. LeftInv'
  BY <1>a DEF IInv, LeftInv
<1> QED
  BY <1>1, <1>2, <1>3, <1>4 DEF IInv

\* The Session menu is laid out from the table.
LEMMA OpenSessionKeeps ==
    ASSUME IInv, OpenSession
    PROVE  IInv'
<1>1. TableTyped' /\ TableInv'
  BY TableStays DEF OpenSession, AtHome, NoList, IInv
<1>2. TypeOK'
  <2>1. FlagsTyped'
    BY Zenon DEF OpenSession, AtHome, NoList, IInv, TypeOK, FlagsTyped
  <2> QED
    BY <1>1, <2>1, EmptyIsTyped DEF OpenSession, AtHome, NoList, IInv, TypeOK, TableTyped,
           FlagsTyped, Steps, ListType
<1>3. StepInv'
  BY DEF OpenSession, AtHome, NoList, IInv, StepInv, HomeInv, ObtainInv, TypingInv, UnlockInv,
         AuthQrInv, ChooseInv, SetPinInv, MenuInv, ScanInv, CacheInv, Obtaining, Unlocking, Scanning,
         Typing, Adding, Choosing, Claimed, Unsaved, MenuFor, Loaded, Temporary, Source, HasPin,
         SlotOf, Held, NoFlow
<1>4. LeftInv'
  BY DEF OpenSession, AtHome, NoList, IInv, LeftInv, Loaded, Source
<1> QED
  BY <1>1, <1>2, <1>3, <1>4 DEF IInv

\* The row picked is the wallet activated.
LEMMA PickWalletKeeps ==
    ASSUME IInv, PickWallet
    PROVE  IInv'
<1> DEFINE rows == {i \in SlotIds : list.rows[i].held}
<1>a. pc = "session" /\ Claimed /\ list.rows = slots /\ pc' = "wallet" /\ UNCHANGED <<device, flow>>
  BY DEF PickWallet, IInv, StepInv, MenuInv
<1>b. rows = Held
  BY <1>a DEF Held
<1>c. PICK n \in 1 .. Cardinality(rows) :
        /\ Activate(AtPosition(Held, n))
        /\ list' = [list EXCEPT !.title = list.rows[AtPosition(rows, n)].wallet,
                                !.forget = slots[AtPosition(Held, n)].temp,
                                !.backup = slots[AtPosition(Held, n)].entropy]
  BY DEF PickWallet
<1>d. AtPosition(Held, n) \in Held
  BY <1>b, PositionIsTaken DEF Held
<1>e. PICK i \in Held : /\ Activate(i)
                        /\ list' = [list EXCEPT !.title = slots[i].wallet, !.forget = slots[i].temp,
                                                !.backup = slots[i].entropy]
  BY <1>a, <1>b, <1>c, <1>d
<1>f. slots[i] \in SlotType /\ list \in ListType
  BY DEF Held, IInv, TypeOK
<1>g. list' \in ListType /\ list'.rows = list.rows /\ list'.title = slots[i].wallet
      /\ list'.forget = slots[i].temp /\ list'.backup = slots[i].entropy
  BY <1>e, <1>f DEF ListType, SlotType
<1>h. TableTyped' /\ TableInv' /\ (Claimed)'
  BY <1>a, <1>e, TableSwitched DEF IInv
<1>1. TableTyped' /\ TableInv'
  BY <1>h
<1>2. TypeOK'
  <2>1. FlagsTyped'
    BY Zenon DEF PickWallet, Activate, IInv, TypeOK, FlagsTyped
  <2> QED
    BY <1>h, <1>a, <1>g, <2>1 DEF PickWallet, IInv, TypeOK, TableTyped, FlagsTyped, Steps
<1>3. StepInv'
  <2>1. active' = i /\ slots' = slots
    BY <1>e DEF Activate
  <2>2. MenuFor(active)'
    BY <1>a, <1>g, <2>1 DEF MenuFor
  <2>3. Loaded' /\ Claimed' /\ list'.rows = slots'
    BY <1>a, <1>g, <1>h, <2>1 DEF Claimed
  <2> QED
    BY <1>a, <2>2, <2>3 DEF StepInv, HomeInv, ObtainInv, TypingInv, UnlockInv, AuthQrInv, ChooseInv,
           SetPinInv, MenuInv, ScanInv, CacheInv, Obtaining, Unlocking, Scanning, Typing, Adding, Choosing
<1>4. LeftInv'
  BY DEF PickWallet, IInv, LeftInv, Loaded, Source
<1> QED
  BY <1>1, <1>2, <1>3, <1>4 DEF IInv

\* The Log Out row empties the table.
LEMMA SessionLogoutKeeps ==
    ASSUME IInv, SessionLogout
    PROVE  IInv'
<1>1. TableTyped' /\ TableInv'
  BY TableCleared DEF SessionLogout
<1>2. TypeOK'
  <2>1. FlagsTyped'
    BY Zenon DEF SessionLogout, Clear, IInv, TypeOK, FlagsTyped
  <2> QED
    BY <1>1, <2>1, EmptyIsTyped DEF SessionLogout, Clear, IInv, TypeOK, TableTyped, FlagsTyped,
           Steps
<1>3. StepInv'
  BY DEF SessionLogout, Clear, IInv, StepInv, HomeInv, ObtainInv, TypingInv, UnlockInv,
         AuthQrInv, ChooseInv, SetPinInv, MenuInv, ScanInv, CacheInv, Obtaining, Unlocking, Scanning,
         Typing, Adding, Choosing, Claimed, Unsaved, MenuFor, Loaded, Temporary, Source, HasPin,
         SlotOf, Held, NoFlow
<1>4. LeftInv'
  BY DEF SessionLogout, Clear, IInv, LeftInv, Loaded, Source
<1> QED
  BY <1>1, <1>2, <1>3, <1>4 DEF IInv

\* Leaving the menu changes no wallet.
LEMMA LeaveSessionKeeps ==
    ASSUME IInv, LeaveSession
    PROVE  IInv'
<1>1. TableTyped' /\ TableInv'
  BY TableStays DEF LeaveSession, IInv
<1>2. TypeOK'
  <2>1. FlagsTyped'
    BY Zenon DEF LeaveSession, IInv, TypeOK, FlagsTyped
  <2> QED
    BY <1>1, <2>1, EmptyIsTyped DEF LeaveSession, IInv, TypeOK, TableTyped, FlagsTyped, Steps
<1>3. StepInv'
  BY DEF LeaveSession, IInv, StepInv, HomeInv, ObtainInv, TypingInv, UnlockInv, AuthQrInv,
         ChooseInv, SetPinInv, MenuInv, ScanInv, CacheInv, Obtaining, Unlocking, Scanning, Typing,
         Adding, Choosing, Claimed, Unsaved, MenuFor, Loaded, Temporary, Source, HasPin, SlotOf, Held,
         NoFlow
<1>4. LeftInv'
  BY DEF LeaveSession, IInv, LeftInv, Loaded, Source
<1> QED
  BY <1>1, <1>2, <1>3, <1>4 DEF IInv

\* Nor does going back to the list.
LEMMA WalletBackKeeps ==
    ASSUME IInv, WalletBack
    PROVE  IInv'
<1>1. TableTyped' /\ TableInv'
  BY TableStays DEF WalletBack, IInv
<1>2. TypeOK'
  <2>1. FlagsTyped'
    BY Zenon DEF WalletBack, IInv, TypeOK, FlagsTyped
  <2> QED
    BY <1>1, <2>1, EmptyIsTyped DEF WalletBack, IInv, TypeOK, TableTyped, FlagsTyped, Steps
<1>3. StepInv'
  BY DEF WalletBack, IInv, StepInv, HomeInv, ObtainInv, TypingInv, UnlockInv, AuthQrInv,
         ChooseInv, SetPinInv, MenuInv, ScanInv, CacheInv, Obtaining, Unlocking, Scanning, Typing,
         Adding, Choosing, Claimed, Unsaved, MenuFor, Loaded, Temporary, Source, HasPin, SlotOf, Held,
         NoFlow
<1>4. LeftInv'
  BY DEF WalletBack, IInv, LeftInv, Loaded, Source
<1> QED
  BY <1>1, <1>2, <1>3, <1>4 DEF IInv

\* Nor does asking to forget.
LEMMA ForgetRowKeeps ==
    ASSUME IInv, ForgetRow
    PROVE  IInv'
<1>1. TableTyped' /\ TableInv'
  BY TableStays DEF ForgetRow, IInv
<1>2. TypeOK'
  <2>1. FlagsTyped'
    BY Zenon DEF ForgetRow, IInv, TypeOK, FlagsTyped
  <2> QED
    BY <1>1, <2>1, EmptyIsTyped DEF ForgetRow, IInv, TypeOK, TableTyped, FlagsTyped, Steps
<1>3. StepInv'
  BY DEF ForgetRow, IInv, StepInv, HomeInv, ObtainInv, TypingInv, UnlockInv, AuthQrInv,
         ChooseInv, SetPinInv, MenuInv, ScanInv, CacheInv, Obtaining, Unlocking, Scanning, Typing,
         Adding, Choosing, Claimed, Unsaved, MenuFor, Loaded, Temporary, Source, HasPin, SlotOf, Held,
         NoFlow
<1>4. LeftInv'
  BY DEF ForgetRow, IInv, LeftInv, Loaded, Source
<1> QED
  BY <1>1, <1>2, <1>3, <1>4 DEF IInv

\* The wallet in use is forgotten, or stays.
LEMMA ForgetAnswerKeeps ==
    ASSUME IInv, ForgetAnswer
    PROVE  IInv'
<1>a. /\ pc = "forget" /\ Claimed /\ UNCHANGED <<device, flow, list>>
      /\ list.rows = slots /\ MenuFor(active)
  BY DEF ForgetAnswer, IInv, StepInv, MenuInv
<1>b. \/ Press /\ ForgetActive /\ pc' = "return"
      \/ UNCHANGED table /\ pc' = "wallet"
  BY DEF ForgetAnswer
<1>c. ASSUME ForgetActive
      PROVE  TableTyped' /\ TableInv' /\ (Loaded => Source # None)'
  BY <1>a, <1>c, TableForgets DEF IInv
<1>1. TableTyped' /\ TableInv'
  BY <1>a, <1>b, <1>c, TableStays DEF IInv
<1>2. TypeOK'
  <2>1. FlagsTyped'
    BY Zenon DEF ForgetAnswer, ForgetActive, Clear, IInv, TypeOK, FlagsTyped
  <2> QED
    BY <1>1, <1>a, <1>b, <2>1 DEF ForgetAnswer, IInv, TypeOK, TableTyped, FlagsTyped, Steps
<1>3. StepInv'
  <2>1. CASE ForgetActive /\ pc' = "return"
    <3>1. cache' = NoWallet
      BY <1>a, <2>1 DEF ForgetActive, Clear, IInv, TableInv, CacheOfActive, Claimed
    <3> QED
      BY <1>c, <2>1, <3>1, IdleStep DEF Leftover
  <2>2. CASE UNCHANGED table /\ pc' = "wallet"
    BY <1>a, <2>2 DEF StepInv, HomeInv, ObtainInv, TypingInv, UnlockInv, AuthQrInv, ChooseInv,
           SetPinInv, MenuInv, ScanInv, CacheInv, Obtaining, Unlocking, Scanning, Typing, Adding,
           Choosing, Claimed, Unsaved, MenuFor, Loaded, Temporary, Source, HasPin, SlotOf, Held
  <2> QED
    BY <1>b, <2>1, <2>2
<1>4. LeftInv'
  BY DEF ForgetAnswer, IInv, LeftInv, Loaded, Source
<1> QED
  BY <1>1, <1>2, <1>3, <1>4 DEF IInv

\* A scan starts with a claimed wallet.
LEMMA ScanQrKeeps ==
    ASSUME IInv, ScanQr
    PROVE  IInv'
<1>a. Claimed /\ pc' = "scan" /\ UNCHANGED <<table, device, list>>
  BY DEF ScanQr, AtHome, IInv, StepInv, HomeInv, MenuInv, Claimed
<1>b. Source \in Sources /\ active \in SlotIds /\ Cardinality(Held) \in SlotIds \cup {0}
  BY <1>a, ClaimedSource, SlotsFinite DEF IInv, Held
<1>c. /\ flow' \in FlowType /\ flow'.name = "add" /\ flow'.source = Source /\ ~flow'.offer
      /\ flow'.before = 0 \/ (flow'.before = active /\ pc = "wallet")
  <2>1. CASE flow' = [NoFlow EXCEPT !.name = "add", !.source = Source]
    BY <1>b, <2>1 DEF NoFlow, FlowType
  <2>2. CASE pc = "wallet" /\ flow' = [NoFlow EXCEPT !.name = "add", !.source = Source,
                                        !.before = active, !.count = Cardinality(Held)]
    BY <1>b, <2>2 DEF NoFlow, FlowType
  <2> QED
    BY <2>1, <2>2 DEF ScanQr
<1>d. pc = "wallet" => MenuFor(active)
  BY DEF IInv, StepInv, MenuInv
<1>1. TableTyped' /\ TableInv'
  BY TableStays DEF ScanQr, AtHome, IInv
<1>2. TypeOK'
  <2>1. FlagsTyped'
    BY Zenon DEF ScanQr, AtHome, IInv, TypeOK, FlagsTyped
  <2> QED
    BY <1>1, <1>a, <1>c, <2>1 DEF ScanQr, IInv, TypeOK, TableTyped, FlagsTyped, Steps
<1>3. StepInv'
  BY <1>a, <1>b, <1>c, <1>d DEF StepInv, HomeInv, ObtainInv, TypingInv, UnlockInv, AuthQrInv,
         ChooseInv, SetPinInv, MenuInv, ScanInv, CacheInv, Obtaining, Unlocking, Scanning, Typing,
         Adding, Choosing, Claimed, Unsaved, MenuFor, Loaded, Temporary, Source, HasPin, SlotOf, Held
<1>4. LeftInv'
  BY DEF ScanQr, AtHome, IInv, LeftInv, Loaded, Source
<1> QED
  BY <1>1, <1>2, <1>3, <1>4 DEF IInv

\* A scan that finds no wallet changes none.
LEMMA ScanOtherKeeps ==
    ASSUME IInv, ScanOther
    PROVE  IInv'
<1>1. TableTyped' /\ TableInv'
  BY TableStays DEF ScanOther, Scanned, IInv
<1>2. TypeOK'
  <2>1. FlagsTyped'
    BY Zenon DEF ScanOther, Scanned, IInv, TypeOK, FlagsTyped
  <2> QED
    BY <1>1, <2>1, EmptyIsTyped DEF ScanOther, Scanned, IInv, TypeOK, TableTyped, FlagsTyped,
           Steps
<1>3. StepInv'
  BY DEF ScanOther, Scanned, IInv, StepInv, HomeInv, ObtainInv, TypingInv, UnlockInv, AuthQrInv,
         ChooseInv, SetPinInv, MenuInv, ScanInv, CacheInv, Obtaining, Unlocking, Scanning, Typing,
         Adding, Choosing, Claimed, Unsaved, MenuFor, Loaded, Temporary, Source, HasPin, SlotOf, Held,
         NoFlow
<1>4. LeftInv'
  BY DEF ScanOther, Scanned, IInv, LeftInv, Loaded, Source
<1> QED
  BY <1>1, <1>2, <1>3, <1>4 DEF IInv

\* A PSBT may name another wallet that is held.
LEMMA ScanPsbtKeeps ==
    ASSUME IInv, ScanPsbt
    PROVE  IInv'
<1>a. pc = "scan" /\ Claimed /\ UNCHANGED <<device, flow, list>> /\ pc' \in {"scanned", "return"}
      /\ (pc' = "scanned" => flow.before # 0) /\ (flow.before # 0 => active = flow.before)
  BY DEF ScanPsbt, Scanned, IInv, StepInv, ScanInv, Scanning, Adding
<1>b. PICK i \in Held \ {active} : Activate(i)
  BY DEF ScanPsbt
<1>c. TableTyped' /\ TableInv' /\ (Claimed)'
  BY <1>a, <1>b, TableSwitched DEF IInv
<1>1. TableTyped' /\ TableInv'
  BY <1>c
<1>2. TypeOK'
  <2>1. FlagsTyped'
    BY Zenon DEF ScanPsbt, Activate, Scanned, IInv, TypeOK, FlagsTyped
  <2> QED
    BY <1>1, <2>1, EmptyIsTyped DEF ScanPsbt, Scanned, IInv, TypeOK, TableTyped, FlagsTyped,
           Steps
<1>3. StepInv'
  <2>1. CASE pc' = "return"
    BY <1>c, <2>1, IdleStep DEF Leftover, Claimed
  <2>2. CASE pc' = "scanned"
    <3>1. active' # flow'.before /\ Loaded'
      BY <1>a, <1>b, <1>c, <2>2 DEF Activate, Claimed
    <3> QED
      BY <1>c, <2>2, <3>1 DEF StepInv, HomeInv, ObtainInv, TypingInv, UnlockInv, AuthQrInv, ChooseInv,
             SetPinInv, MenuInv, ScanInv, CacheInv, Obtaining, Unlocking, Scanning, Typing, Adding, Choosing
  <2> QED
    BY <1>a, <2>1, <2>2
<1>4. LeftInv'
  BY DEF ScanPsbt, Scanned, IInv, LeftInv, Loaded, Source
<1> QED
  BY <1>1, <1>2, <1>3, <1>4 DEF IInv

\* Words were scanned: the wallet they are without a passphrase may be held.
LEMMA ScanWordsKeeps ==
    ASSUME IInv, ScanWords
    PROVE  IInv'
<1>a. PICK p \in Phrases, ask \in BOOLEAN :
        /\ flow' = [flow EXCEPT !.wallet = [words |-> p, phrase |-> FALSE]]
        /\ pc' = IF SlotOf([words |-> p, phrase |-> FALSE]) # {} THEN IF ask THEN "again" ELSE "held"
                 ELSE IF ask THEN "passphrase" ELSE "derive"
  BY DEF ScanWords
<1>b. [words |-> p, phrase |-> FALSE] \in Wallets /\ [words |-> p, phrase |-> FALSE].words = p
  BY DEF Wallets
<1>c. PICK w \in Wallets : /\ w.words = p /\ flow' = [flow EXCEPT !.wallet = w]
                           /\ pc' \in {"again", "held", "passphrase", "derive"}
                           /\ pc' \in {"again", "held"} => SlotOf(w) # {}
  BY <1>a, <1>b
<1>d. /\ flow' \in FlowType
      /\ flow'.wallet = w /\ flow'.offer = flow.offer
      /\ flow'.name = flow.name /\ flow'.temp = flow.temp
      /\ flow'.source = flow.source /\ flow'.before = flow.before
  BY <1>c, FlowWallet DEF IInv, TypeOK
<1>e. pc = "scan" /\ flow.name = "add" /\ w.words \notin Secrets /\ UNCHANGED <<table, device, list>>
  BY <1>c, SessionAssumption DEF ScanWords, IInv, StepInv, ScanInv, Scanning, Adding
<1>1. TableTyped' /\ TableInv'
  BY TableStays DEF ScanWords, IInv
<1>2. TypeOK'
  <2>1. FlagsTyped'
    BY Zenon DEF ScanWords, IInv, TypeOK, FlagsTyped
  <2> QED
    BY <1>1, <1>c, <1>d, <1>e, <2>1 DEF ScanWords, IInv, TypeOK, TableTyped, FlagsTyped, Steps
<1>3. StepInv'
  BY <1>c, <1>d, <1>e DEF IInv, StepInv, HomeInv, ObtainInv, TypingInv, UnlockInv, AuthQrInv,
         ChooseInv, SetPinInv, MenuInv, ScanInv, CacheInv, Obtaining, Unlocking, Scanning, Typing,
         Adding, Choosing, Claimed, Unsaved, MenuFor, Loaded, Temporary, Source, HasPin, SlotOf, Held
<1>4. LeftInv'
  BY DEF ScanWords, IInv, LeftInv, Loaded, Source
<1> QED
  BY <1>1, <1>2, <1>3, <1>4 DEF IInv

\* A held wallet may be meant with a passphrase.
LEMMA AddAgainKeeps ==
    ASSUME IInv, AddAgain
    PROVE  IInv'
<1>1. TableTyped' /\ TableInv'
  BY TableStays DEF AddAgain, IInv
<1>2. TypeOK'
  <2>1. FlagsTyped'
    BY Zenon DEF AddAgain, IInv, TypeOK, FlagsTyped
  <2> QED
    BY <1>1, <2>1, EmptyIsTyped DEF AddAgain, IInv, TypeOK, TableTyped, FlagsTyped, Steps
<1>3. StepInv'
  BY DEF AddAgain, IInv, StepInv, HomeInv, ObtainInv, TypingInv, UnlockInv, AuthQrInv,
         ChooseInv, SetPinInv, MenuInv, ScanInv, CacheInv, Obtaining, Unlocking, Scanning, Typing,
         Adding, Choosing, Claimed, Unsaved, MenuFor, Loaded, Temporary, Source, HasPin, SlotOf, Held,
         NoFlow
<1>4. LeftInv'
  BY DEF AddAgain, IInv, LeftInv, Loaded, Source
<1> QED
  BY <1>1, <1>2, <1>3, <1>4 DEF IInv

\* The wallet is looked up in the table.
LEMMA DeriveAddKeeps ==
    ASSUME IInv, DeriveAdd
    PROVE  IInv'
<1>1. TableTyped' /\ TableInv'
  BY TableStays DEF DeriveAdd, IInv
<1>2. TypeOK'
  <2>1. FlagsTyped'
    BY Zenon DEF DeriveAdd, IInv, TypeOK, FlagsTyped
  <2> QED
    BY <1>1, <2>1, EmptyIsTyped DEF DeriveAdd, IInv, TypeOK, TableTyped, FlagsTyped, Steps
<1>3. StepInv'
  BY DEF DeriveAdd, IInv, StepInv, HomeInv, ObtainInv, TypingInv, UnlockInv, AuthQrInv,
         ChooseInv, SetPinInv, MenuInv, ScanInv, CacheInv, Obtaining, Unlocking, Scanning, Typing,
         Adding, Choosing, Claimed, Unsaved, MenuFor, Loaded, Temporary, Source, HasPin, SlotOf, Held,
         NoFlow
<1>4. LeftInv'
  BY DEF DeriveAdd, IInv, LeftInv, Loaded, Source
<1> QED
  BY <1>1, <1>2, <1>3, <1>4 DEF IInv

\* There is no room.
LEMMA TableFullKeeps ==
    ASSUME IInv, TableFull
    PROVE  IInv'
<1>1. TableTyped' /\ TableInv'
  BY TableStays DEF TableFull, Scanned, IInv
<1>2. TypeOK'
  <2>1. FlagsTyped'
    BY Zenon DEF TableFull, Scanned, IInv, TypeOK, FlagsTyped
  <2> QED
    BY <1>1, <2>1, EmptyIsTyped DEF TableFull, Scanned, IInv, TypeOK, TableTyped, FlagsTyped,
           Steps
<1>3. StepInv'
  BY DEF TableFull, Scanned, IInv, StepInv, HomeInv, ObtainInv, TypingInv, UnlockInv, AuthQrInv,
         ChooseInv, SetPinInv, MenuInv, ScanInv, CacheInv, Obtaining, Unlocking, Scanning, Typing,
         Adding, Choosing, Claimed, Unsaved, MenuFor, Loaded, Temporary, Source, HasPin, SlotOf, Held,
         NoFlow
<1>4. LeftInv'
  BY DEF TableFull, Scanned, IInv, LeftInv, Loaded, Source
<1> QED
  BY <1>1, <1>2, <1>3, <1>4 DEF IInv

\* The wallet scanned is held and takes over, unless the screen was left.
LEMMA SwitchToHeldKeeps ==
    ASSUME IInv, SwitchToHeld
    PROVE  IInv'
<1>a. /\ pc \in {"held", "switch"} /\ Claimed /\ UNCHANGED <<device, flow, list>>
      /\ SlotOf(flow.wallet) # {} /\ flow.wallet \in Wallets /\ flow.name = "add" /\ flow.source \in Sources
      /\ ~flow.offer /\ (flow.before # 0 => active = flow.before /\ MenuFor(active))
  BY DEF SwitchToHeld, IInv, StepInv, ScanInv, Scanning, Adding
<1>b. \/ UNCHANGED table /\ pc' \in {Scanned, "switch"}
      \/ Activate(First(SlotOf(flow.wallet))) /\ pc' = Scanned
  BY DEF SwitchToHeld
<1>c. First(SlotOf(flow.wallet)) \in Held
  BY <1>a, FirstIsMember DEF SlotOf, Held
<1>d. ASSUME NEW i \in Held, Activate(i)
      PROVE  TableTyped' /\ TableInv' /\ (Claimed)'
  BY <1>a, <1>d, TableSwitched DEF IInv
<1>1. TableTyped' /\ TableInv'
  BY <1>a, <1>b, <1>c, <1>d, TableStays DEF IInv
<1>2. TypeOK'
  <2>1. FlagsTyped'
    BY Zenon DEF SwitchToHeld, Activate, Scanned, IInv, TypeOK, FlagsTyped
  <2> QED
    BY <1>1, <2>1, EmptyIsTyped DEF SwitchToHeld, Scanned, IInv, TypeOK, TableTyped, FlagsTyped,
           Steps
<1>3. StepInv'
  <2>1. (Claimed)' /\ slots' = slots /\ Loaded'
    BY <1>a, <1>b, <1>c, <1>d DEF Activate, Claimed, Loaded, Source
  <2>2. pc' = "switch" => UNCHANGED table
    BY <1>b DEF Scanned
  <2>3. pc' \in {"switch", "return", "scanned"} /\ (pc' = "scanned" => flow.before # 0)
    BY <1>b DEF Scanned
  <2>4. CASE pc' = "switch"
    <3>1. MenuFor(active) => MenuFor(active)'
      BY <1>a, <2>2, <2>4 DEF MenuFor
    <3>2. SlotOf(flow.wallet)' # {}
      BY <1>a, <2>2, <2>4 DEF SlotOf, Held
    <3> QED
      BY <1>a, <2>1, <2>2, <2>4, <3>1, <3>2 DEF StepInv, HomeInv, ObtainInv, TypingInv,
             UnlockInv, AuthQrInv, ChooseInv, SetPinInv, MenuInv, ScanInv, CacheInv, Obtaining,
             Unlocking, Scanning, Typing, Adding, Choosing
  <2>5. CASE pc' = "return"
    BY <2>1, <2>5, IdleStep DEF Leftover, Claimed
  <2>6. CASE pc' = "scanned"
    <3>1. active' = flow'.before => MenuFor(active)'
      BY <1>a, <2>1, <2>3, <2>6 DEF MenuFor
    <3> QED
      BY <2>1, <2>6, <3>1 DEF StepInv, HomeInv, ObtainInv, TypingInv, UnlockInv, AuthQrInv,
             ChooseInv, SetPinInv, MenuInv, ScanInv, CacheInv, Obtaining, Unlocking, Scanning, Typing,
             Adding, Choosing
  <2> QED
    BY <2>3, <2>4, <2>5, <2>6
<1>4. LeftInv'
  BY DEF SwitchToHeld, Scanned, IInv, LeftInv, Loaded, Source
<1> QED
  BY <1>1, <1>2, <1>3, <1>4 DEF IInv

\* The wallet scanned takes a free slot.
LEMMA LoadAnswerKeeps ==
    ASSUME IInv, LoadAnswer
    PROVE  IInv'
<1> DEFINE i == First(SlotIds \ Held)
           r == Arrived(flow.wallet, flow.source, TRUE)
<1>a. /\ pc = "load" /\ Claimed /\ UNCHANGED <<blob, show, relogin, asked, flow, list>>
      /\ flow.wallet \in Wallets /\ flow.source \in Sources
      /\ SlotOf(flow.wallet) = {} /\ Held # SlotIds
      /\ flow.before # 0 => active = flow.before /\ MenuFor(active)
  BY DEF LoadAnswer, IInv, StepInv, ScanInv, Scanning, Adding
<1>b. i \in SlotIds \ Held
  BY <1>a, FirstIsMember DEF Held
<1>c. r \in SlotType /\ r.held /\ r.temp /\ r.source = flow.source /\ r.wallet = flow.wallet
  BY <1>a DEF Arrived, SlotType
<1>d. r.source # None
  BY <1>a, <1>c DEF Sources
<1>e. \/ UNCHANGED <<table, init>>
      \/ /\ Press /\ slots' = [slots EXCEPT ![i] = r] /\ active' = i /\ cache' = NoWallet
         /\ init' = IF flow.source = "internal" THEN "internal" ELSE init
  BY DEF LoadAnswer
<1> HIDE DEF i, r
<1>f. ASSUME slots' = [slots EXCEPT ![i] = r], active' = i, cache' = NoWallet
      PROVE  TableTyped' /\ TableInv' /\ (Claimed)' /\ active' # active
  BY <1>a, <1>b, <1>c, <1>d, <1>f, TableGrows DEF IInv
<1>g. pc' \in {"return", "scanned"} /\ (pc' = "scanned" => flow.before # 0)
  BY DEF LoadAnswer, Scanned
<1>1. TableTyped' /\ TableInv'
  BY <1>a, <1>e, <1>f, TableStays DEF IInv
<1>2. TypeOK'
  <2>1. FlagsTyped'
    BY Zenon DEF LoadAnswer, Scanned, IInv, TypeOK, FlagsTyped
  <2>2. init' \in Sources \cup {None}
    BY <1>e DEF IInv, TypeOK, Sources
  <2> QED
    BY <1>1, <1>a, <1>g, <2>1, <2>2 DEF LoadAnswer, IInv, TypeOK, TableTyped, FlagsTyped, Steps
<1>3. StepInv'
  <2>1. (Claimed)' /\ Loaded'
    BY <1>a, <1>e, <1>f DEF Claimed, Loaded, Source
  <2>2. CASE pc' = "return"
    BY <2>1, <2>2, IdleStep DEF Leftover, Claimed
  <2>3. CASE pc' = "scanned"
    <3>1. active' = flow'.before => MenuFor(active)'
      BY <1>a, <1>e, <1>f, <1>g, <2>3 DEF MenuFor
    <3> QED
      BY <2>1, <2>3, <3>1 DEF StepInv, HomeInv, ObtainInv, TypingInv, UnlockInv, AuthQrInv,
             ChooseInv, SetPinInv, MenuInv, ScanInv, CacheInv, Obtaining, Unlocking, Scanning, Typing,
             Adding, Choosing
  <2> QED
    BY <1>g, <2>2, <2>3
<1>4. LeftInv'
  BY DEF LoadAnswer, Scanned, IInv, LeftInv, Loaded, Source
<1> QED
  BY <1>1, <1>2, <1>3, <1>4 DEF IInv

\* The menu is kept only for the wallet it was laid out for.
LEMMA ScanReturnsKeeps ==
    ASSUME IInv, ScanReturns
    PROVE  IInv'
<1>1. TableTyped' /\ TableInv'
  BY TableStays DEF ScanReturns, IInv
<1>2. TypeOK'
  <2>1. FlagsTyped'
    BY Zenon DEF ScanReturns, IInv, TypeOK, FlagsTyped
  <2> QED
    BY <1>1, <2>1, EmptyIsTyped DEF ScanReturns, IInv, TypeOK, TableTyped, FlagsTyped, Steps
<1>3. StepInv'
  BY DEF ScanReturns, IInv, StepInv, HomeInv, ObtainInv, TypingInv, UnlockInv, AuthQrInv,
         ChooseInv, SetPinInv, MenuInv, ScanInv, CacheInv, Obtaining, Unlocking, Scanning, Typing,
         Adding, Choosing, Claimed, Unsaved, MenuFor, Loaded, Temporary, Source, HasPin, SlotOf, Held,
         NoFlow
<1>4. LeftInv'
  BY DEF ScanReturns, IInv, LeftInv, Loaded, Source
<1> QED
  BY <1>1, <1>2, <1>3, <1>4 DEF IInv

----------------------------------------------------------------------------
(* The theorems.                                                           *)

\* The program starts with nothing in memory and nothing on the card.
LEMMA InitHolds == Init => IInv
<1> SUFFICES ASSUME Init PROVE IInv
  OBVIOUS
<1>1. TypeOK
  <2>1. FlagsTyped
    BY Zenon DEF Init, FlagsTyped
  <2> QED
    BY <2>1, EmptyIsTyped DEF Init, TypeOK, FlagsTyped, Steps
<1>2. Held = {}
  BY DEF Init, Held, EmptyTable, FreeSlot
<1>3. TableInv
  BY <1>2 DEF Init, TableInv, SlotsSound, ActiveIsHeld, NoWalletTwice, PersistedIsStored,
         HeldAreWallets, UnclaimedIsAlone, CacheOfActive, Loaded
<1>4. StepInv
  BY DEF Init, StepInv, HomeInv, ObtainInv, TypingInv, UnlockInv, AuthQrInv, ChooseInv, SetPinInv,
         MenuInv, ScanInv, CacheInv, Obtaining, Unlocking, Scanning, Typing, Adding, Choosing, Loaded
<1>5. LeftInv
  BY DEF Init, LeftInv
<1> QED
  BY <1>1, <1>3, <1>4, <1>5 DEF IInv

\* Every step keeps the inductive invariant.
LEMMA NextKeeps == IInv /\ [Next]_vars => IInv'
<1> SUFFICES ASSUME IInv, [Next]_vars PROVE IInv'
  OBVIOUS
<1>1. CASE UNCHANGED vars
  <2>1. UNCHANGED <<table, device, keys, pc, flow, list>>
    BY <1>1 DEF vars
  <2>2. TableTyped' /\ TableInv'
    BY <2>1, TableStays DEF IInv
  <2>3. TypeOK'
    BY <2>1 DEF IInv, TypeOK
  <2>4. StepInv'
    BY <2>1 DEF IInv, StepInv, HomeInv, ObtainInv, TypingInv, UnlockInv, AuthQrInv, ChooseInv,
           SetPinInv, MenuInv, ScanInv, CacheInv, Obtaining, Unlocking, Scanning, Claimed, Unsaved,
           MenuFor, Loaded, Temporary, Source, HasPin, SlotOf, Held
  <2>5. LeftInv'
    BY <2>1 DEF IInv, LeftInv, Loaded, Source
  <2> QED
    BY <2>2, <2>3, <2>4, <2>5 DEF IInv
<1>2. CASE User
  BY <1>2, SetUpKeeps, ScanSeedQrKeeps, TempSignerKeeps, ConnectKeeps, ConnectBackKeeps,
     UnlockQrKeeps, WordsKeeps, SharesKeeps, PassphraseKeeps, KeyboardKeeps,
     AuthQrAcceptKeeps, AuthQrDeclineKeeps, ChooseKeeps, TempNoteKeeps, SetPinKeeps,
     UnlockFailsKeeps, UnlockOpensKeeps, UnderivedKeeps, OpenSessionKeeps, PickWalletKeeps,
     SessionLogoutKeeps, WalletBackKeeps, ForgetRowKeeps, ForgetAnswerKeeps, ScanQrKeeps,
     ScanOtherKeeps, ScanPsbtKeeps, ScanWordsKeeps, AddAgainKeeps, TableFullKeeps,
     LoadAnswerKeeps, Key3Keeps, StrayPressKeeps
     DEF User
<1>3. CASE Messages
  BY <1>3, LogoutKeeps, ConnectionLostKeeps, AuthTemporaryKeeps, AuthReadyKeeps, AuthLockedKeeps, AuthUnsavedKeeps,
     AuthNewKeeps
     DEF Messages
<1>4. CASE Program
  BY <1>4, HomeKeeps, DeriveLeftKeeps, DeriveSetKeeps, DeriveUnlockKeeps, DeriveAddKeeps,
     AuthQrTemporaryKeeps, AuthEndsKeeps, ScanReturnsKeeps, SwitchToHeldKeeps, GiveUpKeeps,
     ChooseBackKeeps, LeaveSessionKeeps
     DEF Program
<1> QED
  BY <1>1, <1>2, <1>3, <1>4, RestartKeeps DEF Next

\* The inductive invariant holds in every state.
LEMMA Inductive == Spec => []IInv
  BY InitHolds, NextKeeps, PTL DEF Spec

\* Type correctness, with the main task never at a failed assertion: a home
\* screen with a wallet finds its source, initialise_with_mnemonic finds no
\* wallet, keychain_set_temporary finds its words.
THEOREM TypeCorrect == Spec => []TypeOK
<1>1. IInv => TypeOK
  BY DEF IInv
<1> QED
  BY <1>1, Inductive, PTL

\* keychain_data points at a wallet that is held, no wallet is held twice, and
\* at most one is the PIN's, the one on the card once it is claimed.
THEOREM SlotsAlwaysSound == Spec => []SlotsSound
<1>1. IInv => SlotsSound
  BY DEF IInv, TableInv
<1> QED
  BY <1>1, Inductive, PTL

\* A wallet's menu is the menu of the wallet in use, whatever was scanned,
\* switched to, added or forgotten from it.
THEOREM MenuAlwaysTrue == Spec => []MenuIsTrue
<1>1. IInv => MenuIsTrue
  BY DEF IInv, StepInv, MenuInv, MenuFor, MenuIsTrue, Held
<1> QED
  BY <1>1, Inductive, PTL

\* Cached words are those of the wallet in use or of the one on the card, and are
\* there whenever a PIN is being set; with no wallet in use they are there while
\* the card's is being unlocked, or since its derivation failed.
THEOREM CacheAlwaysOwn == Spec => []CacheIsWallets
<1>1. IInv => CacheIsWallets
  BY DEF IInv, TableInv, CacheOfActive, StepInv, SetPinInv, CacheInv, Typing, CacheIsWallets
<1> QED
  BY <1>1, Inductive, PTL

----------------------------------------------------------------------------
(* A screen left with KEY3.                                                *)

\* What one step may do while the screen stays left.
LeaveStep ==
    left = "left" /\ left' = "left" /\ <<slots, active>>' # <<slots, active>>
        => active' = 0 /\ (Source = None \/ ~Loaded)

\* A press takes the leaving back; what a step does without one, and with the
\* escape up, is to leave the table alone or to drop what nobody claimed.
LEMMA LeaveKeeps == IInv /\ [Next]_vars => LeaveStep
<1> SUFFICES ASSUME IInv, [Next]_vars, left = "left", left' = "left",
                    <<slots, active>>' # <<slots, active>>
             PROVE  active' = 0 /\ (Source = None \/ ~Loaded)
  BY DEF LeaveStep
<1>1. esc /\ pc \notin {"home", "authqr"} /\ (pc = "authed" => Source = None) /\ ~Press
  BY DEF IInv, LeftInv
<1>2. ~UNCHANGED table /\ ~UNCHANGED <<slots, active>>
  OBVIOUS
<1>3. CASE User
  <2>1. ~SetUp /\ ~ScanSeedQr /\ ~TempSigner /\ ~Connect /\ ~ConnectBack /\ ~UnlockQr
    BY <1>1 DEF SetUp, ScanSeedQr, TempSigner, AtHome, Connect, ConnectBack, UnlockQr
  <2>2. ~Words /\ ~Shares /\ ~Passphrase /\ ~Keyboard
    BY <1>1, <1>2 DEF Words, Shares, Passphrase, Keyboard
  <2>3. ~AuthQrAccept /\ ~AuthQrDecline /\ ~Choose /\ ~TempNote
    BY <1>1, <1>2 DEF AuthQrAccept, AuthQrDecline, Choose, TempNote
  <2>4. ~SetPin /\ ~UnlockFails /\ ~UnlockOpens /\ ~Underived
    BY <1>1, <1>2 DEF SetPin, UnlockFails, UnlockOpens, Underived
  <2>5. ~OpenSession /\ ~PickWallet /\ ~SessionLogout /\ ~WalletBack /\ ~ForgetRow /\ ~ForgetAnswer
    BY <1>1, <1>2 DEF OpenSession, PickWallet, SessionLogout, WalletBack, ForgetRow, ForgetAnswer
  <2>6. ~ScanQr /\ ~ScanOther /\ ~ScanPsbt /\ ~ScanWords /\ ~AddAgain /\ ~TableFull /\ ~LoadAnswer
    BY <1>1, <1>2 DEF ScanQr, ScanOther, ScanPsbt, ScanWords, AddAgain, TableFull, LoadAnswer
  <2>7. ~Key3 /\ ~StrayPress
    BY <1>1, <1>2 DEF Key3, StrayPress
  <2> QED
    BY <1>3, <2>1, <2>2, <2>3, <2>4, <2>5, <2>6, <2>7 DEF User
<1>4. CASE Messages
  BY <1>1, <1>4 DEF Messages, Logout, ConnectionLost, AuthTemporary, AuthReady, AuthLocked, AuthUnsaved, AuthNew, Auth
<1>5. CASE Program
  <2>1. ~Home /\ ~DeriveSet /\ ~DeriveUnlock /\ ~DeriveAdd /\ ~AuthQrTemporary
    BY <1>1, <1>2 DEF Home, DeriveSet, DeriveUnlock, DeriveAdd, AuthQrTemporary
  <2>2. ~ScanReturns /\ ~SwitchToHeld /\ ~GiveUp /\ ~LeaveSession
    BY <1>1, <1>2 DEF ScanReturns, SwitchToHeld, GiveUp, LeaveSession
  <2>3. ~AuthEnds
    BY <1>1, <1>2 DEF AuthEnds
  <2>4. CASE DeriveLeft
    <3>1. flow.name = "unlock" /\ Clear /\ pc = "derive"
      BY <1>2, <2>4 DEF DeriveLeft
    <3>2. ~Loaded
      BY <3>1 DEF IInv, StepInv, UnlockInv, Unlocking, Typing
    <3> QED
      BY <3>1, <3>2 DEF Clear
  <2>5. CASE ChooseBack
    BY <1>2, <2>5 DEF ChooseBack, ForgetUnsourced, Clear
  <2> QED
    BY <1>5, <2>1, <2>2, <2>3, <2>4, <2>5 DEF Program
<1>6. CASE Restart
  BY <1>1, <1>6 DEF Restart
<1>7. CASE UNCHANGED vars
  BY <1>2, <1>7 DEF vars
<1> QED
  BY <1>3, <1>4, <1>5, <1>6, <1>7 DEF Next

\* A screen left with KEY3 changes neither the wallets held nor the one in use,
\* unless a press takes it back; only a wallet nobody claimed is dropped.
THEOREM LeavingChangesNothing == Spec => LeaveChangesNothing
<1>1. IInv /\ [Next]_vars => [LeaveStep]_vars
  BY LeaveKeeps
<1>2. Spec => [][LeaveStep]_vars
  BY <1>1, Inductive, PTL DEF Spec
<1> QED
  BY <1>2 DEF LeaveChangesNothing, LeaveStep

=============================================================================
