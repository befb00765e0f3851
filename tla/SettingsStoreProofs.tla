------------------------ MODULE SettingsStoreProofs ------------------------
(***************************************************************************)
(* Proofs about the settings store: type correctness, that an acknowledged *)
(* generation survives every power cut, that a clean restart never goes    *)
(* back, that an acknowledged erase leaves nothing, and that the store     *)
(* implements DurableRegister, for every UINT32 bound and number of writes.*)
(***************************************************************************)
EXTENDS SettingsStore, TLAPS

----------------------------------------------------------------------------
(* The inductive invariant.                                                *)

\* Generations are numbered in the order the frames are written.
GensBounded ==
    /\ held <= gens
    /\ call.gen <= gens
    /\ \A s \in Slots : \A c \in card[s] : c.gen <= gens

\* What the kernel shows is one of the contents a power cut may leave.
Visible == \A s \in Slots : file[s] \in card[s]

\* The next write never targets the newest slot.
Alternate == newest_slot \in Slots => next_slot = Other(newest_slot)

\* What a call under way has established: a write is at next_slot and has
\* outnumbered a frame it could probe; a cleanup follows a flushed frame.
Phase ==
    /\ pc = "writing" =>
          LET o == Other(next_slot)
          IN  /\ call.slot = next_slot
              /\ Shown \subseteq card[next_slot]
              /\ call.gen = gens
              /\ held < gens
              /\ call.hdr # "unknown" /\ IsFrame(file[o]) => file[o].seq < call.seq
    /\ pc \in {"cleanup", "cleaning"} =>
          /\ newest_slot \in Slots
          /\ call.slot = Other(newest_slot)
          /\ call.gen = gens
          /\ held < gens
          /\ file[newest_slot] = Frame(call.seq, call.gen)
          /\ card[newest_slot] = {file[newest_slot]}
    /\ pc \in {"erase", "erasing", "settle"} => ~solid /\ call.slot \in Slots

\* While a generation is held and solid, the newest slot holds it, or a later
\* one, on the card itself.
Anchored ==
    solid /\ held > 0 /\ pc # "down" =>
        /\ newest_slot \in Slots
        /\ IsFrame(file[newest_slot])
        /\ card[newest_slot] = {file[newest_slot]}
        /\ file[newest_slot].gen >= held

\* A slot whose file is gone holds no frame on the card either.
Gone == \A s \in Slots : file[s] = Absent => \A c \in card[s] : c.kind \in {"absent", "junk"}

IInv ==
    /\ TypeOK
    /\ GensBounded
    /\ Visible
    /\ Alternate
    /\ Phase
    /\ Anchored
    /\ Durable
    /\ Gone
    /\ ErasedStaysErased

----------------------------------------------------------------------------
(* Lemmas about contents and about what a start finds.                     *)

\* The contents the actions write are contents.
LEMMA ContentsTyped ==
    /\ Absent \in Contents /\ Junk \in Contents /\ NoCall \in Calls
    /\ \A q \in Seqs : Header(q) \in Contents
    /\ \A q \in Seqs, g \in Gens : Frame(q, g) \in Contents
BY BoundsAssumption DEF Absent, Junk, NoCall, Header, Frame, Contents, Calls, Seqs, Gens, Slots, NoSlot

\* The parts of the call under way are typed, and so is what it may show.
LEMMA CallParts ==
    ASSUME call \in Calls
    PROVE  /\ call.slot \in Slots \cup {NoSlot} /\ call.seq \in Seqs /\ call.gen \in Gens
           /\ \A s \in Slots : AtSlot(s) \in Calls
           /\ Header(call.seq) \in Contents /\ Frame(call.seq, call.gen) \in Contents
           /\ Shown \subseteq Contents
<1>1. call.slot \in Slots \cup {NoSlot} /\ call.seq \in Seqs /\ call.gen \in Gens
  BY DEF Calls
<1>2. \A s \in Slots : AtSlot(s) \in Calls
  BY DEF Calls, AtSlot
<1> QED
  BY <1>1, <1>2, ContentsTyped DEF Shown

\* Writing one slot keeps the file system typed.
LEMMA FsUpdate ==
    ASSUME FsTyped, NEW t, NEW c \in Contents, NEW kept \in SUBSET Contents
    PROVE  /\ [file EXCEPT ![t] = c] \in [Slots -> Contents]
           /\ [card EXCEPT ![t] = kept] \in [Slots -> SUBSET Contents]
BY DEF FsTyped

\* A numbered probe result stays within the sequence space, and the number
\* after it too unless the space is exhausted.
LEMMA SeqTyped ==
    ASSUME FsTyped, StoreTyped, NEW hdr \in HeaderStates
    PROVE  /\ ProbedSeq(hdr) \in Seqs
           /\ ~Exhausted(hdr) => NextSeq(hdr) \in Seqs
           /\ newest_seq <= ProbedSeq(hdr)
<1>1. file[Other(next_slot)].seq \in Seqs
  BY DEF FsTyped, StoreTyped, Contents, Slots, Other
<1> QED
  BY <1>1, BoundsAssumption DEF StoreTyped, ProbedSeq, NextSeq, Exhausted, Seqs

\* An acknowledgement keeps call and history typed.
LEMMA AckTyped ==
    ASSUME HistTyped, NEW g \in Gens, NEW o, Acknowledge(g, o), UNCHANGED <<erased, gens>>
    PROVE  pc' \in Phases /\ CallTyped' /\ HistTyped'
<1>1. solid' \in BOOLEAN
  BY DEF Acknowledge, InDoubt
<1> QED
  BY <1>1, ContentsTyped DEF Acknowledge, CallTyped, HistTyped, Phases

\* So does the end of erase_slot.
LEMMA SlotDoneTyped ==
    ASSUME TypeOK, NEW ok \in BOOLEAN, SlotDone(ok), UNCHANGED <<erased, gens>>
    PROVE  pc' \in Phases /\ CallTyped' /\ HistTyped'
<1>1. CASE pc \in {"cleanup", "cleaning"} /\ ok
  BY <1>1, AckTyped, CallParts DEF SlotDone, TypeOK, CallTyped
<1>2. CASE pc \in {"cleanup", "cleaning"} /\ ~ok
  BY <1>2, ContentsTyped DEF SlotDone, TypeOK, CallTyped, HistTyped, Phases
<1>3. CASE pc \notin {"cleanup", "cleaning"}
  BY <1>3, CallParts DEF SlotDone, TypeOK, CallTyped, HistTyped, AtSlot, Phases, Slots
<1> QED
  BY <1>1, <1>2, <1>3

\* Winner and Found pick a slot, and the generation of a frame or none.
LEMMA FoundTyped ==
    ASSUME NEW c0 \in Contents, NEW c1 \in Contents
    PROVE  /\ \A unread : Winner(c0, c1, unread) \in Slots \cup {NoSlot}
           /\ Found(c0, c1) \in Gens
BY BoundsAssumption DEF Winner, Found, Valid, Contents, Slots, NoSlot, Gens

\* What a start finds, seen from slot s: c is there and d in the other slot.
FoundAt(s, c, d) == IF s = 0 THEN Found(c, d) ELSE Found(d, c)

\* A frame that no other frame outranks, unless with a generation that is high
\* enough too, bounds what a start finds from below.
LEMMA FoundAbove ==
    ASSUME NEW s \in Slots, NEW c \in Contents, NEW d \in Contents, NEW h \in Gens,
           IsFrame(c), c.gen >= h,
           IsFrame(d) => d.gen >= h \/ d.seq < c.seq
    PROVE  FoundAt(s, c, d) >= h
<1>1. /\ c.gen \in Nat /\ d.gen \in Nat /\ c.seq \in Nat /\ d.seq \in Nat /\ h \in Nat
  BY BoundsAssumption DEF Contents, Seqs, Gens
<1> QED
  BY <1>1 DEF FoundAt, Found, Winner, Valid, IsFrame, Slots, NoSlot

\* A slot n that holds the frame c for certain bounds what a start finds.
LEMMA Pinned ==
    ASSUME NEW kept \in [Slots -> SUBSET Contents], NEW n \in Slots, NEW h \in Gens,
           NEW c \in Contents, kept[n] = {c}, IsFrame(c), c.gen >= h,
           \A d \in kept[Other(n)] : IsFrame(d) => d.gen >= h \/ d.seq < c.seq
    PROVE  \A c0 \in kept[0], c1 \in kept[1] : Found(c0, c1) >= h
<1>1. \A d \in kept[Other(n)] : d \in Contents
  BY DEF Slots, Other
<1>2. \A d \in kept[Other(n)] : FoundAt(n, c, d) >= h
  BY <1>1, FoundAbove
<1>3. CASE n = 0
  BY <1>2, <1>3 DEF FoundAt, Other
<1>4. CASE n = 1
  BY <1>2, <1>4 DEF FoundAt, Other
<1> QED
  BY <1>3, <1>4 DEF Slots

----------------------------------------------------------------------------
(* Type correctness.                                                       *)

\* Every step preserves the types of the store, of the file system and of
\* the history (settings_store.c as a whole).
LEMMA TypeStep == TypeOK /\ [Next]_vars => TypeOK'
<1> SUFFICES ASSUME TypeOK, [Next]_vars PROVE TypeOK'
  OBVIOUS
<1> USE BoundsAssumption DEF TypeOK
<1>1. ASSUME NEW unread \in SUBSET Slots, Boot(unread) PROVE TypeOK'
  <2> DEFINE w == Winner(file[0], file[1], unread)
  <2>1. file[0] \in Contents /\ file[1] \in Contents
    BY DEF FsTyped, Slots
  <2>2. w \in Slots \cup {NoSlot}
    BY <2>1, FoundTyped
  <2>3. w # NoSlot => file[w].seq \in Seqs /\ file[w].gen \in Gens /\ Other(w) \in Slots
    BY <2>2 DEF FsTyped, Contents, Slots, Other
  <2>4. solid' \in BOOLEAN
    BY <1>1 DEF Boot
  <2> HIDE DEF w
  <2>5. StoreTyped'
    BY <1>1, <2>2, <2>3 DEF Boot, StoreTyped, Slots, Seqs, w
  <2>6. HistTyped'
    BY <1>1, <2>2, <2>3, <2>4 DEF Boot, HistTyped, Gens, w
  <2> QED
    BY <1>1, <2>5, <2>6 DEF Boot, FsTyped, CallTyped, fs, Phases
<1>2. ASSUME NEW hdr \in HeaderStates, WriteRefused(hdr) PROVE TypeOK'
  BY <1>2, SeqTyped DEF WriteRefused, fs, hist, FsTyped, StoreTyped, CallTyped, HistTyped
<1>3. ASSUME NEW hdr \in HeaderStates, NEW openFailed \in BOOLEAN, WriteNotStarted(hdr, openFailed)
      PROVE TypeOK'
  <2>1. NextAfterFailure(next_slot) \in Slots
    BY DEF NextAfterFailure, StoreTyped, Slots, Other
  <2> QED
    BY <1>3, <2>1, SeqTyped DEF WriteNotStarted, fs, hist, FsTyped, StoreTyped, CallTyped, HistTyped
<1>4. ASSUME NEW hdr \in HeaderStates, WriteBegin(hdr) PROVE TypeOK'
  <2>1. NextSeq(hdr) \in Seqs /\ gens + 1 \in Gens
    BY <1>4, SeqTyped DEF WriteBegin, HistTyped, Gens
  <2>2. /\ Junk \in Contents
        /\ Header(NextSeq(hdr)) \in Contents
        /\ Frame(NextSeq(hdr), gens + 1) \in Contents
    BY <2>1, ContentsTyped
  <2>3. FsTyped'
    <3>1. card[next_slot] \subseteq Contents
      BY DEF FsTyped, StoreTyped
    <3> QED
      BY <1>4, <2>2, <3>1, FsUpdate DEF WriteBegin, FsTyped
  <2>4. CallTyped'
    BY <1>4, <2>1 DEF WriteBegin, CallTyped, Calls, StoreTyped, HeaderStates
  <2> QED
    BY <1>4, <2>1, <2>3, <2>4 DEF WriteBegin, StoreTyped, HistTyped, Phases
<1>5. ASSUME NEW shown \in Contents, NEW flushed \in BOOLEAN, WriteFails(shown, flushed)
      PROVE TypeOK'
  <2>1. FsTyped'
    BY <1>5, FsUpdate DEF WriteFails, FsTyped
  <2>2. StoreTyped'
    BY <1>5 DEF WriteFails, CallTyped, StoreTyped, NextAfterFailure, Slots, Other
  <2> QED
    BY <1>5, <2>1, <2>2, ContentsTyped DEF WriteFails, hist, CallTyped, HistTyped, Phases
<1>6. ASSUME WriteFlushed PROVE TypeOK'
  <2>1. call.slot \in Slots /\ Other(call.slot) \in Slots
    BY <1>6 DEF WriteFlushed, CallTyped, Slots, Other
  <2>2. /\ call.gen \in Gens
        /\ Frame(call.seq, call.gen) \in Contents
        /\ AtSlot(Other(call.slot)) \in Calls
    BY <2>1, CallParts DEF CallTyped
  <2>3. FsTyped'
    BY <1>6, <2>2, FsUpdate DEF WriteFlushed, FsTyped
  <2>4. StoreTyped'
    BY <1>6, <2>1 DEF WriteFlushed, StoreTyped
  <2>5. CASE call.hdr # "unknown"
    BY <1>6, <2>2, <2>3, <2>4, <2>5, AckTyped DEF WriteFlushed
  <2>6. CASE call.hdr = "unknown"
    <3>1. CallTyped'
      BY <1>6, <2>1, <2>2, <2>6 DEF WriteFlushed, CallTyped, AtSlot
    <3> QED
      BY <1>6, <2>3, <2>4, <2>6, <3>1 DEF WriteFlushed, HistTyped, Phases
  <2> QED
    BY <2>5, <2>6
<1>7. ASSUME EraseNothing PROVE TypeOK'
  BY <1>7, SlotDoneTyped DEF EraseNothing, fs, store, FsTyped, StoreTyped
<1>8. ASSUME EraseRefused PROVE TypeOK'
  BY <1>8, SlotDoneTyped DEF EraseRefused, fs, store, FsTyped, StoreTyped
<1>9. ASSUME EraseOverwrite PROVE TypeOK'
  <2>1. Zeroing(card[call.slot]) \subseteq Contents
    <3>1. \A c \in card[call.slot] : c.seq \in Seqs
      BY <1>9 DEF EraseOverwrite, CallTyped, FsTyped, Contents
    <3> QED
      BY <3>1, ContentsTyped DEF Zeroing
  <2>2. card[call.slot] \subseteq Contents
    BY <1>9 DEF EraseOverwrite, CallTyped, FsTyped
  <2>3. FsTyped'
    BY <1>9, <2>1, <2>2, FsUpdate, ContentsTyped DEF EraseOverwrite, FsTyped
  <2> QED
    BY <1>9, <2>3 DEF EraseOverwrite, store, hist, StoreTyped, CallTyped, HistTyped, Phases
<1>10. ASSUME EraseFails PROVE TypeOK'
  BY <1>10, SlotDoneTyped DEF EraseFails, fs, store, FsTyped, StoreTyped
<1>11. ASSUME NEW unlinked \in BOOLEAN, NEW synced \in BOOLEAN, EraseZeroed(unlinked, synced)
       PROVE TypeOK'
  <2>1. FsTyped'
    BY <1>11, FsUpdate, ContentsTyped DEF EraseZeroed, FsTyped
  <2> QED
    BY <1>11, <2>1, SlotDoneTyped DEF EraseZeroed, store, StoreTyped
<1>12. ASSUME EraseBegin PROVE TypeOK'
  <2>1. CallTyped'
    BY <1>12 DEF EraseBegin, CallTyped, Calls, Slots, Seqs, Gens
  <2>2. HistTyped'
    <3>1. solid' \in BOOLEAN /\ erased' \in BOOLEAN
      BY <1>12, Zenon DEF EraseBegin, HistTyped
    <3>2. held' \in Gens /\ gens' \in Gens
      BY <1>12 DEF EraseBegin, HistTyped, Gens
    <3> QED
      BY <3>1, <3>2, Zenon DEF HistTyped
  <2> QED
    BY <1>12, <2>1, <2>2 DEF EraseBegin, fs, store, FsTyped, StoreTyped, Phases
<1>13. ASSUME NEW failing \in SUBSET Slots, EraseReturn(failing) PROVE TypeOK'
  <2>1. erased' \in BOOLEAN
    BY <1>13 DEF EraseReturn
  <2> QED
    BY <1>13, <2>1, ContentsTyped DEF EraseReturn, fs, FsTyped, StoreTyped, CallTyped, HistTyped, Phases, Slots
<1>14. ASSUME ProcessEnds PROVE TypeOK'
  <2>1. FsTyped'
    BY <1>14, FsUpdate, CallParts DEF ProcessEnds, FsTyped, CallTyped
  <2> QED
    BY <1>14, <2>1, ContentsTyped DEF ProcessEnds, NoStore, hist, StoreTyped, CallTyped, HistTyped, Phases, Slots, Seqs
<1>15. ASSUME PowerCut PROVE TypeOK'
  <2>1. FsTyped'
    BY <1>15 DEF PowerCut, FsTyped, Slots
  <2> QED
    BY <1>15, <2>1, ContentsTyped DEF PowerCut, NoStore, hist, StoreTyped, CallTyped, HistTyped, Phases, Slots, Seqs
<1>16. ASSUME UNCHANGED vars PROVE TypeOK'
  BY <1>16 DEF vars, fs, store, hist, FsTyped, StoreTyped, CallTyped, HistTyped
<1> QED
  BY <1>1, <1>2, <1>3, <1>4, <1>5, <1>6, <1>7, <1>8, <1>9, <1>10, <1>11, <1>12, <1>13,
     <1>14, <1>15, <1>16 DEF Next

\* The initial state is typed.
LEMMA TypeInit == Init => TypeOK
<1> SUFFICES ASSUME Init PROVE TypeOK
  OBVIOUS
<1>1. FsTyped
  BY ContentsTyped DEF Init, FsTyped
<1>2. StoreTyped
  BY BoundsAssumption DEF Init, StoreTyped, Slots, NoSlot, Seqs
<1>3. HistTyped
  <2>1. solid \in BOOLEAN /\ erased \in BOOLEAN
    BY Zenon DEF Init
  <2>2. held \in Gens /\ gens \in Gens
    BY BoundsAssumption DEF Init, Gens
  <2> QED
    BY <2>1, <2>2, Zenon DEF HistTyped
<1> QED
  BY <1>1, <1>2, <1>3, ContentsTyped DEF Init, TypeOK, CallTyped, Phases

\* The store, the files and the history stay well-typed, whatever fails and
\* whenever the process or the power goes (settings_store.c).
THEOREM TypeCorrect == Spec => []TypeOK
BY TypeInit, TypeStep, PTL DEF Spec

----------------------------------------------------------------------------
(* The inductive invariant is preserved.                                   *)

\* A step that leaves no new content on the card breaks no promise about it.
LEMMA Shrink ==
    ASSUME IInv, \A s \in Slots : card'[s] \subseteq card[s],
           held' = held, solid' = solid, erased' = erased, gens' = gens,
           call'.gen <= gens'
    PROVE  GensBounded' /\ Durable' /\ ErasedStaysErased'
<1>1. GensBounded'
  BY DEF IInv, GensBounded
<1>2. Durable'
  BY DEF IInv, Durable, Slots
<1>3. ErasedStaysErased'
  BY DEF IInv, ErasedStaysErased
<1> QED
  BY <1>1, <1>2, <1>3

\* NoCall carries no generation.
LEMMA NoCallBounded == TypeOK => NoCall.gen <= gens
BY BoundsAssumption DEF TypeOK, HistTyped, NoCall, Gens

\* Boot keeps the invariant: what was read is anchored when it is solid.
LEMMA BootInv ==
    ASSUME IInv, TypeOK', NEW unread \in SUBSET Slots, Boot(unread)
    PROVE  IInv'
<1> USE BoundsAssumption
<1> DEFINE w == Winner(file[0], file[1], unread)
<1>1. file[0] \in Contents /\ file[1] \in Contents /\ w \in Slots \cup {NoSlot}
  BY FoundTyped DEF IInv, TypeOK, FsTyped, Slots
<1>2. w \in Slots => IsFrame(file[w])
  BY DEF Winner, Valid, Slots, NoSlot
<1>3. GensBounded'
  <2>1. w \in Slots => file[w].gen <= gens
    BY DEF IInv, Visible, GensBounded
  <2>2. gens \in Nat
    BY DEF IInv, TypeOK, HistTyped, Gens
  <2> HIDE DEF w
  <2>3. held' <= gens
    BY <1>1, <2>1, <2>2 DEF Boot, w
  <2> QED
    BY <2>3 DEF Boot, IInv, GensBounded, fs
<1>4. Visible' /\ Gone' /\ ErasedStaysErased'
  BY DEF IInv, Boot, fs, Visible, Gone, ErasedStaysErased
<1>5. Alternate'
  <2> HIDE DEF w
  <2> QED BY <1>1 DEF Boot, Alternate, w, NoSlot, Slots
<1>6. Phase'
  BY DEF Boot, Phase
<1>7. ASSUME solid' PROVE \A s \in Slots : \A d \in card[s] : IsFrame(d) => card[s] = {file[s]}
  BY <1>7 DEF Boot, InDoubt
<1>8. Anchored'
  <2> SUFFICES ASSUME solid', held' > 0 PROVE Anchored'
    BY DEF Anchored
  <2> HIDE DEF w
  <2>1. w \in Slots /\ newest_slot' = w /\ held' = file[w].gen
    BY <1>1 DEF Boot, w
  <2>2. card[w] = {file[w]}
    BY <1>2, <1>7, <2>1 DEF IInv, Visible
  <2>3. file[w].gen \in Nat
    BY <2>1 DEF IInv, TypeOK, FsTyped, Contents, Gens
  <2> QED
    BY <1>2, <2>1, <2>2, <2>3 DEF Anchored, Boot, fs
<1>9. Durable'
  <2> SUFFICES ASSUME solid', NEW c0 \in card[0], NEW c1 \in card[1]
               PROVE Found(c0, c1) >= held'
    BY DEF Durable, Boot, fs
  <2>1. c0 \in Contents /\ c1 \in Contents
    BY DEF IInv, TypeOK, FsTyped, Slots
  <2>2. unread = {}
    BY DEF Boot
  <2>3. held' = Found(file[0], file[1])
    BY <2>2, <1>1 DEF Boot, Found, Slots, NoSlot
  <2>4. file[0] \in card[0] /\ file[1] \in card[1]
    BY DEF IInv, Visible, Slots
  <2>5. c0 = file[0] \/ (~IsFrame(c0) /\ ~IsFrame(file[0]))
    BY <1>7, <2>4 DEF Slots
  <2>6. c1 = file[1] \/ (~IsFrame(c1) /\ ~IsFrame(file[1]))
    BY <1>7, <2>4 DEF Slots
  <2>7. Found(c0, c1) = Found(file[0], file[1])
    BY <2>5, <2>6 DEF Found, Winner, Valid, IsFrame, NoSlot
  <2>8. Found(c0, c1) \in Nat
    BY <2>1, FoundTyped DEF Gens
  <2> QED
    BY <2>3, <2>7, <2>8
<1> QED
  BY <1>3, <1>4, <1>5, <1>6, <1>8, <1>9 DEF IInv

\* A write that begins outnumbers what it could probe, and the anchor is in
\* the slot it does not touch.
LEMMA WriteBeginInv ==
    ASSUME IInv, TypeOK', NEW hdr \in HeaderStates, WriteBegin(hdr)
    PROVE  IInv'
<1> USE BoundsAssumption
<1> DEFINE t == next_slot
           o == Other(next_slot)
           q == NextSeq(hdr)
           g == gens + 1
<1>1. t \in Slots /\ o \in Slots /\ o # t /\ Other(o) = t
  BY DEF IInv, TypeOK, StoreTyped, Slots, Other
<1>2. gens \in Nat /\ held \in Nat /\ held <= gens /\ gens' = g
  BY DEF IInv, TypeOK, HistTyped, GensBounded, Gens, WriteBegin
<1>3. /\ q \in Seqs /\ g \in Gens
      /\ Junk \in Contents /\ Header(q) \in Contents /\ Frame(q, g) \in Contents
  BY SeqTyped, ContentsTyped DEF IInv, TypeOK, HistTyped, Gens, WriteBegin
<1>4. /\ file'[t] = Junk /\ file'[o] = file[o]
      /\ card'[t] = card[t] \cup {Junk, Header(q), Frame(q, g)} /\ card'[o] = card[o]
  BY <1>1 DEF WriteBegin, IInv, TypeOK, FsTyped
<1> HIDE DEF q, g
<1>5. /\ Header(q).gen = 0 /\ Junk.gen = 0 /\ Frame(q, g).gen = g
      /\ ~IsFrame(Junk) /\ ~IsFrame(Header(q)) /\ Junk # Absent
  BY DEF Header, Junk, Frame, IsFrame, Absent
<1>6. \A s \in Slots : s = t \/ s = o
  BY <1>1 DEF Slots, Other
<1>7. GensBounded'
  <2>1. held' <= gens' /\ call'.gen <= gens'
    BY <1>2 DEF WriteBegin, g
  <2>2. \A c \in card'[t] : c.gen <= gens'
    <3>1. \A c \in card[t] : c.gen <= gens /\ c.gen \in Nat
      BY <1>1 DEF IInv, GensBounded, TypeOK, FsTyped, Contents, Gens
    <3> QED BY <1>2, <1>4, <1>5, <3>1 DEF g
  <2>3. \A c \in card'[o] : c.gen <= gens'
    <3>1. \A c \in card[o] : c.gen <= gens /\ c.gen \in Nat
      BY <1>1 DEF IInv, GensBounded, TypeOK, FsTyped, Contents, Gens
    <3> QED BY <1>2, <1>4, <3>1 DEF g
  <2> QED
    BY <1>6, <2>1, <2>2, <2>3 DEF GensBounded
<1>8. Visible'
  BY <1>1, <1>4, <1>6 DEF IInv, Visible
<1>9. Alternate'
  BY DEF IInv, Alternate, WriteBegin
<1>10. Phase'
  <2>1. pc' = "writing" /\ call'.slot = t /\ call'.seq = q /\ call'.gen = g /\ call'.hdr = hdr
        /\ next_slot' = t
    BY DEF WriteBegin, q, g
  <2>2. Shown' \subseteq card'[t]
    BY <1>4, <2>1 DEF Shown
  <2>3. hdr # "unknown" /\ IsFrame(file[o]) => file[o].seq < q
    <3>1. file[o].seq \in Nat /\ newest_seq \in Nat
      BY <1>1 DEF IInv, TypeOK, FsTyped, StoreTyped, Contents, Seqs
    <3>2. hdr # "unknown" /\ IsFrame(file[o]) => hdr = "known"
      BY DEF WriteBegin, ProbeResults, IsFrame
    <3> QED
      BY <3>1, <3>2 DEF q, NextSeq, ProbedSeq
  <2> QED
    BY <1>2, <1>4, <2>1, <2>2, <2>3 DEF Phase, WriteBegin, g
<1>11. solid /\ held > 0 => /\ newest_slot = o /\ IsFrame(file[o])
                            /\ card[o] = {file[o]} /\ file[o].gen >= held
  BY <1>1 DEF IInv, Anchored, Alternate, WriteBegin, Slots, Other
<1>12. Anchored'
  BY <1>1, <1>4, <1>11 DEF Anchored, WriteBegin
<1>13. Durable'
  <2> SUFFICES ASSUME solid' PROVE \A c0 \in card'[0], c1 \in card'[1] : Found(c0, c1) >= held'
    BY DEF Durable
  <2>1. solid /\ held' = held
    BY DEF WriteBegin
  <2>2. \A c0 \in card'[0], c1 \in card'[1] : Found(c0, c1) \in Nat
    BY FoundTyped DEF TypeOK, FsTyped, Slots, Gens
  <2>3. CASE held = 0
    BY <2>1, <2>2, <2>3
  <2>4. CASE held > 0
    <3> SUFFICES ASSUME NEW c0 \in card'[0], NEW c1 \in card'[1] PROVE Found(c0, c1) >= held
      BY <2>1
    <3> DEFINE d == IF t = 0 THEN c0 ELSE c1
    <3>1. d \in card'[t] /\ (IF o = 0 THEN c0 ELSE c1) = file[o]
      BY <1>1, <1>4, <1>11, <2>1, <2>4 DEF Slots, Other
    <3>2. CASE d \in card[t]
      BY <3>1, <3>2, <1>1, <1>4, <2>1 DEF IInv, Durable, Slots, Other
    <3>3. CASE d \in {Junk, Header(q), Frame(q, g)}
      <4>1. IsFrame(d) => d.gen >= held
        BY <3>3, <1>2, <1>5 DEF g
      <4>2. FoundAt(o, file[o], d) >= held
        <5>1. file[o] \in Contents /\ d \in Contents /\ held \in Gens
          BY <1>1, <1>3, <3>3 DEF IInv, TypeOK, FsTyped, HistTyped
        <5> QED BY <1>1, <1>11, <2>1, <2>4, <4>1, <5>1, FoundAbove
      <4> QED
        BY <1>1, <3>1, <4>2 DEF FoundAt, Slots, Other
    <3> QED
      BY <1>4, <3>1, <3>2, <3>3
  <2> QED
    BY <1>2, <2>3, <2>4
<1>14. Gone'
  <2>1. file[o] = Absent => \A c \in card[o] : c.kind \in {"absent", "junk"}
    BY <1>1 DEF IInv, Gone
  <2> QED BY <1>1, <1>4, <1>5, <1>6, <2>1 DEF Gone
<1>15. ErasedStaysErased'
  BY DEF WriteBegin, ErasedStaysErased
<1> QED
  BY <1>7, <1>8, <1>9, <1>10, <1>12, <1>13, <1>14, <1>15 DEF IInv

\* A write that ends, in success or not, leaves on the card nothing that was
\* not possible before.
LEMMA WriteEndFacts ==
    ASSUME IInv, pc = "writing"
    PROVE  /\ next_slot \in Slots /\ Other(next_slot) \in Slots /\ Other(next_slot) # next_slot
           /\ Other(Other(next_slot)) = next_slot
           /\ call.slot = next_slot /\ Shown \subseteq card[next_slot]
           /\ Absent \notin Shown
           /\ newest_slot \in Slots => newest_slot = Other(next_slot)
<1>1. next_slot \in Slots /\ call.slot = next_slot /\ Shown \subseteq card[next_slot]
  BY DEF IInv, Phase, TypeOK, StoreTyped
<1>2. Absent \notin Shown
  BY DEF Absent, Shown, Junk, Header, Frame
<1> QED
  BY <1>1, <1>2 DEF IInv, Alternate, Slots, Other

\* A failed write leaves the anchor of what is held where it was, and the slot
\* it touched for the next try (settings_store_write, after its goto).
LEMMA WriteFailsInv ==
    ASSUME IInv, TypeOK', NEW shown \in Contents, NEW flushed \in BOOLEAN, WriteFails(shown, flushed)
    PROVE  IInv'
<1> DEFINE t == next_slot
           o == Other(next_slot)
<1>1. /\ t \in Slots /\ o \in Slots /\ o # t /\ Other(o) = t /\ call.slot = t
      /\ shown \in card[t] /\ shown # Absent
      /\ newest_slot \in Slots => newest_slot = o
  BY WriteEndFacts DEF WriteFails
<1>2. /\ file'[t] = shown /\ file'[o] = file[o] /\ card'[o] = card[o]
      /\ shown \in card'[t] /\ card'[t] \subseteq card[t]
  BY <1>1 DEF WriteFails, IInv, TypeOK, FsTyped
<1>3. \A s \in Slots : s = t \/ s = o
  BY <1>1 DEF Slots, Other
<1>4. GensBounded' /\ Durable' /\ ErasedStaysErased'
  <2>1. \A s \in Slots : card'[s] \subseteq card[s]
    BY <1>2, <1>3
  <2>2. call'.gen <= gens' /\ UNCHANGED hist
    BY NoCallBounded DEF WriteFails, hist, IInv
  <2> QED BY <2>1, <2>2, Shrink DEF hist
<1>5. Visible'
  BY <1>1, <1>2, <1>3 DEF IInv, Visible
<1>6. Alternate'
  BY <1>1 DEF WriteFails, Alternate, NextAfterFailure, NoSlot, Slots
<1>7. Phase' /\ Anchored'
  <2>1. Phase'
    BY DEF WriteFails, Phase
  <2>2. solid /\ held > 0 => /\ newest_slot = o /\ IsFrame(file[o])
                             /\ card[o] = {file[o]} /\ file[o].gen >= held
    BY <1>1 DEF IInv, Anchored, WriteFails
  <2> QED
    BY <1>1, <1>2, <2>1, <2>2 DEF Anchored, WriteFails, hist
<1>8. Gone'
  <2>1. file[o] = Absent => \A c \in card[o] : c.kind \in {"absent", "junk"}
    BY <1>1 DEF IInv, Gone
  <2> QED BY <1>1, <1>2, <1>3, <2>1 DEF Gone
<1> QED
  BY <1>4, <1>5, <1>6, <1>7, <1>8 DEF IInv

\* A flushed write anchors its own generation: acknowledged at once, or after
\* the cleanup of the slot whose header could not be read.
LEMMA WriteFlushedInv ==
    ASSUME IInv, TypeOK', WriteFlushed
    PROVE  IInv'
<1> USE BoundsAssumption
<1> DEFINE t == next_slot
           o == Other(next_slot)
           f == Frame(call.seq, call.gen)
<1>1. /\ t \in Slots /\ o \in Slots /\ o # t /\ Other(o) = t /\ call.slot = t
      /\ f \in card[t] /\ f # Absent
  BY WriteEndFacts DEF WriteFlushed, Shown
<1>2. /\ file'[t] = f /\ file'[o] = file[o] /\ card'[o] = card[o] /\ card'[t] = {f}
      /\ newest_slot' = t /\ next_slot' = o /\ erased' = erased /\ gens' = gens
  BY <1>1 DEF WriteFlushed, IInv, TypeOK, FsTyped
<1>3. \A s \in Slots : s = t \/ s = o
  BY <1>1 DEF Slots, Other
<1>4. /\ f \in Contents /\ IsFrame(f) /\ f.gen = call.gen /\ f.seq = call.seq
      /\ call.gen = gens /\ held < gens /\ gens \in Nat /\ call.gen \in Gens /\ gens \in Gens
  <2>1. f \in Contents /\ call.gen \in Gens /\ gens \in Gens
    BY CallParts DEF IInv, TypeOK, CallTyped, HistTyped
  <2> QED BY <2>1 DEF Frame, IsFrame, IInv, Phase, WriteFlushed, Gens
<1>5. Visible' /\ Alternate' /\ Gone'
  <2>1. file[o] = Absent => \A c \in card[o] : c.kind \in {"absent", "junk"}
    BY <1>1 DEF IInv, Gone
  <2>2. file[o] \in card[o]
    BY <1>1 DEF IInv, Visible
  <2>3. Visible' /\ Gone'
    BY <1>1, <1>2, <1>3, <2>1, <2>2 DEF Visible, Gone
  <2> QED BY <1>2, <2>3 DEF Alternate
<1>6. \A s \in Slots : card'[s] \subseteq card[s]
  BY <1>1, <1>2, <1>3
<1>7. ErasedStaysErased'
  BY <1>2, <1>6 DEF IInv, ErasedStaysErased
<1>8. CASE call.hdr # "unknown"
  <2>1. pc' = "idle" /\ call' = NoCall /\ held' = call.gen /\ solid' = ~InDoubt(file[o], card[o])
    BY <1>1, <1>2, <1>8 DEF WriteFlushed, Acknowledge
  <2>2. GensBounded'
    <3>1. \A s \in Slots : \A c \in card'[s] : c.gen <= gens'
      BY <1>2, <1>6 DEF IInv, GensBounded
    <3>2. held' <= gens' /\ call'.gen <= gens'
      BY <1>2, <1>4, <2>1, NoCallBounded DEF IInv
    <3> QED BY <3>1, <3>2 DEF GensBounded
  <2>3. Phase'
    BY <2>1 DEF Phase
  <2>4. Anchored'
    BY <1>1, <1>2, <1>4, <2>1 DEF Anchored
  <2>5. Durable'
    <3> SUFFICES ASSUME solid' PROVE \A c0 \in card'[0], c1 \in card'[1] : Found(c0, c1) >= held'
      BY DEF Durable
    <3>1. ASSUME NEW d \in card'[o], IsFrame(d) PROVE d.seq < f.seq
      <4>1. d = file[o]
        BY <1>2, <2>1, <3>1 DEF InDoubt
      <4> QED BY <1>4, <1>8, <3>1, <4>1 DEF IInv, Phase, WriteFlushed
    <3>2. card' \in [Slots -> SUBSET Contents]
      BY DEF TypeOK, FsTyped
    <3> QED
      BY <1>1, <1>2, <1>4, <2>1, <3>1, <3>2, Pinned
  <2> QED
    BY <1>5, <1>7, <2>2, <2>3, <2>4, <2>5 DEF IInv
<1>9. CASE call.hdr = "unknown"
  <2>1. /\ pc' = "cleanup" /\ call'.slot = o /\ call'.gen = call.gen /\ call'.seq = call.seq
        /\ held' = held /\ solid' = solid
    BY <1>1, <1>9 DEF WriteFlushed, AtSlot
  <2>2. GensBounded' /\ Durable'
    BY <1>2, <1>4, <1>6, <2>1, Shrink
  <2>3. Phase'
    BY <1>1, <1>2, <1>4, <2>1 DEF Phase
  <2>4. held \in Nat
    BY DEF IInv, TypeOK, HistTyped, Gens
  <2>5. Anchored'
    BY <1>1, <1>2, <1>4, <2>1, <2>4 DEF Anchored
  <2> QED
    BY <1>5, <1>7, <2>2, <2>3, <2>5 DEF IInv
<1> QED
  BY <1>8, <1>9

----------------------------------------------------------------------------
(* erase_slot and settings_store_erase.                                    *)

\* In a cleanup the newest slot holds the generation about to be
\* acknowledged, for certain, and call.slot is the other one.
LEMMA CleanupFacts ==
    ASSUME IInv, pc \in {"cleanup", "cleaning"}
    PROVE  /\ newest_slot \in Slots /\ call.slot \in Slots /\ call.slot = Other(newest_slot)
           /\ newest_slot # call.slot
           /\ file[newest_slot] \in Contents /\ IsFrame(file[newest_slot])
           /\ card[newest_slot] = {file[newest_slot]}
           /\ file[newest_slot].gen = gens /\ call.gen = gens
           /\ held < gens /\ gens \in Gens /\ held \in Gens /\ gens \in Nat /\ held \in Nat
<1>1. /\ newest_slot \in Slots /\ call.slot = Other(newest_slot)
      /\ call.gen = gens /\ held < gens
      /\ file[newest_slot] = Frame(call.seq, call.gen)
      /\ card[newest_slot] = {file[newest_slot]}
  BY DEF IInv, Phase
<1>2. /\ file[newest_slot] \in Contents /\ gens \in Gens /\ held \in Gens /\ gens \in Nat /\ held \in Nat
  BY <1>1 DEF IInv, TypeOK, FsTyped, HistTyped, Gens
<1> QED
  BY <1>1, <1>2 DEF Frame, IsFrame, Slots, Other

\* The end of erase_slot keeps the invariant when the step kept, or emptied of
\* frames, the slot erased, and an acknowledged cleanup emptied it.
LEMMA SlotDoneInv ==
    ASSUME IInv, TypeOK', NEW ok \in BOOLEAN, SlotDone(ok),
           pc \in {"cleanup", "cleaning", "erase", "erasing"},
           UNCHANGED <<newest_slot, next_slot, erased, gens>>,
           Visible', Gone',
           \A s \in Slots : s # call.slot => card'[s] = card[s] /\ file'[s] = file[s],
           \/ card'[call.slot] = card[call.slot]
           \/ \A c \in card'[call.slot] : c \in {Junk, Absent},
           ok => \A c \in card'[call.slot] : ~IsFrame(c)
    PROVE  IInv'
<1> USE BoundsAssumption
<1>1. call.slot \in Slots /\ gens \in Nat /\ held \in Nat
  BY DEF IInv, TypeOK, CallTyped, HistTyped, Gens
<1>2. Junk.gen = 0 /\ Absent.gen = 0 /\ ~IsFrame(Junk) /\ ~IsFrame(Absent)
      /\ Junk.kind = "junk" /\ Absent.kind = "absent"
  BY DEF Junk, Absent, IsFrame
<1>3. \A s \in Slots : \A c \in card'[s] : c.gen <= gens'
  BY <1>1, <1>2 DEF IInv, GensBounded
<1>4. ErasedStaysErased'
  BY <1>2 DEF IInv, ErasedStaysErased
<1>5. Alternate'
  BY DEF IInv, Alternate
<1>6. card' \in [Slots -> SUBSET Contents]
  BY DEF TypeOK, FsTyped
<1>7. CASE pc \in {"cleanup", "cleaning"}
  <2> DEFINE n == newest_slot
  <2>1. /\ n \in Slots /\ call.slot = Other(n) /\ n # call.slot
        /\ file[n] \in Contents /\ IsFrame(file[n]) /\ card[n] = {file[n]}
        /\ file[n].gen = gens /\ call.gen = gens /\ held < gens /\ gens \in Gens /\ held \in Gens
    BY <1>7, CleanupFacts
  <2>2. card'[n] = {file[n]} /\ file'[n] = file[n]
    BY <2>1
  <2>3. pc' = "idle" /\ call' = NoCall
    BY <1>7 DEF SlotDone, Acknowledge
  <2>4. held' \in {held, gens} /\ (held' = held => (solid' = solid \/ ok))
        /\ (~ok => held' = held /\ solid' = solid)
    BY <1>7, <2>1 DEF SlotDone, Acknowledge
  <2>5. held' \in Gens /\ held' <= gens /\ held' \in Nat
    BY <1>1, <2>1, <2>4
  <2>6. GensBounded'
    BY <1>3, <2>3, <2>5, NoCallBounded DEF GensBounded, IInv
  <2>7. Phase' /\ Anchored'
    BY <1>1, <2>1, <2>2, <2>3, <2>5 DEF Phase, Anchored
  <2>8. Durable'
    <3>1. CASE \A c \in card'[call.slot] : ~IsFrame(c)
      <4>1. \A d \in card'[Other(n)] : IsFrame(d) => d.gen >= held' \/ d.seq < file[n].seq
        BY <2>1, <3>1
      <4>2. file[n].gen >= held'
        BY <1>1, <2>1, <2>5
      <4>3. \A c0 \in card'[0], c1 \in card'[1] : Found(c0, c1) >= held'
        BY <1>6, <2>1, <2>2, <2>5, <4>1, <4>2, Pinned
      <4> QED BY <4>3 DEF Durable
    <3>2. CASE card'[call.slot] = card[call.slot] /\ ~ok
      <4>1. \A s \in Slots : card'[s] = card[s]
        BY <3>2
      <4> QED BY <2>4, <3>2, <4>1 DEF IInv, Durable, Slots
    <3> QED
      BY <1>2, <3>1, <3>2
  <2> QED
    BY <1>4, <1>5, <2>6, <2>7, <2>8 DEF IInv
<1>8. CASE pc \in {"erase", "erasing"}
  <2>1. /\ pc' \in {"erase", "settle"} /\ call'.slot \in Slots /\ call'.gen = call.gen
        /\ held' = held /\ solid' = solid /\ ~solid
    BY <1>8 DEF SlotDone, AtSlot, Slots, IInv, Phase
  <2>2. GensBounded'
    BY <1>3, <2>1 DEF IInv, GensBounded
  <2> QED
    BY <1>4, <1>5, <2>1, <2>2 DEF IInv, Phase, Anchored, Durable
<1> QED
  BY <1>7, <1>8

\* The steps of erase_slot that leave the files alone.
LEMMA EraseKeptInv ==
    ASSUME IInv, TypeOK', EraseNothing \/ EraseRefused \/ EraseFails
    PROVE  IInv'
<1>1. /\ pc \in {"cleanup", "cleaning", "erase", "erasing"}
      /\ UNCHANGED <<file, card, newest_slot, next_slot, erased, gens>>
  BY DEF EraseNothing, EraseRefused, EraseFails, fs, store
<1>2. Visible' /\ Gone'
  BY <1>1 DEF IInv, Visible, Gone
<1>3. CASE EraseNothing
  <2>1. \A c \in card'[call.slot] : ~IsFrame(c)
    BY <1>1, <1>3 DEF EraseNothing, IInv, Gone, TypeOK, CallTyped, IsFrame
  <2> QED
    BY <1>1, <1>2, <1>3, <2>1, SlotDoneInv DEF EraseNothing
<1>4. CASE EraseRefused \/ EraseFails
  BY <1>1, <1>2, <1>4, SlotDoneInv DEF EraseRefused, EraseFails
<1> QED
  BY <1>3, <1>4

\* A slot that was zeroed and flushed holds no frame any more, whether or not
\* its removal succeeded (erase_slot).
LEMMA EraseZeroedInv ==
    ASSUME IInv, TypeOK', NEW unlinked \in BOOLEAN, NEW synced \in BOOLEAN,
           EraseZeroed(unlinked, synced)
    PROVE  IInv'
<1> DEFINE s == call.slot
<1>1. s \in Slots
  BY DEF EraseZeroed, IInv, TypeOK, CallTyped
<1>2. /\ file'[s] \in card'[s] /\ \A c \in card'[s] : c \in {Junk, Absent}
      /\ \A r \in Slots : r # s => card'[r] = card[r] /\ file'[r] = file[r]
  BY <1>1 DEF EraseZeroed, IInv, TypeOK, FsTyped
<1>3. Visible' /\ Gone'
  BY <1>2 DEF IInv, Visible, Gone, Junk, Absent
<1>4. \A c \in card'[s] : ~IsFrame(c)
  BY <1>2 DEF Junk, Absent, IsFrame
<1> QED
  BY <1>2, <1>3, <1>4, SlotDoneInv DEF EraseZeroed, store

\* An overwrite under way may leave the old frame or a bare header; neither can
\* outrank the anchor of a cleanup (erase_slot).
LEMMA EraseOverwriteInv ==
    ASSUME IInv, TypeOK', EraseOverwrite
    PROVE  IInv'
<1> USE BoundsAssumption
<1> DEFINE s == call.slot
<1>1. s \in Slots
  BY DEF EraseOverwrite, IInv, TypeOK, CallTyped
<1>2. /\ file'[s] = Junk /\ card'[s] = card[s] \cup Zeroing(card[s])
      /\ \A r \in Slots : r # s => card'[r] = card[r] /\ file'[r] = file[r]
  BY <1>1 DEF EraseOverwrite, IInv, TypeOK, FsTyped
<1>3. \A c \in Zeroing(card[s]) : ~IsFrame(c) /\ c.gen = 0
  BY DEF Zeroing, Junk, Header, IsFrame
<1>4. Junk \in Zeroing(card[s]) /\ Junk # Absent
  BY DEF Zeroing, Junk, Absent
<1>5. UNCHANGED <<newest_slot, next_slot, call, held, solid, erased, gens>>
  BY DEF EraseOverwrite, store, hist
<1>6. GensBounded'
  <2>1. 0 <= gens
    BY DEF IInv, TypeOK, HistTyped, Gens
  <2> QED BY <1>1, <1>2, <1>3, <1>5, <2>1 DEF IInv, GensBounded
<1>7. Visible' /\ Gone'
  BY <1>1, <1>2, <1>4 DEF IInv, Visible, Gone
<1>8. ErasedStaysErased'
  <2> SUFFICES ASSUME erased, NEW r \in Slots, NEW c \in card'[r] PROVE c.kind \in {"absent", "junk"}
    BY <1>5 DEF ErasedStaysErased
  <2>1. \A x \in Slots : \A d \in card[x] : d.kind \in {"absent", "junk"}
    BY DEF IInv, ErasedStaysErased
  <2>2. \A d \in Zeroing(card[s]) : d.kind \in {"absent", "junk"}
    BY <1>1, <2>1 DEF Zeroing, IsFrame, Junk
  <2> QED BY <1>2, <2>1, <2>2
<1>9. Alternate'
  BY <1>5 DEF IInv, Alternate
<1>10. CASE pc = "cleanup"
  <2> DEFINE n == newest_slot
  <2>1. /\ n \in Slots /\ s = Other(n) /\ n # s
        /\ file[n] \in Contents /\ IsFrame(file[n]) /\ card[n] = {file[n]}
        /\ file[n].gen = gens /\ held < gens /\ held \in Gens /\ gens \in Nat /\ held \in Nat
    BY <1>10, CleanupFacts
  <2>2. card'[n] = {file[n]} /\ file'[n] = file[n]
    BY <1>2, <2>1
  <2>3. Phase'
    BY <1>2, <1>5, <1>10, <2>1, <2>2 DEF EraseOverwrite, IInv, Phase
  <2>4. Anchored'
    BY <1>5, <2>1, <2>2 DEF Anchored
  <2>5. Durable'
    <3> SUFFICES ASSUME solid, NEW c0 \in card'[0], NEW c1 \in card'[1]
                 PROVE Found(c0, c1) >= held
      BY <1>5 DEF Durable
    <3> DEFINE d == IF s = 0 THEN c0 ELSE c1
    <3>1. d \in card'[s] /\ (IF n = 0 THEN c0 ELSE c1) = file[n]
      BY <1>1, <2>1, <2>2 DEF Slots, Other
    <3>2. CASE d \in card[s]
      <4>1. c0 \in card[0] /\ c1 \in card[1]
        BY <3>1, <3>2, <2>1, <2>2 DEF Slots, Other
      <4> QED BY <4>1 DEF IInv, Durable
    <3>3. CASE d \in Zeroing(card[s])
      <4>1. d \in Contents /\ ~IsFrame(d)
        BY <1>1, <1>3, <3>1, <3>3 DEF TypeOK, FsTyped
      <4>2. file[n].gen >= held
        BY <2>1
      <4>3. FoundAt(n, file[n], d) >= held
        BY <2>1, <4>1, <4>2, FoundAbove
      <4> QED
        BY <2>1, <3>1, <4>3 DEF FoundAt, Slots, Other
    <3> QED
      BY <1>2, <3>1, <3>2, <3>3
  <2> QED
    BY <1>6, <1>7, <1>8, <1>9, <2>3, <2>4, <2>5 DEF IInv
<1>11. CASE pc = "erase"
  <2>1. pc' = "erasing" /\ ~solid
    BY <1>11 DEF EraseOverwrite, IInv, Phase
  <2> QED
    BY <1>1, <1>5, <1>6, <1>7, <1>8, <1>9, <2>1 DEF IInv, Phase, Anchored, Durable
<1> QED
  BY <1>10, <1>11 DEF EraseOverwrite

\* settings_store_erase returns: when it acknowledges, both slots are gone.
LEMMA EraseReturnInv ==
    ASSUME IInv, TypeOK', NEW failing \in SUBSET Slots, EraseReturn(failing)
    PROVE  IInv'
<1>1. ~solid /\ ~solid'
  BY DEF EraseReturn, IInv, Phase
<1>2. ErasedStaysErased'
  <2>1. erased' => file[0] = Absent /\ file[1] = Absent
    BY DEF EraseReturn, Present
  <2> QED
    BY <2>1 DEF EraseReturn, fs, IInv, Gone, ErasedStaysErased, Slots
<1>3. GensBounded'
  BY NoCallBounded DEF EraseReturn, fs, IInv, GensBounded
<1>4. Visible' /\ Gone'
  BY DEF EraseReturn, fs, IInv, Visible, Gone
<1> QED
  BY <1>1, <1>2, <1>3, <1>4 DEF EraseReturn, IInv, Alternate, Phase, Anchored, Durable, NoSlot, Slots

----------------------------------------------------------------------------
(* The end of the process and of the power.                                *)

\* The end of the process changes nothing on the card.
LEMMA ProcessEndsInv ==
    ASSUME IInv, TypeOK', ProcessEnds
    PROVE  IInv'
<1>1. UNCHANGED <<card, hist>> /\ call' = NoCall /\ pc' = "down" /\ newest_slot' = NoSlot
  BY DEF ProcessEnds, NoStore
<1>2. GensBounded' /\ Durable' /\ ErasedStaysErased'
  <2>1. call'.gen <= gens'
    BY <1>1, NoCallBounded DEF hist, IInv
  <2> QED BY <1>1, <2>1, Shrink DEF hist
<1>3. Visible' /\ Gone'
  <2>1. CASE pc = "writing"
    <3>1. PICK shown \in Shown : file' = [file EXCEPT ![call.slot] = shown]
      BY <2>1 DEF ProcessEnds
    <3>2. shown \in card[call.slot] /\ shown # Absent /\ call.slot \in Slots
      BY <2>1, <3>1, WriteEndFacts
    <3> QED
      BY <1>1, <3>1, <3>2 DEF IInv, Visible, Gone, TypeOK, FsTyped
  <2>2. CASE pc # "writing"
    BY <1>1, <2>2 DEF ProcessEnds, IInv, Visible, Gone
  <2> QED BY <2>1, <2>2
<1> QED
  BY <1>1, <1>2, <1>3 DEF IInv, Alternate, Phase, Anchored, NoSlot, Slots

\* A power cut leaves one of the contents that were possible before.
LEMMA PowerCutInv ==
    ASSUME IInv, TypeOK', PowerCut
    PROVE  IInv'
<1>1. UNCHANGED hist /\ call' = NoCall /\ pc' = "down" /\ newest_slot' = NoSlot
  BY DEF PowerCut, NoStore
<1>2. \A s \in Slots : file'[s] \in card[s] /\ card'[s] = {file'[s]}
  BY DEF PowerCut, Slots
<1>3. GensBounded' /\ Durable' /\ ErasedStaysErased'
  <2>1. call'.gen <= gens'
    BY <1>1, NoCallBounded DEF hist, IInv
  <2> QED BY <1>1, <1>2, <2>1, Shrink DEF hist
<1>4. Visible' /\ Gone'
  BY <1>2 DEF Visible, Gone, Absent
<1> QED
  BY <1>1, <1>3, <1>4 DEF IInv, Alternate, Phase, Anchored, NoSlot, Slots

----------------------------------------------------------------------------
(* The theorems.                                                           *)

\* The invariant holds of two absent slots.
LEMMA InvInit == Init => IInv
<1> SUFFICES ASSUME Init PROVE IInv
  OBVIOUS
<1>1. TypeOK
  BY TypeInit
<1>2. \A s \in Slots : file[s] = Absent /\ card[s] = {Absent}
  BY DEF Init
<1>3. Absent.gen = 0 /\ Absent.kind = "absent" /\ ~IsFrame(Absent) /\ NoCall.gen = 0
  BY DEF Absent, IsFrame, NoCall
<1>4. GensBounded
  BY <1>2, <1>3 DEF Init, GensBounded
<1>5. Visible /\ Gone /\ ErasedStaysErased
  BY <1>2, <1>3 DEF Visible, Gone, ErasedStaysErased
<1>6. Alternate /\ Phase /\ Anchored
  BY DEF Init, Alternate, Phase, Anchored, NoSlot, Slots
<1>7. Durable
  <2>1. \A c0 \in card[0], c1 \in card[1] : Found(c0, c1) \in Nat
    BY <1>1, FoundTyped, BoundsAssumption DEF TypeOK, FsTyped, Slots, Gens
  <2> QED BY <2>1 DEF Durable, Init
<1> QED
  BY <1>1, <1>4, <1>5, <1>6, <1>7 DEF IInv

\* Every step preserves the inductive invariant.
LEMMA InvStep == IInv /\ [Next]_vars => IInv'
<1> SUFFICES ASSUME IInv, [Next]_vars PROVE IInv'
  OBVIOUS
<1>0. TypeOK'
  BY TypeStep DEF IInv
<1>1. ASSUME NEW unread \in SUBSET Slots, Boot(unread) PROVE IInv'
  BY <1>0, <1>1, BootInv
<1>2. ASSUME NEW hdr \in HeaderStates, WriteRefused(hdr) PROVE IInv'
  BY <1>0, <1>2 DEF WriteRefused, fs, hist, IInv, GensBounded, Visible, Alternate, Phase,
     Anchored, Durable, Gone, ErasedStaysErased
<1>3. ASSUME NEW hdr \in HeaderStates, NEW openFailed \in BOOLEAN, WriteNotStarted(hdr, openFailed)
      PROVE IInv'
  <2>1. Alternate'
    BY <1>3 DEF WriteNotStarted, IInv, Alternate, NextAfterFailure, NoSlot, Slots
  <2> QED
    BY <1>0, <1>3, <2>1 DEF WriteNotStarted, fs, hist, IInv, GensBounded, Visible, Phase,
       Anchored, Durable, Gone, ErasedStaysErased
<1>4. ASSUME NEW hdr \in HeaderStates, WriteBegin(hdr) PROVE IInv'
  BY <1>0, <1>4, WriteBeginInv
<1>5. ASSUME NEW shown \in Contents, NEW flushed \in BOOLEAN, WriteFails(shown, flushed)
      PROVE IInv'
  BY <1>0, <1>5, WriteFailsInv
<1>6. ASSUME WriteFlushed PROVE IInv'
  BY <1>0, <1>6, WriteFlushedInv
<1>7. ASSUME EraseNothing \/ EraseRefused \/ EraseFails PROVE IInv'
  BY <1>0, <1>7, EraseKeptInv
<1>8. ASSUME EraseOverwrite PROVE IInv'
  BY <1>0, <1>8, EraseOverwriteInv
<1>9. ASSUME NEW unlinked \in BOOLEAN, NEW synced \in BOOLEAN, EraseZeroed(unlinked, synced)
      PROVE IInv'
  BY <1>0, <1>9, EraseZeroedInv
<1>10. ASSUME EraseBegin PROVE IInv'
  <2>1. 0 <= gens
    BY BoundsAssumption DEF IInv, TypeOK, HistTyped, Gens
  <2>2. GensBounded'
    BY <1>10, <2>1 DEF EraseBegin, fs, IInv, GensBounded
  <2> QED
    BY <1>0, <1>10, <2>2 DEF EraseBegin, fs, store, IInv, Visible, Alternate, Phase,
       Anchored, Durable, Gone, ErasedStaysErased, Slots
<1>11. ASSUME NEW failing \in SUBSET Slots, EraseReturn(failing) PROVE IInv'
  BY <1>0, <1>11, EraseReturnInv
<1>12. ASSUME ProcessEnds PROVE IInv'
  BY <1>0, <1>12, ProcessEndsInv
<1>13. ASSUME PowerCut PROVE IInv'
  BY <1>0, <1>13, PowerCutInv
<1>14. ASSUME UNCHANGED vars PROVE IInv'
  BY <1>0, <1>14 DEF vars, fs, store, hist, IInv, GensBounded, Visible, Alternate, Phase, Shown,
     Anchored, Durable, Gone, ErasedStaysErased
<1> QED
  BY <1>1, <1>2, <1>3, <1>4, <1>5, <1>6, <1>7, <1>8, <1>9, <1>10, <1>11, <1>12, <1>13, <1>14
     DEF Next

\* An acknowledged generation survives every failure and power cut that follows
\* (settings_store_write, settings_store_read).
THEOREM DurableStore == Spec => []Durable
<1>1. IInv => Durable
  BY DEF IInv
<1> QED
  BY <1>1, InvInit, InvStep, PTL DEF Spec

\* After an acknowledged erase the card holds neither frame nor header
\* (settings_store_erase, erase_slot).
THEOREM EraseIsFinal == Spec => []ErasedStaysErased
<1>1. IInv => ErasedStaysErased
  BY DEF IInv
<1> QED
  BY <1>1, InvInit, InvStep, PTL DEF Spec

\* The card keeps the store's word, for any number of writes and restarts
\* (settings_store_write, settings_store_erase).
THEOREM CardAlwaysKeepsWord == Spec => []CardKeepsWord
<1>1. Durable /\ ErasedStaysErased => CardKeepsWord
  BY DEF CardKeepsWord
<1> QED
  BY <1>1, DurableStore, EraseIsFinal, PTL

\* A clean restart never reads an older generation than the one held
\* (settings_store_read after any end of the process).
THEOREM RestartNeverRollsBack == Spec => NoRollback
<1>1. IInv /\ [Next]_vars => [pc = "down" /\ pc' = "idle" /\ solid /\ solid' => held' >= held]_vars
  <2> SUFFICES ASSUME IInv, Next, pc = "down", pc' = "idle", solid, solid' PROVE held' >= held
    OBVIOUS
  <2>1. PICK unread \in SUBSET Slots : Boot(unread)
    BY DEF Next, WriteRefused, WriteNotStarted, WriteBegin, WriteFails, WriteFlushed, EraseNothing,
       EraseRefused, EraseOverwrite, EraseFails, EraseZeroed, EraseBegin, EraseReturn,
       ProcessEnds, PowerCut, NoStore
  <2>2. file[0] \in card[0] /\ file[1] \in card[1]
    BY DEF IInv, Visible, Slots
  <2>3. Found(file[0], file[1]) >= held
    BY <2>2 DEF IInv, Durable
  <2>4. unread = {}
    BY <2>1 DEF Boot
  <2>5. Winner(file[0], file[1], {}) \in Slots \cup {NoSlot}
    BY FoundTyped DEF IInv, TypeOK, FsTyped, Slots
  <2>6. held' = Found(file[0], file[1])
    BY <2>1, <2>4, <2>5 DEF Boot, Found, Slots, NoSlot
  <2> QED
    BY <2>3, <2>6
<1> QED
  BY <1>1, InvInit, InvStep, PTL DEF Spec, NoRollback

----------------------------------------------------------------------------
(* The store implements DurableRegister.                                   *)

\* A start finds some generation, whatever the card keeps.
LEMMA MayFindTyped ==
    ASSUME IInv
    PROVE  MayFind \in (SUBSET Gens) \ {{}}
<1>1. \A c0 \in card[0], c1 \in card[1] : Found(c0, c1) \in Gens
  BY FoundTyped DEF IInv, TypeOK, FsTyped, Slots
<1>2. file[0] \in card[0] /\ file[1] \in card[1]
  BY DEF IInv, Visible, Slots
<1>3. Found(file[0], file[1]) \in MayFind
  BY <1>2 DEF MayFind
<1>4. MayFind \subseteq Gens
  BY <1>1 DEF MayFind
<1> QED
  BY <1>3, <1>4

\* After an acknowledged erase a start finds nothing.
LEMMA ErasedFindsNothing ==
    ASSUME IInv, erased
    PROVE  MayFind = {0}
<1>1. \A c0 \in card[0], c1 \in card[1] : ~IsFrame(c0) /\ ~IsFrame(c1)
  BY DEF IInv, ErasedStaysErased, IsFrame, Slots
<1>2. \A c0 \in card[0], c1 \in card[1] : Found(c0, c1) = 0
  BY <1>1 DEF Found, Winner, Valid, NoSlot
<1>3. \A m \in MayFind : m = 0
  BY <1>2 DEF MayFind
<1> QED
  BY <1>3, MayFindTyped

\* A step that leaves what is held and its promise alone is an attempt, or the
\* failure or end of one, of the register.
LEMMA AttemptMaps ==
    ASSUME IInv, IInv', held' = held, solid' = solid, erased' = erased \/ erased' = FALSE
    PROVE  Register!Attempt
<1>1. (MayFind \in (SUBSET Gens) \ {{}})'
  BY MayFindTyped, PTL
<1>2. erased' => erased
  BY Zenon
<1>3. (erased => MayFind = {0})'
  BY ErasedFindsNothing, PTL
<1>4. erased' => MayFind' = MayFind
  BY <1>2, <1>3, ErasedFindsNothing
<1>5. solid => \A m \in MayFind' : m >= held
  BY DEF IInv, Durable, MayFind
<1>6. erased' \in {FALSE, erased}
  BY Zenon
<1> QED
  BY <1>1, <1>4, <1>5, <1>6 DEF Register!Attempt

\* A frame in slot n that no frame of the other slot outranks is what a start
\* finds, and nothing else.
LEMMA FindsOne ==
    ASSUME NEW kept \in [Slots -> SUBSET Contents], NEW n \in Slots, NEW c \in Contents,
           kept[n] = {c}, IsFrame(c),
           \A d \in kept[Other(n)] : IsFrame(d) => d.seq < c.seq
    PROVE  \A c0 \in kept[0], c1 \in kept[1] : Found(c0, c1) = c.gen
<1>1. \A d \in kept[Other(n)] : d \in Contents
  BY DEF Slots, Other
<1>2. \A d \in kept[Other(n)] : FoundAt(n, c, d) = c.gen
  <2> SUFFICES ASSUME NEW d \in kept[Other(n)] PROVE FoundAt(n, c, d) = c.gen
    OBVIOUS
  <2>1. d.seq \in Nat /\ c.seq \in Nat
    BY <1>1, BoundsAssumption DEF Contents, Seqs
  <2> QED
    BY <2>1 DEF FoundAt, Found, Winner, Valid, IsFrame, Slots, NoSlot
<1> QED
  BY <1>2 DEF FoundAt, Slots, Other

\* An acknowledged write is a commit of the register; when a failed flush has
\* left the other slot in doubt, the promise lapses instead.
LEMMA AcknowledgeMaps ==
    ASSUME IInv, IInv', NEW n \in Slots,
           IsFrame(file'[n]), card'[n] = {file'[n]}, held' = file'[n].gen, erased' = erased,
           solid' \in BOOLEAN,
           solid' => \A d \in card'[Other(n)] : IsFrame(d) => d.seq < file'[n].seq
    PROVE  Register!Next
<1>1. held' \in Gens /\ file'[n] \in Contents /\ card' \in [Slots -> SUBSET Contents]
  BY DEF IInv, TypeOK, HistTyped, FsTyped
<1>2. CASE solid'
  <2>1. card'[Other(n)] # {}
    BY DEF IInv, Visible, Slots, Other
  <2>2. MayFind' = {held'}
    <3>1. \A c0 \in card'[0], c1 \in card'[1] : Found(c0, c1) = file'[n].gen
      BY <1>1, <1>2, FindsOne
    <3>2. card'[0] # {} /\ card'[1] # {}
      BY <2>1 DEF Slots, Other
    <3> QED
      BY <3>1, <3>2 DEF MayFind
  <2>3. Register!Commit(held')
    BY <1>2, <2>2, Zenon DEF Register!Commit
  <2> QED
    BY <1>1, <2>3 DEF Register!Next
<1>3. CASE ~solid'
  <2>1. solid' = FALSE
    BY <1>3, Zenon
  <2>2. (MayFind \in (SUBSET Gens) \ {{}})'
    BY MayFindTyped, PTL
  <2>3. (erased => MayFind = {0})'
    BY ErasedFindsNothing, PTL
  <2>4. erased => MayFind' = MayFind
    BY <2>3, ErasedFindsNothing
  <2>5. Register!Lapse
    BY <1>1, <2>1, <2>2, <2>4 DEF Register!Lapse
  <2> QED
    BY <2>5 DEF Register!Next
<1> QED
  BY <1>2, <1>3

\* A start that reads both slots, with none in doubt, reads the only value
\* there is; any other start does not renew the promise.
LEMMA BootMaps ==
    ASSUME IInv, IInv', NEW unread \in SUBSET Slots, Boot(unread)
    PROVE  Register!Next
<1>1. held' \in Gens /\ solid' \in BOOLEAN /\ UNCHANGED <<file, card, erased>>
  BY DEF IInv, TypeOK, HistTyped, Boot, fs
<1>2. MayFind' = MayFind /\ MayFind \in (SUBSET Gens) \ {{}}
  BY <1>1, MayFindTyped DEF MayFind
<1>3. CASE solid'
  <2>1. \A s \in Slots : \A d \in card[s] : IsFrame(d) => card[s] = {file[s]}
    BY <1>3 DEF Boot, InDoubt
  <2>2. unread = {}
    BY <1>3 DEF Boot
  <2>3. file[0] \in card[0] /\ file[1] \in card[1]
    BY DEF IInv, Visible, Slots
  <2>4. Winner(file[0], file[1], {}) \in Slots \cup {NoSlot}
    BY FoundTyped DEF IInv, TypeOK, FsTyped, Slots
  <2>5. held' = Found(file[0], file[1])
    BY <2>2, <2>4 DEF Boot, Found, Slots, NoSlot
  <2>6. ASSUME NEW c0 \in card[0], NEW c1 \in card[1] PROVE Found(c0, c1) = held'
    <3>1. c0 = file[0] \/ (~IsFrame(c0) /\ ~IsFrame(file[0]))
      BY <2>1, <2>3 DEF Slots
    <3>2. c1 = file[1] \/ (~IsFrame(c1) /\ ~IsFrame(file[1]))
      BY <2>1, <2>3 DEF Slots
    <3> QED
      BY <2>5, <3>1, <3>2 DEF Found, Winner, Valid, IsFrame, NoSlot
  <2>7. MayFind = {held'}
    BY <2>3, <2>6 DEF MayFind
  <2>8. Register!Reopen
    BY <1>1, <1>2, <1>3, <2>7, Zenon DEF Register!Reopen
  <2> QED
    BY <2>8 DEF Register!Next
<1>4. CASE ~solid'
  <2>1. solid' = FALSE
    BY <1>1, <1>4, Zenon
  <2>2. Register!Lapse
    BY <1>1, <1>2, <2>1 DEF Register!Lapse
  <2> QED
    BY <2>2 DEF Register!Next
<1> QED
  BY <1>3, <1>4

\* A flushed frame is acknowledged, or waits for the cleanup of the other slot.
LEMMA WriteFlushedMaps ==
    ASSUME IInv, IInv', WriteFlushed
    PROVE  Register!Next
<1> DEFINE t == next_slot
           o == Other(next_slot)
           f == Frame(call.seq, call.gen)
<1>1. t \in Slots /\ o \in Slots /\ o # t /\ call.slot = t
  BY WriteEndFacts DEF WriteFlushed
<1>2. /\ file'[t] = f /\ file'[o] = file[o] /\ card'[o] = card[o] /\ card'[t] = {f}
      /\ erased' = erased
  BY <1>1 DEF WriteFlushed, IInv, TypeOK, FsTyped
<1>3. IsFrame(f) /\ f.gen = call.gen /\ f.seq = call.seq
  BY DEF Frame, IsFrame
<1>4. CASE call.hdr # "unknown"
  <2>1. held' = call.gen /\ solid' = ~InDoubt(file[o], card[o])
    BY <1>1, <1>2, <1>4 DEF WriteFlushed, Acknowledge
  <2>2. ASSUME solid', NEW d \in card'[o], IsFrame(d) PROVE d.seq < f.seq
    <3>1. d = file[o]
      BY <1>2, <2>1, <2>2 DEF InDoubt
    <3> QED
      BY <1>3, <1>4, <2>2, <3>1 DEF IInv, Phase, WriteFlushed
  <2>3. solid' \in BOOLEAN
    BY DEF IInv, TypeOK, HistTyped
  <2> QED
    BY <1>1, <1>2, <1>3, <2>1, <2>2, <2>3, AcknowledgeMaps
<1>5. CASE call.hdr = "unknown"
  BY <1>5, AttemptMaps DEF WriteFlushed, Register!Next
<1> QED
  BY <1>4, <1>5

\* The end of erase_slot: a cleanup acknowledges its write, or the attempt
\* goes on or fails.
LEMMA SlotDoneMaps ==
    ASSUME IInv, IInv', NEW ok \in BOOLEAN, SlotDone(ok), erased' = erased,
           \A s \in Slots : s # call.slot => card'[s] = card[s] /\ file'[s] = file[s],
           ok => \A c \in card'[call.slot] : ~IsFrame(c)
    PROVE  Register!Next
<1>1. CASE pc \in {"cleanup", "cleaning"} /\ ok
  <2> DEFINE n == newest_slot
  <2>1. /\ n \in Slots /\ call.slot = Other(n) /\ n # call.slot
        /\ IsFrame(file[n]) /\ card[n] = {file[n]} /\ file[n].gen = call.gen
    BY <1>1, CleanupFacts
  <2>2. card'[n] = {file'[n]} /\ file'[n] = file[n]
    BY <2>1
  <2>3. held' = file'[n].gen
    BY <1>1, <2>1, <2>2 DEF SlotDone, Acknowledge
  <2>4. solid' \in BOOLEAN
    BY DEF IInv, TypeOK, HistTyped
  <2> QED
    BY <1>1, <2>1, <2>2, <2>3, <2>4, AcknowledgeMaps
<1>2. CASE ~(pc \in {"cleanup", "cleaning"} /\ ok)
  <2>1. held' = held /\ solid' = solid
    BY <1>2 DEF SlotDone
  <2> QED
    BY <2>1, AttemptMaps DEF Register!Next
<1> QED
  BY <1>1, <1>2

\* A power cut leaves one of the generations a start could find.
LEMMA PowerCutMaps ==
    ASSUME IInv, IInv', PowerCut
    PROVE  Register!Next
<1>1. PICK c0 \in card[0], c1 \in card[1] :
          card' = [s \in Slots |-> IF s = 0 THEN {c0} ELSE {c1}]
  BY DEF PowerCut
<1>2. card'[0] = {c0} /\ card'[1] = {c1}
  BY <1>1 DEF Slots
<1>3. MayFind' = {Found(c0, c1)}
  BY <1>2 DEF MayFind
<1>4. Found(c0, c1) \in MayFind
  BY DEF MayFind
<1>5. Register!Crash
  BY <1>3, <1>4 DEF Register!Crash, PowerCut, hist
<1> QED
  BY <1>5 DEF Register!Next

\* Every step of the store is a step of the register, or leaves it alone.
LEMMA StepMaps ==
    ASSUME IInv, IInv', [Next]_vars
    PROVE  [Register!Next]_(Register!regVars)
<1>1. ASSUME NEW unread \in SUBSET Slots, Boot(unread) PROVE Register!Next
  BY <1>1, BootMaps
<1>2. ASSUME NEW hdr \in HeaderStates, WriteRefused(hdr) PROVE Register!Next
  BY <1>2, AttemptMaps DEF WriteRefused, hist, Register!Next
<1>3. ASSUME NEW hdr \in HeaderStates, NEW openFailed \in BOOLEAN, WriteNotStarted(hdr, openFailed)
      PROVE Register!Next
  BY <1>3, AttemptMaps DEF WriteNotStarted, hist, Register!Next
<1>4. ASSUME NEW hdr \in HeaderStates, WriteBegin(hdr) PROVE Register!Next
  <2>1. held' = held /\ solid' = solid /\ erased' = FALSE
    BY <1>4, Zenon DEF WriteBegin
  <2> QED
    BY <2>1, AttemptMaps DEF Register!Next
<1>5. ASSUME NEW shown \in Contents, NEW flushed \in BOOLEAN, WriteFails(shown, flushed)
      PROVE Register!Next
  BY <1>5, AttemptMaps DEF WriteFails, hist, Register!Next
<1>6. ASSUME WriteFlushed PROVE Register!Next
  BY <1>6, WriteFlushedMaps
<1>7. ASSUME EraseNothing PROVE Register!Next
  <2>1. \A c \in card'[call.slot] : ~IsFrame(c)
    BY <1>7 DEF EraseNothing, fs, IInv, Gone, TypeOK, CallTyped, IsFrame
  <2> QED
    BY <1>7, <2>1, SlotDoneMaps DEF EraseNothing, fs
<1>8. ASSUME EraseRefused \/ EraseFails PROVE Register!Next
  BY <1>8, SlotDoneMaps DEF EraseRefused, EraseFails, fs
<1>9. ASSUME EraseOverwrite PROVE Register!Next
  BY <1>9, AttemptMaps DEF EraseOverwrite, hist, Register!Next
<1>10. ASSUME NEW unlinked \in BOOLEAN, NEW synced \in BOOLEAN, EraseZeroed(unlinked, synced)
       PROVE Register!Next
  <2>1. call.slot \in Slots
    BY <1>10 DEF EraseZeroed, IInv, TypeOK, CallTyped
  <2>2. /\ \A c \in card'[call.slot] : c \in {Junk, Absent}
        /\ \A r \in Slots : r # call.slot => card'[r] = card[r] /\ file'[r] = file[r]
    BY <1>10, <2>1 DEF EraseZeroed, IInv, TypeOK, FsTyped
  <2>3. \A c \in card'[call.slot] : ~IsFrame(c)
    BY <2>2 DEF Junk, Absent, IsFrame
  <2> QED
    BY <1>10, <2>2, <2>3, SlotDoneMaps DEF EraseZeroed
<1>11. ASSUME EraseBegin PROVE Register!Next
  <2>1. MayFind' = MayFind /\ MayFind \in (SUBSET Gens) \ {{}}
    BY <1>11, MayFindTyped DEF EraseBegin, fs, MayFind
  <2>2. held' \in Gens
    BY DEF IInv, TypeOK, HistTyped
  <2>3. solid' = FALSE /\ erased' = erased
    BY <1>11, Zenon DEF EraseBegin
  <2>4. Register!Lapse
    BY <2>1, <2>2, <2>3, Zenon DEF Register!Lapse
  <2> QED
    BY <2>4 DEF Register!Next
<1>12. ASSUME NEW failing \in SUBSET Slots, EraseReturn(failing) PROVE Register!Next
  <2>1. erased' \in BOOLEAN /\ held' = held /\ solid' = solid
    BY <1>12 DEF EraseReturn
  <2>2. CASE erased'
    <3>1. (erased => MayFind = {0})'
      BY ErasedFindsNothing, PTL
    <3>2. Register!Erase
      BY <2>1, <2>2, <3>1, Zenon DEF Register!Erase
    <3> QED
      BY <3>2 DEF Register!Next
  <2>3. CASE ~erased'
    <3>1. erased' = FALSE
      BY <2>1, <2>3, Zenon
    <3> QED
      BY <2>1, <3>1, AttemptMaps DEF Register!Next
  <2> QED
    BY <2>2, <2>3
<1>13. ASSUME ProcessEnds PROVE Register!Next
  BY <1>13, AttemptMaps DEF ProcessEnds, hist, Register!Next
<1>14. ASSUME PowerCut PROVE Register!Next
  BY <1>14, PowerCutMaps
<1>15. ASSUME UNCHANGED vars PROVE UNCHANGED Register!regVars
  BY <1>15 DEF vars, fs, hist, MayFind, Register!regVars
<1> QED
  BY <1>1, <1>2, <1>3, <1>4, <1>5, <1>6, <1>7, <1>8, <1>9, <1>10, <1>11, <1>12, <1>13, <1>14,
     <1>15 DEF Next

\* The empty card is the register that holds nothing.
LEMMA InitMaps == Init => Register!Init
<1> SUFFICES ASSUME Init PROVE Register!Init
  OBVIOUS
<1>1. card[0] = {Absent} /\ card[1] = {Absent}
  BY DEF Init, Slots
<1>2. Found(Absent, Absent) = 0
  BY DEF Found, Winner, Valid, IsFrame, Absent, NoSlot
<1>3. MayFind = {0}
  BY <1>1, <1>2 DEF MayFind
<1> QED
  BY <1>3, Zenon DEF Init, Register!Init

\* The store implements the durable register libjade relies on: acknowledged
\* writes survive, failed and interrupted ones leave the old value or their
\* own, an acknowledged erase leaves nothing (settings_store.h).
THEOREM StoreImplementsRegister == Spec => ImplementsRegister
BY InitMaps, InvInit, InvStep, StepMaps, PTL DEF Spec, ImplementsRegister, Register!Spec

============================================================================
