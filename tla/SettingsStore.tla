--------------------------- MODULE SettingsStore ---------------------------
(***************************************************************************)
(* The two-slot settings store of the host (pijade/host/settings_store.c). *)
(*                                                                         *)
(* libjade's whole settings blob is written, one generation at a time, to  *)
(* <base>.a and <base>.b in turn.  Every frame carries a sequence number;  *)
(* a start reads the valid frame with the highest one.  The model cuts     *)
(* the C functions where a power cut, an abort of the process or an I/O    *)
(* error can fall between two system calls.                                *)
(*                                                                         *)
(* The payload is abstracted to a generation number: the n-th frame ever   *)
(* handed to write(2).  The card is abstracted to the set of contents that *)
(* a power cut may leave in each slot: fsync(2) shrinks it to one.         *)
(***************************************************************************)
EXTENDS Naturals

CONSTANTS
    MaxSeq,     \* the value of UINT32_MAX, at which a write is refused
    MaxGen      \* bound: the frames written in one behaviour

ASSUME BoundsAssumption == MaxSeq \in Nat \ {0} /\ MaxGen \in Nat \ {0}

VARIABLES
    file,         \* slot -> the content the running kernel shows
    card,         \* slot -> the contents a power cut may leave there
    newest_slot,  \* struct settings_store; NoSlot is -1
    newest_seq,
    next_slot,
    pc,           \* where the process is
    call,         \* the locals of the call under way
    held,         \* history: the generation last read or acknowledged
    solid,        \* history: nothing has put held in doubt (see Boot)
    erased,       \* history: the last call was an acknowledged erase
    gens          \* history: the frames written so far

fs    == <<file, card>>
store == <<newest_slot, newest_seq, next_slot>>
hist  == <<held, solid, erased, gens>>
vars  == <<fs, store, pc, call, hist>>

----------------------------------------------------------------------------
(* Slots and their contents.                                               *)

Slots    == {0, 1}
Other(s) == 1 - s
NoSlot   == 2

Seqs == 0 .. MaxSeq
Gens == 0 .. MaxGen

\* "junk" is a file without a readable header (empty, torn or zeroed),
\* "header" one whose header is intact and whose length or checksum is not.
Contents == [kind : {"absent", "junk", "header", "frame"}, seq : Seqs, gen : Gens]

Absent       == [kind |-> "absent", seq |-> 0, gen |-> 0]
Junk         == [kind |-> "junk", seq |-> 0, gen |-> 0]
Header(q)    == [kind |-> "header", seq |-> q, gen |-> 0]
Frame(q, g)  == [kind |-> "frame", seq |-> q, gen |-> g]
IsFrame(c)   == c.kind = "frame"

\* What read_slot finds valid: a frame that could be read.
Valid(c, readable) == readable /\ IsFrame(c)

\* Mutant of Winner: the sequence numbers are not compared.
WinnerUnordered(c0, c1, unread) ==
    IF Valid(c1, 1 \notin unread) THEN 1
    ELSE IF Valid(c0, 0 \notin unread) THEN 0 ELSE NoSlot

\* The slot settings_store_read chooses.
Winner(c0, c1, unread) ==
    IF Valid(c1, 1 \notin unread) /\ (Valid(c0, 0 \notin unread) => c1.seq > c0.seq)
    THEN 1
    ELSE IF Valid(c0, 0 \notin unread) THEN 0 ELSE NoSlot

\* The generation a start with readable slots finds, 0 for none.
Found(c0, c1) ==
    LET w == Winner(c0, c1, {})
    IN  IF w = 0 THEN c0.gen ELSE IF w = 1 THEN c1.gen ELSE 0

\* probe_slot_header: it reads the header only, and may fail to.
ProbeResults(c) ==
    {"unknown",
     CASE c.kind = "absent" -> "absent"
       [] c.kind = "junk" -> "invalid"
       [] OTHER -> "known"}

\* A flush that failed left the kernel and the card with different frames:
\* shown is what the kernel shows, kept what a power cut may leave.
InDoubt(shown, kept) == kept # {shown} /\ \E c \in kept : IsFrame(c)

NoCall == [slot |-> NoSlot, seq |-> 0, gen |-> 0, hdr |-> "absent"]
AtSlot(s) == [slot |-> s, seq |-> call.seq, gen |-> call.gen, hdr |-> call.hdr]
Calls  == [slot : Slots \cup {NoSlot}, seq : Seqs, gen : Gens,
           hdr : {"absent", "invalid", "known", "unknown"}]

----------------------------------------------------------------------------
Init ==
    /\ file = [s \in Slots |-> Absent]
    /\ card = [s \in Slots |-> {Absent}]
    /\ newest_slot = NoSlot
    /\ newest_seq = 0
    /\ next_slot = 0
    /\ pc = "down"
    /\ call = NoCall
    /\ held = 0
    /\ solid = TRUE
    /\ erased = FALSE
    /\ gens = 0

----------------------------------------------------------------------------
(* settings_store_open, then settings_store_read from load_settings: the   *)
(* host does both before it installs the write handler.  unread are the    *)
(* slots whose read fails.  The history: the program now holds what it     *)
(* read, and that is solid when every slot was readable and none was left  *)
(* in doubt by a flush that failed before the process was restarted.       *)
Boot(unread) ==
    LET w == Winner(file[0], file[1], unread)
    IN  /\ pc = "down"
        /\ newest_slot' = w
        /\ newest_seq' = IF w = NoSlot THEN 0 ELSE file[w].seq
        /\ next_slot' = IF w = NoSlot THEN 0 ELSE Other(w)
        /\ pc' = "idle"
        /\ held' = IF w = NoSlot THEN 0 ELSE file[w].gen
        /\ solid' = (unread = {} /\ \A s \in Slots : ~InDoubt(file[s], card[s]))
        /\ UNCHANGED <<fs, call, erased, gens>>

----------------------------------------------------------------------------
(* settings_store_write.                                                   *)

\* newest_seq once the other slot's header has been probed.
ProbedSeq(hdr) ==
    LET c == file[Other(next_slot)]
    IN  IF hdr = "known" /\ c.seq > newest_seq THEN c.seq ELSE newest_seq

\* The sequence number of the next frame.
NextSeq(hdr) == ProbedSeq(hdr) + 1

\* Mutant of Exhausted: the test comes before the probe.
ExhaustedUnprobed(hdr) == newest_seq = MaxSeq

\* There is no next sequence number.
Exhausted(hdr) == ProbedSeq(hdr) = MaxSeq

\* The sequence is exhausted: the call returns false.
WriteRefused(hdr) ==
    /\ pc = "idle"
    /\ hdr \in ProbeResults(file[Other(next_slot)])
    /\ Exhausted(hdr)
    /\ newest_seq' = ProbedSeq(hdr)
    /\ UNCHANGED <<fs, newest_slot, next_slot, pc, call, hist>>

\* Mutant of NextAfterFailure: a failure always moves to the other slot.
NextAfterAnyFailure(target) == Other(target)

\* The slot the next write uses after one that failed.
NextAfterFailure(target) ==
    IF newest_slot = NoSlot THEN Other(target) ELSE next_slot

\* No memory for the frame, or the slot cannot be opened: the number is
\* spent, and only the failed open moves on to the other slot.
WriteNotStarted(hdr, openFailed) ==
    /\ pc = "idle"
    /\ hdr \in ProbeResults(file[Other(next_slot)])
    /\ ~Exhausted(hdr)
    /\ newest_seq' = NextSeq(hdr)
    /\ next_slot' = IF openFailed THEN NextAfterFailure(next_slot) ELSE next_slot
    /\ UNCHANGED <<fs, newest_slot, pc, call, hist>>

\* The slot is opened with O_TRUNC and write_all begins.  Until the fsync the
\* card may keep the old content or hold any prefix of the new one.
WriteBegin(hdr) ==
    LET t == next_slot
        q == NextSeq(hdr)
        g == gens + 1
    IN  /\ pc = "idle"
        /\ gens < MaxGen
        /\ hdr \in ProbeResults(file[Other(t)])
        /\ ~Exhausted(hdr)
        /\ newest_seq' = q
        /\ file' = [file EXCEPT ![t] = Junk]
        /\ card' = [card EXCEPT ![t] = card[t] \cup {Junk, Header(q), Frame(q, g)}]
        /\ call' = [slot |-> t, seq |-> q, gen |-> g, hdr |-> hdr]
        /\ pc' = "writing"
        /\ gens' = g
        /\ erased' = FALSE
        /\ UNCHANGED <<newest_slot, next_slot, held, solid>>

\* What the kernel shows of a frame that was being written.
Shown == {Junk, Header(call.seq), Frame(call.seq, call.gen)}

\* write_all, fsync or close fails: the call returns false.  The kernel shows
\* what was written so far; a close that fails after the fsync leaves a
\* complete frame on the card as well.
WriteFails(shown, flushed) ==
    LET t == call.slot
    IN  /\ pc = "writing"
        /\ shown \in Shown
        /\ flushed => IsFrame(shown)
        /\ file' = [file EXCEPT ![t] = shown]
        /\ card' = IF flushed THEN [card EXCEPT ![t] = {shown}] ELSE card
        /\ next_slot' = NextAfterFailure(t)
        /\ pc' = "idle"
        /\ call' = NoCall
        /\ UNCHANGED <<newest_slot, newest_seq, hist>>

\* The call returns true: generation g is acknowledged.
Acknowledge(g, other) ==
    /\ pc' = "idle"
    /\ call' = NoCall
    /\ held' = g
    /\ solid' = ~InDoubt(file'[other], card'[other])

\* The fsync succeeds.  A slot whose header could not be read is erased next.
WriteFlushed ==
    LET t == call.slot
        f == Frame(call.seq, call.gen)
    IN  /\ pc = "writing"
        /\ file' = [file EXCEPT ![t] = f]
        /\ card' = [card EXCEPT ![t] = {f}]
        /\ newest_slot' = t
        /\ next_slot' = Other(t)
        /\ \/ /\ call.hdr # "unknown"
              /\ Acknowledge(call.gen, Other(t))
           \/ /\ call.hdr = "unknown"
              /\ pc' = "cleanup"
              /\ call' = AtSlot(Other(t))
              /\ UNCHANGED <<held, solid>>
        /\ UNCHANGED <<newest_seq, erased, gens>>

----------------------------------------------------------------------------
(* erase_slot, for the unreadable slot of a write ("cleanup", "cleaning")  *)
(* and for each slot of settings_store_erase ("erase", "erasing").  The    *)
(* first of each pair is before the overwrite, the second after it began.  *)

\* erase_slot is done with call.slot and returned ok.
SlotDone(ok) ==
    IF pc \in {"cleanup", "cleaning"}
    THEN IF ok THEN Acknowledge(call.gen, call.slot)
         ELSE pc' = "idle" /\ call' = NoCall /\ UNCHANGED <<held, solid>>
    ELSE /\ pc' = IF call.slot = 0 THEN "erase" ELSE "settle"
         /\ call' = AtSlot(IF call.slot = 0 THEN 1 ELSE 0)
         /\ UNCHANGED <<held, solid>>

\* lstat finds no file.
EraseNothing ==
    /\ pc \in {"cleanup", "erase"}
    /\ file[call.slot] = Absent
    /\ UNCHANGED <<fs, store, erased, gens>>
    /\ SlotDone(TRUE)

\* lstat, open, fstat or the first write fails: the slot stays as it is.
EraseRefused ==
    /\ pc \in {"cleanup", "erase"}
    /\ UNCHANGED <<fs, store, erased, gens>>
    /\ SlotDone(FALSE)

\* What an overwrite of these contents adds to what a power cut may leave.
Zeroing(kept) == {Junk} \cup {Header(c.seq) : c \in {d \in kept : IsFrame(d)}}

\* The file is overwritten with zeros, from the header on; the card may see
\* the pages in any order.
EraseOverwrite ==
    LET s == call.slot
    IN  /\ pc \in {"cleanup", "erase"}
        /\ file[s] # Absent
        /\ file' = [file EXCEPT ![s] = Junk]
        /\ card' = [card EXCEPT ![s] = card[s] \cup Zeroing(card[s])]
        /\ pc' = IF pc = "cleanup" THEN "cleaning" ELSE "erasing"
        /\ UNCHANGED <<store, call, hist>>

\* The overwrite, its fsync or the close fails.
EraseFails ==
    /\ pc \in {"cleaning", "erasing"}
    /\ UNCHANGED <<fs, store, erased, gens>>
    /\ SlotDone(FALSE)

\* Mutant of EraseZeroed: the file is removed before the zeros are flushed.
EraseUnflushed(unlinked, synced) ==
    LET s == call.slot
    IN  /\ pc \in {"cleaning", "erasing"}
        /\ unlinked
        /\ file' = [file EXCEPT ![s] = Absent]
        /\ card' = [card EXCEPT ![s] = card[s] \cup {Absent}]
        /\ SlotDone(TRUE)
        /\ UNCHANGED <<store, erased, gens>>

\* The zeros are on the card; the file is removed, or cannot be.  The removal
\* itself is only durable if the directory could be flushed.
EraseZeroed(unlinked, synced) ==
    LET s == call.slot
    IN  /\ pc \in {"cleaning", "erasing"}
        /\ synced => unlinked
        /\ file' = [file EXCEPT ![s] = IF unlinked THEN Absent ELSE Junk]
        /\ card' = [card EXCEPT ![s] = IF ~unlinked THEN {Junk}
                                       ELSE IF synced THEN {Absent} ELSE {Junk, Absent}]
        /\ SlotDone(unlinked)
        /\ UNCHANGED <<store, erased, gens>>

----------------------------------------------------------------------------
(* settings_store_erase.                                                   *)

EraseBegin ==
    /\ pc = "idle"
    /\ pc' = "erase"
    /\ call' = [slot |-> 0, seq |-> 0, gen |-> 0, hdr |-> "absent"]
    /\ held' = 0
    /\ solid' = FALSE
    /\ UNCHANGED <<fs, store, erased, gens>>

\* slot_present: an lstat that fails counts as a file that is there.
Present(s, failing) == file[s] # Absent \/ s \in failing

\* The call returns true when neither slot is left.
EraseReturn(failing) ==
    LET a == Present(0, failing)
        b == Present(1, failing)
    IN  /\ pc = "settle"
        /\ newest_slot' = NoSlot
        /\ next_slot' = IF a # b /\ b THEN 1 ELSE 0
        /\ pc' = "idle"
        /\ call' = NoCall
        /\ erased' = (~a /\ ~b)
        /\ UNCHANGED <<fs, newest_seq, held, solid, gens>>

----------------------------------------------------------------------------
(* The process ends (an abort, after which systemd starts it again) or the *)
(* power is cut: only then is the card's own content seen.                 *)

\* The memory of the process is gone; settings_store_open starts from this.
NoStore ==
    /\ newest_slot' = NoSlot
    /\ newest_seq' = 0
    /\ next_slot' = 0
    /\ call' = NoCall
    /\ pc' = "down"

ProcessEnds ==
    /\ pc # "down"
    /\ NoStore
    /\ IF pc = "writing"
       THEN \E shown \in Shown : file' = [file EXCEPT ![call.slot] = shown]
       ELSE file' = file
    /\ UNCHANGED <<card, hist>>

PowerCut ==
    /\ \E c0 \in card[0], c1 \in card[1] :
          /\ file' = [s \in Slots |-> IF s = 0 THEN c0 ELSE c1]
          /\ card' = [s \in Slots |-> IF s = 0 THEN {c0} ELSE {c1}]
    /\ NoStore
    /\ UNCHANGED hist

----------------------------------------------------------------------------
HeaderStates == {"absent", "invalid", "known", "unknown"}

Next ==
    \/ \E unread \in SUBSET Slots : Boot(unread)
    \/ \E hdr \in HeaderStates : WriteRefused(hdr)
    \/ \E hdr \in HeaderStates, openFailed \in BOOLEAN : WriteNotStarted(hdr, openFailed)
    \/ \E hdr \in HeaderStates : WriteBegin(hdr)
    \/ \E shown \in Contents, flushed \in BOOLEAN : WriteFails(shown, flushed)
    \/ WriteFlushed
    \/ EraseNothing
    \/ EraseRefused
    \/ EraseOverwrite
    \/ EraseFails
    \/ \E unlinked, synced \in BOOLEAN : EraseZeroed(unlinked, synced)
    \/ EraseBegin
    \/ \E failing \in SUBSET Slots : EraseReturn(failing)
    \/ ProcessEnds
    \/ PowerCut

Spec == Init /\ [][Next]_vars

----------------------------------------------------------------------------
(* The register the store implements: its value is what a start finds.     *)

MayFind == {Found(c0, c1) : c0 \in card[0], c1 \in card[1]}

Register == INSTANCE DurableRegister WITH Generations <- Gens, may <- MayFind

----------------------------------------------------------------------------
(* Properties.                                                             *)

\* The store implements the durable register: acknowledged writes survive,
\* failed and interrupted ones leave the old value or their own, and an
\* acknowledged erase leaves nothing (settings_store.h).
ImplementsRegister == Register!Spec

FsTyped    == file \in [Slots -> Contents] /\ card \in [Slots -> SUBSET Contents]
StoreTyped == newest_slot \in Slots \cup {NoSlot} /\ newest_seq \in Seqs /\ next_slot \in Slots
CallTyped  == call \in Calls /\ (pc \notin {"down", "idle"} => call.slot \in Slots)
HistTyped  == held \in Gens /\ solid \in BOOLEAN /\ erased \in BOOLEAN /\ gens \in Gens
Phases     == {"down", "idle", "writing", "cleanup", "cleaning", "erase", "erasing", "settle"}

\* Type correctness of the file system, the store, its callers and the history.
TypeOK == FsTyped /\ StoreTyped /\ pc \in Phases /\ CallTyped /\ HistTyped

\* Whatever the card keeps of each slot, a start with readable slots finds
\* the generation the program last read or had acknowledged, or a newer one
\* it was writing: settings_store_write keeps the previous valid generation
\* while the other slot is written, flushed, or cleaned up.
Durable ==
    solid => \A c0 \in card[0], c1 \in card[1] : Found(c0, c1) >= held

\* A restart with readable slots never goes back to an older generation than
\* the one the program held, however it ended (settings_store_read).
NoRollback ==
    [][pc = "down" /\ pc' = "idle" /\ solid /\ solid' => held' >= held]_vars

\* Once settings_store_erase has returned true, no power cut brings back a
\* frame or the header of one, until the next write: the zeros are flushed
\* before the file is removed.
ErasedStaysErased ==
    erased => \A s \in Slots : \A c \in card[s] : c.kind \in {"absent", "junk"}

\* What the store says it did is so on the card: what settings_store_write
\* acknowledged is found, what settings_store_erase acknowledged is not.
CardKeepsWord == Durable /\ ErasedStaysErased

============================================================================
