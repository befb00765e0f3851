----------------------------- MODULE PinWallet -----------------------------
(***************************************************************************)
(* The PIN-protected wallet: the encrypted blob and its attempt counter in *)
(* storage.c, the cached flag and the keys in keychain.c, and the unlock,  *)
(* save, change-PIN and erase flows of process/auth_user.c.                *)
(*                                                                         *)
(* Each of these functions is a series of storage commits.  A commit that  *)
(* fails leaves its change in memory (libjade/nvs_flash.c) and perhaps on  *)
(* the card; the power may be cut, or the process abort, between any two.  *)
(* The card is what DurableRegister promises: the set of records a start   *)
(* may find.  The other of its two slots keeps an older generation, which  *)
(* a factory reset uncovers when it is cut short or fails between the two. *)
(* The blob is abstracted to the key it is encrypted with, and the PIN     *)
(* server to the key of the last PIN set: any other PIN gets a key that    *)
(* fits nothing.                                                           *)
(***************************************************************************)
EXTENDS Naturals

CONSTANT MaxKey     \* bound: the PINs set in one behaviour

ASSUME MaxKeyAssumption == MaxKey \in Nat \ {0}

VARIABLES
    mem,      \* the NVS maps in memory: blob and attempt counter
    card,     \* the records a start may find
    older,    \* the record that the other slot may hold
    flag,     \* has_encrypted_blob
    keys,     \* keychain_data: "none", "unsaved" (no PIN yet) or "open"
    cached,   \* mnemonic_entropy_len # 0 after a load
    change,   \* change_pin_requested
    server,   \* the key the PIN server holds (external)
    pc,       \* the step the process is at
    op,       \* the flow it belongs to: "unlock", "change" or "save"
    ret,      \* who called storage_erase_encrypted_blob
    erased,   \* what that call returned
    aes,      \* the key in hand
    newaes,   \* the key of the new PIN
    nkeys,    \* history: keys handed out by the server
    guesses,  \* history: wrong keys tried since the counter was set to three
              \* or a factory reset begun
    wiped,    \* history: an erase was acknowledged, and since then nothing
              \* stored and no factory reset begun
    torn,     \* history: a new PIN is at the server and not yet in the blob,
              \* or a factory reset did not finish
    botched   \* history: a factory reset failed in this process

local   == <<op, ret, erased, aes, newaes>>
lasting == <<guesses, wiped, torn>>
hist    == <<lasting, botched>>
vars    == <<mem, card, older, flag, keys, cached, change, server, pc, local, nkeys, hist>>

----------------------------------------------------------------------------
Keys      == 1 .. MaxKey
NoKey     == 0              \* no blob; also the key of a wrong PIN
NoCounter == 5              \* the field is not there
Records   == [blob : {NoKey} \cup Keys, counter : 0 .. NoCounter]
Nothing   == [blob |-> NoKey, counter |-> NoCounter]

\* storage_get_counter: a missing field reads as zero.
Attempts(r) == IF r.counter = NoCounter THEN 0 ELSE r.counter

WithBlob(k)    == [blob |-> k, counter |-> mem.counter]
WithCounter(n) == [blob |-> mem.blob, counter |-> n]

\* What a commit of r leaves on the card.  One that succeeds has overwritten
\* the slot of the older generation; what was newest is now the older one.
Written(r, ok) ==
    /\ card' = IF ok THEN {r} ELSE card \cup {r}
    /\ IF ok THEN older' \in card ELSE UNCHANGED older

\* nvs_commit after a change: the record is in memory whatever the outcome.
Commit(r, ok) == mem' = r /\ Written(r, ok)

Goto(step) == pc' = step

----------------------------------------------------------------------------
Init ==
    /\ mem = Nothing
    /\ card = {Nothing}
    /\ older = Nothing
    /\ flag = FALSE
    /\ keys = "none"
    /\ cached = FALSE
    /\ change = FALSE
    /\ server = NoKey
    /\ pc = "down"
    /\ op = "unlock"
    /\ ret = "rejected"
    /\ erased = FALSE
    /\ aes = NoKey
    /\ newaes = NoKey
    /\ nkeys = 0
    /\ guesses = 0
    /\ wiped = FALSE
    /\ torn = FALSE
    /\ botched = FALSE

----------------------------------------------------------------------------
(* Start and end.                                                          *)

\* The settings are loaded, storage_init commits the removal of a deprecated
\* key, and keychain_init_cache derives the flag from the counter.
Boot(ok) ==
    /\ pc = "down"
    /\ \E r \in card :
          /\ Commit(r, ok)
          /\ flag' = (Attempts(r) > 0)
    /\ Goto("idle")
    /\ UNCHANGED <<keys, cached, change, server, local, nkeys, hist>>

\* What the process loses when it ends.
Volatile ==
    /\ mem' = Nothing
    /\ flag' = FALSE
    /\ keys' = "none"
    /\ cached' = FALSE
    /\ change' = FALSE
    /\ op' = "unlock"
    /\ ret' = "rejected"
    /\ erased' = FALSE
    /\ aes' = NoKey
    /\ newaes' = NoKey
    /\ botched' = FALSE
    /\ Goto("down")

\* One of the records is the newest on the card; another may be the older.
PowerCut ==
    /\ \E r \in card :
          /\ card' = {r}
          /\ older' \in {older} \cup (card \ {r})
    /\ Volatile
    /\ UNCHANGED <<server, nkeys, lasting>>

\* jade_abort in any task, at any time, or an ordered restart.
ProcessEnds ==
    /\ pc # "down"
    /\ Volatile
    /\ UNCHANGED <<card, older, server, nkeys, lasting>>

----------------------------------------------------------------------------
(* The dashboard: a new wallet, a log out, any other setting, and the      *)
(* factory reset.                                                          *)

\* initialise_with_mnemonic: keychain_set drops what was cached.
NewWallet ==
    /\ pc = "idle"
    /\ ~flag
    /\ keys = "none"
    /\ keys' = "unsaved"
    /\ cached' = FALSE
    /\ UNCHANGED <<mem, card, older, flag, change, server, pc, local, nkeys, hist>>

\* keychain_clear, at log out or when an unsaved wallet is abandoned.
Logout ==
    /\ pc = "idle"
    /\ keys' = "none"
    /\ cached' = FALSE
    /\ UNCHANGED <<mem, card, older, flag, change, server, pc, local, nkeys, hist>>

\* handle_change_pin, offered while the wallet is locked: the user says whether
\* the next unlock is to change the PIN.
AskChange(yes) ==
    /\ pc = "idle"
    /\ flag
    /\ keys = "none"
    /\ change' = yes
    /\ UNCHANGED <<mem, card, older, flag, keys, cached, server, pc, local, nkeys, hist>>

\* handle_change_pin_qr, offered while it is open: the wallet is locked, and the
\* unlock that follows changes the PIN.
RequestChange ==
    /\ pc = "idle"
    /\ flag
    /\ keys = "open"
    /\ change' = TRUE
    /\ keys' = "none"
    /\ cached' = FALSE
    /\ UNCHANGED <<mem, card, older, flag, server, pc, local, nkeys, hist>>

\* Any other setting is stored: the commit carries the whole of memory.
OtherCommit(ok) ==
    /\ pc = "idle"
    /\ Commit(mem, ok)
    /\ UNCHANGED <<flag, keys, cached, change, server, pc, local, nkeys, hist>>

\* storage_erase: nvs_flash_erase clears the maps and asks the host to remove
\* the two slots, one after the other.  Until both are gone a start may find
\* either generation, or nothing.
ResetBegin ==
    /\ pc = "idle"
    /\ mem' = Nothing
    /\ card' = card \cup {older, Nothing}
    /\ guesses' = 0
    /\ wiped' = FALSE
    /\ torn' = TRUE
    /\ Goto("erasing")
    /\ UNCHANGED <<older, flag, keys, cached, change, server, local, nkeys, botched>>

\* Both slots are gone: the wallets in memory are cleared and the device starts
\* again.
ResetDone ==
    /\ pc = "erasing"
    /\ card' = {Nothing}
    /\ older' = Nothing
    /\ Volatile
    /\ wiped' = TRUE
    /\ torn' = FALSE
    /\ UNCHANGED <<server, nkeys, guesses>>

\* A slot is still there: the user is told, and the device goes on running with
\* empty maps.
ResetFails ==
    /\ pc = "erasing"
    /\ botched' = TRUE
    /\ Goto("idle")
    /\ UNCHANGED <<mem, card, older, flag, keys, cached, change, server, local, nkeys, lasting>>

----------------------------------------------------------------------------
(* auth_user_process with a PIN set: get_pin_load_keys.                    *)

\* A wallet in memory is cleared first, and with it what was cached.
UnlockBegin ==
    /\ pc = "idle"
    /\ flag
    /\ keys' = "none"
    /\ cached' = (cached /\ keys = "none")
    /\ op' = "unlock"
    /\ Goto("askpin")
    /\ UNCHANGED <<mem, card, older, flag, change, server, ret, erased, aes, newaes, nkeys, hist>>

\* get_pin_get_aeskey asserts that attempts remain; a failed assertion
\* aborts, and the wallets in memory are cleared.
AssertFails ==
    /\ pc = "askpin"
    /\ Attempts(mem) = 0
    /\ Volatile
    /\ UNCHANGED <<card, older, server, nkeys, lasting>>

\* The PIN is entered and the server answers.
GetPin(right) ==
    /\ pc = "askpin"
    /\ Attempts(mem) > 0
    /\ aes' = IF right THEN server ELSE NoKey
    /\ Goto("load")
    /\ UNCHANGED <<mem, card, older, flag, keys, cached, change, server, op, ret, erased, newaes, nkeys, hist>>

\* The user gives up, or the server cannot be reached.
GetPinFails ==
    /\ pc = "askpin"
    /\ Attempts(mem) > 0
    /\ Goto("idle")
    /\ UNCHANGED <<mem, card, older, flag, keys, cached, change, server, local, nkeys, hist>>

\* Mutant of LoadRefused: what is cached is taken for what the PIN opened.
LoadRefusedTaken ==
    /\ pc = "load"
    /\ cached \/ ~flag
    /\ Goto("opened")
    /\ UNCHANGED <<mem, card, older, flag, keys, cached, change, server, local, nkeys, hist>>

\* keychain_load refuses to load over what is cached or without a blob.
LoadRefused ==
    /\ pc = "load"
    /\ cached \/ ~flag
    /\ Goto("wrongpin")
    /\ UNCHANGED <<mem, card, older, flag, keys, cached, change, server, local, nkeys, hist>>

LoadStarts ==
    /\ pc = "load"
    /\ ~cached
    /\ flag
    /\ Goto("decrement")
    /\ UNCHANGED <<mem, card, older, flag, keys, cached, change, server, local, nkeys, hist>>

----------------------------------------------------------------------------
(* keychain_load_and_decrypt_blob, from keychain_load and, for a change of *)
(* PIN, from keychain_reencrypt.                                           *)

\* It returned false: the PIN is reported as wrong, or the change as failed.
LoadFailed == Goto(IF op = "unlock" THEN "wrongpin" ELSE "network")

\* storage_decrement_counter: no attempts, or the marker of a failed erase.
CounterRejected ==
    /\ pc = "decrement"
    /\ mem.counter \notin 1 .. 3
    /\ ret' = "rejected"
    /\ Goto("erase")
    /\ UNCHANGED <<mem, card, older, flag, keys, cached, change, server, op, erased, aes, newaes, nkeys, hist>>

\* Mutant of Decrement: a commit that fails does not stop the load.
DecrementUncommitted(ok) ==
    /\ pc = "decrement"
    /\ mem.counter \in 1 .. 3
    /\ Commit(WithCounter(mem.counter - 1), ok)
    /\ Goto("decrypt")
    /\ UNCHANGED <<flag, keys, cached, change, server, local, nkeys, hist>>

\* Mutant of Decrement: the counter is not committed at all.
DecrementInMemory(ok) ==
    /\ pc = "decrement"
    /\ mem.counter \in 1 .. 3
    /\ mem' = WithCounter(mem.counter - 1)
    /\ Goto("decrypt")
    /\ UNCHANGED <<card, older, flag, keys, cached, change, server, local, nkeys, hist>>

\* storage_decrement_counter: the attempt is paid for before it is made.
Decrement(ok) ==
    /\ pc = "decrement"
    /\ mem.counter \in 1 .. 3
    /\ Commit(WithCounter(mem.counter - 1), ok)
    /\ IF ok THEN Goto("decrypt") /\ UNCHANGED ret
             ELSE Goto("erase") /\ ret' = "rejected"
    /\ UNCHANGED <<flag, keys, cached, change, server, op, erased, aes, newaes, nkeys, hist>>

NoBlob ==
    /\ pc = "decrypt"
    /\ mem.blob = NoKey
    /\ ret' = "noblob"
    /\ Goto("erase")
    /\ UNCHANGED <<mem, card, older, flag, keys, cached, change, server, op, erased, aes, newaes, nkeys, hist>>

\* get_decrypted_payload fails; without attempts left the blob goes.
WrongKey ==
    /\ pc = "decrypt"
    /\ mem.blob # NoKey
    /\ aes # mem.blob
    /\ guesses' = guesses + 1
    /\ IF Attempts(mem) = 0 THEN Goto("erase") /\ ret' = "exhausted"
                            ELSE LoadFailed /\ UNCHANGED ret
    /\ UNCHANGED <<mem, card, older, flag, keys, cached, change, server, op, erased, aes, newaes,
                   nkeys, wiped, torn, botched>>

\* The blob opens; the counter is restored and a failure to is ignored.
RightKey(ok) ==
    /\ pc = "decrypt"
    /\ mem.blob # NoKey
    /\ aes = mem.blob
    /\ Commit(WithCounter(3), ok)
    /\ guesses' = 0
    /\ Goto(IF op = "unlock" THEN "opened" ELSE "recount")
    /\ UNCHANGED <<flag, keys, cached, change, server, local, nkeys, wiped, torn, botched>>

----------------------------------------------------------------------------
(* storage_erase_encrypted_blob: the blob first, then the counter.         *)

\* Mutant of EraseBlob: the commit is not looked at.
EraseBlobUnchecked(ok) ==
    /\ pc = "erase"
    /\ Commit(WithBlob(NoKey), ok)
    /\ Goto("uncount")
    /\ UNCHANGED <<flag, keys, cached, change, server, local, nkeys, hist>>

EraseBlob(ok) ==
    /\ pc = "erase"
    /\ Commit(WithBlob(NoKey), ok)
    /\ Goto(IF ok THEN "uncount" ELSE "mark")
    /\ UNCHANGED <<flag, keys, cached, change, server, local, nkeys, hist>>

\* The call returns done.  After a rejected counter the flag is derived again
\* as at a start; otherwise it follows what the erase did.
EraseReturns(done) ==
    /\ erased' = done
    /\ CASE ret = "rejected" -> LoadFailed /\ flag' = (Attempts(mem') > 0)
         [] ret = "noblob"   -> LoadFailed /\ flag' = ~done
         [] OTHER            -> Goto("unrestrict") /\ UNCHANGED flag

\* The blob is gone; a failure to remove the counter is ignored.
EraseCounter(ok) ==
    /\ pc = "uncount"
    /\ Commit(WithCounter(NoCounter), ok)
    /\ wiped' = TRUE
    /\ EraseReturns(TRUE)
    /\ UNCHANGED <<keys, cached, change, server, op, ret, aes, newaes, nkeys, guesses, torn, botched>>

\* The blob could not be removed: the counter becomes a marker that the next
\* attempt rejects.
Mark(ok) ==
    /\ pc = "mark"
    /\ Commit(WithCounter(4), ok)
    /\ EraseReturns(FALSE)
    /\ UNCHANGED <<keys, cached, change, server, op, ret, aes, newaes, nkeys, hist>>

\* keychain_erase_encrypted: the network restriction is cleared in storage,
\* and the flag follows the erase.
Unrestrict(ok) ==
    /\ pc = "unrestrict"
    /\ Commit(mem, ok)
    /\ flag' = ~erased
    /\ IF ret = "exhausted" THEN LoadFailed ELSE Goto("keyflags")
    /\ UNCHANGED <<keys, cached, change, server, local, nkeys, hist>>

\* check_wallet_erase_pin: the PIN is not the one that erases the wallet ...
OrdinaryPin ==
    /\ pc = "wrongpin"
    /\ Goto("idle")
    /\ UNCHANGED <<mem, card, older, flag, keys, cached, change, server, local, nkeys, hist>>

\* ... or it is: the blob is erased, the passphrase setting reset, and the
\* device shut down.
ErasePin ==
    /\ pc = "wrongpin"
    /\ ret' = "erasepin"
    /\ Goto("erase")
    /\ UNCHANGED <<mem, card, older, flag, keys, cached, change, server, op, erased, aes, newaes, nkeys, hist>>

ShutDown(ok) ==
    /\ pc = "keyflags"
    /\ Written(mem, ok)
    /\ Volatile
    /\ UNCHANGED <<server, nkeys, lasting>>

----------------------------------------------------------------------------
(* The rest of get_pin_load_keys: the passphrase, and the change of PIN.   *)

\* keychain_set binds the keys to the message source.  A change that was asked
\* for comes next.
KeysReady ==
    /\ keys' = "open"
    /\ cached' = FALSE
    /\ Goto(IF change THEN "askchange" ELSE "network")

\* The blob holds the keys themselves, or entropy that needs a passphrase.
Opened(entropy) ==
    /\ pc = "opened"
    /\ IF entropy THEN cached' = TRUE /\ Goto("derive") /\ UNCHANGED keys
                  ELSE KeysReady
    /\ UNCHANGED <<mem, card, older, flag, change, server, local, nkeys, hist>>

Derive ==
    /\ pc = "derive"
    /\ KeysReady
    /\ UNCHANGED <<mem, card, older, flag, change, server, local, nkeys, hist>>

\* The user leaves the passphrase screen: keychain_clear.
DeclinePassphrase ==
    /\ pc = "derive"
    /\ cached' = FALSE
    /\ Goto("idle")
    /\ UNCHANGED <<mem, card, older, flag, keys, change, server, local, nkeys, hist>>

\* keychain_complete_derivation_with_passphrase fails.
DeriveFails ==
    /\ pc = "derive"
    /\ Goto("idle")
    /\ UNCHANGED <<mem, card, older, flag, keys, cached, change, server, local, nkeys, hist>>

\* The user does not want the change after all; leaving the question keeps
\* the request.
DeclineChange(answered) ==
    /\ pc = "askchange"
    /\ change' = ~answered
    /\ Goto("network")
    /\ UNCHANGED <<mem, card, older, flag, keys, cached, server, local, nkeys, hist>>

AcceptChange ==
    /\ pc = "askchange"
    /\ op' = "change"
    /\ Goto("setpin")
    /\ UNCHANGED <<mem, card, older, flag, keys, cached, change, server, ret, erased, aes, newaes, nkeys, hist>>

----------------------------------------------------------------------------
(* set_pin_save_keys, and what it shares with the change of PIN.           *)

\* auth_user_process without a PIN set and with a wallet in memory: a new one,
\* or one whose blob was erased when its PIN could not be changed.
SaveBegin ==
    /\ pc = "idle"
    /\ ~flag
    /\ keys # "none"
    /\ op' = "save"
    /\ Goto("setpin")
    /\ UNCHANGED <<mem, card, older, flag, keys, cached, change, server, ret, erased, aes, newaes, nkeys, hist>>

\* A save that fails ends the process; a change that fails leaves the wallet
\* unlocked, and auth_user_process counts that as a success.
Abandoned == Goto(IF op = "change" THEN "network" ELSE "idle")

\* The user gives up, or the request does not reach the server.
SetPinFails ==
    /\ pc = "setpin"
    /\ Abandoned
    /\ UNCHANGED <<mem, card, older, flag, keys, cached, change, server, local, nkeys, hist>>

\* The server makes a new key; its answer may be lost.  A change goes on with
\* keychain_reencrypt, which first loads the blob with the old key.
SetPin(answered) ==
    /\ pc = "setpin"
    /\ nkeys < MaxKey
    /\ nkeys' = nkeys + 1
    /\ server' = nkeys'
    /\ torn' = TRUE
    /\ newaes' = IF answered THEN nkeys' ELSE newaes
    /\ IF answered THEN Goto(IF op = "save" THEN "recount" ELSE "decrement") ELSE Abandoned
    /\ UNCHANGED <<mem, card, older, flag, keys, cached, change, op, ret, erased, aes,
                   guesses, wiped, botched>>

\* storage_set_encrypted_blob: the counter first ...
Recount(ok) ==
    /\ pc = "recount"
    /\ Commit(WithCounter(3), ok)
    /\ guesses' = 0
    /\ IF ok THEN Goto("write") ELSE Abandoned
    /\ UNCHANGED <<flag, keys, cached, change, server, local, nkeys, wiped, torn, botched>>

\* Mutant of WriteBlob: the commit is not looked at.
WriteBlobUnchecked(ok) ==
    /\ pc = "write"
    /\ Commit(WithBlob(newaes), ok)
    /\ wiped' = FALSE
    /\ torn' = FALSE
    /\ change' = IF op = "change" THEN FALSE ELSE change
    /\ Goto(IF op = "save" THEN "restrict" ELSE "network")
    /\ UNCHANGED <<flag, keys, cached, server, local, nkeys, guesses, botched>>

\* ... then the blob.  The change of PIN is then done.
WriteBlob(ok) ==
    /\ pc = "write"
    /\ Commit(WithBlob(newaes), ok)
    /\ wiped' = FALSE
    /\ torn' = ~ok
    /\ change' = IF ok /\ op = "change" THEN FALSE ELSE change
    /\ IF ok /\ op = "save" THEN Goto("restrict") ELSE Abandoned
    /\ UNCHANGED <<flag, keys, cached, server, local, nkeys, guesses, botched>>

\* keychain_store: the network restriction is cleared, and the wallet is now
\* one with a PIN.
Saved(ok) ==
    /\ pc = "restrict"
    /\ Commit(mem, ok)
    /\ flag' = TRUE
    /\ keys' = "open"
    /\ cached' = FALSE
    /\ change' = FALSE
    /\ Goto("network")
    /\ UNCHANGED <<server, local, nkeys, hist>>

\* The end of auth_user_process after a success: the network restriction is
\* stored, unless it is there already.
SetNetwork(stored, ok) ==
    /\ pc = "network"
    /\ IF stored THEN Commit(mem, ok) ELSE UNCHANGED <<mem, card, older>>
    /\ Goto("idle")
    /\ UNCHANGED <<flag, keys, cached, change, server, local, nkeys, hist>>

----------------------------------------------------------------------------
Next ==
    \/ \E ok \in BOOLEAN :
          \/ Boot(ok) \/ OtherCommit(ok)
          \/ Decrement(ok) \/ RightKey(ok)
          \/ EraseBlob(ok) \/ EraseCounter(ok) \/ Mark(ok) \/ Unrestrict(ok) \/ ShutDown(ok)
          \/ Recount(ok) \/ WriteBlob(ok) \/ Saved(ok)
    \/ \E stored, ok \in BOOLEAN : SetNetwork(stored, ok)
    \/ \E yes \in BOOLEAN : AskChange(yes)
    \/ \E right \in BOOLEAN : GetPin(right)
    \/ \E entropy \in BOOLEAN : Opened(entropy)
    \/ \E answered \in BOOLEAN : DeclineChange(answered) \/ SetPin(answered)
    \/ PowerCut \/ ProcessEnds \/ NewWallet \/ Logout \/ RequestChange
    \/ ResetBegin \/ ResetDone \/ ResetFails
    \/ UnlockBegin \/ AssertFails \/ GetPinFails \/ LoadRefused \/ LoadStarts
    \/ CounterRejected \/ NoBlob \/ WrongKey \/ OrdinaryPin \/ ErasePin
    \/ Derive \/ DeclinePassphrase \/ DeriveFails \/ AcceptChange
    \/ SaveBegin \/ SetPinFails

Spec == Init /\ [][Next]_vars

----------------------------------------------------------------------------
(* The lock that the wallet implements.                                    *)

Stored == {r \in card : r.blob # NoKey}
Seals  == {r.blob : r \in Stored}
Past   == {older.blob} \ {NoKey}
Offers == {r.counter : r \in {s \in Stored : s.counter \in 1 .. 3}}

LockState ==
    CASE keys = "open"    -> "open"
      [] keys = "unsaved" -> "fresh"
      [] OTHER            -> IF pc \in {"opened", "derive"} THEN "proved" ELSE "locked"

Lock == INSTANCE PinLock WITH
    Tries <- 3, Pins <- Keys, None <- NoKey, pin <- server, given <- aes, seals <- Seals,
    past <- Past, offers <- Offers, wrong <- guesses, lock <- LockState

----------------------------------------------------------------------------
(* Properties.                                                             *)

\* The wallet implements the lock, through every commit that fails and every
\* power cut: it opens to the last PIN set alone, an attempt is off the card
\* before a key is tried (keychain_load_and_decrypt_blob), and only who holds
\* the keys gets attempts back or stores a seed (storage_set_encrypted_blob);
\* except that a factory reset, cut short between the slots, may bring back the
\* generation before (settings_store_erase).
ImplementsLock == Lock!Spec

Steps == {"down", "idle", "erasing", "askpin", "load", "decrement", "decrypt", "opened", "derive",
          "erase", "uncount", "mark", "unrestrict", "wrongpin", "keyflags",
          "askchange", "setpin", "recount", "write", "restrict", "network"}

\* Type correctness; no more than three wrong keys are tried between two settings
\* of the counter, or from a factory reset on.
TypeOK ==
    /\ mem \in Records /\ card \in SUBSET Records /\ older \in Records
    /\ flag \in BOOLEAN /\ cached \in BOOLEAN /\ change \in BOOLEAN
    /\ keys \in {"none", "unsaved", "open"}
    /\ pc \in Steps /\ op \in {"unlock", "change", "save"}
    /\ ret \in {"rejected", "noblob", "exhausted", "erasepin"} /\ erased \in BOOLEAN
    /\ server \in {NoKey} \cup Keys /\ aes \in {NoKey} \cup Keys /\ newaes \in {NoKey} \cup Keys
    /\ nkeys \in {NoKey} \cup Keys /\ guesses \in 0 .. 3
    /\ wiped \in BOOLEAN /\ torn \in BOOLEAN /\ botched \in BOOLEAN

\* Whatever a start may find, the attempts it offers and the wrong keys already
\* tried are three together: an attempt is paid for on the card before it is
\* made (storage_decrement_counter), whatever commit fails or is cut off.  A
\* factory reset that is begun starts the count again: cut short between the
\* slots it brings back the attempts of the generation before.
AttemptsPaidFor ==
    \A r \in card : r.blob # NoKey /\ r.counter \in 1 .. 3 => guesses + r.counter <= 3

\* No start finds an encrypted seed without its counter field, not even one that
\* a factory reset uncovers (storage_erase_encrypted_blob: "the blob goes first").
BlobHasCounter == \A r \in card \cup {older} : r.blob # NoKey => r.counter # NoCounter

\* After an acknowledged erase, of the blob or of everything, no start finds the
\* seed again (keychain_erase_encrypted: "say whether the blob really went"),
\* until another is stored or a factory reset is begun: cut short between the
\* slots, it uncovers the generation before, which may be the one erased.
ErasedStaysErased == wiped => \A r \in card : r.blob = NoKey

\* The assertion of get_pin_get_aeskey: a device that asks for a PIN has
\* attempts left, unless a factory reset has failed since it was started.
AttemptsLeft == pc = "askpin" /\ ~botched => Attempts(mem) > 0

\* What the three attempts rest on, at every moment the power may go.
AttemptsKept == AttemptsPaidFor /\ BlobHasCounter /\ AttemptsLeft

\* Only a save or a change of the PIN that was cut short, or a factory reset that
\* did not finish, parts the blob from the server: otherwise every start that
\* finds a usable wallet finds one that the last PIN set opens (keychain_store,
\* keychain_reencrypt).
LastPinOpens ==
    ~torn =>
        \A r \in card : r.blob # NoKey /\ Attempts(r) > 0 => r.blob = server

============================================================================
