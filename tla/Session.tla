------------------------------ MODULE Session ------------------------------
(***************************************************************************)
(* The wallets held in memory and the session built on them: the slot      *)
(* table of keychain.c, the ways a wallet gets into it (derive_keychain,   *)
(* slip39_load_wallet, keychain_load), and the dashboard's screens that    *)
(* switch, add, forget and drop wallets while others are held.             *)
(*                                                                         *)
(* The main task is sequential; its partner is the user, who may answer a  *)
(* screen or leave it with KEY3.  KEY3 raises a flag that any other press  *)
(* takes down, and every loop on the way home is expected to look at it.   *)
(* A wallet is abstracted to the words it comes from and the passphrase.   *)
(***************************************************************************)
EXTENDS Naturals, FiniteSets

CONSTANTS
    MAX_SEED_SLOTS,  \* size of the table
    Phrases,         \* recovery phrases
    Secrets          \* SLIP-0039 master secrets

ASSUME SessionAssumption ==
    /\ MAX_SEED_SLOTS \in Nat \ {0}
    /\ Phrases \cap Secrets = {}
    /\ "none" \notin Phrases \cup Secrets

VARIABLES
    slots,    \* keychain_slots
    active,   \* the slot keychain_data points into; 0 is NULL
    cache,    \* mnemonic_entropy or slip39_master_secret
    failed,   \* history: what is cached was left by a derivation that failed
    blob,     \* what the PIN protects on the card
    show,     \* show_connect_screen
    init,     \* initialisation_source
    relogin,  \* internal_relogin_source
    esc,      \* gui_escape_flag
    left,     \* history: KEY3 closed a screen, and whether a press revised that
    asked,    \* an auth_user message of the QR client is on its way
    pc,       \* where the main task is
    flow,     \* the operation it is in, with the locals that outlive a screen
    list      \* the session and wallet menus as they were laid out

table  == <<slots, active, cache, failed>>
device == <<blob, show, init, relogin, asked>>
keys   == <<esc, left>>
vars   == <<slots, active, cache, failed, blob, show, init, relogin, esc, left, asked, pc, flow, list>>

----------------------------------------------------------------------------
(* The slot table.                                                         *)

SlotIds == 1 .. MAX_SEED_SLOTS
Sources == {"internal", "serial"}
None    == "none"             \* SOURCE_NONE, no words, no wallet
Wallets == [words : Phrases \cup Secrets, phrase : BOOLEAN]
NoWallet == [words |-> None, phrase |-> FALSE]

FreeSlot == [held |-> FALSE, wallet |-> NoWallet, temp |-> FALSE, source |-> None, entropy |-> FALSE]
EmptyTable == [i \in SlotIds |-> FreeSlot]

Held  == {i \in SlotIds : slots[i].held}
First(S) == CHOOSE i \in S : \A j \in S : i <= j

\* keychain_get, keychain_has_temporary, keychain_get_userdata.
Loaded    == active # 0
Temporary == Loaded /\ slots[active].temp
Source    == IF Loaded THEN slots[active].source ELSE None
HasPin    == blob # NoWallet

\* keychain_find_slot.
SlotOf(w) == {i \in Held : slots[i].wallet = w}

\* keychain_get_persisted_userdata.
PersistedSource ==
    LET persisted == {i \in Held : ~slots[i].temp}
    IN  IF persisted = {} THEN None ELSE slots[First(persisted)].source

\* keychain_clear.
Clear ==
    /\ slots' = EmptyTable
    /\ active' = 0
    /\ cache' = NoWallet
    /\ failed' = FALSE

\* occupy_slot and finalise_slot for a wallet that arrives.
Arrived(w, source, temp) ==
    [held |-> TRUE, wallet |-> w, temp |-> temp, source |-> source,
     entropy |-> w.words \in Phrases /\ ~w.phrase]

\* keychain_set with other keys: the wallet becomes the only one.  The entropy
\* is kept by keychain_set_entropy when the user has presented the words and
\* given no passphrase; a persisted wallet is cached for keychain_store.
SetOnly(w, source, temp, presented) ==
    /\ slots' = [EmptyTable EXCEPT ![1] =
                    [Arrived(w, source, temp) EXCEPT !.entropy = @ /\ presented]]
    /\ active' = 1
    /\ cache' = IF presented /\ ~temp
                THEN [w EXCEPT !.phrase = @ /\ w.words \in Secrets]
                ELSE NoWallet
    /\ failed' = FALSE

\* keychain_set with the keys in use: only what is recorded of them changes.
Bind(source, temp) ==
    /\ slots' = [slots EXCEPT ![active].source = source, ![active].temp = temp]
    /\ cache' = NoWallet
    /\ failed' = FALSE
    /\ UNCHANGED active

\* keychain_slot_activate.
Activate(i) ==
    /\ active' = i
    /\ UNCHANGED <<slots, cache, failed>>

\* Mutant of ForgetActive: no wallet takes over.
ForgetActiveOnly ==
    /\ slots' = [slots EXCEPT ![active] = FreeSlot]
    /\ active' = 0
    /\ UNCHANGED <<cache, failed>>

\* keychain_slot_forget_active: the first wallet still held takes over.
ForgetActive ==
    LET rest == Held \ {active}
    IN  IF rest = {} THEN Clear
        ELSE /\ slots' = [slots EXCEPT ![active] = FreeSlot]
             /\ active' = First(rest)
             /\ UNCHANGED <<cache, failed>>

----------------------------------------------------------------------------
(* Steps of the main task.                                                 *)

NoFlow == [name |-> None, wallet |-> NoWallet, temp |-> FALSE, offer |-> FALSE,
           source |-> None, before |-> 0, count |-> 0]
NoList == [rows |-> EmptyTable, title |-> NoWallet, forget |-> FALSE, backup |-> FALSE]

Goto(step) == pc' = step

\* A press answers the screen and takes the escape down; KEY3 raises it and
\* gives the screen's own "no".
Press  == esc' = FALSE /\ left' = "no"
Escape == esc' = TRUE /\ left' = "left"
No     == Press \/ Escape

Init ==
    /\ slots = EmptyTable /\ active = 0 /\ cache = NoWallet /\ failed = FALSE
    /\ blob = NoWallet /\ show = FALSE /\ init = None /\ relogin = None /\ asked = FALSE
    /\ esc = FALSE /\ left = "no"
    /\ pc = "home" /\ flow = NoFlow /\ list = NoList

\* gui_alt_click between two screens.  The keyboard is exempt.
Key3 ==
    /\ pc \notin {"home", "aborted", "keyboard"} /\ ~esc
    /\ esc' = TRUE
    /\ UNCHANGED <<table, device, left, pc, flow, list>>

\* Any other press that no screen is waiting for: gui_escape_clear.
StrayPress ==
    /\ pc \notin {"home", "aborted"} /\ esc
    /\ esc' = FALSE
    /\ left' = IF left = "left" THEN "revised" ELSE left
    /\ UNCHANGED <<table, device, pc, flow, list>>

\* The end of the process (a sleep, a reset, the idle timer): only the card
\* remains, and a factory reset or the PIN that erases the wallet takes that too.
Restart ==
    /\ Clear
    /\ show' = FALSE /\ init' = None /\ relogin' = None /\ asked' = FALSE
    /\ Press
    /\ Goto("home") /\ flow' = NoFlow /\ list' = NoList
    /\ blob' = blob \/ (blob' = NoWallet /\ pc \in {"home", "unlock"})

\* Back in dashboard_process: the escape has arrived.  A home screen with a
\* wallet asserts that the wallet belongs to a source.
Home ==
    /\ pc = "return"
    /\ Press
    /\ flow' = NoFlow /\ list' = NoList
    /\ init' = IF show THEN init ELSE None
    /\ Goto(IF ~show /\ Loaded /\ Source = None THEN "aborted" ELSE "home")
    /\ UNCHANGED <<table, blob, show, relogin, asked>>

----------------------------------------------------------------------------
(* The home screen and the connect screens: handle_btn, the Options rows.  *)

AtHome == pc = "home" /\ ~show

\* initialise_with_mnemonic is entered, with its two assertions.
Obtain(name, temp, source) ==
    /\ flow' = [NoFlow EXCEPT !.name = name, !.temp = temp, !.source = source]
    /\ Goto(IF Loaded \/ (~temp /\ HasPin) THEN "aborted" ELSE "obtain")
    /\ UNCHANGED <<table, blob, show, init, relogin, keys, list>>

SetUp      == AtHome /\ ~Loaded /\ ~HasPin /\ Obtain("setup", FALSE, None) /\ UNCHANGED asked
ScanSeedQr == AtHome /\ ~Loaded /\ Obtain("seedqr", TRUE, None) /\ UNCHANGED asked
TempSigner == AtHome /\ ~Loaded /\ Obtain("setup", TRUE, None) /\ UNCHANGED asked

Connect ==
    /\ AtHome /\ ~Loaded /\ HasPin
    /\ show' = TRUE
    /\ UNCHANGED <<table, blob, init, relogin, asked, keys, pc, flow, list>>

\* BTN_CONNECT_BACK, or BTN_CONNECT_TO_BACK: select_initial_connection(false).
ConnectBack ==
    /\ pc = "home" /\ show /\ init = None
    /\ show' = FALSE
    /\ IF Loaded THEN Goto("authqr") /\ flow' = [NoFlow EXCEPT !.name = "setup"]
                 ELSE UNCHANGED <<pc, flow>>
    /\ UNCHANGED <<table, blob, init, relogin, asked, keys, list>>

\* Unlock, or change the PIN, over QR codes.
UnlockQr ==
    /\ AtHome
    /\ \/ ~Loaded /\ HasPin /\ flow' = [NoFlow EXCEPT !.name = "unlock"]
       \/ Loaded /\ HasPin /\ ~Temporary /\ flow' = [NoFlow EXCEPT !.name = "changepin"]
    /\ Goto("authqr")
    /\ UNCHANGED <<table, device, keys, list>>

\* The logout message, which any source may send.
Logout ==
    /\ pc = "home"
    /\ Clear
    /\ UNCHANGED <<device, keys, pc, flow, list>>

\* do_dashboard: the connection that unlocked the PIN's wallet is lost, whichever
\* wallet is in use.
ConnectionLost ==
    /\ pc = "home" /\ HasPin /\ PersistedSource = "serial"
    /\ Clear
    /\ UNCHANGED <<device, keys, pc, flow, list>>

----------------------------------------------------------------------------
(* A first wallet: initialise_with_mnemonic and its screens.               *)

\* A persisted wallet set up in advanced mode from, or exported to, a QR code is
\* offered QR mode later.
Offers == IF flow.temp THEN {FALSE} ELSE BOOLEAN

\* Words arrive.  The passphrase is asked for unless the device is set never to.
Words ==
    /\ pc = "obtain" /\ ~esc
    /\ \E p \in Phrases, offer \in Offers, ask \in BOOLEAN :
        /\ flow' = [flow EXCEPT !.wallet = [words |-> p, phrase |-> FALSE], !.offer = offer]
        /\ Goto(IF ask THEN "passphrase" ELSE "derive")
    /\ Press
    /\ UNCHANGED <<table, device, list>>

\* SLIP-0039 shares are complete: its passphrase is always asked for.
Shares ==
    /\ pc = "obtain" /\ ~esc /\ flow.name # "seedqr"
    /\ \E s \in Secrets : flow' = [flow EXCEPT !.wallet = [words |-> s, phrase |-> FALSE]]
    /\ Goto("passphrase")
    /\ Press
    /\ UNCHANGED <<table, device, list>>

GiveUp ==
    /\ pc = "obtain"
    /\ IF esc THEN UNCHANGED keys ELSE No
    /\ Goto(IF flow.name = "message" THEN "authed" ELSE "return")
    /\ UNCHANGED <<table, device, flow, list>>

\* get_passphrase: enter one, skip it, or leave.
Passphrase ==
    /\ pc = "passphrase"
    /\ \/ Press /\ Goto("keyboard")
       \/ No /\ Goto("derive")
    /\ UNCHANGED <<table, device, flow, list>>

\* enter_passphrase: what is typed may be empty, and the confirmation may be
\* left, which empties it.
Keyboard ==
    /\ pc = "keyboard"
    /\ \/ Press /\ \E typed \in BOOLEAN : flow' = [flow EXCEPT !.wallet.phrase = typed]
       \/ Escape /\ UNCHANGED flow
    /\ Goto("derive")
    /\ UNCHANGED <<table, device, list>>

\* Where a scan that changed nothing, or all it could, goes on.
Scanned == IF flow.before # 0 THEN "scanned" ELSE "return"

\* Mutant of DeriveLeft: the words decrypted by the PIN stay cached.
DeriveLeftCached ==
    /\ pc = "derive" /\ esc
    /\ UNCHANGED table
    /\ Goto(CASE flow.name \in {"unlock", "message"} -> "authed"
              [] flow.name = "add"                   -> Scanned
              [] OTHER                               -> "return")
    /\ UNCHANGED <<device, keys, flow, list>>

\* The escape is pending where the passphrase is to be used.
DeriveLeft ==
    /\ pc = "derive" /\ esc
    /\ IF flow.name = "unlock" THEN Clear ELSE UNCHANGED table
    /\ Goto(IF flow.wallet.words \in Secrets THEN "obtain"
            ELSE CASE flow.name \in {"unlock", "message"} -> "authed"
                   [] flow.name = "add"                   -> Scanned
                   [] OTHER                               -> "return")
    /\ UNCHANGED <<device, keys, flow, list>>

\* derive_keychain and slip39_load_wallet for a wallet that becomes the only one.
DeriveSet ==
    /\ pc = "derive" /\ ~esc /\ flow.name \in {"setup", "seedqr", "message"}
    /\ SetOnly(flow.wallet, None, flow.temp, TRUE)
    /\ Goto(IF flow.name = "message" THEN "setpin"
            ELSE IF flow.offer THEN "choose" ELSE "authqr")
    /\ UNCHANGED <<device, keys, flow, list>>

\* Mutant of ForgetUnsourced: the wallet nobody claimed stays in memory.
ForgetNothing == UNCHANGED table

\* forget_unsourced_wallet.
ForgetUnsourced == IF Loaded /\ Source = None THEN Clear ELSE UNCHANGED table

----------------------------------------------------------------------------
(* Who the wallet belongs to: auth_qr_mode_ex, select_initial_connection.  *)

AuthQrTemporary ==
    /\ pc = "authqr" /\ Temporary
    /\ Bind("internal", TRUE)
    /\ init' = "internal" /\ show' = FALSE
    /\ Goto("return")
    /\ UNCHANGED <<blob, relogin, asked, keys, flow, list>>

\* The QR client is started; a PIN change logs out first, and remembers for whom.
AuthQrAccept ==
    /\ pc = "authqr" /\ ~Temporary
    /\ Press
    /\ init' = "internal" /\ show' = TRUE /\ asked' = TRUE
    /\ IF flow.name = "changepin" THEN relogin' = Source /\ Clear
                                  ELSE UNCHANGED <<relogin, table>>
    /\ Goto("return")
    /\ UNCHANGED <<blob, flow, list>>

AuthQrDecline ==
    /\ pc = "authqr" /\ ~Temporary
    /\ No
    /\ IF flow.offer THEN Goto("choose") /\ UNCHANGED table
       ELSE /\ Goto("return")
            /\ IF flow.name = "setup" THEN ForgetUnsourced ELSE UNCHANGED table
    /\ UNCHANGED <<device, flow, list>>

\* The QR-mode question: secure it with a PIN, use it as a temporary wallet
\* (after a warning), or go back; the loop looks at the escape first.
Choose ==
    /\ pc = "choose" /\ ~esc
    /\ Press
    /\ Goto("authqr") \/ Goto("tempnote")
    /\ UNCHANGED <<table, device, flow, list>>

ChooseBack ==
    /\ pc = "choose"
    /\ IF esc THEN UNCHANGED keys ELSE No
    /\ ForgetUnsourced
    /\ Goto("return")
    /\ UNCHANGED <<device, flow, list>>

\* keychain_set_temporary, with its assertions.
TempNote ==
    /\ pc = "tempnote"
    /\ \/ /\ Press
          /\ IF Loaded /\ cache.words \in Phrases /\ ~Temporary /\ ~HasPin
             THEN slots' = [slots EXCEPT ![active].temp = TRUE] /\ Goto("authqr")
             ELSE UNCHANGED slots /\ Goto("aborted")
       \/ No /\ Goto("choose") /\ UNCHANGED slots
    /\ UNCHANGED <<active, cache, failed, device, flow, list>>

----------------------------------------------------------------------------
(* auth_user_process, and what dispatch_message does when it ends.         *)

\* A source asks to be let in.
Auth(s) ==
    /\ pc = "home"
    /\ IF s = "internal" THEN asked /\ asked' = FALSE ELSE UNCHANGED asked
    /\ UNCHANGED <<blob, show, init, relogin, keys, list>>

AuthTemporary(s) ==
    /\ Auth(s) /\ Temporary
    /\ IF Source = None THEN Bind(s, TRUE) ELSE UNCHANGED table
    /\ Goto("authed") /\ UNCHANGED flow

AuthReady(s) ==
    /\ Auth(s) /\ ~Temporary /\ HasPin /\ Source = s
    /\ UNCHANGED table
    /\ Goto("authed") /\ UNCHANGED flow

AuthLocked(s) ==
    /\ Auth(s) /\ ~Temporary /\ HasPin /\ Source # s
    /\ IF Loaded THEN Clear ELSE UNCHANGED table
    /\ Goto("unlock") /\ flow' = [NoFlow EXCEPT !.name = "unlock", !.source = s]

AuthUnsaved(s) ==
    /\ Auth(s) /\ ~Temporary /\ ~HasPin /\ Loaded
    /\ UNCHANGED table
    /\ Goto("setpin") /\ flow' = [NoFlow EXCEPT !.name = "message", !.source = s]

AuthNew(s) ==
    /\ ~Temporary /\ ~HasPin /\ ~Loaded
    /\ pc = "home"
    /\ IF s = "internal" THEN asked /\ asked' = FALSE ELSE UNCHANGED asked
    /\ Obtain("message", FALSE, s)

\* set_pin_save_keys: abandoned or failed, or keychain_store and the claim.
SetPin ==
    /\ pc = "setpin"
    /\ \/ No /\ UNCHANGED <<table, blob>>
       \/ Press /\ blob' = cache /\ Bind(flow.source, FALSE)
    /\ Goto("authed")
    /\ UNCHANGED <<show, init, relogin, asked, flow, list>>

\* get_pin_load_keys without success: abandoned, a wrong PIN, or the last one,
\* which erases the blob.  Over words that are still cached keychain_load fails
\* whatever the PIN, before it looks at the blob.
UnlockFails ==
    /\ pc = "unlock"
    /\ No
    /\ blob' = blob \/ (blob' = NoWallet /\ cache = NoWallet)
    /\ UNCHANGED table
    /\ Goto("authed")
    /\ UNCHANGED <<show, init, relogin, asked, flow, list>>

\* keychain_load with the right key: a master secret is a wallet, words need
\* their passphrase first.
UnlockOpens ==
    /\ pc = "unlock" /\ HasPin /\ cache = NoWallet
    /\ Press
    /\ IF blob.words \in Secrets
       THEN SetOnly(blob, flow.source, FALSE, FALSE) /\ Goto("authed") /\ UNCHANGED flow
       ELSE /\ cache' = blob /\ UNCHANGED <<slots, active, failed>>
            /\ flow' = [flow EXCEPT !.wallet = blob]
            /\ Goto("passphrase") \/ Goto("derive")
    /\ UNCHANGED <<device, list>>

\* keychain_complete_derivation_with_passphrase, claimed for the source; or it
\* fails, and the words stay cached with no wallet to show for them.
DeriveUnlock ==
    /\ pc = "derive" /\ ~esc /\ flow.name = "unlock"
    /\ \/ SetOnly(flow.wallet, flow.source, FALSE, FALSE) /\ Goto("authed")
       \/ failed' = TRUE /\ UNCHANGED <<slots, active, cache>> /\ Goto("underived")
    /\ UNCHANGED <<device, keys, flow, list>>

\* "Failed to derive wallet" is dismissed.
Underived ==
    /\ pc = "underived"
    /\ No
    /\ Goto("authed")
    /\ UNCHANGED <<table, device, flow, list>>

AuthEnds ==
    /\ pc = "authed"
    /\ show' = (Loaded /\ Source = None)
    /\ init' = None
    /\ relogin' = None
    /\ IF relogin # None /\ ~Temporary /\ HasPin /\ Source = "internal"
       THEN Bind(relogin, FALSE)
       ELSE UNCHANGED table
    /\ Goto("return")
    /\ UNCHANGED <<blob, asked, keys, flow, list>>

----------------------------------------------------------------------------
(* The Session menu: handle_session.                                       *)

\* slot_at_position.
AtPosition(S, n) == CHOOSE i \in S : Cardinality({j \in S : j <= i}) = n

OpenSession ==
    /\ AtHome /\ Loaded
    /\ list' = [NoList EXCEPT !.rows = slots]
    /\ Goto("session")
    /\ UNCHANGED <<table, device, keys, flow>>

\* A row of the list: the wallet is activated and its own menu laid out.
PickWallet ==
    /\ pc = "session" /\ ~esc
    /\ LET rows == {i \in SlotIds : list.rows[i].held}
       IN  \E n \in 1 .. Cardinality(rows) :
            LET slot == AtPosition(Held, n)
            IN  /\ Activate(slot)
                /\ list' = [list EXCEPT !.title = list.rows[AtPosition(rows, n)].wallet,
                                        !.forget = slots[slot].temp,
                                        !.backup = slots[slot].entropy]
    /\ Press
    /\ Goto("wallet")
    /\ UNCHANGED <<device, flow>>

\* The Log Out row.
SessionLogout ==
    /\ pc = "session" /\ ~esc
    /\ Clear
    /\ Press
    /\ Goto("return")
    /\ UNCHANGED <<device, flow, list>>

\* Mutant of LeaveSession: the loop does not look at the escape.
LeaveSessionPressed ==
    /\ pc = "session" /\ ~esc
    /\ Press
    /\ Goto("return")
    /\ UNCHANGED <<table, device, flow, list>>

\* The title bar, or the escape, which the loop looks at first.
LeaveSession ==
    /\ pc \in {"session", "wallet"}
    /\ IF esc THEN UNCHANGED keys ELSE Press /\ pc = "session"
    /\ Goto("return")
    /\ UNCHANGED <<table, device, flow, list>>

WalletBack ==
    /\ pc = "wallet" /\ ~esc
    /\ No
    /\ Goto("session")
    /\ UNCHANGED <<table, device, flow, list>>

ForgetRow ==
    /\ pc = "wallet" /\ ~esc /\ list.forget
    /\ Press
    /\ Goto("forget")
    /\ UNCHANGED <<table, device, flow, list>>

ForgetAnswer ==
    /\ pc = "forget"
    /\ \/ Press /\ ForgetActive /\ Goto("return")
       \/ No /\ UNCHANGED table /\ Goto("wallet")
    /\ UNCHANGED <<device, flow, list>>

----------------------------------------------------------------------------
(* Scanning with a wallet open: handle_scan_qr, Add Wallet.                *)

\* From the home screen or the Options list (nothing to compare afterwards),
\* or from a wallet's menu.
ScanQr ==
    /\ Loaded
    /\ \/ AtHome /\ UNCHANGED keys
          /\ flow' = [NoFlow EXCEPT !.name = "add", !.source = Source]
       \/ pc = "wallet" /\ ~esc /\ Press
          /\ flow' = [NoFlow EXCEPT !.name = "add", !.source = Source,
                                    !.before = active, !.count = Cardinality(Held)]
    /\ Goto("scan")
    /\ UNCHANGED <<table, device, list>>

\* No code, or one that is no wallet's.
ScanOther ==
    /\ pc = "scan"
    /\ No
    /\ Goto(Scanned)
    /\ UNCHANGED <<table, device, flow, list>>

\* offer_wallet_named_by_psbt, accepted.
ScanPsbt ==
    /\ pc = "scan"
    /\ \E i \in Held \ {active} : Activate(i)
    /\ Press
    /\ Goto(Scanned)
    /\ UNCHANGED <<device, flow, list>>

\* handle_mnemonic_qr: the words alone may already be a wallet that is held.
ScanWords ==
    /\ pc = "scan"
    /\ Press
    /\ \E p \in Phrases, ask \in BOOLEAN :
        LET w == [words |-> p, phrase |-> FALSE]
        IN  /\ flow' = [flow EXCEPT !.wallet = w]
            /\ Goto(IF SlotOf(w) # {} THEN IF ask THEN "again" ELSE "held"
                                      ELSE IF ask THEN "passphrase" ELSE "derive")
    /\ UNCHANGED <<table, device, list>>

AddAgain ==
    /\ pc = "again"
    /\ \/ Press /\ Goto("keyboard")
       \/ No /\ Goto("held")
    /\ UNCHANGED <<table, device, flow, list>>

\* The wallet is known: held already, no room for it, or to be asked about.
DeriveAdd ==
    /\ pc = "derive" /\ ~esc /\ flow.name = "add"
    /\ Goto(IF SlotOf(flow.wallet) # {} THEN "held"
            ELSE IF Held = SlotIds THEN "full" ELSE "load")
    /\ UNCHANGED <<table, device, keys, flow, list>>

TableFull ==
    /\ pc = "full"
    /\ No
    /\ Goto(Scanned)
    /\ UNCHANGED <<table, device, flow, list>>

\* Mutant of SwitchToHeld: the escape that dismissed the message is not looked at.
SwitchAnyway ==
    \/ /\ pc = "held"
       /\ IF esc THEN UNCHANGED keys /\ Goto(Scanned) ELSE No /\ Goto("switch")
       /\ UNCHANGED <<table, device, flow, list>>
    \/ /\ pc = "switch"
       /\ Activate(First(SlotOf(flow.wallet)))
       /\ Goto(Scanned)
       /\ UNCHANGED <<device, keys, flow, list>>

\* switch_to_held_wallet: the escape is looked at before and after the message.
SwitchToHeld ==
    \/ /\ pc = "held"
       /\ IF esc THEN UNCHANGED keys /\ Goto(Scanned) ELSE No /\ Goto("switch")
       /\ UNCHANGED <<table, device, flow, list>>
    \/ /\ pc = "switch"
       /\ IF esc THEN UNCHANGED table ELSE Activate(First(SlotOf(flow.wallet)))
       /\ Goto(Scanned)
       /\ UNCHANGED <<device, keys, flow, list>>

\* "Load wallet?": the first free slot, claimed for the source of the wallet
\* that was in use; over QR codes through auth_qr_mode.
LoadAnswer ==
    /\ pc = "load"
    /\ \/ LET slot == First(SlotIds \ Held)
          IN  /\ Press
              /\ slots' = [slots EXCEPT ![slot] = Arrived(flow.wallet, flow.source, TRUE)]
              /\ active' = slot
              /\ cache' = NoWallet
              /\ failed' = FALSE
              /\ init' = IF flow.source = "internal" THEN "internal" ELSE init
       \/ No /\ UNCHANGED <<table, init>>
    /\ Goto(Scanned)
    /\ UNCHANGED <<blob, show, relogin, asked, flow, list>>

\* Mutant of ScanReturns: only the number of wallets is compared.
ScanReturnsCount ==
    /\ pc = "scanned"
    /\ flow' = NoFlow
    /\ Goto(IF Cardinality(Held) # flow.count THEN "return" ELSE "wallet")
    /\ UNCHANGED <<table, device, keys, list>>

\* Back in the wallet's menu, unless what it was laid out for has changed.
ScanReturns ==
    /\ pc = "scanned"
    /\ flow' = NoFlow
    /\ Goto(IF Cardinality(Held) # flow.count \/ active # flow.before THEN "return" ELSE "wallet")
    /\ UNCHANGED <<table, device, keys, list>>

----------------------------------------------------------------------------

User ==
    \/ SetUp \/ ScanSeedQr \/ TempSigner \/ Connect \/ ConnectBack \/ UnlockQr
    \/ Words \/ Shares \/ Passphrase \/ Keyboard
    \/ AuthQrAccept \/ AuthQrDecline \/ Choose \/ TempNote
    \/ SetPin \/ UnlockFails \/ UnlockOpens \/ Underived
    \/ OpenSession \/ PickWallet \/ SessionLogout \/ WalletBack \/ ForgetRow \/ ForgetAnswer
    \/ ScanQr \/ ScanOther \/ ScanPsbt \/ ScanWords \/ AddAgain \/ TableFull \/ LoadAnswer
    \/ Key3 \/ StrayPress

Messages ==
    \/ Logout \/ ConnectionLost
    \/ \E s \in Sources : \/ AuthTemporary(s) \/ AuthReady(s) \/ AuthLocked(s)
                          \/ AuthUnsaved(s) \/ AuthNew(s)

\* What the task does without being waited for, given the escape.
Program ==
    \/ Home \/ DeriveLeft \/ DeriveSet \/ DeriveUnlock \/ DeriveAdd \/ AuthQrTemporary
    \/ AuthEnds \/ ScanReturns \/ SwitchToHeld
    \/ GiveUp \/ ChooseBack \/ LeaveSession

Next == User \/ Messages \/ Program \/ Restart

Spec == Init /\ [][Next]_vars

\* The task is scheduled: it goes on wherever it waits for no press.
FairSpec ==
    /\ Spec
    /\ WF_vars(esc /\ Program)
    /\ WF_vars(pc \in {"return", "derive", "authed", "scanned", "switch"} /\ Program)

----------------------------------------------------------------------------

SlotType == [held : BOOLEAN, wallet : Wallets \cup {NoWallet}, temp : BOOLEAN,
             source : Sources \cup {None}, entropy : BOOLEAN]

FlowType == [name : {None, "setup", "seedqr", "message", "unlock", "changepin", "add"},
             wallet : Wallets \cup {NoWallet}, temp : BOOLEAN, offer : BOOLEAN,
             source : Sources \cup {None}, before : SlotIds \cup {0}, count : SlotIds \cup {0}]

ListType == [rows : [SlotIds -> SlotType], title : Wallets \cup {NoWallet},
             forget : BOOLEAN, backup : BOOLEAN]

Steps == {"home", "return", "obtain", "passphrase", "keyboard", "derive", "choose",
          "tempnote", "authqr", "setpin", "unlock", "underived", "authed", "session", "wallet", "forget",
          "scan", "again", "held", "switch", "full", "load", "scanned"}

\* Type invariant; pc is never "aborted": a wallet shown at home has a source, a
\* wallet is obtained only when none is there, and is made temporary only while
\* its words are cached (the assertions of dashboard.c and keychain.c).
TypeOK ==
    /\ slots \in [SlotIds -> SlotType]
    /\ active \in SlotIds \cup {0}
    /\ cache \in Wallets \cup {NoWallet} /\ failed \in BOOLEAN
    /\ blob \in Wallets \cup {NoWallet}
    /\ show \in BOOLEAN /\ asked \in BOOLEAN /\ esc \in BOOLEAN
    /\ init \in Sources \cup {None} /\ relogin \in Sources \cup {None}
    /\ left \in {"no", "left", "revised"}
    /\ pc \in Steps
    /\ flow \in FlowType
    /\ list \in ListType

\* keychain_data points into a slot that holds a wallet, whatever was
\* forgotten, and is NULL only when none is held.
ActiveIsHeld == IF Loaded THEN active \in Held ELSE Held = {}

\* No wallet takes two slots, by whichever passphrase it is reached
\* (keychain_find_slot, asked twice by derive_keychain).
NoWalletTwice == \A i, j \in Held : slots[i].wallet = slots[j].wallet => i = j

\* At most one wallet is the PIN's, which is what keychain_get_persisted_userdata
\* relies on, and it is the wallet on the card once a source has claimed it.
PersistedIsStored ==
    \A i \in Held : ~slots[i].temp =>
        /\ \A j \in Held : ~slots[j].temp => i = j
        /\ slots[i].source # None => slots[i].wallet.words = blob.words

\* The slots are sound, whatever was added, switched to or forgotten.
SlotsSound == ActiveIsHeld /\ NoWalletTwice /\ PersistedIsStored

\* The menu drawn for a wallet is the menu of the wallet in use: its title, the
\* Forget and Backup rows and the list behind it are not those of another.
MenuIsTrue ==
    pc \in {"wallet", "forget"} =>
        /\ list.title = slots[active].wallet
        /\ list.forget = slots[active].temp
        /\ list.backup = slots[active].entropy
        /\ {i \in SlotIds : list.rows[i].held} = Held

\* Cached words or secrets are those of the wallet in use, or of the wallet on
\* the card that a PIN has just decrypted, so that keychain_store never writes
\* another wallet's.  Past the unlock they are left over, for keychain_load to
\* trip on, after a derivation that failed and after nothing else.
CacheIsWallets ==
    /\ pc = "setpin" => cache # NoWallet
    /\ cache # NoWallet =>
        IF Loaded THEN cache.words = slots[active].wallet.words
        ELSE /\ cache = blob
             /\ failed \/ (flow.name = "unlock" /\ pc \in {"passphrase", "keyboard", "derive"})

\* A screen left with KEY3 changes neither the wallets held nor the one in use
\* as long as no other press takes it back; only a wallet nobody has claimed goes.
LeaveChangesNothing ==
    [][ left = "left" /\ left' = "left" /\ <<slots, active>>' # <<slots, active>>
        => active' = 0 /\ (Source = None \/ ~Loaded) ]_vars

\* KEY3 reaches the dashboard from wherever it was pressed, without a further
\* press: every loop on the way looks at the flag.
EscapeArrives == (left = "left") ~> (left # "left")

============================================================================
