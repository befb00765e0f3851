# A TLA+ verification of piJade

piJade runs the Blockstream Jade hardware-wallet firmware as an air-gapped
signer on a Raspberry Pi. The firmware (`src/main`) is compiled as a library
(`src/libjade`, which emulates FreeRTOS, ESP events and the NVS flash) and
driven by a host program (`src/pijade/host`: panel, buttons, camera, settings
file). This project models the parts whose correctness depends on the order in
which things happen: what survives a power cut, what a wallet's PIN protects,
which task runs when, and which protocol steps may follow which.

## 1. Inventory

### The host (`src/pijade/host`)

* **Settings store** (`settings_store.c`). State: two slot files, each with a
  sequence number and a checksum, and the handle (`newest_slot`, `newest_seq`,
  `next_slot`). Operations: open, read, write, erase. Called by libjade for
  every settings commit and for the factory reset. Hard: a power cut or an I/O
  error between any two system calls; slots that cannot be read; a sequence
  number at its limit. Correct when an acknowledged write survives, an
  interrupted one leaves the old generation, and an acknowledged erase leaves
  nothing.
* **Input gate** (`input_gate.h`). State: the mark a dispatched press leaves
  until its work is drawn, when and with which screen the panel last settled,
  the last frame that carried new work. Operations: a press was dispatched, a
  panel write begins, it ends, a press is judged. Hard: the input thread, the
  gui task and the tasks that post jobs interleave freely; counters wrap.
  Correct when a press that acts was made on what it acts on.
* **Buttons** (`buttons_gpio.c`). State: the direction that repeats, its
  deadline, the directions that are down. Operation: one wait, which returns a
  press, a repeat or nothing. Hard: edges read long after they were made,
  diagonals left in either order, a deadline that passed while the loop was
  busy. Correct when only what is held repeats, and goes on repeating.
* **Host main** (`pijade_host.c`). Threads for input, camera and display, the
  settings handler, start-up order and shutdown. The camera thread reads the
  sensor while Jade wants pictures and wipes its buffer when it does not.
* **Panel and camera drivers** (`panel_st7789.c`, `camera_v4l2.c`): device I/O.

### The emulation layer (`src/libjade`)

* **NVS** (`nvs_flash.c`, `pijade_settings.c`): five maps of keys to values in
  memory; `nvs_commit` serialises all of them and hands them to the host. A
  value changed in memory whose commit failed is still there for the next one.
* **Tasks** (`task.c`), **events** (`esp_event.c`), **message port**
  (`libjade.c`, `daemon.c`): threads, notifications, queues.

### The firmware (`src/main`)

* **Storage and PIN counter** (`storage.c`), **keychain** (`keychain.c`),
  **unlock** (`process/auth_user.c`), **PIN client** (`process/pinclient.c`):
  the encrypted wallet, its attempt counter, the cached flag that says whether
  there is one, the keys in memory, the exchange with the blind oracle that
  holds the other half of the encryption key. Hard: every step of an unlock, a
  PIN change or an erase is a separate commit that may fail or be cut off.
* **Wallet slots and session** (`keychain.c`, `process/dashboard.c`,
  `process/mnemonic.c`). State: up to `MAX_SEED_SLOTS` wallets in memory and the
  one in use, the cached entropy, the sources that own the session, the escape
  flag KEY3 raises. Hard: a wallet is added, switched or forgotten from inside
  menus laid out before; every question can be left, and every loop on the way
  home has to notice. Correct when the table, the card and the menus agree and
  leaving a question changes nothing.
* **QR authentication** (`qrmode.c`, `process/pinclient.c`): a second task plays
  the companion app over QR codes. Hard: two tasks on one screen and two ring
  buffers, stale replies, a replay counter that must be durable before use.
* **QR scanning** (`camera.c`, `qrscan.c`, `bcur.c`, `bbqr.c`,
  `libjade/esp_camera.c`). State: the parts collected, the frame buffers, the
  events of the camera screen. Hard: parts in any order from several codes, a
  camera task, a host thread and a caller that hand over to each other. Correct
  when one whole payload is handed over, or none, and no picture stays behind.
* **Message handling** (`process.c`, `wire.c`, `serial.c`): one message at a
  time per source, length-limited, with a timeout for a partial one.
* **Sensitive-data stack** (`sensitive.c`): what must be wiped on an abort.
* **Idle timer** (`idletimer.c`). State: the times of the last activity and of
  the last ui activity, an override of the timeouts, whether the panel is dark,
  a request to recheck. Its task turns the panel off, or warns, wipes the
  wallets and restarts. Hard: sleeps sized from a snapshot, a flag and a
  backlight that several threads switch. Correct when nothing is late and a
  dark screen always wakes.
* **Signing** (`sign_tx.c`, `sign_psbt.c`, `sign_utils.c`, `ui/sign_tx.c`).
  State: what the messages or the PSBT said of inputs and outputs, what the user
  agreed to, the replies sent. Hard: everything comes from somebody who need not
  tell the truth, piece by piece; change is hidden from the user; replies are
  owed to the right message. Correct when what is signed was shown.
* **Message signing** (`signer.c`, `sign_message.c`),
  **registrations** (`multisig.c`, `descriptor.c`, `registration_seal.c`),
  **OTP** (`otpauth.c`), **QR display** (`bcur.c`, `qrcode.c`, `qrmode.c`),
  **seed tools** (`slip39.c`, `shamir.c`, `seedxor.c`, `entropy_sources.c`),
  **OTA** (`ota*.c`), **GUI** (`gui.c`, `ui/*`), **dashboard**
  (`process/dashboard.c`), **miner** (`components/miner`).

`PROJECT.json` lists each of them with its status, and under `hazards` the
places in the code that a test would hardly reach.

## 2. Modules

| Module | Models | Extends |
| --- | --- | --- |
| `SettingsStore` | `settings_store.c` | |
| `DurableRegister` | what the store promises to libjade | |
| `PinWallet` | the wallet in storage and its PIN: `storage.c`, `keychain.c`, `auth_user.c`, `nvs_flash.c` | |
| `PinLock` | what the wallet promises to its owner | |
| `InputGate` | `input_gate.h`, the button loop and flush handler of `pijade_host.c`, the job queue of `gui.c` | |
| `IdleTimer` | `idletimer.c` | |
| `Session` | wallets in memory and the dashboard around them: `keychain.c`, `dashboard.c`, `mnemonic.c`, `auth_user.c` | |
| `PinExchange` | unlocking over QR codes: `qrmode.c`, `pinclient.c`, `auth_user.c`, the ring buffers of `process.c` | |
| `Buttons` | `buttons_gpio.c` | |
| `SignPsbt` | `sign_psbt.c` and its screens | |
| `SignTx` | `sign_tx.c` in both message flows | |
| `QrScan` | `bcur_scan_qr`: `bbqr.c`, `bcur.c`, `qrscan.c`, `camera.c`, `esp_camera.c`, the host's camera thread | |
| `MC...` | the instance of each for TLC | the module |
| `...Proofs` | the theorems about `SettingsStore`, `PinWallet`, `InputGate`, `IdleTimer`, `Session`, `PinExchange`, `SignPsbt`, `SignTx`; those about `Buttons` are at the end of `InputGateProofs` (the other half of the input thread), those about `QrScan` at the end of `SignPsbtProofs` (a PSBT comes in by a scan); these two modules name their `Init`, `Next` and `TypeOK` after themselves, so that one proof module can extend both | the module |

A `.cfg` only gives constants their values. The definitions called
"Mutant of X" are variants of X with a plausible bug; no specification uses
them. `PROJECT.json` names, for each property, the variant that violates it,
and for each definition the source lines it stands for.

### SettingsStore

State: `file` is what the running kernel shows of the two slots and `card` the
set of contents a power cut may leave in each; `newest_slot`, `newest_seq` and
`next_slot` are the fields of `struct settings_store`; `pc` and `call` say which
call is under way and where. A generation number stands for the payload. The
actions are the pieces of `settings_store_open`/`read` (`Boot`), `write`
(`WriteRefused`, `WriteNotStarted`, `WriteBegin`, `WriteFails`,
`WriteFlushed`), `erase_slot` (`EraseNothing` to `EraseZeroed`) and `erase`
(`EraseBegin`, `EraseReturn`), cut where an error or a power cut falls between
two system calls; `ProcessEnds` and `PowerCut` may come at any point. A slot may
be unreadable at any start, a header unreadable at any probe. External: POSIX
file semantics. An unflushed write leaves the old content or any prefix of the
new, `fsync` reduces this to the new content, a removal is durable once the
directory is flushed. `sync_parent_dir` is best effort in the code
(`settings_store.c:103-117`, called at 406); it is taken to have flushed the
entry of a slot that was just created.

`DurableRegister` is the abstract specification: a value that may be one of
several until a start or an acknowledged write settles it. The refinement
mapping takes the possible values to be what `Found` returns for every pair of
contents the card may keep.

### PinWallet

State: the record in memory (`mem`: the blob, named by the key it is encrypted
with, and the attempt counter), the records a start may find (`card`, that is,
what `DurableRegister` promises), what the store's other slot may hold
(`older`), the cached `has_encrypted_blob` (`flag`), the keys and cached
entropy, the pending change of PIN, and the key the server keeps for the last
PIN set. Each storage commit is a step; one that fails leaves its value in
memory and perhaps on the card, to be made durable by whatever is committed next
(`OtherCommit`). External: the PIN server answers a wrong PIN with a key that
fits nothing; `PinExchange` has its protocol.

A factory reset is two steps, for `settings_store_erase` removes one slot after
the other: from `ResetBegin` on a start may find the newest generation, the older
one or nothing; `ResetDone` has removed both, and after `ResetFails` the device
goes on running with empty maps. Cut short or failing in between, a reset may
bring back attempts that were used, a seed whose erase was acknowledged, or the
blob of an earlier PIN. The history variables name this exception and no other:
`guesses` and `wiped` start again when a reset is begun, and `torn` is set until
it is done. What a start finds after it still has a counter, still allows three
wrong keys and no more, and still opens to the last PIN set alone. Faults of the
medium, a slot unreadable at a start or a flush that failed and is followed by a
restart without a power cut, are in `SettingsStore` only.

`PinLock` is the abstract specification: a lock with a number of attempts, which
knows neither records nor flows nor commits. It opens to the key of the last PIN
set alone (`Right`, then `Open`); a wrong key is tried only when no start can
offer the attempt again (`Wrong`); attempts are given back, PINs set and seeds
stored only while the keys are held (`Right`, `SetPin`, `Renew`, `Store`); and
everything else, a failing commit or a power cut included, only takes away
(`Fade`), except that a factory reset may bring back what is still kept of the
past, with its attempts (`Reset`). The refinement mapping takes the lock's seals
and offers to be the blobs and counters of the records a start may find, the
past to be the blob of the older generation, and the state of the lock to be the
keys that are held.

### InputGate

State: the gate's fields (`gate`), the job counters, the screen's number, the
gui task's position, what the panel shows, the presses the kernel holds, and
the input thread with its copy of the gate. `Dispatched`, `Written` and `Judge`
are the gate's functions, written as operators on its record; the actions are
the places where the gui task, the input thread and the tasks that post jobs
may be interrupted. Counters in the gate are reduced modulo `Width`, and
`Reached` is the signed difference the code takes. The clock moves only when a
frame has been written, or by the whole timeout (`TimePasses`): the code only
compares instants. A reading of the clock may fail; a mark then runs from the
press (`ReturnsUntimed`).

### IdleTimer

State: the two activity times, the override, the settings, the flag and the
backlight (two variables: the code switches them one after the other), the
recheck request, and the idle task with its locals. The unit of the clock is
the slice of `idletimer_delay`, and steps of a thread take no time. The
Pi's `usb_is_powered` is constant, so powering off is no option
(`power/minimal.inc`). The Brightness screen also switches the backlight
(`dashboard.c:1963`, 1982, 1989); it is not in the model, and `DarkWakes` is
about the idle timer's own switching.

### Session

State: the slot table (`slots`, `active`), the cache of the words last entered
(`cache`), what the PIN protects on the card (`blob`), the sources that own the
session (`init`, `relogin`, `show`), the escape flag (`esc`), the main task's
position (`pc`) with the operation it is in (`flow`) and the menus as they were
laid out (`list`). A wallet is its words and whether a passphrase was added.
`User` collects the answers to screens, `Messages` what a client may send,
`Program` what the task does without being waited for; a press or KEY3 that no
screen waits for may come at any moment (`left` remembers whether KEY3 closed a
screen and whether a press revised that). `EscapeArrives` says that KEY3 reaches
the dashboard without another press; `LeaveChangesNothing` that a question that
was left changes no wallet. A derivation that fails after the right PIN leaves
its words cached (`Underived`); `failed` remembers that, and `CacheIsWallets`
allows it there alone. A serial connection that is lost clears the table, whichever
wallet is in use (`ConnectionLost`). The PIN counter is left to `PinWallet`.

### PinExchange

State: settings in memory and on the card (`mem`, `card`, `before`), the cached
`has_encrypted_blob`, the main
task (`mpc`, `stage`, `request`), the clients' tasks, the two ring buffers, who
drew the screen, and outside the device the requests made, photographed and
answered. A unit key is numbered by the request that first used it. External:
the server, which takes a request only when its counter is above all it has seen
from the unit, and the phone, which may carry any code any number of times.
`Failures` says which commits may fail in a run, `cuts` records power cuts and,
in `cuts.resets`, after which requests a factory reset failed or was cut off: each
of these may bring an older counter back.

Assumed (`Prompt`): when the user starts an exchange, no client of an earlier one
has its cancel still to post, and none that waits has a reply queued. The code
does not check this (`dashboard.c:752-766`); it rests on the user, who is seconds
slower than a task that waits for nothing. Without it a late cancel
(`qrmode.c:3535`) may end an exchange it does not belong to.

### Buttons

State: the fields of the button handle (`held`, `left`, `pressed_dirs`), the
kernel's queue of edges with their ages, and the thumb (`down`). Times are
relative. Assumed: no tick falls between the end of poll and the reading of the
clock that follows it, a debounced line has at most one edge in a unit of time,
and the kernel's queue does not overflow.

### SignPsbt

State: the PSBT (`inputs`, `outputs`), the wallet in use, the flags and records
that the pass over the inputs leaves (`signing_flags`, `record`), which outputs
are shown (`output_info`), the signatures, and what the user agreed to. A script
is what can spend it; what the PSBT says of its keys is separate, and need not
be true. The script of a Green 2of3 account is the wallet's, Green's and a third
key together, and the third key it is compared with is the one the PSBT names
(`MatchesGreen`). The offer to switch to another wallet that is held, each
screen and each phase of the handler is an action; KEY3 may be pressed at any
time and taken back by another press. Bitcoin only.

### SignTx

State: what is really spent (`coins`, which come to `spent`), what the messages
said of it (`inputs`, `input_amount`), the outputs with the client's claims of
change, and for every message loaded the replies it has had (`answers`). The
client may send any message at any point. A signature counts in
`SignsWhatWasShown` when the network would take it: it commits to the amounts
really spent. Bitcoin only.

### QrScan

State: the caller (`calling`, `enabled`, `out`), the camera task (`camera`,
`skip`, `event`), the collectors (`bbqr`, `ur`, `got`), the buffer between camera
and host, and the host's thread with its own buffer and handle. A picture shows
a part of a code or nothing readable; a part has a size, so that the grid of
`bbqr_collect` and its ceiling are computed as in the code. External: the BC-UR
decoder. The escape flag is up exactly when the last press is KEY3. Assumed: the
caller is registered for the camera's exit event before the camera task, which
sleeps half a second first, can post it. Two limits of the code are limits of
the property: BBQr has no checksum, so parts of two transfers with the same
header and sizes that never contradict each other are put together; and a picture
read from the sensor before one scan ended may be pushed into the next. `HostRead`
joins the question whether Jade wants pictures with the read that blocks after it
(`pijade_host.c:324-368`): in the code the host's own buffer may be written just
after a session ended, and is wiped at the next question, as in the model.

## 3. Runs

| Run | Question | Result |
| --- | --- | --- |
| `settings_store` | Does the store keep its promise through failing system calls, aborts and power cuts at every point? | `TypeOK`, `CardKeepsWord`, `NoRollback`, and the refinement `ImplementsRegister` hold |
| `pin_wallet` | Is an attempt paid for before it is made, is an erase final, does the last PIN open the wallet, and is the whole a lock? | `TypeOK`, `AttemptsKept`, `ErasedStaysErased`, `LastPinOpens`, and the refinement `ImplementsLock` hold |
| `input_gate` | From a boot and at the wrap of the counters, with idle frames, faults and the timeout: was a press that acts made on the current screen, with earlier presses drawn, and is every mark met? | `TypeOK`, `ActsOnScreenRead`, `ActsOnWorkShown`, `MarkIsMet` hold |
| `idle_timer` | Does a dark screen always wake, and are dimming and restart never late? | `TypeOK`, `DarkWakes`, `TimeoutsKept` hold |
| `idle_timer_camera` | Also with two threads registering ui activity? | no: finding 1 |
| `session` | Do slots, card, cache and menus agree, whatever is added, switched, forgotten or left? | `TypeOK` (which includes that no assertion fails), `SlotsSound`, `MenuIsTrue`, `CacheIsWallets`, `LeaveChangesNothing`, `EscapeArrives` hold |
| `pin_exchange` | Through retries, stale replies, failing commits, late clients and power cuts: do counters rise, is only the answer to this request used, does every exchange end? | `TypeOK`, `CountersRise`, `KeyIsOfThisRequest`, `OwnScreen`, `ExchangeEnds` hold |
| `pin_exchange_reply` | Is every client answered? | no: finding 2 |
| `buttons` | Does only what is held repeat, and does it go on? | `ButtonsTypeOK`, `RepeatsWhatIsHeld`, `RepeatsFollowThumb` hold |
| `sign_psbt` | Is what the user did not see the wallet's own change, and what he agreed to what is signed? | `TypeOK`, `UnseenIsOwn`, `OwnChangeIsHidden`, `SignsAsAgreed` hold |
| `sign_tx` | Whatever a client says, is a signature worth anything preceded by the true fee and outputs, and is each message answered once? | `TypeOK`, `SignsWhatWasShown`, `AnswersMatch` hold |
| `qr_scan` | Is one whole payload handed over, can a scan always be left, does a code held up arrive, do the pictures go? | `ScanTypeOK`, `DeliversOnePayload`, `ScanEnds` hold |

Several of these are conjunctions of named parts, each with its own comment in
the module: `CardKeepsWord` (`Durable`, `ErasedStaysErased`), `AttemptsKept`
(`AttemptsPaidFor`, `BlobHasCounter`, `AttemptsLeft`), `TimeoutsKept`
(`DimsOnTime`, `RestartsOnTime`), `SlotsSound` (`ActiveIsHeld`, `NoWalletTwice`,
`PersistedIsStored`), `RepeatsFollowThumb` (`HeldHasOwner`, `LetGoStops`,
`HeldKeepsRepeating`), `ScanEnds` (`LeavesOnRequest`, `PicturesGo`,
`HeldCodeArrives`).

Findings:

1. `screen_dimmed` is switched by several threads without the mutex. With the
   camera task's `idletimer_register_activity(true)` next to the buttons', a
   wake-up's late flag can follow the idle task's dimming: the panel is dark,
   the flag says lit, and presses act instead of waking it.
2. When the re-encryption after a change of PIN fails, `auth_user.c:301` leaves
   without a reply, and the QR client's task waits for ever.

Both need a fault or a narrow race; what a device does otherwise is as the
passing runs say.

Further deviations met while modelling. They are in the models as the code has
them, and the properties are stated so as to allow for them:

* A factory reset that cannot remove every copy has emptied the NVS maps in
  memory (`nvs_flash.c:260`) and left `has_encrypted_blob` set; the next unlock
  aborts at the assertion of `auth_user.c:70`.
* When the derivation of the keys fails after a correct PIN (`auth_user.c:265`),
  the entropy stays cached and the next correct PIN is reported as incorrect
  (`PinWallet`, `Session`).
* A factory reset that is cut off or fails after the newer slot
  (`settings_store.c:484`) brings an older generation back: with it an older replay
  counter, attempts that were used up, a seed whose erase was acknowledged, or the
  blob of an earlier PIN. The reset is offered while the wallet is locked.
* An output of a Green 2of3 account is hidden as change when it fits the wallet's
  key, Green's and the third key that the PSBT names (`sign_psbt.c:119-132`,
  630-639): with Green inputs to sign, an output shared with a key of the author's
  choice is not shown. `sign_tx.c:231-238` decides the same case the other way:
  "We don't trust the host-provided xpub, so force the user to validate this
  probable change output".
* `idletimer.c:248` does not count activity in the millisecond of the check.
* KEY3 followed by a direction, both before the poll at `mnemonic.c:2567`,
  installs the wallet without its passphrase.
* A wrong PIN drops `internal_relogin_source` (`dashboard.c:651`).
* Outputs that sum to zero fail the assertion on the amount in
  `show_btc_fee_confirmation_activity` (`sign_utils.c`); the models end there
  (`"aborted"`).
* An input of a PSBT whose key path is too long is signed without being compared
  with the registered record.
* A plain code read in the middle of a BC-UR message ends the scan with that
  code; only a BBQr transfer owns its scan. A BBQr frame of another transfer,
  once read, keeps a different one out until the scan is left.
* A press of a camera button before the camera task listens (the first half
  second) is lost, and a KEY3 that follows the help button at once opens the
  help screen, which waits for another press.

### Bounds

* `settings_store`: `MaxSeq = 3`, `MaxGen = 3`. Three frames are the fewest that
  overwrite a slot that was itself written, with a fresh slot, an older and a
  newer generation at once; the limit of the sequence is met with frames in both
  slots.
* `pin_wallet`: `MaxKey = 3`: a first PIN, a change, and another change after a
  change that was cut short. Attempts are the code's three. `FewInDoubt`: a start
  chooses between at most four records, that is, three commits fail in a row or two
  before a factory reset is begun; what they leave is then one of those records or
  the next commit's.
* `input_gate`: two jobs and two presses, from a boot (`Starts` has 0) and from
  one short of the wrap (7), so that the marks of the two presses fall on both
  sides of it; the second press meets every stage of the first one's work, with a
  job of another task before, between or after. `MaxRare = 1` of the rare events:
  a timeout, a frame or a clock reading that fails.
* `idle_timer`: idle timeouts at and above the period, screen timeouts below it,
  both off, an override above both, two changes, and time for three periods. The
  idle timeout is never shorter than the period, as in the menu, and the warning
  is not longer than it (`TimesAssumption`; 10 and 60 s in the code).
* `session`: three slots, two phrases with and without a passphrase and a
  SLIP-0039 secret: five wallets for three places, so that the table fills up and
  words that are held come again with another passphrase. Nothing else is
  bounded; behaviours are as long as they like.
* `pin_exchange`: two clients, so that one can be late while the other works;
  three requests, an exchange of two stages and another, or one with retries; two
  power cuts, so that a second reset may be cut off after the first. The failing
  re-encryption has its own run.
* `buttons`: two directions, one key and the stick; a delay of three units and an
  interval of two, which fall apart at every phase; two edges waiting.
* `sign_psbt`: two wallets, three policies, two inputs out of ten kinds and two
  outputs out of twelve: every pair of kinds meets in both orders, which is what the
  flags of the pass depend on. Two presses: KEY3 and one that takes it back.
* `sign_tx`: two inputs and two outputs out of the kinds in `MCSignTx`, every
  message at every point. Two inputs are the fewest for which an amount may be
  wrong without making the signature worthless.
* `qr_scan`: nine codes, of which three share a header: one in larger blocks, one
  in smaller, one over the ceiling. Scans follow each other without bound.

The theorems of section 4 drop these bounds, and so say what the instances are
too small to show: any number of slots, clients, requests, cuts, inputs, outputs
or presses.

`CHECK_DEADLOCK FALSE` is given where the behaviour really ends: the gate's
presses and jobs, the exchange's clients or the clock are used up, the button
loop fails, or the signing call has returned.

### Fairness

* `InputGate`: `WF_vars(GuiStep)`. `gui_task` loops at its frame rate for as long
  as Jade runs and waits for nobody the model holds up: it never takes
  `gui_post_mutex`, and the panel lock is held only by the input thread's copies.
* `Session`: the main task goes on wherever it waits for no press, and wherever
  the escape is pending in a loop that polls it. The user owes nothing.
* `PinExchange`: the main task and the clients are threads of their own; a user
  who started an exchange answers its screens, or the idle timer restarts the
  device, which ends the exchange too.
* `Buttons`: time passes, and the loop calls `buttons_wait` again.
* `QrScan`: the caller, the camera task and the host's thread go on. That every
  part of a code is read time and again is not assumed of the system; it is the
  premise of `HeldCodeArrives`.

The other specifications are safety only; "in time" in `IdleTimer` is an
invariant on the clock.

## 4. Proofs

Eight modules have theorems, for every value of the constants that the module's
named assumption allows. A bound is assumed to be a natural number, and the sets
that records are taken from to have the right fields. The assumptions that say
more are:

* `InputGate`, `MaxJobs < Width \div 2`: fewer jobs in a behaviour than half the
  range of a counter. The gate compares wrapped 32-bit counters by their signed
  difference, and this is what makes the difference mean something.
* `IdleTimer`, `TimesAssumption`: no idle timeout is shorter than the period of
  the task, nor the warning longer. A timeout that activity renews while the
  warning is shown then cannot run out before the warning does; the code's are
  10 s and 60 s.
* `Session`: words and SLIP-0039 secrets are different things, and neither is the
  value that stands for no wallet.
* `Buttons`, `ButtonsConstants`: the lines are different, and the interval between
  repeats is not longer than the delay before the first (150 and 500 ms in the
  code).
* `QrScan`, `CodesConstants`: a code has at least one part and parts have at least
  one byte, since `bbqr_collect` rejects what decodes to nothing.

### What is proved

| Module | Theorem | States |
| --- | --- | --- |
| `SettingsStore` | `TypeCorrect`, `CardAlwaysKeepsWord`, `RestartNeverRollsBack` | `TypeOK`, `CardKeepsWord` (its parts are `DurableStore` and `EraseIsFinal`), `NoRollback` |
| | `StoreImplementsRegister` | the refinement `ImplementsRegister` |
| `PinWallet` | `TypeCorrect`, `AttemptsAlwaysKept`, `EraseIsFinal`, `LastPinAlwaysOpens` | `TypeOK`, `AttemptsKept`, `ErasedStaysErased`, `LastPinOpens` |
| | `WalletImplementsLock` | the refinement `ImplementsLock` |
| `InputGate` | `TypeCorrect`, `ActsOnWhatWasRead`, `ActsAfterWorkShown` | `TypeOK`, `ActsOnScreenRead`, `ActsOnWorkShown` |
| `Buttons` | `ButtonsTypeCorrect`, `RepeatsOnlyWhatIsHeld` | `ButtonsTypeOK`, `RepeatsWhatIsHeld` |
| | `RepeatHasOwner` | `HeldHasOwner`, the safety part of `RepeatsFollowThumb` |
| `IdleTimer` | `TypeCorrect`, `NoTimeoutMissed` | `TypeOK`, `TimeoutsKept` |
| | `OneThreadWakes` | `DarkWakes`, when one thread registers activity |
| `Session` | `TypeCorrect`, `SlotsAlwaysSound`, `MenuAlwaysTrue`, `CacheAlwaysOwn`, `LeavingChangesNothing` | `TypeOK`, `SlotsSound`, `MenuIsTrue`, `CacheIsWallets`, `LeaveChangesNothing` |
| `PinExchange` | `TypeCorrect`, `CountersAlwaysRise`, `KeyAlwaysOfThisRequest`, `ScreenAlwaysOwn` | `TypeOK`, `CountersRise`, `KeyIsOfThisRequest`, `OwnScreen` |
| `SignPsbt` | `TypeCorrect`, `UnseenAlwaysOwn`, `OwnChangeAlwaysHidden`, `AlwaysSignsAsAgreed` | `TypeOK`, `UnseenIsOwn`, `OwnChangeIsHidden`, `SignsAsAgreed` |
| `QrScan` | `ScanTypeCorrect`, `ScanDelivers` | `ScanTypeOK`, `DeliversOnePayload` |
| `SignTx` | `TypeCorrect`, `AlwaysSignsWhatWasShown`, `AnswersAlwaysMatch` | `TypeOK`, `SignsWhatWasShown`, `AnswersMatch` |

`OneThreadWakes` has the hypothesis that all threads are the same one. It is
needed: with two the property is false, which is finding 1.

### How

Each proof module begins with its inductive invariant `IInv`, has a lemma for
each action or group of like ones, joins them in `InvStep`, and derives the
theorems from `Spec => []IInv`. What the invariant had to add to the properties:

* `SettingsStore`. `Durable` alone is not inductive: that what a power cut leaves
  is no older than what the program holds depends on which slot the next write
  overwrites and on the sequence numbers of everything the card may keep.
  `GensBounded`, `Visible`, `Alternate`, `Phase` (what the call under way has done
  to the slot it works on), `Anchored` (the newest slot's only possible content is
  the generation held, or a later one) and `Gone` say so. `Found` enters through
  `FoundAbove` and `Pinned`. For the refinement `MayFind` is computed for each
  kind of card an action leaves, and each step is a register step or a stutter.
* `PinWallet`. The properties are about every record a start may find, so the
  invariant says what the last commit of each flow has established (`Committed`:
  at `"decrypt"` the decremented counter is the only record), that memory is one
  of those records (`MemOnCard`), which keys a flow may hold (`KeyInHand`) and when
  the cached flag may be ahead of the counter (`FlagOK`). For the refinement two
  more are needed: whose keys are held at each step of a flow (`KeysFollow`), and
  that a new PIN's key is on no record before its blob is written (`NewKey`, which
  also says of the older record that its key was handed out before). Most
  actions are then shown to take away only (`FadeStep`); each of the others has a
  lemma that names the lock's step.
* `InputGate`. `Window` bounds every count by the jobs posted in the behaviour,
  so that the wrapped comparison is the true one. `GateTrue` relates the gate's
  pairs to the frames that were on the panel, `JudgeTrue` says the same of the copy
  the press in hand is judged by, and `Posting` covers the interval in which a
  press has posted its jobs and not yet left its mark.
* `Buttons`. The queue is related to the thumb: the edges of each line alternate,
  the first fits what the loop has recorded and the last what is down (`Chain`),
  and ages are ordered (`Aged`). The deadline is then never ahead of the time a
  direction was held, unless an edge of that direction waits to be read
  (`DeadlineFits`, `ExpiredFits`), and the loop reads every edge before it repeats.
* `IdleTimer`. What the pass has read (`ReadIdle`, `ReadUi`) and the sleep it chose
  (`SleepIdle`, `SleepUi`) is no later than what is in force, unless the task has
  been told to look again: the snapshot is stale only with `recheck` set.
* `Session`. `StepInv` says for each step of the main task what was checked on the
  way there; `TableInv` that a wallet which no source has claimed is alone in the
  table; `LeftInv` which steps a screen left with KEY3 cannot reach.
* `PinExchange`. `CounterInv`: the counter of every record a start may find is
  ahead of all that were sent with its unit key, and between its commit and the
  request the record is alone (`Reserved`). `TurnInv`: an exchange is in one of
  seven phases, each of which says where its one message is and which clients
  may act; `OwnScreen` follows although no lock is taken.
* `SignPsbt`. `RecordInv` and `PolicyInv` say what the flags mean for the inputs
  met so far, in any order (`FlagsFacts`, `FlagsUsual`); `PassInv` and `ShowInv`
  how far the pass and the screens have come.
* `QrScan`. `OneCollector` says of each part that is held that it is of the one
  header and in its place, and `BlockFits` that a part accepted lies inside the
  buffer (the product of its index and the block); `Ended` says what may have ended
  a scan, and `AtRest` that nothing of one is left when nobody waits for it, so that
  no part goes from one scan into the next.
* `SignTx`. `AnswersInv`: a message is silent, has one plain reply or the signature
  it asked for, and how many messages there are in each phase; `InputInv`: an
  amount is the coin's unless the one input's own signature covers it; `SumInv`:
  with true amounts, what the messages add up to is what is spent. `spent` is a
  history variable so that the last needs no induction over a sum; the sum of the
  outputs is never taken apart.

The proofs changed the models in these places. `CountersRise` excepted only the last
reset that was cut off, and is false when two are; it now excepts each, and TLC runs
with two cuts. In `Session`, `SignPsbt` and `SignTx` a `CASE`
whose guards overlap, which TLC reads in order and logic does not, became an `IF`.
In `QrScan` the parts are extended by a function of their own (`WithPart`).

### Only model-checked

* Liveness under fairness, which is outside TLAPS: `MarkIsMet`, `EscapeArrives`,
  `ExchangeEnds`, `ScanEnds`, and of `RepeatsFollowThumb` the parts `LetGoStops` and
  `HeldKeepsRepeating`. Every invariant and every safety property of an action that
  a passing run checks is also a theorem.
* That `spent` and `Total` are sums, which their definitions say.

## 5. Not modelled

Cryptography (keys are equal or not), parsing and layout, drawing, the drivers,
and everything not built for the Pi. `PROJECT.json` gives the reason for each
component. The modules cover a small share of the repository's lines, because
most of them are such code: vendored libraries (quirc, miniz, nanopb, the
display and radio back-ends), fonts and word lists, screens and menus, parsers
and encoders, and the tests. They have no order of events to get wrong, or their
inputs are too large for TLC to enumerate.

Within the modelled components:

* `PinWallet`: temporary wallets and the source of a wallet (in `Session`).
* `InputGate`: the retry of a post to a full queue, the gate's drop log.
* `IdleTimer`: `idletimer_stop` and `idle_state`.
* `SignPsbt`: PSETs; a reply in several chunks, whose loop asserts when the
  length is a multiple of the chunk; Green's csv scripts, which
  `verify_ga_script_matches` looks for when there is a recovery key, where its
  comment (`sign_psbt.c:183`) says that it is not done then.
* `SignTx`: `sign_liquid_tx`.
* `QrScan`: pictures taken by a click or for entropy; `camera_stop`, which the
  stop of libjade calls and whose flag the camera task sets after it has started.

The gate's two stated limits (`input_gate.h:62-73`) are limits of the properties
too: a job that a screen's own task posts after the press returned is not
counted as the press's, and the screen is compared at the decision, not when
`libjade_input` runs.

## 6. Plan

Done: the store, the PIN wallet, the gate, the buttons, the idle timer, the
session, the PIN exchange, both signing calls and scanning, with their proofs.
Left:

1. `Lifecycle`: the stop of libjade against tasks that wait (the wake-up of
   `sync_wait_event`, an event queue that is not empty at the next start,
   `camera_stop` before the camera task has set its flag).
2. `Wire`: partial messages, the timeout that discards them, the bytes kept for
   the next message. `SensitiveStack`; HOTP counters; registrations.
