---------------------------- MODULE PinExchange ----------------------------
(***************************************************************************)
(* Unlocking over QR codes.  The main task runs auth_user_process and the  *)
(* PIN client; a client task of its own (auth_qr_client_task) plays the    *)
(* companion app: it posts the request, shows what the main task answers   *)
(* as a QR code, scans the server's reply and posts it.  The two talk      *)
(* through two ring buffers and draw on one screen.                        *)
(*                                                                         *)
(* External: the PIN server, which accepts a request only if its replay    *)
(* counter is above every one it has seen from the unit, and the phone     *)
(* that carries QR codes to and fro, in any order and more than once.      *)
(***************************************************************************)
EXTENDS Integers, Sequences, FiniteSets, SequencesExt

CONSTANTS
    MaxClients,    \* bound: client tasks started
    MaxRequests,   \* bound: requests to the server
    MaxCuts,       \* bound: power cuts
    Failures       \* the storage steps that may fail: "counter", "unit", "store", "reencrypt"

ASSUME BoundsAssumption ==
    /\ {MaxClients, MaxRequests, MaxCuts} \subseteq Nat
    /\ Failures \subseteq {"counter", "unit", "store", "reencrypt"}

VARIABLES
    mem,       \* settings in memory: unit key, replay counter, whether there is a blob
    card,      \* the records a start may find
    before,    \* the record that the other slot may hold
    has_encrypted_blob, \* whether the device takes itself to have a PIN
    wallet,    \* in memory: "none", "new" (no PIN yet) or "open"
    change,    \* change_pin_requested
    waiting,   \* show_connect_screen with initialisation_source internal
    mpc,       \* the main task's step
    stage,     \* "get" or "set": the document asked of the server
    request,   \* the request whose ephemeral keys the main task holds
    shared_in,    \* the ring buffer into the main task
    internal_out, \* the ring buffer to the clients
    client,    \* the clients' steps
    item,      \* the request a client shows
    screen,    \* who set the current activity: 0 is the main task
    sent,      \* history: the requests, each with its unit key and counter
    taken,     \* the requests whose QR code the phone has
    replies,   \* the requests the server has answered
    cuts       \* history: power cuts, and the requests made before each reset that was not done

stored  == <<mem, card, before, has_encrypted_blob>>
main    == <<mpc, stage, request>>
tasks   == <<client, item>>
outside == <<taken, replies>>
vars    == <<stored, wallet, change, waiting, main, shared_in, internal_out, tasks, screen,
             sent, outside, cuts>>

----------------------------------------------------------------------------
Clients  == 1 .. MaxClients
Requests == 1 .. MaxRequests
Nothing  == [unit |-> 0, counter |-> 0, pin |-> FALSE]

In(kind, reply) == [kind |-> kind, reply |-> reply]
Out(kind, req)  == [kind |-> kind, request |-> req]

\* send_http_request_reply.
HttpRequest(n) == Out("http", n)

\* nvs_commit: the value is in memory whatever the outcome.
Commit(r, ok) ==
    /\ mem' = r
    /\ card' = IF ok THEN {r} ELSE card \cup {r}
    /\ IF ok THEN before' \in card ELSE UNCHANGED before

\* jade_process_push_in_message, and the pushes of a reply: both wait for room.
Post(m)  == shared_in' = Append(shared_in, m)
Reply(m) == internal_out' = Append(internal_out, m)

Main(step)      == mpc' = step
Client(c, step) == client' = [client EXCEPT ![c] = step]
Show(who)       == screen' = who

Init ==
    /\ mem = Nothing
    /\ card = {Nothing}
    /\ before = Nothing
    /\ has_encrypted_blob = FALSE
    /\ wallet = "none"
    /\ change = FALSE
    /\ waiting = FALSE
    /\ mpc = "home"
    /\ stage = "get"
    /\ request = 0
    /\ shared_in = <<>>
    /\ internal_out = <<>>
    /\ client = [c \in Clients |-> "none"]
    /\ item = [c \in Clients |-> 0]
    /\ screen = 0
    /\ sent = <<>>
    /\ taken = {}
    /\ replies = {}
    /\ cuts = [n |-> 0, resets |-> {}]

----------------------------------------------------------------------------
(* The power, and the factory reset.                                       *)

Volatile ==
    /\ has_encrypted_blob' = mem'.pin
    /\ wallet' = "none"
    /\ change' = FALSE
    /\ waiting' = FALSE
    /\ mpc' = "home"
    /\ stage' = "get"
    /\ request' = 0
    /\ shared_in' = <<>>
    /\ internal_out' = <<>>
    /\ client' = [c \in Clients |-> IF client[c] = "none" THEN "none" ELSE "done"]
    /\ item' = [c \in Clients |-> 0]
    /\ screen' = 0

\* The device restarts with what the card kept.
PowerCut ==
    /\ cuts.n < MaxCuts
    /\ cuts' = [cuts EXCEPT !.n = @ + 1]
    /\ \E r \in card : mem' = r /\ card' = {r} /\ before' \in {before} \cup (card \ {r})
    /\ Volatile
    /\ UNCHANGED <<sent, outside>>

\* offer_jade_reset: everything is erased and the device restarts.
FactoryReset ==
    /\ mpc = "home" /\ ~waiting /\ screen = 0
    /\ mem # Nothing
    /\ mem' = Nothing /\ card' = {Nothing} /\ before' = Nothing
    /\ Volatile
    /\ UNCHANGED <<sent, outside, cuts>>

\* settings_store_erase removes one slot after the other: until both are gone a
\* start may find the last generation, the one before it, or none.
HalfErased == card \cup {before, Nothing}

\* A slot is still there: the user is told, and the device goes on running with
\* empty maps.
FactoryResetFails ==
    /\ mpc = "home" /\ ~waiting /\ screen = 0
    /\ mem # Nothing
    /\ mem' = Nothing /\ card' = HalfErased
    /\ cuts' = [cuts EXCEPT !.resets = @ \cup {Len(sent)}]
    /\ UNCHANGED <<before, has_encrypted_blob, wallet, change, waiting, main, shared_in, internal_out,
                   tasks, screen, sent, outside>>

\* The reset is cut off.
FactoryResetCut ==
    /\ cuts.n < MaxCuts
    /\ cuts' = [n |-> cuts.n + 1, resets |-> cuts.resets \cup {Len(sent)}]
    /\ mpc = "home" /\ ~waiting /\ screen = 0
    /\ \E r \in HalfErased : mem' = r /\ card' = {r} /\ before' \in {before, r}
    /\ Volatile
    /\ UNCHANGED <<sent, outside>>

----------------------------------------------------------------------------
(* The home screen.                                                        *)

\* initialise_wallet on a device without a PIN wallet.
NewWallet ==
    /\ mpc = "home" /\ ~waiting /\ screen = 0
    /\ ~has_encrypted_blob /\ wallet = "none"
    /\ wallet' = "new"
    /\ UNCHANGED <<stored, change, waiting, main, shared_in, internal_out, tasks, screen, sent,
                   outside, cuts>>

\* Log out: the keys are cleared.
Logout ==
    /\ mpc = "home" /\ ~waiting /\ screen = 0
    /\ wallet = "open"
    /\ wallet' = "none"
    /\ UNCHANGED <<stored, change, waiting, main, shared_in, internal_out, tasks, screen, sent,
                   outside, cuts>>

\* A user starts an exchange seconds after the last one: every client has taken
\* what was there for it, and posted its cancel, by then.
Prompt ==
    \A c \in Clients :
        /\ client[c] # "cancel"
        /\ client[c] = "wait" => internal_out = <<>>

\* auth_qr_mode_ex: the client task is created and the main task returns to
\* its loop, which shows "Processing...".
StartClient ==
    /\ mpc = "home" /\ ~waiting /\ screen = 0
    /\ Prompt
    /\ \E c \in Clients :
          /\ client[c] = "none"
          /\ \A d \in Clients : d < c => client[d] # "none"
          /\ Client(c, "drain")
    /\ waiting' = TRUE

\* A locked wallet, or a new one to be saved.
Unlock ==
    /\ StartClient
    /\ wallet # "open"
    /\ has_encrypted_blob \/ wallet = "new"
    /\ UNCHANGED <<stored, wallet, change, main, shared_in, internal_out, item, screen, sent,
                   outside, cuts>>

\* handle_change_pin_qr: the request is noted and the session ended after the
\* client was started.
ChangePin ==
    /\ StartClient
    /\ wallet = "open"
    /\ change' = TRUE
    /\ wallet' = "none"
    /\ UNCHANGED <<stored, main, shared_in, internal_out, item, screen, sent, outside, cuts>>

----------------------------------------------------------------------------
(* dispatch_message: what the main task does with a message at home.       *)

Received(kind) ==
    /\ shared_in # <<>>
    /\ Head(shared_in).kind = kind
    /\ shared_in' = Tail(shared_in)

\* Back in the dispatcher after auth_user_process.
Finish ==
    /\ waiting' = FALSE
    /\ request' = 0
    /\ Main("home")

\* auth_user_process: an open wallet needs nothing, a stored one its PIN, a
\* new one a new PIN.  Nothing in memory and nothing stored is refused (the
\* model's user declines to enter a mnemonic here).
DispatchAuth ==
    /\ mpc = "home"
    /\ Received("auth")
    /\ IF wallet # "open" /\ (has_encrypted_blob \/ wallet = "new")
       THEN /\ Main("entry")
            /\ stage' = IF has_encrypted_blob THEN "get" ELSE "set"
            /\ wallet' = IF has_encrypted_blob THEN "none" ELSE wallet
            /\ Show(0)
            /\ UNCHANGED <<internal_out, waiting, request>>
       ELSE /\ Reply(Out("result", 0))
            /\ Finish
            /\ Show(0)
            /\ UNCHANGED <<stage, wallet>>
    /\ UNCHANGED <<stored, change, tasks, sent, outside, cuts>>

\* A 'pin' nobody waits for is rejected, a 'cancel' ignored.
DispatchOther ==
    /\ mpc = "home"
    /\ \/ Received("pin") /\ Reply(Out("error", 0))
       \/ Received("cancel") /\ UNCHANGED internal_out
    /\ Show(0)
    /\ UNCHANGED <<stored, wallet, change, waiting, main, tasks, sent, outside, cuts>>

----------------------------------------------------------------------------
(* auth_user_process: entering a PIN, and what follows the server's key.   *)

\* The main task sends an error and returns to the dispatcher, perhaps after
\* an error screen.
Rejected(step) ==
    /\ Reply(Out("error", 0))
    /\ IF step = "home" THEN Finish ELSE Main(step) /\ UNCHANGED <<waiting, request>>
    /\ Show(0)

\* The screen waits for the user only if it is the one on show.
Abandon ==
    /\ mpc = "entry" /\ screen = 0
    /\ \/ stage = "set" /\ wallet = "open" /\ Rejected("failed")
       \/ Rejected("home")
    /\ UNCHANGED <<stored, wallet, change, stage, shared_in, tasks, sent, outside, cuts>>

EnterPin ==
    /\ mpc = "entry" /\ screen = 0
    /\ Len(sent) < MaxRequests
    /\ Main("counter")
    /\ UNCHANGED <<stored, wallet, change, waiting, stage, request, shared_in, internal_out,
                   tasks, screen, sent, outside, cuts>>

\* await_error: the user leaves the error screen.
LeaveError ==
    /\ mpc = "failed" /\ screen = 0
    /\ Finish
    /\ UNCHANGED <<stored, wallet, change, stage, shared_in, internal_out, tasks, screen, sent,
                   outside, cuts>>

\* keychain_load with the key of a wrong PIN, or without a blob.
WrongPin ==
    /\ mpc = "key" /\ stage = "get"
    /\ Reply(Out("result", 0))
    /\ Main("failed")
    /\ Show(0)
    /\ UNCHANGED <<stored, wallet, change, waiting, stage, request, shared_in, tasks, sent,
                   outside, cuts>>

\* The passphrase is declined with KEY3, or the derivation fails.
NotOpened ==
    /\ mpc = "key" /\ stage = "get" /\ mem.pin
    /\ Rejected("home") \/ Rejected("failed")
    /\ UNCHANGED <<stored, wallet, change, stage, shared_in, tasks, sent, outside, cuts>>

\* keychain_load: the wallet opens; a requested change asks for a new PIN,
\* unless the question whether to is answered with KEY3 (an error) or No.
RightPin ==
    /\ mpc = "key" /\ stage = "get" /\ mem.pin
    /\ wallet' = "open"
    /\ Show(0)
    /\ \/ /\ change
          /\ Main("entry") /\ stage' = "set"
          /\ UNCHANGED <<change, internal_out, waiting, request>>
       \/ /\ change
          /\ Rejected("home")
          /\ UNCHANGED <<change, stage>>
       \/ /\ Reply(Out("result", 0))
          /\ Finish
          /\ change' = FALSE
          /\ UNCHANGED stage
    /\ UNCHANGED <<stored, shared_in, tasks, sent, outside, cuts>>

\* keychain_store (a new wallet) or keychain_reencrypt (a changed PIN).
SavedOnly(ok, site) ==
    /\ mpc = "key" /\ stage = "set"
    /\ site = IF has_encrypted_blob THEN "reencrypt" ELSE "store"
    /\ ok \/ site \in Failures
    /\ Commit([mem EXCEPT !.pin = TRUE], ok)
    /\ Show(0)

\* On success the answer is sent and the request to change the PIN cleared.
Saved(site) ==
    /\ SavedOnly(TRUE, site)
    /\ has_encrypted_blob' = TRUE
    /\ wallet' = "open"
    /\ change' = FALSE
    /\ Reply(Out("result", 0))
    /\ Finish
    /\ UNCHANGED <<stage, shared_in, tasks, sent, outside, cuts>>

\* A failed store is answered, a failed re-encryption only shown.
NotSaved(site) ==
    /\ SavedOnly(FALSE, site)
    /\ Main("failed")
    /\ IF site = "store"
       THEN Reply(Out("error", 0))
       ELSE UNCHANGED internal_out
    /\ UNCHANGED <<has_encrypted_blob, wallet, change, waiting, stage, request, shared_in, tasks, sent,
                   outside, cuts>>

----------------------------------------------------------------------------
(* pinserver_interaction and get_pinserver_aeskey.                         *)

\* Mutant of NextCounter: the new value is never committed.
MutantNextCounter(ok) ==
    /\ mpc = "counter"
    /\ ok \/ "counter" \in Failures
    /\ UNCHANGED <<card, before, has_encrypted_blob>>
    /\ mem' = [mem EXCEPT !.counter = @ + 1]
    /\ IF ok THEN Main("unit") /\ UNCHANGED <<internal_out, waiting, request, screen>>
             ELSE Rejected("failed")
    /\ UNCHANGED <<wallet, change, stage, shared_in, tasks, sent, outside, cuts>>

\* storage_get_replay_counter: the next value is stored before this one is used.
Incremented == [mem EXCEPT !.counter = @ + 1]

\* generate_ephemeral_pinkeys.
NextCounter(ok) ==
    /\ mpc = "counter"
    /\ ok \/ "counter" \in Failures
    /\ Commit(Incremented, ok)
    /\ UNCHANGED has_encrypted_blob
    /\ IF ok THEN Main("unit") /\ UNCHANGED <<internal_out, waiting, request, screen>>
             ELSE Rejected("failed")
    /\ UNCHANGED <<wallet, change, stage, shared_in, tasks, sent, outside, cuts>>

\* Unit keys are drawn at random: a new one is none that was used before.
NewUnit == CHOOSE u \in 1 .. Len(sent) + 1 :
              u \notin {sent[i].unit : i \in DOMAIN sent}

\* pin_get_unit_privatekey: made and stored on demand.
UnitKey(ok) ==
    /\ mpc = "unit"
    /\ ok \/ "unit" \in Failures
    /\ IF mem.unit # 0
       THEN ok /\ UNCHANGED stored
       ELSE Commit([mem EXCEPT !.unit = NewUnit], ok) /\ UNCHANGED has_encrypted_blob
    /\ IF ok THEN Main("send") /\ UNCHANGED <<internal_out, waiting, request, screen>>
             ELSE Rejected("failed")
    /\ UNCHANGED <<wallet, change, stage, shared_in, tasks, sent, outside, cuts>>

\* Mutant of SendRequest: the counter of the request before is sent again.
MutantSendRequest ==
    /\ mpc = "send"
    /\ sent' = Append(sent, [unit |-> mem.unit, counter |-> mem.counter - 2])
    /\ request' = Len(sent')
    /\ Reply(HttpRequest(Len(sent')))
    /\ Main("await")
    /\ UNCHANGED <<stored, wallet, change, waiting, stage, shared_in, tasks, screen, outside, cuts>>

\* send_http_request_reply: the counter of this request is the one before the
\* one now stored.
SendRequest ==
    /\ mpc = "send"
    /\ sent' = Append(sent, [unit |-> mem.unit, counter |-> mem.counter - 1])
    /\ request' = Len(sent')
    /\ Reply(HttpRequest(Len(sent')))
    /\ Main("await")
    /\ UNCHANGED <<stored, wallet, change, waiting, stage, shared_in, tasks, screen, outside,
                   cuts>>

\* Mutant of Decrypts: the keys are kept from one request to the next.
MutantDecrypts(m) == m.reply # 0

\* handle_pin: only a reply made with this request's ephemeral keys decrypts.
Decrypts(m) == m.reply = request

NoParameters(m) == m.kind = "pin" /\ m.reply = 0

\* Mutant of PinArrives: the wait for the message does not block.
MutantPinArrives ==
    /\ mpc = "await"
    /\ \/ /\ shared_in # <<>>
          /\ Head(shared_in).kind # "cancel" /\ ~NoParameters(Head(shared_in))
          /\ shared_in' = Tail(shared_in)
          /\ IF Head(shared_in).kind = "pin" /\ Decrypts(Head(shared_in))
             THEN Main("key") /\ UNCHANGED <<internal_out, waiting, request, screen>>
             ELSE Rejected("failed")
       \/ shared_in = <<>> /\ UNCHANGED shared_in /\ Rejected("failed")
    /\ UNCHANGED <<stored, wallet, change, stage, tasks, sent, outside, cuts>>

\* Any other message, or a payload that does not decrypt, is an error.
PinArrives ==
    /\ mpc = "await"
    /\ shared_in # <<>>
    /\ Head(shared_in).kind # "cancel" /\ ~NoParameters(Head(shared_in))
    /\ shared_in' = Tail(shared_in)
    /\ IF Head(shared_in).kind = "pin" /\ Decrypts(Head(shared_in))
       THEN Main("key") /\ UNCHANGED <<internal_out, waiting, request, screen>>
       ELSE Rejected("failed")
    /\ UNCHANGED <<stored, wallet, change, stage, tasks, sent, outside, cuts>>

\* No parameters: the phone could not reach the server; the user is asked.
PinWithout ==
    /\ mpc = "await"
    /\ Received("pin")
    /\ NoParameters(Head(shared_in))
    /\ Main("retry")
    /\ Show(0)
    /\ UNCHANGED <<stored, wallet, change, waiting, stage, request, internal_out, tasks, sent,
                   outside, cuts>>

\* A cancel ends the exchange without an answer, on purpose; a changed PIN's
\* is followed by an error screen.
CancelArrives ==
    /\ mpc = "await"
    /\ Received("cancel")
    /\ IF stage = "set" /\ wallet = "open" THEN Main("failed") /\ UNCHANGED <<waiting, request>>
                                           ELSE Finish
    /\ Show(0)
    /\ UNCHANGED <<stored, wallet, change, stage, internal_out, tasks, sent, outside, cuts>>

\* The question is answered yes: a new interaction, with new keys and counter.
Retry ==
    /\ mpc = "retry" /\ screen = 0
    /\ Len(sent) < MaxRequests
    /\ Main("counter")
    /\ UNCHANGED <<stored, wallet, change, waiting, stage, request, shared_in, internal_out,
                   tasks, screen, sent, outside, cuts>>

\* No, or KEY3, which skips the error screen.
NoRetry ==
    /\ mpc = "retry" /\ screen = 0
    /\ Rejected("failed") \/ Rejected("home")
    /\ UNCHANGED <<stored, wallet, change, stage, shared_in, tasks, sent, outside, cuts>>

----------------------------------------------------------------------------
(* auth_qr_client_task.                                                    *)

\* Old messages are discarded one by one.
Drain(c) ==
    /\ client[c] = "drain"
    /\ IF internal_out = <<>>
       THEN Client(c, "post") /\ UNCHANGED internal_out
       ELSE internal_out' = Tail(internal_out) /\ UNCHANGED client
    /\ UNCHANGED <<stored, wallet, change, waiting, main, shared_in, item, screen, sent, outside,
                   cuts>>

PostAuth(c) ==
    /\ client[c] = "post"
    /\ Post(In("auth", 0))
    /\ Client(c, "wait")
    /\ UNCHANGED <<stored, wallet, change, waiting, main, internal_out, item, screen, sent,
                   outside, cuts>>

\* handle_outbound_reply: a request is shown, anything else ends the client.
TakeReply(c) ==
    /\ client[c] = "wait"
    /\ internal_out # <<>>
    /\ internal_out' = Tail(internal_out)
    /\ LET m == Head(internal_out)
       IN IF m.kind = "http"
          THEN Client(c, "show") /\ item' = [item EXCEPT ![c] = m.request] /\ Show(c)
          ELSE Client(c, "cancel") /\ UNCHANGED <<item, screen>>
    /\ UNCHANGED <<stored, wallet, change, waiting, main, shared_in, sent, outside, cuts>>

\* display_bcur_qr: the phone may take the code, and the user goes on to the scan.
PhoneTakes(c) ==
    /\ client[c] = "show" /\ screen = c
    /\ item[c] \notin taken
    /\ taken' = taken \cup {item[c]}
    /\ UNCHANGED <<stored, wallet, change, waiting, main, shared_in, internal_out, tasks, screen,
                   sent, replies, cuts>>

GoToScan(c) ==
    /\ client[c] = "show" /\ screen = c
    /\ Client(c, "scan")
    /\ UNCHANGED <<stored, wallet, change, waiting, main, shared_in, internal_out, item, screen,
                   sent, outside, cuts>>

\* scan_qr_post_in_message: any reply the phone holds, or one without parameters.
Scan(c) ==
    /\ client[c] = "scan" /\ screen = c
    /\ \E r \in replies \cup {0} : Post(In("pin", r))
    /\ Client(c, "wait")
    /\ UNCHANGED <<stored, wallet, change, waiting, main, internal_out, item, screen, sent,
                   outside, cuts>>

\* The scan is left, or the code is of another kind.
ScanFails(c) ==
    /\ client[c] = "scan" /\ screen = c
    /\ Client(c, "cancel")
    /\ UNCHANGED <<stored, wallet, change, waiting, main, shared_in, internal_out, item, screen,
                   sent, outside, cuts>>

\* Mutant of PostCancel: the client just ends.
MutantPostCancel(c) ==
    /\ client[c] = "cancel"
    /\ Client(c, "done")
    /\ UNCHANGED <<stored, wallet, change, waiting, main, shared_in, internal_out, item, screen,
                   sent, outside, cuts>>

\* The client's last act, whatever happened.
PostCancel(c) ==
    /\ client[c] = "cancel"
    /\ Post(In("cancel", 0))
    /\ Client(c, "done")
    /\ UNCHANGED <<stored, wallet, change, waiting, main, internal_out, item, screen, sent,
                   outside, cuts>>

\* External: the server answers a request if its counter is above all others
\* it has answered from the unit.
ServerAnswers ==
    /\ \E r \in taken \ replies :
          /\ \A s \in replies : sent[s].unit = sent[r].unit => sent[s].counter < sent[r].counter
          /\ replies' = replies \cup {r}
    /\ UNCHANGED <<stored, wallet, change, waiting, main, shared_in, internal_out, tasks, screen,
                   sent, taken, cuts>>

----------------------------------------------------------------------------
MainProgram ==
    \/ DispatchAuth \/ DispatchOther
    \/ WrongPin \/ NotOpened \/ RightPin
    \/ \E site \in {"store", "reencrypt"} : Saved(site) \/ NotSaved(site)
    \/ \E ok \in BOOLEAN : NextCounter(ok) \/ UnitKey(ok)
    \/ SendRequest
    \/ PinArrives \/ PinWithout \/ CancelArrives

\* Answers to the screens of an exchange.
MainUser == Abandon \/ EnterPin \/ LeaveError \/ Retry \/ NoRetry

ClientProgram(c) == Drain(c) \/ PostAuth(c) \/ TakeReply(c) \/ PostCancel(c)
ClientUser(c)    == GoToScan(c) \/ Scan(c) \/ ScanFails(c)

Home == NewWallet \/ Logout \/ Unlock \/ ChangePin \/ FactoryReset \/ FactoryResetFails

Next ==
    \/ MainProgram \/ MainUser \/ Home
    \/ \E c \in Clients : ClientProgram(c) \/ ClientUser(c) \/ PhoneTakes(c)
    \/ ServerAnswers
    \/ PowerCut \/ FactoryResetCut

Spec == Init /\ [][Next]_vars

\* The tasks are threads of their own, and a user who started an exchange
\* answers its screens (or the idle timer restarts the device, which ends it).
FairSpec ==
    /\ Spec
    /\ WF_vars(MainProgram)
    /\ WF_vars(MainUser)
    /\ \A c \in Clients : WF_vars(ClientProgram(c)) /\ WF_vars(ClientUser(c))

----------------------------------------------------------------------------
Records == [unit : 0 .. MaxRequests, counter : Nat, pin : BOOLEAN]

TypeOK ==
    /\ mem \in Records /\ card \in (SUBSET Records) \ {{}} /\ before \in Records
    /\ has_encrypted_blob \in BOOLEAN
    /\ wallet \in {"none", "new", "open"}
    /\ change \in BOOLEAN /\ waiting \in BOOLEAN
    /\ mpc \in {"home", "entry", "counter", "unit", "send", "await", "key", "retry", "failed"}
    /\ stage \in {"get", "set"}
    /\ request \in {0} \cup Requests
    /\ shared_in \in Seq([kind : {"auth", "pin", "cancel"}, reply : {0} \cup Requests])
    /\ internal_out \in Seq([kind : {"http", "result", "error"}, request : {0} \cup Requests])
    /\ client \in [Clients -> {"none", "drain", "post", "wait", "show", "scan", "cancel", "done"}]
    /\ item \in [Clients -> {0} \cup Requests]
    /\ screen \in {0} \cup Clients
    /\ sent \in Seq([unit : Requests, counter : Nat]) /\ Len(sent) <= MaxRequests
    /\ taken \subseteq Requests /\ replies \subseteq taken
    /\ cuts \in [n : 0 .. MaxCuts, resets : SUBSET (0 .. Len(sent))]

\* Requests made with one unit key carry rising counters, whatever power cuts
\* and failed commits come between them: the server never takes a new request
\* for a replay (storage_get_replay_counter).  A reset that is cut off or fails
\* between its two slots is the exception: it may bring an earlier counter back,
\* so that only the requests with none between them compare.
CountersRise ==
    \A i, j \in DOMAIN sent :
        i < j /\ sent[i].unit = sent[j].unit /\ ~(\E k \in cuts.resets : i <= k /\ k < j)
            => sent[i].counter < sent[j].counter

\* What the main task takes for the server's key is the answer to the request
\* it has just made, for this PIN (handle_pin); no reply of an earlier exchange,
\* scanned again or late, gets this far.
KeyIsOfThisRequest == mpc = "key" => request = Len(sent) /\ request \in replies

\* The two tasks share a screen and never compete for it: whichever waits for
\* the user has its own screen on show.  A task that waits on a screen that was
\* replaced would wait for ever.
OwnScreen ==
    /\ mpc \in {"entry", "retry", "failed"} => screen = 0
    /\ \A c \in Clients : client[c] \in {"show", "scan"} => screen = c

\* A client waiting for the main task has something to come: its own request is
\* on the way or in hand, or an answer is.  Failed actions are answered with an
\* error, too (docs/index.rst).
ClientIsAnswered ==
    \A c \in Clients : client[c] = "wait" =>
        \/ internal_out # <<>>
        \/ \E m \in ToSet(shared_in) : m.kind \in {"auth", "pin"}
        \/ mpc \notin {"home", "failed"}

\* Every client ends, and with it the wait of the main task for it.
ExchangeEnds ==
    /\ \A c \in Clients : (client[c] = "drain") ~> (client[c] = "done")
    /\ (mpc = "await") ~> (mpc # "await")

============================================================================
