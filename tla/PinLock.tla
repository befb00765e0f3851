------------------------------ MODULE PinLock ------------------------------
(***************************************************************************)
(* What the PIN-protected wallet promises to its owner: a lock on the seed *)
(* that is stored.  It opens to the last PIN set and to no other; an       *)
(* attempt is off the card before the key is tried, so that no power cut   *)
(* gives one back; and only who holds the keys, those of an opened wallet  *)
(* or of a new one, gets attempts back, sets a PIN or stores a seed.  What *)
(* fails or is cut short can only take seeds and attempts away, with one   *)
(* exception: a factory reset may bring back what was stored before.       *)
(***************************************************************************)
EXTENDS Naturals

CONSTANTS
    Tries,   \* the wrong keys that may be tried in a row
    Pins,    \* the keys of the PINs that may be set
    None     \* a key that fits nothing

VARIABLES
    pin,     \* the key of the last PIN set
    given,   \* the key in hand
    seals,   \* the keys of the seeds that a start may find
    past,    \* the keys of seeds stored before, still kept somewhere
    offers,  \* the numbers of attempts at them that a start may offer
    wrong,   \* the wrong keys tried since attempts were last given
    lock     \* "locked"; "proved": the key was right; "fresh": a new wallet's
             \* keys are held; "open": the stored wallet's are

lockVars == <<pin, given, seals, past, offers, wrong, lock>>

Holds == lock \in {"fresh", "open"}

Init ==
    /\ pin = None
    /\ given = None
    /\ seals = {}
    /\ past = {}
    /\ offers = {}
    /\ wrong = 0
    /\ lock = "locked"

\* What is kept of the past was once a seal.
Keeps == past' \subseteq past \cup seals

\* The wallet is locked, erased or written back as it is; the power is cut; a
\* commit succeeds or fails, which may leave either of two records.
Fade ==
    /\ seals' \subseteq seals
    /\ \A o \in offers' : \E p \in offers : o <= p
    /\ lock' \in {lock, "locked"}
    /\ given' \in {given, None}
    /\ Keeps
    /\ UNCHANGED <<pin, wrong>>

\* A factory reset is begun: until it is done, either generation may be found,
\* and the older one offers attempts that were used up since.
Reset ==
    /\ lock # "proved"
    /\ seals' \subseteq seals \cup past
    /\ offers' \subseteq 1 .. Tries
    /\ wrong' = 0
    /\ Keeps
    /\ UNCHANGED <<pin, given, lock>>

\* A PIN is entered.
Give ==
    /\ lock = "locked"
    /\ given' \in Pins \cup {None}
    /\ UNCHANGED <<pin, seals, past, offers, wrong, lock>>

\* A wrong key is tried; the attempt was paid for on the card.
Wrong ==
    /\ \E seal \in seals : seal # given
    /\ wrong' = wrong + 1
    /\ wrong' <= Tries
    /\ \A o \in offers : o + wrong' <= Tries
    /\ UNCHANGED <<pin, given, seals, past, offers, lock>>

\* The key is right, and is that of the last PIN set unless the wallet is open
\* already; the attempts are given back.
Right ==
    /\ lock \in {"locked", "open"}
    /\ given \in seals
    /\ lock = "locked" => given = pin
    /\ lock' = IF lock = "locked" THEN "proved" ELSE lock
    /\ seals' = seals
    /\ offers' \subseteq 1 .. Tries
    /\ wrong' = 0
    /\ Keeps
    /\ UNCHANGED <<pin, given>>

Open ==
    /\ lock = "proved"
    /\ lock' = "open"
    /\ UNCHANGED <<pin, given, seals, past, offers, wrong>>

\* A new wallet is made.
Begin ==
    /\ lock = "locked"
    /\ lock' = "fresh"
    /\ UNCHANGED <<pin, given, seals, past, offers, wrong>>

\* A PIN is set, whose key never sealed anything.
SetPin ==
    /\ Holds
    /\ pin' \in Pins \ (seals \cup past)
    /\ UNCHANGED <<given, seals, past, offers, wrong, lock>>

\* The attempts are given to the seed that is about to be stored.
Renew ==
    /\ Holds
    /\ pin \notin seals
    /\ seals' \subseteq seals
    /\ offers' \subseteq 1 .. Tries
    /\ wrong' = 0
    /\ Keeps
    /\ UNCHANGED <<pin, given, lock>>

\* The seed is stored under the key of the PIN, or may have been.
Store ==
    /\ Holds
    /\ wrong = 0
    /\ seals' \subseteq seals \cup {pin}
    /\ offers' \subseteq 1 .. Tries
    /\ Keeps
    /\ UNCHANGED <<pin, given, wrong, lock>>

\* A wallet counts as stored once its seed is all that a start can find.
Keep ==
    /\ Holds
    /\ seals = {pin}
    /\ lock' = "open"
    /\ Keeps
    /\ UNCHANGED <<pin, given, seals, offers, wrong>>

Next == Fade \/ Reset \/ Give \/ Wrong \/ Right \/ Open \/ Begin \/ SetPin \/ Renew \/ Store \/ Keep

Spec == Init /\ [][Next]_lockVars

============================================================================
