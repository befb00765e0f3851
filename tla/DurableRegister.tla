-------------------------- MODULE DurableRegister --------------------------
(***************************************************************************)
(* What the settings store promises to libjade: a register whose value is  *)
(* a whole settings blob, named by its generation.  A write that returned  *)
(* true survives; one that returned false, or was cut short, leaves either *)
(* the value held or that of an attempt made since; an erase that returned *)
(* true leaves nothing.  The promise lapses (solid is FALSE) while an      *)
(* erase is under way or has failed, and when a medium fault hid a slot;   *)
(* the next acknowledged write or clean start renews it.                   *)
(***************************************************************************)
EXTENDS Naturals

CONSTANT Generations    \* a set of naturals with 0, which stands for "no settings"

VARIABLES
    may,     \* the generations that a start could find now
    held,    \* the generation last acknowledged or read
    solid,   \* the promise is in force
    erased   \* an erase was acknowledged and nothing written since

regVars == <<may, held, solid, erased>>

Init ==
    /\ may = {0}
    /\ held = 0
    /\ solid = TRUE
    /\ erased = FALSE

\* A write begins, goes on, fails or is cut short: a start finds the value
\* held or that of an attempt made since.  Once the promise has lapsed the
\* step may also uncover older generations.
Attempt ==
    /\ may' \in (SUBSET Generations) \ {{}}
    /\ solid => \A m \in may' : m >= held
    /\ erased' \in {FALSE, erased}
    /\ erased' => may' = may
    /\ UNCHANGED <<held, solid>>

\* The power is cut: one of the possible values becomes the only one.
Crash ==
    /\ \E m \in may : may' = {m}
    /\ UNCHANGED <<held, solid, erased>>

\* A write is acknowledged.
Commit(g) ==
    /\ may' = {g}
    /\ held' = g
    /\ solid' = TRUE
    /\ UNCHANGED erased

\* A start reads the only value there is.
Reopen ==
    /\ may = {held'}
    /\ solid' = TRUE
    /\ UNCHANGED <<may, erased>>

\* The promise lapses: an erase begins, a slot could not be read, or a failed
\* flush left the other slot in doubt.
Lapse ==
    /\ held' \in Generations
    /\ solid' = FALSE
    /\ may' \in (SUBSET Generations) \ {{}}
    /\ erased => may' = may
    /\ UNCHANGED erased

\* An erase is acknowledged.
Erase ==
    /\ may' = {0}
    /\ erased' = TRUE
    /\ UNCHANGED <<held, solid>>

Next ==
    \/ Attempt
    \/ \E g \in Generations : Commit(g)
    \/ Crash
    \/ Reopen
    \/ Lapse
    \/ Erase

Spec == Init /\ [][Next]_regVars

============================================================================
