------------------------------ MODULE Buttons ------------------------------
(***************************************************************************)
(* The buttons of the HAT (pijade/host/buttons_gpio.c): buttons_wait turns *)
(* the edges the kernel queues into presses and the repeats of a direction *)
(* that is held down.  The input loop may call it late: edges wait in the  *)
(* queue while a press is dispatched, and carry the time they were made.   *)
(*                                                                         *)
(* Only differences of times matter to the code, so times are kept         *)
(* relative: a queued edge has an age, the repeat deadline is what is left *)
(* until it, and neither needs a bound on the clock.                       *)
(***************************************************************************)
EXTENDS Naturals, Sequences, FiniteSetsExt

CONSTANTS
    Directions,       \* the direction lines, by their index in LINES
    Keys,             \* KEY1, KEY2 and KEY3
    Select,           \* the press of the stick
    Delay, Interval,  \* BUTTONS_REPEAT_DELAY_MS, BUTTONS_REPEAT_INTERVAL_MS
    MaxQueued         \* bound: edges that wait to be read

NoLine == 0

ButtonsConstants ==
    /\ Directions \subseteq Nat \ {NoLine} /\ Directions # {}
    /\ NoLine \notin Keys \cup {Select}
    /\ Keys \cap Directions = {} /\ Select \notin Keys \cup Directions
    /\ Delay \in Nat \ {0} /\ Interval \in 1 .. Delay /\ MaxQueued \in Nat

ASSUME ButtonsAssumption == ButtonsConstants

Lines == Directions \cup Keys \cup {Select}

VARIABLES
    pc,            \* the loop polls, has seen poll time out, or has ended
    held,          \* held_pin and held_event: the direction that repeats
    left,          \* time until next_repeat_ns, zero when it has passed
    pressed_dirs,
    edges,         \* the kernel's edges, oldest first
    out,           \* what the last call returned
    down,          \* the lines that are down
    moved,         \* the lines with an edge in this unit of time
    hold,          \* direction -> how long its latest press has lasted
    keyed          \* history: a key was pressed since the stick was at rest

code == <<pc, held, left, pressed_dirs, out>>
buttonVars == <<code, edges, down, moved, hold, keyed>>

Capped(t) == IF t > Delay THEN Delay ELSE t

Nothing      == [event |-> NoLine, repeat |-> FALSE]
PressOf(l)   == [event |-> l, repeat |-> FALSE]
RepeatOf(l)  == [event |-> l, repeat |-> TRUE]

ButtonsInit ==
    /\ pc = "poll"
    /\ held = NoLine
    /\ left = 0
    /\ pressed_dirs = {}
    /\ edges = <<>>
    /\ out = Nothing
    /\ down = {}
    /\ moved = {}
    /\ hold = [d \in Directions |-> 0]
    /\ keyed = FALSE

----------------------------------------------------------------------------
(* The thumb and the kernel.  A line that is debounced has at most one     *)
(* edge in a unit of time.                                                 *)

Edge(l, falls) ==
    /\ l \notin moved
    /\ Len(edges) < MaxQueued
    /\ edges' = Append(edges, [line |-> l, falls |-> falls, age |-> 0])
    /\ moved' = moved \cup {l}
    /\ UNCHANGED <<code, keyed>>

PushDown(l) ==
    /\ l \notin down
    /\ down' = down \cup {l}
    /\ hold' = IF l \in Directions THEN [hold EXCEPT ![l] = 0] ELSE hold
    /\ Edge(l, TRUE)

LetGo(l) ==
    /\ l \in down
    /\ down' = down \ {l}
    /\ UNCHANGED hold
    /\ Edge(l, FALSE)

\* Time passes, but not between the end of a poll and the clock it reads.
Tick ==
    /\ pc # "expired"
    /\ left' = IF left = 0 THEN 0 ELSE left - 1
    /\ edges' = [i \in DOMAIN edges |-> [edges[i] EXCEPT !.age = Capped(@ + 1)]]
    /\ hold' = [d \in Directions |-> IF d \in down THEN Capped(hold[d] + 1) ELSE hold[d]]
    /\ moved' = {}
    /\ UNCHANGED <<pc, held, pressed_dirs, out, down, keyed>>

----------------------------------------------------------------------------
(* buttons_wait: poll runs out of time with no edge to read.               *)

\* Mutant of PollExpires: the deadline is served before the queue is looked at.
PollExpiresUnread ==
    /\ pc = "poll"
    /\ held # NoLine
    /\ left = 0
    /\ pc' = "expired"
    /\ UNCHANGED <<held, left, pressed_dirs, out, edges, down, moved, hold, keyed>>

\* poll's timeout is what is left until the repeat, so it ends no earlier; a
\* timeout of the caller's returns BUTTON_NONE and changes nothing.
PollExpires ==
    /\ pc = "poll"
    /\ edges = <<>>
    /\ held # NoLine
    /\ left = 0
    /\ pc' = "expired"
    /\ UNCHANGED <<held, left, pressed_dirs, out, edges, down, moved, hold, keyed>>

RepeatHeld ==
    /\ pc = "expired"
    /\ pc' = "poll"
    /\ out' = RepeatOf(held)
    /\ left' = Interval
    /\ UNCHANGED <<held, pressed_dirs, edges, down, moved, hold, keyed>>

----------------------------------------------------------------------------
(* buttons_wait: an edge is read.                                          *)

\* What is left of the full delay that starts when the edge was made.
FullDelay(edge) == Delay - edge.age

\* A rising edge.  The repeat passes to the first direction still down.
Released(edge) ==
    /\ pressed_dirs' = pressed_dirs \ {edge.line}
    /\ out' = Nothing
    /\ IF held # NoLine /\ held = edge.line
       THEN /\ held' = IF pressed_dirs' = {} THEN NoLine ELSE Min(pressed_dirs')
            /\ left' = IF pressed_dirs' = {} THEN 0 ELSE FullDelay(edge)
       ELSE UNCHANGED <<held, left>>

\* Mutant of Pressed: any line takes the repeat.
PressedAny(edge) ==
    /\ out' = PressOf(edge.line)
    /\ pressed_dirs' = pressed_dirs \cup ({edge.line} \cap Directions)
    /\ IF held = NoLine
       THEN held' = edge.line /\ left' = FullDelay(edge)
       ELSE UNCHANGED <<held, left>>

\* A falling edge.  A direction takes the repeat if no other has it, a key
\* ends it, and the press of the stick leaves it alone.
Pressed(edge) ==
    /\ out' = PressOf(edge.line)
    /\ CASE edge.line \in Directions ->
              /\ pressed_dirs' = pressed_dirs \cup {edge.line}
              /\ IF held = NoLine
                 THEN held' = edge.line /\ left' = FullDelay(edge)
                 ELSE UNCHANGED <<held, left>>
         [] edge.line \in Keys -> held' = NoLine /\ left' = 0 /\ UNCHANGED pressed_dirs
         [] OTHER -> UNCHANGED <<held, left, pressed_dirs>>

\* Mutant of ReadEdge: a deadline that has passed keeps the queue from being read.
ReadEdgeInTime ==
    /\ pc = "poll"
    /\ edges # <<>>
    /\ held # NoLine => left > 0
    /\ edges' = Tail(edges)
    /\ LET edge == Head(edges) IN
         /\ IF edge.falls THEN Pressed(edge) ELSE Released(edge)
         /\ keyed' = ((keyed \/ (edge.falls /\ edge.line \in Keys)) /\ pressed_dirs' # {})
    /\ UNCHANGED <<pc, down, moved, hold>>

ReadEdge ==
    /\ pc = "poll"
    /\ edges # <<>>
    /\ edges' = Tail(edges)
    /\ LET edge == Head(edges) IN
         /\ IF edge.falls THEN Pressed(edge) ELSE Released(edge)
         /\ keyed' = ((keyed \/ (edge.falls /\ edge.line \in Keys)) /\ pressed_dirs' # {})
    /\ UNCHANGED <<pc, down, moved, hold>>

\* poll, read or the clock fails: BUTTON_ERROR ends the input loop.
Fails ==
    /\ pc # "stopped"
    /\ pc' = "stopped"
    /\ UNCHANGED <<held, left, pressed_dirs, out, edges, down, moved, hold, keyed>>

ButtonsNext ==
    \/ \E l \in Lines : PushDown(l) \/ LetGo(l)
    \/ Tick
    \/ PollExpires
    \/ RepeatHeld
    \/ ReadEdge
    \/ Fails

ButtonsSpec == ButtonsInit /\ [][ButtonsNext]_buttonVars

\* The input loop goes on while it does not fail, and time passes.
FairSpec == ButtonsSpec /\ WF_buttonVars(Tick) /\ WF_buttonVars(PollExpires \/ RepeatHeld \/ ReadEdge)

----------------------------------------------------------------------------
(* Properties.                                                             *)

ButtonsTypeOK ==
    /\ pc \in {"poll", "expired", "stopped"}
    /\ held \in Directions \cup {NoLine}
    /\ left \in 0 .. Delay
    /\ pressed_dirs \subseteq Directions
    /\ edges \in Seq([line : Lines, falls : BOOLEAN, age : 0 .. Delay])
    /\ out \in [event : Lines \cup {NoLine}, repeat : BOOLEAN]
    /\ down \subseteq Lines
    /\ moved \subseteq Lines
    /\ hold \in [Directions -> 0 .. Delay]
    /\ keyed \in BOOLEAN

\* A repeat comes only of a direction that was held for the whole repeat delay,
\* however late the loop reads the edges: a tap never moves a selection twice.
\* The one moment the code cannot see is a release between the end of poll and
\* the repeat.
RepeatsWhatIsHeld ==
    [][RepeatHeld => held \in (down \cup moved) /\ hold[held] = Delay]_buttonVars

\* A direction that is down has the repeat or one beside it does, unless a key
\* was pressed since the stick was at rest: leaving a diagonal in either order
\* keeps the surviving direction repeating.
HeldHasOwner ==
    /\ held # NoLine => held \in pressed_dirs
    /\ (pressed_dirs # {} /\ held = NoLine) => keyed

\* Once the thumb is off the stick for good, the repeats end.
LetGoStops == <>[](down = {} /\ pc # "stopped") => <>[](held = NoLine /\ ~out.repeat)

\* A direction that has the repeat and stays down alone repeats for ever.
HeldKeepsRepeating ==
    \A d \in Directions :
        <>[](down = {d} /\ held = d /\ pc # "stopped") => []<>(pc = "expired") /\ <>[](out = RepeatOf(d))

\* The repeats follow the thumb: they have an owner, end with it, and last as
\* long as it stays.
RepeatsFollowThumb == []HeldHasOwner /\ LetGoStops /\ HeldKeepsRepeating

============================================================================
