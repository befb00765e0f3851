----------------------------- MODULE IdleTimer -----------------------------
(***************************************************************************)
(* The idle timer (main/idletimer.c): the task that turns the panel off    *)
(* after the screen timeout and restarts the device, wiping its wallets,   *)
(* after the idle timeout, against the threads that register activity and  *)
(* the screens that change the timeouts.                                   *)
(*                                                                         *)
(* The Pi reports its USB as powered (power/minimal.inc), so an idle       *)
(* device restarts when a wallet is loaded and otherwise only goes dark.   *)
(* A unit of the clock is the slice in which idletimer_delay sleeps.  The  *)
(* threads take no time: the clock waits for the task to sleep.            *)
(***************************************************************************)
EXTENDS Naturals

CONSTANTS
    Threads,          \* the threads that register ui activity
    Period,           \* TIMEOUT_SLEEP_PERIOD_SECS
    Warning,          \* KEEP_AWAKE_WARNING_SECS
    Forever,          \* UINT16_MAX: no timeout
    IdleTimeouts,     \* the values storage_get_idle_timeout may return
    ScreenTimeouts,   \* the values storage_get_screen_timeout may return
    Overrides,        \* the values of min_timeout_override_secs
    MaxTime,          \* bound: the clock
    MaxChanges        \* bound: changes of a timeout

\* No timeout is zero (idletimer_init stores the defaults); an idle timeout is
\* not shorter than the checking period (the menu starts at one minute), nor is
\* the period shorter than the warning (60 and 10 seconds).
ASSUME TimesAssumption ==
    /\ Period \in Nat \ {0} /\ Warning \in 1 .. Period /\ MaxTime \in Nat /\ MaxChanges \in Nat
    /\ Forever \in Nat /\ Forever > MaxTime
    /\ IdleTimeouts \subseteq Period .. Forever
    /\ ScreenTimeouts \subseteq 1 .. Forever
    /\ Overrides \subseteq 0 .. MaxTime

VARIABLES
    clock,                        \* xTaskGetTickCount
    last_activity_registered,
    last_ui_activity_registered,
    min_timeout_override_secs,
    idle_timeout, screen_timeout, \* the settings
    screen_dimmed,
    lit,                          \* the backlight is on
    recheck,                      \* idletimer_recheck_requested
    keys,                         \* a wallet is loaded
    task,                         \* the idle task and its locals
    reg,                          \* thread -> where it is in register_activity
    changed,                      \* history: when a timeout last changed
    changes                       \* history: how often

activity == <<last_activity_registered, last_ui_activity_registered>>
settings == <<min_timeout_override_secs, idle_timeout, screen_timeout, changed, changes>>
screen   == <<screen_dimmed, lit>>
vars     == <<clock, activity, settings, screen, recheck, keys, task, reg>>

Larger(a, b) == IF a < b THEN b ELSE a

----------------------------------------------------------------------------
\* The idle task with none of the loop's locals in use: checktime, the two
\* projections (ui is the screen's), what is left of a sleep or of the warning,
\* whether the warning was acted on, and whether it dims for the idle timeout.
NewPass(step) ==
    [pc |-> step, checktime |-> 0, projected |-> 0, ui |-> 0, left |-> 0,
     acted |-> FALSE, idle |-> FALSE]

Init ==
    /\ clock = 0
    /\ last_activity_registered = 0
    /\ last_ui_activity_registered = 0
    /\ min_timeout_override_secs = 0
    /\ idle_timeout \in IdleTimeouts
    /\ screen_timeout \in ScreenTimeouts
    /\ screen_dimmed = FALSE
    /\ lit = TRUE
    /\ recheck = FALSE
    /\ keys = FALSE
    /\ task = NewPass("check")
    /\ reg = [t \in Threads |-> "none"]
    /\ changed = 0
    /\ changes = 0

\* The process has not been restarted.
Running == task.pc # "down"

Goto(step) == task' = [task EXCEPT !.pc = step]

----------------------------------------------------------------------------
(* set_screen_dimmed: the backlight first, then the flag.                  *)

\* Mutant of SetDimmed: the flag first.
SetDimmedFlagFirst(half, dimmed) ==
    IF half = 2 THEN lit' = ~dimmed /\ UNCHANGED screen_dimmed
                ELSE screen_dimmed' = dimmed /\ UNCHANGED lit

SetDimmed(half, dimmed) ==
    IF half = 1 THEN lit' = ~dimmed /\ UNCHANGED screen_dimmed
                ELSE screen_dimmed' = dimmed /\ UNCHANGED lit

----------------------------------------------------------------------------
(* idletimer_register_activity, and the changes of the timeouts.           *)

Register(t) ==
    /\ Running
    /\ reg[t] = "none"
    /\ last_activity_registered' = clock
    /\ last_ui_activity_registered' = clock
    /\ reg' = [reg EXCEPT ![t] = "registered"]
    /\ UNCHANGED <<clock, settings, screen, recheck, keys, task>>

\* The screen is lit: the press goes on to the gui, where a warning sees it.
PassOn(t) ==
    /\ Running
    /\ reg[t] = "registered"
    /\ ~screen_dimmed
    /\ reg' = [reg EXCEPT ![t] = "none"]
    /\ task' = IF task.pc = "warning" THEN [task EXCEPT !.acted = TRUE] ELSE task
    /\ UNCHANGED <<clock, activity, settings, screen, recheck, keys>>

\* The screen is dark: the press turns it on and goes no further.
Wake(t) ==
    /\ Running
    /\ reg[t] = "registered"
    /\ screen_dimmed
    /\ SetDimmed(1, FALSE)
    /\ reg' = [reg EXCEPT ![t] = "waking"]
    /\ UNCHANGED <<clock, activity, settings, recheck, keys, task>>

\* Mutant of Woken: the sleeping task is not told.
WokenUntold(t) ==
    /\ Running
    /\ reg[t] = "waking"
    /\ SetDimmed(2, FALSE)
    /\ reg' = [reg EXCEPT ![t] = "none"]
    /\ UNCHANGED <<clock, activity, settings, recheck, keys, task>>

Woken(t) ==
    /\ Running
    /\ reg[t] = "waking"
    /\ SetDimmed(2, FALSE)
    /\ recheck' = TRUE
    /\ reg' = [reg EXCEPT ![t] = "none"]
    /\ UNCHANGED <<clock, activity, settings, keys, task>>

\* A message was handled: not ui activity.
Message ==
    /\ Running
    /\ last_activity_registered' = clock
    /\ UNCHANGED <<clock, last_ui_activity_registered, settings, screen, recheck, keys, task, reg>>

\* A wallet is loaded, in the course of a press or of a message.
LoadWallet ==
    /\ Running
    /\ last_activity_registered = clock
    /\ keys' = TRUE
    /\ UNCHANGED <<clock, activity, settings, screen, recheck, task, reg>>

\* A timeout changes: the settings screens and idletimer_set_min_timeout_secs
\* store it and then end the task's sleep.
Change ==
    /\ Running
    /\ changes < MaxChanges
    /\ changes' = changes + 1
    /\ changed' = clock
    /\ \/ idle_timeout' \in IdleTimeouts /\ UNCHANGED <<screen_timeout, min_timeout_override_secs>>
       \/ screen_timeout' \in ScreenTimeouts /\ UNCHANGED <<idle_timeout, min_timeout_override_secs>>
       \/ min_timeout_override_secs' \in Overrides /\ UNCHANGED <<idle_timeout, screen_timeout>>
    /\ recheck' = TRUE
    /\ UNCHANGED <<clock, activity, screen, keys, task, reg>>

----------------------------------------------------------------------------
(* idletimer_task.                                                         *)

\* The top of the loop: the timeout, the last activity and the time are read.
Check ==
    LET timeout == Larger(idle_timeout, min_timeout_override_secs)
        at      == last_activity_registered + timeout
        expired == timeout # Forever /\ at <= clock
    IN  /\ task.pc = "check"
        /\ task' = [task EXCEPT !.pc = IF expired THEN "expired" ELSE "screen",
                                !.checktime = clock, !.projected = at]
        /\ UNCHANGED <<clock, activity, settings, screen, recheck, keys, reg>>

\* With a wallet loaded the user gets a last chance.
Warn ==
    /\ task.pc = "expired"
    /\ keys
    /\ task' = [task EXCEPT !.pc = "warning", !.left = Warning, !.acted = FALSE]
    /\ UNCHANGED <<clock, activity, settings, screen, recheck, keys, reg>>

\* Without one the screen goes dark.
IdleDims ==
    /\ task.pc = "expired"
    /\ ~keys
    /\ IF screen_dimmed THEN Goto("screen") /\ UNCHANGED screen
       ELSE /\ task' = [task EXCEPT !.pc = "dimming", !.idle = TRUE]
            /\ SetDimmed(1, TRUE)
    /\ UNCHANGED <<clock, activity, settings, recheck, keys, reg>>

WarningEnds ==
    /\ task.pc = "warning"
    /\ task.acted \/ task.left = 0
    /\ Goto("confirm")
    /\ UNCHANGED <<clock, activity, settings, screen, recheck, keys, reg>>

\* A press on the warning, or later activity, cancels.
Cancelled ==
    /\ task.pc = "confirm"
    /\ task.acted \/ last_activity_registered > task.checktime
    /\ task' = NewPass("check")
    /\ UNCHANGED <<clock, activity, settings, screen, recheck, keys, reg>>

\* keychain_clear, then esp_restart.
Restart ==
    /\ task.pc = "confirm"
    /\ ~task.acted
    /\ last_activity_registered <= task.checktime
    /\ lit' = FALSE
    /\ keys' = FALSE
    /\ Goto("down")
    /\ UNCHANGED <<clock, activity, settings, screen_dimmed, recheck, reg>>

\* The screen timeout, and the last ui activity, are read ...
ReadScreen ==
    /\ task.pc = "screen"
    /\ task' = [task EXCEPT
          !.pc = "dim",
          !.ui = IF screen_timeout = Forever THEN Forever + MaxTime
                 ELSE last_ui_activity_registered + Larger(screen_timeout, min_timeout_override_secs)]
    /\ UNCHANGED <<clock, activity, settings, screen, recheck, keys, reg>>

\* ... and then the flag.
Dim ==
    /\ task.pc = "dim"
    /\ IF ~screen_dimmed /\ task.ui <= task.checktime
       THEN /\ task' = [task EXCEPT !.pc = "dimming", !.idle = FALSE]
            /\ SetDimmed(1, TRUE)
       ELSE Goto("delay") /\ UNCHANGED screen
    /\ UNCHANGED <<clock, activity, settings, recheck, keys, reg>>

Dimmed ==
    /\ task.pc = "dimming"
    /\ SetDimmed(2, TRUE)
    /\ Goto(IF task.idle THEN "screen" ELSE "delay")
    /\ UNCHANGED <<clock, activity, settings, recheck, keys, reg>>

\* Mutant of Sleep: until the projection, however far.
SleepUncapped(next) ==
    IF task.checktime < next THEN next - task.checktime ELSE Period

\* How long to sleep when next is the earlier projection.
Sleep(next) ==
    IF task.checktime < next /\ next < task.checktime + Period
    THEN next - task.checktime ELSE Period

Delay ==
    LET next == IF ~screen_dimmed /\ task.ui < task.projected THEN task.ui ELSE task.projected
    IN  /\ task.pc = "delay"
        /\ task' = [NewPass("sleep") EXCEPT !.left = Sleep(next)]
        /\ UNCHANGED <<clock, activity, settings, screen, recheck, keys, reg>>

\* idletimer_delay: a recheck, or the end of the sleep.
SleepEnds ==
    /\ task.pc = "sleep"
    /\ recheck \/ task.left = 0
    /\ recheck' = (recheck /\ task.left = 0)
    /\ task' = NewPass("check")
    /\ UNCHANGED <<clock, activity, settings, screen, keys, reg>>

SliceBegins ==
    /\ task.pc = "sleep"
    /\ ~recheck
    /\ task.left > 0
    /\ Goto("slice")
    /\ UNCHANGED <<clock, activity, settings, screen, recheck, keys, reg>>

\* Time passes while the task sleeps and the other threads are done.
Tick ==
    /\ clock < MaxTime
    /\ \A t \in Threads : reg[t] = "none"
    /\ task.left > 0
    /\ \/ task.pc = "slice"
       \/ task.pc = "warning" /\ ~task.acted
    /\ clock' = clock + 1
    /\ task' = [task EXCEPT !.left = @ - 1,
                            !.pc = IF @ = "slice" THEN "sleep" ELSE @]
    /\ UNCHANGED <<activity, settings, screen, recheck, keys, reg>>

----------------------------------------------------------------------------
Next ==
    \/ \E t \in Threads : Register(t) \/ PassOn(t) \/ Wake(t) \/ Woken(t)
    \/ Message \/ LoadWallet \/ Change
    \/ Check \/ Warn \/ IdleDims \/ WarningEnds \/ Cancelled \/ Restart
    \/ ReadScreen \/ Dim \/ Dimmed \/ Delay \/ SleepEnds \/ SliceBegins
    \/ Tick

Spec == Init /\ [][Next]_vars

----------------------------------------------------------------------------
(* Properties.                                                             *)

Steps == {"check", "expired", "warning", "confirm", "down", "screen", "dim", "dimming", "delay",
          "sleep", "slice"}

\* Type correctness.  The task never sleeps longer than its period.
TypeOK ==
    /\ clock \in 0 .. MaxTime
    /\ last_ui_activity_registered \in 0 .. last_activity_registered
    /\ last_activity_registered \in 0 .. clock
    /\ min_timeout_override_secs \in Overrides \cup {0}
    /\ idle_timeout \in IdleTimeouts /\ screen_timeout \in ScreenTimeouts
    /\ screen_dimmed \in BOOLEAN /\ lit \in BOOLEAN /\ recheck \in BOOLEAN /\ keys \in BOOLEAN
    /\ task.pc \in Steps /\ task.checktime \in 0 .. clock
    /\ task.left \in 0 .. (IF task.pc \in {"sleep", "slice"} THEN Period ELSE Larger(Period, Warning))
    /\ reg \in [Threads -> {"none", "registered", "waking"}]
    /\ changed \in 0 .. clock /\ changes \in 0 .. MaxChanges

\* "UI activity ensures screen fully on" (idletimer.c:162).  Whenever nobody is
\* switching it, the backlight is off exactly when the flag says so: a dark
\* screen always wakes at the next press, and a press that is passed on was made
\* on a lit one (set_screen_dimmed, idletimer_register_activity).  It holds with
\* one thread registering ui activity, and not with the camera's next to it.
DarkWakes ==
    task.pc \notin {"dimming", "down"} /\ (\A t \in Threads : reg[t] # "waking") => lit = ~screen_dimmed

\* What a timeout of secs that counts from last is due at, a change of the
\* timeouts being seen within a slice.
Due(last, secs) == Larger(last + Larger(secs, min_timeout_override_secs), changed + 1)

\* The screen goes dark within a slice of its timeout, however the sleeps,
\* wake-ups, warnings and changes fall; a warning on display holds it up.
DimsOnTime ==
    task.pc = "slice" /\ screen_timeout # Forever
        => screen_dimmed \/ clock <= Due(last_ui_activity_registered, screen_timeout)

\* A loaded wallet does not outlive the idle timeout by more than the warning,
\* whatever the screen's timeout makes the task wake for (idletimer_task).
RestartsOnTime ==
    keys /\ idle_timeout # Forever /\ task.pc \in {"slice", "warning"}
        => clock <= Due(last_activity_registered, idle_timeout) + Warning

\* Neither timeout is missed.
TimeoutsKept == DimsOnTime /\ RestartsOnTime

============================================================================
