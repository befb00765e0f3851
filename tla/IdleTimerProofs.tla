-------------------------- MODULE IdleTimerProofs --------------------------
(***************************************************************************)
(* Proofs about the idle timer: neither timeout is missed, whatever the    *)
(* settings and however many threads register activity; and, when a single *)
(* thread does, a dark screen always wakes at the next press.              *)
(***************************************************************************)
EXTENDS IdleTimer, TLAPS

----------------------------------------------------------------------------
(* The inductive invariant.                                                *)

Tasks == [pc : Steps, checktime : Nat, projected : Nat, ui : Nat, left : Nat,
          acted : BOOLEAN, idle : BOOLEAN]

Typed == TypeOK /\ task \in Tasks

\* The timeouts in force.
IdleSecs   == Larger(idle_timeout, min_timeout_override_secs)
ScreenSecs == Larger(screen_timeout, min_timeout_override_secs)
IdleDue    == Larger(last_activity_registered + IdleSecs, changed + 1)

\* No time passes while a thread is in register_activity.
RegisteredNow == \A t \in Threads : reg[t] # "none" => last_ui_activity_registered = clock

\* Nor in a pass of the loop, but for the warning.
PassNow == task.pc \in {"expired", "screen", "dim", "dimming", "delay"} => task.checktime = clock
WarningNow ==
    task.pc \in {"warning", "confirm"} =>
        /\ clock + task.left = task.checktime + Warning
        /\ task.acted => last_activity_registered = clock

\* What the pass has read is no later than what is in force, unless the task
\* has been told to look again.
ReadIdle ==
    /\ task.pc \in {"expired", "screen", "dim", "dimming", "delay"} /\ ~recheck =>
        task.projected <= last_activity_registered + IdleSecs
    /\ task.pc \in {"screen", "dim", "delay"} /\ ~recheck /\ ~screen_dimmed =>
        task.projected > task.checktime
    /\ task.pc \in {"screen", "dim", "dimming", "delay"} /\ keys /\ task.projected <= task.checktime =>
        last_activity_registered = clock
ReadUi ==
    /\ task.pc \in {"dim", "delay"} /\ ~recheck /\ ~screen_dimmed /\ screen_timeout # Forever =>
        task.ui <= last_ui_activity_registered + ScreenSecs
    /\ task.pc = "delay" /\ ~recheck /\ ~screen_dimmed => task.ui > task.checktime

\* The sleep ends before either timeout, unless the task is told to look again.
SleepIdle ==
    task.pc \in {"sleep", "slice"} /\ ~recheck /\ keys =>
        clock + task.left <= last_activity_registered + IdleSecs
SleepUi ==
    task.pc \in {"sleep", "slice"} /\ ~recheck /\ ~screen_dimmed /\ screen_timeout # Forever =>
        clock + task.left <= last_ui_activity_registered + ScreenSecs

\* A slice begins before either timeout.
SliceInTime ==
    /\ task.pc = "slice" /\ keys => clock < last_activity_registered + IdleSecs \/ changed = clock
    /\ task.pc = "slice" /\ ~screen_dimmed /\ screen_timeout # Forever =>
        clock <= last_ui_activity_registered + ScreenSecs \/ changed = clock

\* A loaded wallet is looked at in time, and the warning counts from there.
KeysInTime ==
    /\ keys /\ task.pc \notin {"warning", "confirm", "down"} => clock <= IdleDue
    /\ keys /\ task.pc = "warning" => clock + task.left <= IdleDue + Warning

TimeInv == RegisteredNow /\ PassNow /\ WarningNow /\ ReadIdle /\ ReadUi
           /\ SleepIdle /\ SleepUi /\ SliceInTime /\ KeysInTime

IInv == Typed /\ TimeInv

----------------------------------------------------------------------------
(* Numbers and flags.                                                      *)

\* The numbers of a state, and how they are ordered.
Numbered ==
    /\ Period \in Nat /\ Warning \in Nat /\ Forever \in Nat /\ MaxTime \in Nat
    /\ 0 < Warning /\ Warning <= Period /\ MaxTime < Forever
    /\ clock \in Nat /\ last_activity_registered \in Nat /\ last_ui_activity_registered \in Nat
    /\ changed \in Nat /\ screen_timeout \in Nat /\ idle_timeout \in Nat /\ changes \in Nat
    /\ last_ui_activity_registered <= last_activity_registered
    /\ last_activity_registered <= clock /\ clock <= MaxTime /\ changed <= clock
    /\ min_timeout_override_secs \in 0 .. MaxTime
    /\ IdleSecs \in Nat /\ IdleSecs >= Period /\ ScreenSecs \in Nat
    /\ IdleDue \in Nat /\ IdleDue >= changed + 1 /\ IdleDue >= last_activity_registered + IdleSecs
    /\ IdleDue = changed + 1 \/ IdleDue = last_activity_registered + IdleSecs
    /\ task.checktime \in Nat /\ task.projected \in Nat /\ task.ui \in Nat /\ task.left \in Nat
    /\ task.checktime <= clock

\* They follow from the types.
LEMMA Numbers ==
    ASSUME Typed
    PROVE  Numbered
<1>1. /\ Period \in Nat /\ Warning \in Nat /\ Forever \in Nat /\ MaxTime \in Nat
      /\ 0 < Warning /\ Warning <= Period /\ MaxTime < Forever
  BY TimesAssumption
<1>2. /\ clock \in Nat /\ last_activity_registered \in Nat /\ last_ui_activity_registered \in Nat
      /\ changed \in Nat /\ changes \in Nat
      /\ last_ui_activity_registered <= last_activity_registered
      /\ last_activity_registered <= clock /\ clock <= MaxTime /\ changed <= clock
  BY <1>1, TimesAssumption DEF Typed, TypeOK
<1>3. min_timeout_override_secs \in 0 .. MaxTime
  BY TimesAssumption DEF Typed, TypeOK
<1>4. idle_timeout \in Nat /\ idle_timeout >= Period /\ screen_timeout \in Nat
  BY TimesAssumption DEF Typed, TypeOK
<1>5. IdleSecs \in Nat /\ IdleSecs >= Period /\ ScreenSecs \in Nat
  BY <1>1, <1>3, <1>4 DEF IdleSecs, ScreenSecs, Larger
<1>6. /\ IdleDue \in Nat /\ IdleDue >= changed + 1 /\ IdleDue >= last_activity_registered + IdleSecs
      /\ IdleDue = changed + 1 \/ IdleDue = last_activity_registered + IdleSecs
  BY <1>2, <1>5 DEF IdleDue, Larger
<1>7. task.checktime \in Nat /\ task.projected \in Nat /\ task.ui \in Nat /\ task.left \in Nat
  BY DEF Typed, Tasks
<1>8. task.checktime <= clock
  BY <1>2 DEF Typed, TypeOK
<1> QED
  BY <1>1, <1>2, <1>3, <1>4, <1>5, <1>6, <1>7, <1>8 DEF Numbered

\* Sums of naturals.
LEMMA Sums ==
    /\ \A c, b \in Nat : c <= c + b /\ (b > 0 => c < c + b)
    /\ \A a, n, b, c \in Nat : n >= a => (c < a + b => c < n + b) /\ (c <= a + b => c <= n + b)
    /\ \A d, a, b \in Nat : d >= a + b => d >= a
    /\ \A b, n \in Nat : b >= n /\ n > 0 => b > 0
    /\ \A d, c \in Nat : d >= c + 1 => d >= c
OBVIOUS

\* A deadline does not move back when what it is counted from moves on.
LEMMA DueMovesOn ==
    \A d, e, a, n, b, g \in Nat :
        n >= a /\ e >= n + b /\ e >= g + 1 /\ (d = g + 1 \/ d = a + b) => e >= d
OBVIOUS

\* The flags of a state.
Flags ==
    screen_dimmed \in BOOLEAN /\ lit \in BOOLEAN /\ recheck \in BOOLEAN /\ keys \in BOOLEAN

\* Typing a state of the whole device: the numbers, the flags and the task.
LEMMA TypedParts ==
    ASSUME clock \in 0 .. MaxTime,
           last_ui_activity_registered \in 0 .. last_activity_registered,
           last_activity_registered \in 0 .. clock,
           min_timeout_override_secs \in Overrides \cup {0},
           idle_timeout \in IdleTimeouts, screen_timeout \in ScreenTimeouts,
           Flags, task \in Tasks, task.checktime \in 0 .. clock, task.left \in 0 .. Period,
           reg \in [Threads -> {"none", "registered", "waking"}],
           changed \in 0 .. clock, changes \in 0 .. MaxChanges
    PROVE  Typed
<1>1. task.pc \in Steps
  BY DEF Tasks
<1>2. Larger(Period, Warning) = Period
  BY TimesAssumption DEF Larger
<1>3. task.left \in 0 .. (IF task.pc \in {"sleep", "slice"} THEN Period ELSE Larger(Period, Warning))
  BY <1>2
<1> QED
  BY <1>1, <1>3 DEF Typed, TypeOK, Flags

\* The other way round.
LEMMA TypedGives ==
    ASSUME Typed
    PROVE  Flags /\ task \in Tasks /\ task.left \in 0 .. Period /\ task.checktime \in 0 .. clock
<1>1. Larger(Period, Warning) = Period
  BY TimesAssumption DEF Larger
<1> QED
  BY <1>1 DEF Typed, TypeOK, Flags

----------------------------------------------------------------------------
(* The other threads.                                                      *)

\* What a step of another thread may do: it takes no time and leaves the task
\* where it is; it registers activity now; a change of the settings, and the
\* screen turned on, come with a recheck; a wallet is loaded by activity.
Others ==
    /\ UNCHANGED clock /\ Typed'
    /\ /\ task'.pc = task.pc /\ task'.checktime = task.checktime /\ task'.projected = task.projected
       /\ task'.ui = task.ui /\ task'.left = task.left
       /\ task'.acted => task.acted \/ last_activity_registered' = clock
    /\ last_activity_registered' \in {last_activity_registered, clock}
    /\ last_ui_activity_registered' \in {last_ui_activity_registered, clock}
    /\ recheck => recheck'
    /\ \/ UNCHANGED <<idle_timeout, screen_timeout, min_timeout_override_secs, changed>>
       \/ recheck' /\ changed' = clock
    /\ keys' => keys \/ last_activity_registered' = clock
    /\ ~screen_dimmed' => ~screen_dimmed \/ (recheck' /\ last_ui_activity_registered' = clock)

\* Such a step delays neither timeout.
LEMMA OthersKeep ==
    ASSUME IInv, Others
    PROVE  /\ PassNow' /\ WarningNow' /\ ReadIdle' /\ ReadUi'
           /\ SleepIdle' /\ SleepUi' /\ SliceInTime' /\ KeysInTime'
<1>1. Numbered /\ Numbered'
  <2>1. Numbered
    BY Numbers DEF IInv
  <2>2. Numbered'
    BY Numbers, PTL DEF Others
  <2> QED
    BY <2>1, <2>2
<1>2. /\ clock' = clock /\ task'.pc = task.pc /\ task'.checktime = task.checktime
      /\ task'.projected = task.projected /\ task'.ui = task.ui /\ task'.left = task.left
      /\ last_activity_registered' >= last_activity_registered
      /\ last_ui_activity_registered' >= last_ui_activity_registered
  BY <1>1 DEF Others, Numbered
<1>3. recheck' \/ (IdleSecs' = IdleSecs /\ ScreenSecs' = ScreenSecs /\ changed' = changed
                   /\ screen_timeout' = screen_timeout)
  BY DEF Others, IdleSecs, ScreenSecs
<1>4. PassNow' /\ WarningNow'
  BY <1>1, <1>2 DEF IInv, TimeInv, PassNow, WarningNow, Others, Numbered
<1>5. ReadIdle'
  BY <1>1, <1>2, <1>3 DEF IInv, TimeInv, ReadIdle, Others, Numbered
<1>6. ReadUi'
  BY <1>1, <1>2, <1>3 DEF IInv, TimeInv, ReadUi, Others, Numbered
<1>7. SleepIdle'
  <2>1. clock + task.left <= clock + Period
    BY <1>1, TypedGives DEF IInv, Numbered
  <2> QED
    BY <1>1, <1>2, <1>3, <2>1 DEF IInv, TimeInv, SleepIdle, Others, Numbered
<1>8. SleepUi'
  BY <1>1, <1>2, <1>3 DEF IInv, TimeInv, SleepUi, Others, Numbered
<1>9. \/ changed' = clock
      \/ IdleSecs' = IdleSecs /\ ScreenSecs' = ScreenSecs /\ changed' = changed
         /\ screen_timeout' = screen_timeout
  BY DEF Others, IdleSecs, ScreenSecs
<1>a. /\ clock \in Nat /\ IdleSecs \in Nat /\ ScreenSecs \in Nat
      /\ last_activity_registered \in Nat /\ last_ui_activity_registered \in Nat
  BY <1>1 DEF Numbered
<1>b. /\ IdleSecs' \in Nat /\ IdleSecs' > 0 /\ ScreenSecs' \in Nat
      /\ last_activity_registered' \in Nat /\ last_ui_activity_registered' \in Nat
      /\ IdleDue' \in Nat /\ IdleDue' >= last_activity_registered' + IdleSecs'
  <2>1. Period \in Nat /\ Period > 0
    BY TimesAssumption
  <2> QED
    BY <1>1, <2>1, Sums, Zenon DEF Numbered
<1>10. SliceInTime'
  <2>1. /\ keys' => keys \/ last_activity_registered' = clock
        /\ ~screen_dimmed' => ~screen_dimmed \/ last_ui_activity_registered' = clock
    BY DEF Others
  <2>3. task.pc = "slice" /\ keys' => clock < last_activity_registered' + IdleSecs' \/ changed' = clock
    <3>1. task.pc = "slice" /\ keys => clock < last_activity_registered + IdleSecs \/ changed = clock
      BY DEF IInv, TimeInv, SliceInTime
    <3>2. last_activity_registered' = clock => clock < last_activity_registered' + IdleSecs'
      BY <1>a, <1>b, Sums, Zenon
    <3>3. clock < last_activity_registered + IdleSecs /\ IdleSecs' = IdleSecs =>
              clock < last_activity_registered' + IdleSecs'
      BY <1>a, <1>b, <1>2, Sums, Zenon
    <3> QED
      BY <1>9, <2>1, <3>1, <3>2, <3>3
  <2>4. task.pc = "slice" /\ ~screen_dimmed' /\ screen_timeout' # Forever =>
            clock <= last_ui_activity_registered' + ScreenSecs' \/ changed' = clock
    <3>1. task.pc = "slice" /\ ~screen_dimmed /\ screen_timeout # Forever =>
              clock <= last_ui_activity_registered + ScreenSecs \/ changed = clock
      BY DEF IInv, TimeInv, SliceInTime
    <3>2. last_ui_activity_registered' = clock => clock <= last_ui_activity_registered' + ScreenSecs'
      BY <1>a, <1>b, Sums, Zenon
    <3>3. clock <= last_ui_activity_registered + ScreenSecs /\ ScreenSecs' = ScreenSecs =>
              clock <= last_ui_activity_registered' + ScreenSecs'
      BY <1>a, <1>b, <1>2, Sums, Zenon
    <3> QED
      BY <1>9, <2>1, <3>1, <3>2, <3>3
  <2> QED
    BY <1>2, <2>3, <2>4 DEF SliceInTime
<1>11. KeysInTime'
  <2>1. keys /\ task.pc \notin {"warning", "confirm", "down"} => clock <= IdleDue
    BY DEF IInv, TimeInv, KeysInTime
  <2>2. keys /\ task.pc = "warning" => clock + task.left <= IdleDue + Warning
    BY DEF IInv, TimeInv, KeysInTime
  <2>3. task.pc = "warning" => task.left <= Warning
    BY <1>1 DEF IInv, TimeInv, WarningNow, Numbered
  <2>4. keys' => keys \/ IdleDue' >= clock
    <3>1. keys' => keys \/ last_activity_registered' = clock
      BY DEF Others
    <3>2. last_activity_registered' = clock => IdleDue' >= clock
      BY <1>a, <1>b, Sums, Zenon
    <3> QED
      BY <3>1, <3>2
  <2>5. IdleDue' >= IdleDue \/ IdleDue' >= clock
    <3>1. IdleDue' \in Nat /\ IdleDue' >= changed' + 1 /\ IdleDue' >= last_activity_registered' + IdleSecs'
      BY <1>1, Zenon DEF Numbered
    <3>2. /\ IdleDue \in Nat /\ changed \in Nat
          /\ IdleDue = changed + 1 \/ IdleDue = last_activity_registered + IdleSecs
      BY <1>1, Zenon DEF Numbered
    <3>3. CASE changed' = clock
      BY <1>a, <3>1, <3>3, Sums, Zenon
    <3>4. CASE IdleSecs' = IdleSecs /\ changed' = changed
      <4>1. IdleDue' >= changed + 1 /\ IdleDue' >= last_activity_registered' + IdleSecs
        BY <3>1, <3>4, Zenon
      <4> QED
        BY <1>a, <1>b, <1>2, <3>1, <3>2, <4>1, DueMovesOn, Zenon
    <3> QED
      BY <1>9, <3>3, <3>4
  <2>6. keys' /\ task.pc \notin {"warning", "confirm", "down"} => clock <= IdleDue'
    BY <1>1, <2>1, <2>4, <2>5 DEF Numbered
  <2>7. keys' /\ task.pc = "warning" => clock + task.left <= IdleDue' + Warning
    BY <1>1, <2>2, <2>3, <2>4, <2>5 DEF Numbered
  <2> QED
    BY <1>2, <2>6, <2>7 DEF KeysInTime
<1> QED
  BY <1>4, <1>5, <1>6, <1>7, <1>8, <1>10, <1>11

\* idletimer_register_activity, up to the check of the flag.
LEMMA RegisterInv ==
    ASSUME IInv, NEW t \in Threads, Register(t)
    PROVE  IInv'
<1>1. Numbered /\ Flags /\ task \in Tasks
  BY Numbers, TypedGives DEF IInv
<1>2. UNCHANGED <<clock, settings, screen, recheck, keys, task>>
  BY DEF Register
<1>3. last_activity_registered' = clock /\ last_ui_activity_registered' = clock
  BY DEF Register
<1>4. reg' \in [Threads -> {"none", "registered", "waking"}]
  BY DEF Register, IInv, Typed, TypeOK
<1>5. Typed'
  BY <1>1, <1>2, <1>3, <1>4 DEF IInv, Typed, TypeOK, settings, screen, Numbered
<1>6. Others
  BY <1>2, <1>3, <1>5 DEF Others, settings, screen
<1>7. RegisteredNow'
  BY <1>2, <1>3 DEF RegisteredNow
<1> QED
  BY <1>5, <1>6, <1>7, OthersKeep DEF IInv, TimeInv

\* A press is passed on, and a warning on display sees it.
LEMMA PassOnInv ==
    ASSUME IInv, NEW t \in Threads, PassOn(t)
    PROVE  IInv'
<1>1. Numbered /\ Flags /\ task \in Tasks
  BY Numbers, TypedGives DEF IInv
<1>2. UNCHANGED <<clock, activity, settings, screen, recheck, keys>>
  BY DEF PassOn
<1>3. last_activity_registered = clock
  BY <1>1 DEF PassOn, IInv, TimeInv, RegisteredNow, Numbered
<1>4. /\ task' \in Tasks /\ task'.pc = task.pc /\ task'.checktime = task.checktime
      /\ task'.projected = task.projected /\ task'.ui = task.ui /\ task'.left = task.left
  BY <1>1 DEF PassOn, Tasks
<1>5. reg' \in [Threads -> {"none", "registered", "waking"}]
  BY DEF PassOn, IInv, Typed, TypeOK
<1>6. Typed'
  BY <1>1, <1>2, <1>4, <1>5 DEF IInv, Typed, TypeOK, activity, settings, screen
<1>7. Others
  BY <1>2, <1>3, <1>4, <1>6 DEF Others, activity, settings, screen
<1>8. RegisteredNow'
  BY <1>2 DEF PassOn, IInv, Typed, TypeOK, TimeInv, RegisteredNow, activity
<1> QED
  BY <1>6, <1>7, <1>8, OthersKeep DEF IInv, TimeInv

\* A press on a dark screen turns the backlight on ...
LEMMA WakeInv ==
    ASSUME IInv, NEW t \in Threads, Wake(t)
    PROVE  IInv'
<1>1. Numbered /\ Flags /\ task \in Tasks
  BY Numbers, TypedGives DEF IInv
<1>2. UNCHANGED <<clock, activity, settings, recheck, keys, task>>
  BY DEF Wake
<1>3. lit' = ~FALSE /\ screen_dimmed' = screen_dimmed
  BY DEF Wake, SetDimmed
<1>4. Flags'
  BY <1>1, <1>2, <1>3, Zenon DEF Flags
<1>5. reg' \in [Threads -> {"none", "registered", "waking"}]
  BY DEF Wake, IInv, Typed, TypeOK
<1>6. Typed'
  BY <1>1, <1>2, <1>4, <1>5 DEF IInv, Typed, TypeOK, Flags, activity, settings
<1>7. Others
  BY <1>2, <1>3, <1>6 DEF Others, activity, settings
<1>8. RegisteredNow'
  BY <1>2 DEF Wake, IInv, Typed, TypeOK, TimeInv, RegisteredNow, activity
<1> QED
  BY <1>6, <1>7, <1>8, OthersKeep DEF IInv, TimeInv

\* ... then clears the flag and tells the task.
LEMMA WokenInv ==
    ASSUME IInv, NEW t \in Threads, Woken(t)
    PROVE  IInv'
<1>1. Numbered /\ Flags /\ task \in Tasks
  BY Numbers, TypedGives DEF IInv
<1>2. UNCHANGED <<clock, activity, settings, keys, task>>
  BY DEF Woken
<1>3. lit' = lit /\ screen_dimmed' = FALSE /\ recheck' = TRUE
  BY DEF Woken, SetDimmed
<1>4. Flags' /\ recheck'
  BY <1>1, <1>2, <1>3, Zenon DEF Flags
<1>5. reg' \in [Threads -> {"none", "registered", "waking"}]
  BY DEF Woken, IInv, Typed, TypeOK
<1>6. Typed'
  BY <1>1, <1>2, <1>4, <1>5 DEF IInv, Typed, TypeOK, Flags, activity, settings
<1>7. last_ui_activity_registered' = clock
  BY <1>2 DEF Woken, IInv, TimeInv, RegisteredNow, activity
<1>8. Others
  BY <1>2, <1>4, <1>6, <1>7 DEF Others, activity, settings
<1>9. RegisteredNow'
  BY <1>2 DEF Woken, IInv, Typed, TypeOK, TimeInv, RegisteredNow, activity
<1> QED
  BY <1>6, <1>8, <1>9, OthersKeep DEF IInv, TimeInv

\* A message is activity, though not of the user interface.
LEMMA MessageInv ==
    ASSUME IInv, Message
    PROVE  IInv'
<1>1. Numbered /\ Flags /\ task \in Tasks
  BY Numbers, TypedGives DEF IInv
<1>2. /\ UNCHANGED <<clock, last_ui_activity_registered, settings, screen, recheck, keys, task, reg>>
      /\ last_activity_registered' = clock
  BY DEF Message
<1>3. Typed'
  BY <1>1, <1>2 DEF IInv, Typed, TypeOK, settings, screen, Numbered
<1>4. Others
  BY <1>2, <1>3 DEF Others, settings, screen
<1>5. RegisteredNow'
  BY <1>2 DEF IInv, TimeInv, RegisteredNow
<1> QED
  BY <1>3, <1>4, <1>5, OthersKeep DEF IInv, TimeInv

\* A wallet is loaded by activity of now.
LEMMA LoadWalletInv ==
    ASSUME IInv, LoadWallet
    PROVE  IInv'
<1>1. Numbered /\ Flags /\ task \in Tasks
  BY Numbers, TypedGives DEF IInv
<1>2. /\ UNCHANGED <<clock, activity, settings, screen, recheck, task, reg>>
      /\ last_activity_registered = clock /\ keys' = TRUE
  BY DEF LoadWallet
<1>3. Flags'
  BY <1>1, <1>2, Zenon DEF Flags, screen
<1>4. Typed'
  BY <1>2, <1>3 DEF IInv, Typed, TypeOK, Flags, activity, settings
<1>5. Others
  BY <1>2, <1>4 DEF Others, activity, settings, screen
<1>6. RegisteredNow'
  BY <1>2 DEF IInv, TimeInv, RegisteredNow, activity
<1> QED
  BY <1>4, <1>5, <1>6, OthersKeep DEF IInv, TimeInv

\* A timeout changes, and the task is told.
LEMMA ChangeInv ==
    ASSUME IInv, Change
    PROVE  IInv'
<1>1. Numbered /\ Flags /\ task \in Tasks
  BY Numbers, TypedGives DEF IInv
<1>2. /\ UNCHANGED <<clock, activity, screen, keys, task, reg>>
      /\ changed' = clock /\ recheck' = TRUE /\ changes' \in 0 .. MaxChanges
  BY <1>1, TimesAssumption DEF Change, Numbered
<1>3. Flags' /\ recheck'
  BY <1>1, <1>2, Zenon DEF Flags, screen
<1>4. /\ idle_timeout' \in IdleTimeouts /\ screen_timeout' \in ScreenTimeouts
      /\ min_timeout_override_secs' \in Overrides \cup {0}
  BY DEF Change, IInv, Typed, TypeOK
<1>5. Typed'
  BY <1>1, <1>2, <1>3, <1>4 DEF IInv, Typed, TypeOK, Flags, activity, Numbered
<1>6. Others
  BY <1>2, <1>3, <1>5 DEF Others, activity, screen
<1>7. RegisteredNow'
  BY <1>2 DEF IInv, TimeInv, RegisteredNow, activity
<1> QED
  BY <1>5, <1>6, <1>7, OthersKeep DEF IInv, TimeInv

----------------------------------------------------------------------------
(* The idle task.                                                          *)

\* A step of the task that takes no time.
LEMMA TaskTyped ==
    ASSUME IInv, UNCHANGED <<clock, activity, settings, reg>>, Flags', task' \in Tasks,
           task'.left \in 0 .. Period, task'.checktime \in 0 .. clock
    PROVE  Typed'
<1>1. Larger(Period, Warning) = Period
  BY TimesAssumption DEF Larger
<1>2. task'.left \in 0 .. (IF task'.pc \in {"sleep", "slice"} THEN Period ELSE Larger(Period, Warning))
  BY <1>1
<1>3. task'.pc \in Steps
  BY DEF Tasks
<1> QED
  BY <1>2, <1>3 DEF IInv, Typed, TypeOK, Flags, activity, settings

\* The pass begins: what is read is what is in force.
LEMMA CheckInv ==
    ASSUME IInv, Check
    PROVE  IInv'
<1>1. Numbered /\ Flags /\ task \in Tasks /\ task.left \in 0 .. Period
  BY Numbers, TypedGives DEF IInv
<1>2. UNCHANGED <<clock, activity, settings, screen, recheck, keys, reg>> /\ task.pc = "check"
  BY DEF Check
<1>3. /\ task'.pc \in {"expired", "screen"} /\ task'.checktime = clock /\ task'.left = task.left
      /\ task'.projected = last_activity_registered + IdleSecs
      /\ task'.pc = "screen" => IdleSecs = Forever \/ task'.projected > clock
  BY <1>1 DEF Check, IdleSecs, Tasks, Numbered
<1>4. task' \in Tasks
  <2>1. last_activity_registered + IdleSecs \in Nat /\ clock \in Nat
    BY <1>1 DEF Numbered
  <2> QED
    BY <1>1, <2>1 DEF Check, IdleSecs, Tasks, Steps
<1>5. IdleSecs' = IdleSecs /\ ScreenSecs' = ScreenSecs /\ IdleDue' = IdleDue
  BY <1>2 DEF IdleSecs, ScreenSecs, IdleDue, settings, activity
<1>6. Typed'
  <2>1. task'.left \in 0 .. Period /\ task'.checktime \in 0 .. clock
    BY <1>1, <1>3 DEF Numbered
  <2>2. Flags'
    BY <1>1, <1>2 DEF Flags, screen
  <2> QED
    BY <1>2, <1>4, <2>1, <2>2, TaskTyped
<1>7. task'.pc = "screen" => task'.projected > clock
  BY <1>1, <1>3 DEF Numbered
<1>8. TimeInv'
  BY <1>1, <1>2, <1>3, <1>5, <1>7 DEF IInv, TimeInv, RegisteredNow, PassNow, WarningNow, ReadIdle, ReadUi,
     SleepIdle, SleepUi, SliceInTime, KeysInTime, Numbered, activity, settings, screen
<1> QED
  BY <1>6, <1>8 DEF IInv

\* The warning is shown: it starts in time and counts from there.
LEMMA WarnInv ==
    ASSUME IInv, Warn
    PROVE  IInv'
<1>1. Numbered /\ Flags /\ task \in Tasks /\ task.left \in 0 .. Period
  BY Numbers, TypedGives DEF IInv
<1>2. UNCHANGED <<clock, activity, settings, screen, recheck, keys, reg>>
  BY DEF Warn
<1>3. task.pc = "expired" /\ keys /\ task'.pc = "warning" /\ task'.left = Warning
      /\ task'.checktime = task.checktime /\ ~task'.acted
  BY <1>1, TimesAssumption DEF Warn, Tasks, Numbered
<1>4. task' \in Tasks
  <2>1. Warning \in Nat
    BY TimesAssumption
  <2> QED
    BY <1>1, <2>1 DEF Warn, Tasks, Steps
<1>s. IdleSecs' = IdleSecs /\ ScreenSecs' = ScreenSecs /\ IdleDue' = IdleDue
  BY <1>2 DEF IdleSecs, ScreenSecs, IdleDue, settings, activity
<1>f. Flags'
  BY <1>1, <1>2 DEF Flags, screen
<1>5. Typed'
  <2>1. task'.left \in 0 .. Period /\ task'.checktime \in 0 .. clock
    BY <1>1, <1>3, TimesAssumption DEF Numbered
  <2> QED
    BY <1>2, <1>4, <1>f, <2>1, TaskTyped
<1>t. TimeInv'
  BY <1>1, <1>2, <1>3, <1>s, TimesAssumption DEF IInv, TimeInv, RegisteredNow, PassNow, WarningNow, ReadIdle, ReadUi,
     SleepIdle, SleepUi, SliceInTime, KeysInTime, Numbered, activity, settings, screen
<1> QED
  BY <1>5, <1>t DEF IInv

\* The warning ends.
LEMMA WarningEndsInv ==
    ASSUME IInv, WarningEnds
    PROVE  IInv'
<1>1. Numbered /\ Flags /\ task \in Tasks /\ task.left \in 0 .. Period
  BY Numbers, TypedGives DEF IInv
<1>2. UNCHANGED <<clock, activity, settings, screen, recheck, keys, reg>>
  BY DEF WarningEnds
<1>3. task.pc = "warning" /\ task'.pc = "confirm" /\ task'.left = task.left /\ task'.checktime = task.checktime /\ task'.acted = task.acted
  BY <1>1, TimesAssumption DEF WarningEnds, Goto, Tasks, Numbered
<1>4. task' \in Tasks
  BY <1>1 DEF WarningEnds, Goto, Tasks, Steps
<1>s. IdleSecs' = IdleSecs /\ ScreenSecs' = ScreenSecs /\ IdleDue' = IdleDue
  BY <1>2 DEF IdleSecs, ScreenSecs, IdleDue, settings, activity
<1>f. Flags'
  BY <1>1, <1>2 DEF Flags, screen
<1>5. Typed'
  <2>1. task'.left \in 0 .. Period /\ task'.checktime \in 0 .. clock
    BY <1>1, <1>3, TimesAssumption DEF Numbered
  <2> QED
    BY <1>2, <1>4, <1>f, <2>1, TaskTyped
<1>t. TimeInv'
  BY <1>1, <1>2, <1>3, <1>s, TimesAssumption DEF IInv, TimeInv, RegisteredNow, PassNow, WarningNow, ReadIdle, ReadUi,
     SleepIdle, SleepUi, SliceInTime, KeysInTime, Numbered, activity, settings, screen
<1> QED
  BY <1>5, <1>t DEF IInv

\* The warning is cancelled by activity recent enough for a new pass to be in time.
LEMMA CancelledInv ==
    ASSUME IInv, Cancelled
    PROVE  IInv'
<1>1. Numbered /\ Flags /\ task \in Tasks /\ task.left \in 0 .. Period
  BY Numbers, TypedGives DEF IInv
<1>2. UNCHANGED <<clock, activity, settings, screen, recheck, keys, reg>>
  BY DEF Cancelled
<1>3. /\ task.pc = "confirm" /\ task'.pc = "check" /\ task'.left = 0 /\ task'.checktime = 0
      /\ task.acted \/ last_activity_registered > task.checktime
  BY <1>1, TimesAssumption DEF Cancelled, NewPass, Tasks, Numbered
<1>4. task' \in Tasks
  BY DEF Cancelled, NewPass, Tasks, Steps
<1>s. IdleSecs' = IdleSecs /\ ScreenSecs' = ScreenSecs /\ IdleDue' = IdleDue
  BY <1>2 DEF IdleSecs, ScreenSecs, IdleDue, settings, activity
<1>f. Flags'
  BY <1>1, <1>2 DEF Flags, screen
<1>5. Typed'
  <2>1. task'.left \in 0 .. Period /\ task'.checktime \in 0 .. clock
    BY <1>1, <1>3, TimesAssumption DEF Numbered
  <2> QED
    BY <1>2, <1>4, <1>f, <2>1, TaskTyped
<1>6. last_activity_registered + IdleSecs >= clock
  BY <1>1, <1>3 DEF IInv, TimeInv, WarningNow, Numbered
<1>7. clock <= IdleDue
  BY <1>1, <1>6 DEF Numbered
<1>t. TimeInv'
  BY <1>1, <1>2, <1>3, <1>s, <1>7, TimesAssumption DEF IInv, TimeInv, RegisteredNow, PassNow, WarningNow, ReadIdle, ReadUi,
     SleepIdle, SleepUi, SliceInTime, KeysInTime, Numbered, activity, settings, screen
<1> QED
  BY <1>5, <1>t DEF IInv

\* The screen timeout is read.
LEMMA ReadScreenInv ==
    ASSUME IInv, ReadScreen
    PROVE  IInv'
<1>1. Numbered /\ Flags /\ task \in Tasks /\ task.left \in 0 .. Period
  BY Numbers, TypedGives DEF IInv
<1>2. UNCHANGED <<clock, activity, settings, screen, recheck, keys, reg>>
  BY DEF ReadScreen
<1>3. /\ task.pc = "screen" /\ task'.pc = "dim" /\ task'.left = task.left /\ task'.checktime = task.checktime /\ task'.projected = task.projected
      /\ screen_timeout # Forever => task'.ui = last_ui_activity_registered + ScreenSecs
  BY <1>1, TimesAssumption DEF ReadScreen, ScreenSecs, Tasks, Numbered
<1>4. task' \in Tasks
  <2>1. Forever + MaxTime \in Nat /\ last_ui_activity_registered + ScreenSecs \in Nat
    BY <1>1 DEF Numbered
  <2> QED
    BY <1>1, <2>1 DEF ReadScreen, ScreenSecs, Tasks, Steps
<1>s. IdleSecs' = IdleSecs /\ ScreenSecs' = ScreenSecs /\ IdleDue' = IdleDue
  BY <1>2 DEF IdleSecs, ScreenSecs, IdleDue, settings, activity
<1>f. Flags'
  BY <1>1, <1>2 DEF Flags, screen
<1>5. Typed'
  <2>1. task'.left \in 0 .. Period /\ task'.checktime \in 0 .. clock
    BY <1>1, <1>3, TimesAssumption DEF Numbered
  <2> QED
    BY <1>2, <1>4, <1>f, <2>1, TaskTyped
<1>t. TimeInv'
  BY <1>1, <1>2, <1>3, <1>s, TimesAssumption DEF IInv, TimeInv, RegisteredNow, PassNow, WarningNow, ReadIdle, ReadUi,
     SleepIdle, SleepUi, SliceInTime, KeysInTime, Numbered, activity, settings, screen
<1> QED
  BY <1>5, <1>t DEF IInv

\* A slice of the sleep begins: there is time for it.
LEMMA SliceBeginsInv ==
    ASSUME IInv, SliceBegins
    PROVE  IInv'
<1>1. Numbered /\ Flags /\ task \in Tasks /\ task.left \in 0 .. Period
  BY Numbers, TypedGives DEF IInv
<1>2. UNCHANGED <<clock, activity, settings, screen, recheck, keys, reg>>
  BY DEF SliceBegins
<1>3. /\ task.pc = "sleep" /\ ~recheck /\ task.left > 0 /\ task'.pc = "slice"
      /\ task'.left = task.left /\ task'.checktime = task.checktime
  BY <1>1, TimesAssumption DEF SliceBegins, Goto, Tasks, Numbered
<1>4. task' \in Tasks
  BY <1>1 DEF SliceBegins, Goto, Tasks, Steps
<1>s. IdleSecs' = IdleSecs /\ ScreenSecs' = ScreenSecs /\ IdleDue' = IdleDue
  BY <1>2 DEF IdleSecs, ScreenSecs, IdleDue, settings, activity
<1>f. Flags'
  BY <1>1, <1>2 DEF Flags, screen
<1>5. Typed'
  <2>1. task'.left \in 0 .. Period /\ task'.checktime \in 0 .. clock
    BY <1>1, <1>3, TimesAssumption DEF Numbered
  <2> QED
    BY <1>2, <1>4, <1>f, <2>1, TaskTyped
<1>t. TimeInv'
  BY <1>1, <1>2, <1>3, <1>s, TimesAssumption DEF IInv, TimeInv, RegisteredNow, PassNow, WarningNow, ReadIdle, ReadUi,
     SleepIdle, SleepUi, SliceInTime, KeysInTime, Numbered, activity, settings, screen
<1> QED
  BY <1>5, <1>t DEF IInv

\* The sleep ends: by itself, or because the task was told to look again.
LEMMA SleepEndsInv ==
    ASSUME IInv, SleepEnds
    PROVE  IInv'
<1>1. Numbered /\ Flags /\ task \in Tasks /\ task.left \in 0 .. Period
  BY Numbers, TypedGives DEF IInv
<1>2. UNCHANGED <<clock, activity, settings, screen, keys, reg>>
  BY DEF SleepEnds
<1>3. task.pc = "sleep" /\ task'.pc = "check" /\ task'.left = 0 /\ task'.checktime = 0
  BY <1>1, TimesAssumption DEF SleepEnds, NewPass, Tasks, Numbered
<1>4. task' \in Tasks
  BY DEF SleepEnds, NewPass, Tasks, Steps
<1>s. IdleSecs' = IdleSecs /\ ScreenSecs' = ScreenSecs /\ IdleDue' = IdleDue
  BY <1>2 DEF IdleSecs, ScreenSecs, IdleDue, settings, activity
<1>f. Flags'
  <2>1. recheck' \in BOOLEAN
    BY Zenon DEF SleepEnds
  <2> QED
    BY <1>1, <1>2, <2>1 DEF Flags, screen
<1>5. Typed'
  <2>1. task'.left \in 0 .. Period /\ task'.checktime \in 0 .. clock
    BY <1>1, <1>3, TimesAssumption DEF Numbered
  <2> QED
    BY <1>2, <1>4, <1>f, <2>1, TaskTyped
<1>t. TimeInv'
  BY <1>1, <1>2, <1>3, <1>s, TimesAssumption DEF IInv, TimeInv, RegisteredNow, PassNow, WarningNow, ReadIdle, ReadUi,
     SleepIdle, SleepUi, SliceInTime, KeysInTime, Numbered, activity, settings, screen
<1> QED
  BY <1>5, <1>t DEF IInv

\* keychain_clear and esp_restart: no wallet is left to be late for.
LEMMA RestartInv ==
    ASSUME IInv, Restart
    PROVE  IInv'
<1>1. Numbered /\ Flags /\ task \in Tasks /\ task.left \in 0 .. Period
  BY Numbers, TypedGives DEF IInv
<1>2. UNCHANGED <<clock, activity, settings, screen_dimmed, recheck, reg>>
  BY DEF Restart
<1>3. task'.pc = "down" /\ task'.left = task.left /\ task'.checktime = task.checktime
  BY <1>1, TimesAssumption DEF Restart, Goto, Tasks, Numbered
<1>4. task' \in Tasks
  BY <1>1 DEF Restart, Goto, Tasks, Steps
<1>s. IdleSecs' = IdleSecs /\ ScreenSecs' = ScreenSecs /\ IdleDue' = IdleDue
  BY <1>2 DEF IdleSecs, ScreenSecs, IdleDue, settings, activity
<1>f. Flags'
  <2>1. lit' = FALSE /\ keys' = FALSE
    BY DEF Restart
  <2> QED
    BY <1>1, <1>2, <2>1, Zenon DEF Flags
<1>5. Typed'
  <2>1. task'.left \in 0 .. Period /\ task'.checktime \in 0 .. clock
    BY <1>1, <1>3, TimesAssumption DEF Numbered
  <2> QED
    BY <1>2, <1>4, <1>f, <2>1, TaskTyped
<1>t. TimeInv'
  BY <1>1, <1>2, <1>3, <1>s, TimesAssumption DEF IInv, TimeInv, RegisteredNow, PassNow, WarningNow, ReadIdle, ReadUi,
     SleepIdle, SleepUi, SliceInTime, KeysInTime, Numbered, activity, settings
<1> QED
  BY <1>5, <1>t DEF IInv

\* The screen has gone dark.
LEMMA DimmedInv ==
    ASSUME IInv, Dimmed
    PROVE  IInv'
<1>1. Numbered /\ Flags /\ task \in Tasks /\ task.left \in 0 .. Period
  BY Numbers, TypedGives DEF IInv
<1>2. UNCHANGED <<clock, activity, settings, recheck, keys, reg>>
  BY DEF Dimmed
<1>3. /\ task.pc = "dimming" /\ task'.pc \in {"screen", "delay"}
      /\ task'.left = task.left /\ task'.checktime = task.checktime /\ task'.projected = task.projected /\ task'.ui = task.ui
  BY <1>1, TimesAssumption DEF Dimmed, Goto, Tasks, Numbered
<1>4. task' \in Tasks
  BY <1>1 DEF Dimmed, Goto, Tasks, Steps
<1>s. IdleSecs' = IdleSecs /\ ScreenSecs' = ScreenSecs /\ IdleDue' = IdleDue
  BY <1>2 DEF IdleSecs, ScreenSecs, IdleDue, settings, activity
<1>f. Flags'
  <2>1. lit' = lit /\ screen_dimmed' = TRUE
    BY DEF Dimmed, SetDimmed
  <2> QED
    BY <1>1, <1>2, <2>1, Zenon DEF Flags
<1>5. Typed'
  <2>1. task'.left \in 0 .. Period /\ task'.checktime \in 0 .. clock
    BY <1>1, <1>3, TimesAssumption DEF Numbered
  <2> QED
    BY <1>2, <1>4, <1>f, <2>1, TaskTyped
<1>6. screen_dimmed'
  <2>1. screen_dimmed' = TRUE
    BY DEF Dimmed, SetDimmed
  <2> QED
    BY <2>1, Zenon
<1>t. TimeInv'
  BY <1>1, <1>2, <1>3, <1>s, <1>6, TimesAssumption DEF IInv, TimeInv, RegisteredNow, PassNow, WarningNow, ReadIdle, ReadUi,
     SleepIdle, SleepUi, SliceInTime, KeysInTime, Numbered, activity, settings
<1> QED
  BY <1>5, <1>t DEF IInv

\* The idle timeout without a wallet: the screen goes dark, or is dark already.
LEMMA IdleDimsInv ==
    ASSUME IInv, IdleDims
    PROVE  IInv'
<1>1. Numbered /\ Flags /\ task \in Tasks /\ task.left \in 0 .. Period
  BY Numbers, TypedGives DEF IInv
<1>2. UNCHANGED <<clock, activity, settings, recheck, keys, reg>>
  BY DEF IdleDims
<1>3. /\ task.pc = "expired" /\ ~keys /\ task'.left = task.left /\ task'.checktime = task.checktime /\ task'.projected = task.projected
  BY <1>1, TimesAssumption DEF IdleDims, Goto, Tasks, Numbered
<1>4. task' \in Tasks
  BY <1>1 DEF IdleDims, Goto, Tasks, Steps
<1>s. IdleSecs' = IdleSecs /\ ScreenSecs' = ScreenSecs /\ IdleDue' = IdleDue
  BY <1>2 DEF IdleSecs, ScreenSecs, IdleDue, settings, activity
<1>f. Flags'
  <2>1. screen_dimmed' = screen_dimmed /\ (lit' = lit \/ lit' = ~TRUE)
    BY DEF IdleDims, SetDimmed, screen
  <2> QED
    BY <1>1, <1>2, <2>1, Zenon DEF Flags
<1>5. Typed'
  <2>1. task'.left \in 0 .. Period /\ task'.checktime \in 0 .. clock
    BY <1>1, <1>3, TimesAssumption DEF Numbered
  <2> QED
    BY <1>2, <1>4, <1>f, <2>1, TaskTyped
<1>6. /\ screen_dimmed' = screen_dimmed
      /\ task'.pc = "dimming" \/ (task'.pc = "screen" /\ screen_dimmed)
  BY <1>1 DEF IdleDims, Goto, SetDimmed, screen, Tasks
<1>t. TimeInv'
  BY <1>1, <1>2, <1>3, <1>s, <1>6, TimesAssumption DEF IInv, TimeInv, RegisteredNow, PassNow, WarningNow, ReadIdle, ReadUi,
     SleepIdle, SleepUi, SliceInTime, KeysInTime, Numbered, activity, settings
<1> QED
  BY <1>5, <1>t DEF IInv

\* The screen goes dark for its own timeout, or there is time left.
LEMMA DimInv ==
    ASSUME IInv, Dim
    PROVE  IInv'
<1>1. Numbered /\ Flags /\ task \in Tasks /\ task.left \in 0 .. Period
  BY Numbers, TypedGives DEF IInv
<1>2. UNCHANGED <<clock, activity, settings, recheck, keys, reg>>
  BY DEF Dim
<1>3. /\ task.pc = "dim" /\ task'.left = task.left /\ task'.checktime = task.checktime /\ task'.projected = task.projected /\ task'.ui = task.ui
  BY <1>1, TimesAssumption DEF Dim, Goto, Tasks, Numbered
<1>4. task' \in Tasks
  BY <1>1 DEF Dim, Goto, Tasks, Steps
<1>s. IdleSecs' = IdleSecs /\ ScreenSecs' = ScreenSecs /\ IdleDue' = IdleDue
  BY <1>2 DEF IdleSecs, ScreenSecs, IdleDue, settings, activity
<1>f. Flags'
  <2>1. screen_dimmed' = screen_dimmed /\ (lit' = lit \/ lit' = ~TRUE)
    BY DEF Dim, SetDimmed, screen
  <2> QED
    BY <1>1, <1>2, <2>1, Zenon DEF Flags
<1>5. Typed'
  <2>1. task'.left \in 0 .. Period /\ task'.checktime \in 0 .. clock
    BY <1>1, <1>3, TimesAssumption DEF Numbered
  <2> QED
    BY <1>2, <1>4, <1>f, <2>1, TaskTyped
<1>6. /\ screen_dimmed' = screen_dimmed
      /\ task'.pc = "dimming" \/ (task'.pc = "delay" /\ (screen_dimmed \/ ~(task.ui <= task.checktime)))
  BY <1>1 DEF Dim, Goto, SetDimmed, screen, Tasks
<1>t. TimeInv'
  BY <1>1, <1>2, <1>3, <1>s, <1>6, TimesAssumption DEF IInv, TimeInv, RegisteredNow, PassNow, WarningNow, ReadIdle, ReadUi,
     SleepIdle, SleepUi, SliceInTime, KeysInTime, Numbered, activity, settings
<1> QED
  BY <1>5, <1>t DEF IInv

\* The sleep is chosen: it ends before either timeout.
LEMMA DelayInv ==
    ASSUME IInv, Delay
    PROVE  IInv'
<1> DEFINE next == IF ~screen_dimmed /\ task.ui < task.projected THEN task.ui ELSE task.projected
           left == Sleep(next)
<1>1. Numbered /\ Flags /\ task \in Tasks /\ task.left \in 0 .. Period
  BY Numbers, TypedGives DEF IInv
<1>2. UNCHANGED <<clock, activity, settings, screen, recheck, keys, reg>>
  BY DEF Delay
<1>3. next \in Nat /\ (~screen_dimmed => next <= task.ui) /\ next <= task.projected
      /\ (next = task.projected \/ (~screen_dimmed /\ next = task.ui))
  BY <1>1 DEF Numbered
<1> HIDE DEF next
<1>4. /\ left \in 1 .. Period
      /\ task.checktime < next => task.checktime + left <= next
  BY <1>1, <1>3, TimesAssumption DEF Sleep, Numbered
<1>5. task.pc = "delay" /\ task'.pc = "sleep" /\ task'.left = left /\ task'.checktime = 0
  BY DEF Delay, NewPass, next
<1>6. task' \in Tasks
  <2>1. left \in Nat
    BY <1>4, TimesAssumption
  <2> QED
    BY <2>1 DEF Delay, NewPass, Tasks, Steps, next
<1> HIDE DEF left
<1>7. task.checktime = clock
  BY <1>5 DEF IInv, TimeInv, PassNow
<1>8. ~recheck /\ keys => clock + left <= last_activity_registered + IdleSecs
  <2> SUFFICES ASSUME ~recheck, keys PROVE clock + left <= last_activity_registered + IdleSecs
    OBVIOUS
  <2>1. /\ task.projected <= last_activity_registered + IdleSecs
        /\ ~screen_dimmed => task.projected > task.checktime /\ task.ui > task.checktime
        /\ task.projected <= task.checktime => last_activity_registered = clock
    BY <1>5 DEF IInv, TimeInv, ReadIdle, ReadUi
  <2>2. CASE task.checktime < next
    BY <1>1, <1>3, <1>4, <1>7, <2>1, <2>2 DEF Numbered
  <2>3. CASE ~(task.checktime < next)
    <3>1. last_activity_registered = clock
      BY <1>1, <1>3, <2>1, <2>3 DEF Numbered
    <3> QED
      BY <1>1, <1>4, <3>1 DEF Numbered
  <2> QED
    BY <2>2, <2>3
<1>9. ~recheck /\ ~screen_dimmed /\ screen_timeout # Forever =>
          clock + left <= last_ui_activity_registered + ScreenSecs
  <2> SUFFICES ASSUME ~recheck, ~screen_dimmed, screen_timeout # Forever
               PROVE  clock + left <= last_ui_activity_registered + ScreenSecs
    OBVIOUS
  <2>1. /\ task.ui <= last_ui_activity_registered + ScreenSecs
        /\ task.projected > task.checktime /\ task.ui > task.checktime
    BY <1>5 DEF IInv, TimeInv, ReadIdle, ReadUi
  <2> QED
    BY <1>1, <1>3, <1>4, <1>7, <2>1 DEF Numbered
<1>s. IdleSecs' = IdleSecs /\ ScreenSecs' = ScreenSecs /\ IdleDue' = IdleDue
  BY <1>2 DEF IdleSecs, ScreenSecs, IdleDue, settings, activity
<1>10. Typed'
  <2>1. task'.left \in 0 .. Period /\ task'.checktime \in 0 .. clock
    BY <1>1, <1>4, <1>5, TimesAssumption DEF Numbered
  <2>2. Flags'
    BY <1>1, <1>2 DEF Flags, screen
  <2> QED
    BY <1>2, <1>6, <2>1, <2>2, TaskTyped
<1>11. SleepIdle' /\ SleepUi'
  BY <1>2, <1>5, <1>8, <1>9, <1>s DEF SleepIdle, SleepUi, activity, settings, screen
<1>12. KeysInTime'
  BY <1>2, <1>5, <1>s DEF IInv, TimeInv, KeysInTime
<1>13. RegisteredNow' /\ PassNow' /\ WarningNow' /\ ReadIdle' /\ ReadUi' /\ SliceInTime'
  BY <1>2, <1>5 DEF IInv, TimeInv, RegisteredNow, PassNow, WarningNow, ReadIdle, ReadUi, SliceInTime, activity
<1> QED
  BY <1>10, <1>11, <1>12, <1>13 DEF IInv, TimeInv

\* Time passes, in a slice of the sleep or under the warning.
LEMMA TickInv ==
    ASSUME IInv, Tick
    PROVE  IInv'
<1>1. Numbered /\ Flags /\ task \in Tasks /\ task.left \in 0 .. Period
  BY Numbers, TypedGives DEF IInv
<1>2. UNCHANGED <<activity, settings, screen, recheck, keys, reg>> /\ clock' = clock + 1
  BY DEF Tick
<1>3. /\ task.left > 0 /\ task'.left = task.left - 1 /\ task'.checktime = task.checktime
      /\ task'.acted = task.acted
      /\ \/ task.pc = "slice" /\ task'.pc = "sleep"
         \/ task.pc = "warning" /\ task'.pc = "warning" /\ ~task.acted
  BY <1>1 DEF Tick, Tasks
<1>4. task' \in Tasks
  <2>1. task.left - 1 \in Nat
    BY <1>1, <1>3 DEF Numbered
  <2> QED
    BY <1>1, <2>1 DEF Tick, Tasks, Steps
<1>s. IdleSecs' = IdleSecs /\ ScreenSecs' = ScreenSecs /\ IdleDue' = IdleDue
  BY <1>2 DEF IdleSecs, ScreenSecs, IdleDue, settings, activity
<1>5. Typed'
  <2>1. clock + 1 \in 0 .. MaxTime
    BY <1>1 DEF Tick, Numbered
  <2>2. task'.left \in 0 .. Period /\ task'.checktime \in 0 .. clock + 1
    BY <1>1, <1>3, TimesAssumption DEF Numbered
  <2>3. last_activity_registered \in 0 .. clock + 1 /\ changed \in 0 .. clock + 1
    BY <1>1 DEF Numbered
  <2>4. Flags'
    BY <1>1, <1>2 DEF Flags, screen
  <2>5. task'.left \in 0 .. (IF task'.pc \in {"sleep", "slice"} THEN Period ELSE Larger(Period, Warning))
    BY <2>2, TimesAssumption DEF Larger
  <2>6. task'.pc \in Steps
    BY <1>4 DEF Tasks
  <2> QED
    BY <1>2, <1>4, <2>1, <2>2, <2>3, <2>4, <2>5, <2>6 DEF IInv, Typed, TypeOK, Flags, activity, settings
<1>6. RegisteredNow'
  BY <1>2 DEF Tick, RegisteredNow
<1>7. (clock + 1) + (task.left - 1) = clock + task.left
  BY <1>1, <1>3 DEF Numbered
<1>8. SleepIdle' /\ SleepUi'
  <2>1. task.pc = "slice" /\ ~recheck /\ keys =>
          (clock + 1) + (task.left - 1) <= last_activity_registered + IdleSecs
    BY <1>7 DEF IInv, TimeInv, SleepIdle
  <2>2. task.pc = "slice" /\ ~recheck /\ ~screen_dimmed /\ screen_timeout # Forever =>
          (clock + 1) + (task.left - 1) <= last_ui_activity_registered + ScreenSecs
    BY <1>7 DEF IInv, TimeInv, SleepUi
  <2> QED
    BY <1>2, <1>3, <1>s, <2>1, <2>2 DEF SleepIdle, SleepUi, activity, settings, screen
<1>9. KeysInTime'
  <2>1. task.pc = "slice" /\ keys => clock + 1 <= IdleDue
    BY <1>1 DEF IInv, TimeInv, SliceInTime, Numbered
  <2>2. task.pc = "warning" /\ keys => (clock + 1) + (task.left - 1) <= IdleDue + Warning
    BY <1>7 DEF IInv, TimeInv, KeysInTime
  <2> QED
    BY <1>2, <1>3, <1>s, <2>1, <2>2 DEF KeysInTime
<1>10. WarningNow'
  <2>1. task.pc = "warning" => (clock + 1) + (task.left - 1) = task.checktime + Warning
    BY <1>7 DEF IInv, TimeInv, WarningNow
  <2> QED
    BY <1>2, <1>3, <2>1 DEF WarningNow
<1>11. PassNow' /\ ReadIdle' /\ ReadUi' /\ SliceInTime'
  BY <1>3 DEF PassNow, ReadIdle, ReadUi, SliceInTime
<1> QED
  BY <1>5, <1>6, <1>8, <1>9, <1>10, <1>11 DEF IInv, TimeInv

----------------------------------------------------------------------------
(* The theorems.                                                           *)

\* The device starts with the invariant.
LEMMA InvInit == Init => IInv
<1> SUFFICES ASSUME Init PROVE IInv
  OBVIOUS
<1>1. task.pc = "check" /\ task.left = 0 /\ task.checktime = 0 /\ task \in Tasks
  BY DEF Init, NewPass, Tasks, Steps
<1>2. Flags
  BY Zenon DEF Init, Flags
<1>3. Typed
  BY <1>1, <1>2, TypedParts, TimesAssumption DEF Init
<1>4. ~keys
  BY Zenon DEF Init
<1>5. TimeInv
  BY <1>1, <1>4 DEF Init, TimeInv, RegisteredNow, PassNow, WarningNow, ReadIdle, ReadUi,
     SleepIdle, SleepUi, SliceInTime, KeysInTime
<1> QED
  BY <1>3, <1>5 DEF IInv

\* Every step keeps it.
LEMMA InvStep == IInv /\ [Next]_vars => IInv'
<1> SUFFICES ASSUME IInv, [Next]_vars PROVE IInv'
  OBVIOUS
<1>1. CASE \E t \in Threads : Register(t) \/ PassOn(t) \/ Wake(t) \/ Woken(t)
  BY <1>1, RegisterInv, PassOnInv, WakeInv, WokenInv
<1>2. CASE Message \/ LoadWallet \/ Change
  BY <1>2, MessageInv, LoadWalletInv, ChangeInv
<1>3. CASE Check \/ Warn \/ IdleDims \/ WarningEnds \/ Cancelled \/ Restart
  BY <1>3, CheckInv, WarnInv, IdleDimsInv, WarningEndsInv, CancelledInv, RestartInv
<1>4. CASE ReadScreen \/ Dim \/ Dimmed \/ Delay \/ SleepEnds \/ SliceBegins
  BY <1>4, ReadScreenInv, DimInv, DimmedInv, DelayInv, SleepEndsInv, SliceBeginsInv
<1>5. CASE Tick
  BY <1>5, TickInv
<1>6. CASE UNCHANGED vars
  BY <1>6 DEF vars, activity, settings, screen, IInv, Typed, TypeOK, TimeInv, RegisteredNow, PassNow,
     WarningNow, ReadIdle, ReadUi, SleepIdle, SleepUi, SliceInTime, KeysInTime, IdleSecs, ScreenSecs, IdleDue
<1> QED
  BY <1>1, <1>2, <1>3, <1>4, <1>5, <1>6 DEF Next

\* The invariant holds in every state of every behaviour.
LEMMA Invariance == Spec => []IInv
BY InvInit, InvStep, PTL DEF Spec

\* Type correctness of the idle timer: activity is never registered in the
\* future, and the task never sleeps longer than its period.
THEOREM TypeCorrect == Spec => []TypeOK
<1>1. IInv => TypeOK
  BY DEF IInv, Typed
<1> QED
  BY <1>1, Invariance, PTL

\* Neither timeout is missed, for any settings, any changes of them and any
\* number of threads that register activity: the screen goes dark within a slice
\* of its timeout, and a loaded wallet does not outlive the idle timeout by more
\* than the warning (idletimer_task, idletimer_delay).
THEOREM NoTimeoutMissed == Spec => []TimeoutsKept
<1>1. IInv => TimeoutsKept
  <2> SUFFICES ASSUME IInv PROVE TimeoutsKept
    OBVIOUS
  <2>1. Numbered
    BY Numbers DEF IInv
  <2>2. DimsOnTime
    <3> SUFFICES ASSUME task.pc = "slice", screen_timeout # Forever, ~screen_dimmed
                 PROVE  clock <= Due(last_ui_activity_registered, screen_timeout)
      BY DEF DimsOnTime
    <3>1. clock <= last_ui_activity_registered + ScreenSecs \/ changed = clock
      BY DEF IInv, TimeInv, SliceInTime
    <3>2. Due(last_ui_activity_registered, screen_timeout) =
            Larger(last_ui_activity_registered + ScreenSecs, changed + 1)
      BY DEF Due, ScreenSecs
    <3> QED
      BY <2>1, <3>1, <3>2 DEF Larger, Numbered
  <2>3. RestartsOnTime
    <3> SUFFICES ASSUME keys, task.pc \in {"slice", "warning"}
                 PROVE  clock <= IdleDue + Warning
      BY DEF RestartsOnTime, Due, IdleDue, IdleSecs
    <3>1. clock <= IdleDue \/ clock + task.left <= IdleDue + Warning
      BY DEF IInv, TimeInv, KeysInTime
    <3> QED
      BY <2>1, <3>1 DEF Numbered
  <2> QED
    BY <2>2, <2>3 DEF TimeoutsKept
<1> QED
  BY <1>1, Invariance, PTL

----------------------------------------------------------------------------
(* The screen, with one thread that registers activity.                    *)

\* Who is switching the backlight, and what it and the flag are meanwhile.
Waking == \E t \in Threads : reg[t] = "waking"
ScreenInv ==
    /\ task.pc = "dimming" => ~lit /\ ~screen_dimmed /\ ~Waking
    /\ Running /\ Waking => lit /\ screen_dimmed
    /\ task.pc \notin {"dimming", "down"} /\ ~Waking => (lit <=> ~screen_dimmed)

\* A step that leaves the screen and the wakers alone, and does not begin to dim.
LEMMA ScreenKept ==
    ASSUME ScreenInv, UNCHANGED screen, Waking' <=> Waking,
           task'.pc = task.pc \/ (task.pc \notin {"dimming", "down"} /\ task'.pc # "dimming")
    PROVE  ScreenInv'
BY DEF ScreenInv, Running, screen

\* A step that begins to dim finds a lit screen and nobody waking it.
LEMMA ScreenDims ==
    ASSUME ScreenInv, ~screen_dimmed, SetDimmed(1, TRUE), UNCHANGED reg,
           task.pc \notin {"dimming", "down"}, task'.pc = "dimming"
    PROVE  ScreenInv'
<1>1. lit' = ~TRUE /\ screen_dimmed' = screen_dimmed /\ Waking' = Waking
  BY DEF SetDimmed, Waking
<1>2. ~lit' /\ ~screen_dimmed'
  BY <1>1, Zenon
<1>3. ~Waking'
  BY <1>1 DEF ScreenInv, Running
<1> QED
  BY <1>2, <1>3 DEF ScreenInv, Running

\* With one thread, neither it nor the task switches the screen while the other does.
LEMMA ScreenStep ==
    ASSUME IInv, ScreenInv, [Next]_vars, \A s, t \in Threads : s = t
    PROVE  ScreenInv'
<1>1. reg \in [Threads -> {"none", "registered", "waking"}] /\ task \in Tasks
  BY DEF IInv, Typed, TypeOK
<1>2. ASSUME NEW t \in Threads, Register(t) \/ PassOn(t)
      PROVE  ScreenInv'
  <2>1. UNCHANGED screen /\ task'.pc = task.pc
    BY <1>1, <1>2 DEF Register, PassOn, Tasks
  <2>2. Waking' <=> Waking
    BY <1>1, <1>2 DEF Register, PassOn, Waking
  <2> QED
    BY <2>1, <2>2, ScreenKept
<1>3. ASSUME NEW t \in Threads, Wake(t)
      PROVE  ScreenInv'
  <2>1. task' = task /\ Running /\ screen_dimmed /\ lit' = ~FALSE /\ screen_dimmed' = screen_dimmed
    BY <1>3 DEF Wake, SetDimmed
  <2>2. lit' /\ screen_dimmed'
    BY <2>1, Zenon
  <2>3. Waking'
    BY <1>1, <1>3 DEF Wake, Waking
  <2>4. task.pc # "dimming"
    BY <2>1 DEF ScreenInv
  <2> QED
    BY <2>1, <2>2, <2>3, <2>4 DEF ScreenInv, Running
<1>4. ASSUME NEW t \in Threads, Woken(t)
      PROVE  ScreenInv'
  <2>1. task' = task /\ Running /\ reg[t] = "waking" /\ lit' = lit /\ screen_dimmed' = FALSE
    BY <1>4 DEF Woken, SetDimmed
  <2>2. ~screen_dimmed'
    BY <2>1, Zenon
  <2>3. Waking /\ lit'
    BY <2>1 DEF Waking, ScreenInv
  <2>4. ~Waking'
    BY <1>1, <1>4 DEF Woken, Waking
  <2>5. task.pc # "dimming"
    BY <2>3 DEF ScreenInv
  <2> QED
    BY <2>1, <2>2, <2>3, <2>4, <2>5 DEF ScreenInv, Running
<1>5. CASE Message \/ LoadWallet \/ Change
  <2>1. UNCHANGED <<screen, task, reg>>
    BY <1>5 DEF Message, LoadWallet, Change
  <2> QED
    BY <2>1, ScreenKept DEF Waking
<1>6. CASE \/ Check \/ Warn \/ WarningEnds \/ Cancelled \/ ReadScreen
           \/ Delay \/ SleepEnds \/ SliceBegins \/ Tick
  <2>1. UNCHANGED <<screen, reg>>
    BY <1>6 DEF Check, Warn, WarningEnds, Cancelled, ReadScreen, Delay, SleepEnds, SliceBegins, Tick
  <2>2. task.pc \notin {"dimming", "down"}
    BY <1>6 DEF Check, Warn, WarningEnds, Cancelled, ReadScreen, Delay, SleepEnds, SliceBegins, Tick
  <2>3. task'.pc # "dimming"
    <3>1. CASE Check
      BY <1>1, <3>1 DEF Check, Tasks
    <3>2. CASE Warn
      BY <1>1, <3>2 DEF Warn, Tasks
    <3>3. CASE WarningEnds
      BY <1>1, <3>3 DEF WarningEnds, Goto, Tasks
    <3>4. CASE Cancelled
      BY <1>1, <3>4 DEF Cancelled, NewPass
    <3>5. CASE ReadScreen
      BY <1>1, <3>5 DEF ReadScreen, Tasks
    <3>6. CASE Delay
      BY <1>1, <3>6 DEF Delay, NewPass
    <3>7. CASE SleepEnds
      BY <1>1, <3>7 DEF SleepEnds, NewPass
    <3>8. CASE SliceBegins
      BY <1>1, <3>8 DEF SliceBegins, Goto, Tasks
    <3>9. CASE Tick
      BY <1>1, <3>9 DEF Tick, Tasks
    <3> QED
      BY <1>6, <3>1, <3>2, <3>3, <3>4, <3>5, <3>6, <3>7, <3>8, <3>9
  <2> QED
    BY <2>1, <2>2, <2>3, ScreenKept DEF Waking
<1>7. CASE IdleDims
  <2>1. CASE screen_dimmed
    <3>1. UNCHANGED <<screen, reg>> /\ task.pc = "expired" /\ task'.pc = "screen"
      BY <1>1, <1>7, <2>1 DEF IdleDims, Goto, Tasks
    <3> QED
      BY <3>1, ScreenKept DEF Waking
  <2>2. CASE ~screen_dimmed
    <3>1. SetDimmed(1, TRUE) /\ UNCHANGED reg /\ task.pc = "expired" /\ task'.pc = "dimming"
      BY <1>1, <1>7, <2>2 DEF IdleDims, Tasks
    <3> QED
      BY <2>2, <3>1, ScreenDims
  <2> QED
    BY <2>1, <2>2
<1>8. CASE Dim
  <2> DEFINE dims == ~screen_dimmed /\ task.ui <= task.checktime
  <2>1. CASE ~dims
    <3>1. UNCHANGED <<screen, reg>> /\ task.pc = "dim" /\ task'.pc = "delay"
      BY <1>1, <1>8, <2>1 DEF Dim, Goto, Tasks
    <3> QED
      BY <3>1, ScreenKept DEF Waking
  <2>2. CASE dims
    <3>1. SetDimmed(1, TRUE) /\ UNCHANGED reg /\ task.pc = "dim" /\ task'.pc = "dimming"
      BY <1>1, <1>8, <2>2 DEF Dim, Tasks
    <3> QED
      BY <2>2, <3>1, ScreenDims
  <2> QED
    BY <2>1, <2>2
<1>9. CASE Dimmed
  <2>1. task.pc = "dimming" /\ lit' = lit /\ screen_dimmed' = TRUE /\ UNCHANGED reg
    BY <1>9 DEF Dimmed, SetDimmed
  <2>2. screen_dimmed'
    BY <2>1, Zenon
  <2>3. task'.pc \in {"screen", "delay"}
    BY <1>1, <1>9 DEF Dimmed, Goto, Tasks
  <2>4. ~lit /\ ~Waking
    BY <2>1 DEF ScreenInv
  <2> QED
    BY <2>1, <2>2, <2>3, <2>4 DEF ScreenInv, Waking
<1>10. CASE Restart
  BY <1>1, <1>10 DEF Restart, Goto, ScreenInv, Running, Tasks
<1>11. CASE UNCHANGED vars
  BY <1>11, ScreenKept DEF vars, Waking
<1> QED
  BY <1>2, <1>3, <1>4, <1>5, <1>6, <1>7, <1>8, <1>9, <1>10, <1>11 DEF Next

\* With a single thread that registers activity, as on the device without a
\* camera scanning, the backlight is off exactly when screen_dimmed says so
\* whenever nobody is switching it: a dark screen wakes at the next press, and a
\* press that is passed on was made on a lit screen.
THEOREM OneThreadWakes ==
    ASSUME \A s, t \in Threads : s = t
    PROVE  Spec => []DarkWakes
<1>1. Init => ScreenInv
  <2> SUFFICES ASSUME Init PROVE ScreenInv
    OBVIOUS
  <2>1. lit /\ ~screen_dimmed
    BY Zenon DEF Init
  <2>2. task.pc = "check" /\ ~Waking
    BY DEF Init, NewPass, Waking
  <2> QED
    BY <2>1, <2>2 DEF ScreenInv
<1>2. IInv /\ ScreenInv /\ [Next]_vars => ScreenInv'
  BY ScreenStep
<1>3. IInv /\ ScreenInv => DarkWakes
  <2> SUFFICES ASSUME IInv, ScreenInv PROVE DarkWakes
    OBVIOUS
  <2>1. lit \in BOOLEAN /\ screen_dimmed \in BOOLEAN
    BY DEF IInv, Typed, TypeOK
  <2>2. task.pc \notin {"dimming", "down"} /\ (\A t \in Threads : reg[t] # "waking") =>
            (lit <=> ~screen_dimmed)
    BY DEF ScreenInv, Waking
  <2> QED
    BY <2>1, <2>2, Zenon DEF DarkWakes
<1> QED
  BY <1>1, <1>2, <1>3, Invariance, PTL DEF Spec

============================================================================
