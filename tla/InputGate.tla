----------------------------- MODULE InputGate -----------------------------
(***************************************************************************)
(* The input gate (pijade/host/input_gate.h), the button loop and the      *)
(* flush handler that use it (pijade/host/pijade_host.c), and the gui      *)
(* task's job queue whose counters it compares (main/gui.c).               *)
(*                                                                         *)
(* Three threads and a user: the user presses keys while reading the       *)
(* panel; the input thread judges each press and hands it to Jade; any     *)
(* task posts jobs; the gui task drains them, draws, and writes frames     *)
(* under the panel lock.  A frame is abstracted to the screen it shows and *)
(* the number of jobs drawn into it.  The clock moves when a frame has     *)
(* been written: of two readings only their order matters, and the         *)
(* distance to SETTLE_TIMEOUT, which TimePasses covers.                    *)
(***************************************************************************)
EXTENDS Naturals, Sequences

CONSTANTS
    Width,        \* 2^32 of the job counters
    Timeout,      \* INPUT_GATE_SETTLE_TIMEOUT_NS
    Starts,       \* jobs posted and shown before the behaviour; 0 for a boot
    MaxJobs,      \* bound: jobs posted in the behaviour
    MaxPresses,   \* bound: keys pressed
    MaxRare       \* bound: frames drawn without a job, times that the timeout runs
                  \* out, and frames and clock readings that fail, together

ASSUME BoundsAssumption ==
    /\ Width \in Nat /\ MaxJobs < Width \div 2
    /\ Timeout \in Nat \ {0} /\ Starts \subseteq Nat
    /\ MaxJobs \in Nat /\ MaxPresses \in Nat /\ MaxRare \in Nat

VARIABLES
    queue,    \* gui_input_queue: the jobs enqueued, "paint" or "swap"
    posted,   \* gui_jobs_posted
    poster,   \* who holds gui_post_mutex with a job enqueued but not counted
    taken,    \* jobs taken off the queue
    drained,  \* gui_jobs_drained
    gen,      \* activity_generation
    gui,      \* the gui task: "wait", "drain", "flush" or "write"
    gate,     \* g_input_gate
    failed,   \* g_panel_failed
    clock,    \* CLOCK_MONOTONIC
    panel,    \* what the panel shows
    events,   \* key presses the kernel holds
    in,       \* the input thread
    own,      \* history: the last job that a dispatched press posted
    spent     \* the bounds used up

guiVars == <<queue, posted, poster, taken, drained, gen, gui>>
vars    == <<guiVars, gate, failed, clock, panel, events, in, own, spent>>

----------------------------------------------------------------------------
\* UINT64_MAX: later than every reading of the clock.
Never == (MaxRare + 1) * Timeout + MaxJobs + MaxRare + 2

Blank == [gen |-> 0, drained |-> 0]

NoPress == [acts |-> FALSE, at |-> 0, saw |-> Blank]

\* (int32_t)(a - b) >= 0 for two wrapped counts.
Reached(a, b) == ((a + Width) - b) % Width < Width \div 2

\* g_input_gate at the start.
NewGate ==
    [have_pending |-> FALSE, pending_jobs |-> 0, pending_since_ns |-> 0,
     have_completed |-> FALSE, completed_drained |-> 0,
     drain_advanced_ns |-> 0, drain_advanced_gen |-> 0,
     have_settled |-> FALSE, settled_ns |-> 0, settled_gen |-> 0,
     usable |-> TRUE]     \* last_end_ns # UINT64_MAX

\* The input thread: the press it handles, the copy of the gate and the screen
\* it was judged by, the job count read before the dispatch or for the mark.
Waiting == [pc |-> "wait", press |-> NoPress, gate |-> NewGate, gen |-> 0, jobs |-> 0, since |-> 0]

----------------------------------------------------------------------------
(* The gate's three operations, as functions of its state.                 *)

\* Mutant of Dispatched: a mark that is already met is only dropped.
DispatchedUnrepaired(g, now, jobs) ==
    [g EXCEPT !.pending_jobs = jobs, !.pending_since_ns = now,
              !.have_pending = ~(g.have_completed /\ Reached(g.completed_drained, jobs))]

\* Mutant of Dispatched: completions before the mark are not looked at.
DispatchedAlwaysPending(g, now, jobs) ==
    [g EXCEPT !.pending_jobs = jobs, !.pending_since_ns = now, !.have_pending = TRUE]

\* input_gate_input_dispatched
Dispatched(g, now, jobs) ==
    LET marked == [g EXCEPT !.pending_jobs = jobs, !.pending_since_ns = now, !.have_pending = TRUE]
        met    == [marked EXCEPT !.have_pending = FALSE]
    IN  IF ~(g.have_completed /\ Reached(g.completed_drained, jobs)) THEN marked
        ELSE IF g.have_settled /\ g.drain_advanced_ns <= g.settled_ns THEN met
        ELSE [met EXCEPT !.settled_ns = g.drain_advanced_ns,
                         !.settled_gen = g.drain_advanced_gen,
                         !.have_settled = TRUE]

\* input_gate_write_end, for a write that carried screen s and count d.
Written(g, end, usable, s, d) ==
    LET advanced == ~g.have_completed \/ d # g.completed_drained
        noted    == IF advanced
                    THEN [g EXCEPT !.completed_drained = d, !.drain_advanced_ns = end,
                                   !.drain_advanced_gen = s, !.have_completed = TRUE]
                    ELSE g
        meets    == g.have_pending /\ Reached(d, g.pending_jobs)
        fresh    == ~g.have_settled \/ s # g.settled_gen
        settled  == IF meets \/ fresh
                    THEN [noted EXCEPT !.settled_ns = end, !.settled_gen = s, !.have_settled = TRUE]
                    ELSE noted
    IN  [settled EXCEPT !.have_pending = g.have_pending /\ ~meets, !.usable = usable]

\* Mutant of Judge: the current screen is not compared.
JudgeAnyScreen(g, at, s) ==
    /\ g.usable
    /\ g.have_settled
    /\ at >= g.settled_ns
    /\ ~g.have_pending \/ at >= g.pending_since_ns + Timeout

\* input_gate_judge: a press made at time at, with s the current screen.
Judge(g, at, s) ==
    /\ g.usable
    /\ g.have_settled
    /\ at >= g.settled_ns
    /\ ~g.have_pending \/ at >= g.pending_since_ns + Timeout
    /\ s = g.settled_gen

----------------------------------------------------------------------------
\* A boot, or a device at rest.
Init ==
    /\ queue = <<>>
    /\ posted \in Starts
    /\ poster = "nobody"
    /\ taken = posted
    /\ drained = posted
    /\ gen = 0
    /\ \/ posted = 0 /\ gui = "flush" /\ gate = NewGate
       \/ posted > 0 /\ gui = "wait" /\ gate = Written(NewGate, 0, TRUE, 0, posted % Width)
    /\ failed = FALSE
    /\ clock = 0
    /\ panel = [gen |-> 0, drained |-> posted]
    /\ events = <<>>
    /\ in = Waiting
    /\ own = 0
    /\ spent = [jobs |-> 0, presses |-> 0, rare |-> 0]

\* One of the rare things that the bound counts together.
Rare == spent.rare < MaxRare /\ spent' = [spent EXCEPT !.rare = @ + 1]

----------------------------------------------------------------------------
(* gui_post, from the input thread or from any other task: the job is      *)
(* counted under the same lock under which it was enqueued.                *)

\* Mutant of Enqueue: without gui_post_mutex.
EnqueueUnlocked(who, job) ==
    /\ spent.jobs < MaxJobs
    /\ spent' = [spent EXCEPT !.jobs = @ + 1]
    /\ queue' = Append(queue, job)
    /\ poster' = who

Enqueue(who, job) ==
    /\ poster = "nobody"
    /\ spent.jobs < MaxJobs
    /\ spent' = [spent EXCEPT !.jobs = @ + 1]
    /\ queue' = Append(queue, job)
    /\ poster' = who

Count(who) ==
    /\ poster = who
    /\ posted' = posted + 1
    /\ poster' = "nobody"

OtherEnqueues ==
    /\ \E job \in {"paint", "swap"} : Enqueue("other", job)
    /\ UNCHANGED <<posted, taken, drained, gen, gui, gate, failed, clock, panel, events, in, own>>

OtherCounts ==
    /\ Count("other")
    /\ UNCHANGED <<queue, taken, drained, gen, gui, gate, failed, clock, panel, events, in, own, spent>>

----------------------------------------------------------------------------
(* The gui task.                                                           *)

\* handle_gui_input_queue takes a job; a swap announces its screen.
TakeJob ==
    /\ gui \in {"wait", "drain"}
    /\ queue # <<>>
    /\ queue' = Tail(queue)
    /\ taken' = taken + 1
    /\ gen' = IF Head(queue) = "swap" THEN gen + 1 ELSE gen
    /\ gui' = "drain"
    /\ UNCHANGED <<posted, poster, drained, gate, failed, clock, panel, events, in, own, spent>>

\* The queue is empty: the count is published, and the frame is flushed.
Publish ==
    /\ gui = "drain"
    /\ queue = <<>>
    /\ drained' = taken
    /\ gui' = "flush"
    /\ UNCHANGED <<queue, posted, poster, taken, gen, gate, failed, clock, panel, events, in, own, spent>>

\* An updatable node or the status bar changed: a frame without a job.
Refresh ==
    /\ gui = "wait"
    /\ queue = <<>>
    /\ Rare
    /\ gui' = "flush"
    /\ UNCHANGED <<queue, posted, poster, taken, drained, gen, gate, failed, clock, panel, events, in, own>>

\* on_display_flush_panel takes the panel lock, and input_gate_write_begin
\* notes the screen and the count, which only this task changes ...
WriteBegin ==
    /\ gui = "flush"
    /\ gui' = "write"
    /\ UNCHANGED <<queue, posted, poster, taken, drained, gen, gate, failed, clock, panel, events, in, own, spent>>

\* ... or cannot read the clock.
FlushNoClock ==
    /\ gui = "flush"
    /\ Rare
    /\ failed' = TRUE
    /\ gui' = "wait"
    /\ UNCHANGED <<queue, posted, poster, taken, drained, gen, gate, clock, panel, events, in, own>>

\* The frame is on the panel; the end is read, published, and the lock is
\* released.  Without a frame or without a reading the panel has failed.
WriteEnd(written, timed) ==
    /\ gui = "write"
    /\ gui' = "wait"
    /\ clock' = clock + 1
    /\ gate' = Written(gate, IF timed THEN clock + 1 ELSE Never, timed, gen, drained % Width)
    /\ failed' = (failed \/ ~written \/ ~timed)
    /\ panel' = IF written THEN [gen |-> gen, drained |-> drained] ELSE panel
    /\ IF written /\ timed THEN UNCHANGED spent ELSE Rare
    /\ UNCHANGED <<queue, posted, poster, taken, drained, gen, events, in, own>>

----------------------------------------------------------------------------
(* The user and the kernel.                                                *)

\* A key goes down; the user has read what the panel shows.
Press(acts) ==
    /\ spent.presses < MaxPresses
    /\ spent' = [spent EXCEPT !.presses = @ + 1]
    /\ events' = Append(events, [acts |-> acts, at |-> clock, saw |-> panel])
    /\ UNCHANGED <<guiVars, gate, failed, clock, panel, in, own>>

TimePasses ==
    /\ Rare
    /\ clock' = clock + Timeout
    /\ UNCHANGED <<guiVars, gate, failed, panel, events, in, own>>

----------------------------------------------------------------------------
(* The input thread: the loop of run_device.                               *)

\* buttons_wait returns a press; the gate is copied under the panel lock.
\* A panel that has failed ends the loop.
Snapshot ==
    /\ in.pc = "wait"
    /\ events # <<>>
    /\ gui # "write"
    /\ events' = Tail(events)
    /\ in' = IF failed THEN [Waiting EXCEPT !.pc = "stopped"]
             ELSE [Waiting EXCEPT !.pc = "judge", !.press = Head(events), !.gate = gate]
    /\ UNCHANGED <<guiVars, gate, failed, clock, panel, own, spent>>

\* The current screen is read.  Only a press that acts is judged, and one that
\* is discarded goes no further.
Decide ==
    /\ in.pc = "judge"
    /\ in' = IF in.press.acts => Judge(in.gate, in.press.at, gen)
             THEN [in EXCEPT !.pc = "allowed", !.gen = gen]
             ELSE Waiting
    /\ UNCHANGED <<guiVars, gate, failed, clock, panel, events, own, spent>>

\* libjade_input, between two readings of the job count: the press posts a job
\* or none.  Its own time is kept.
InputBegins ==
    /\ in.pc = "allowed"
    /\ in' = [Waiting EXCEPT !.pc = "input", !.jobs = posted, !.since = in.press.at]
    /\ UNCHANGED <<guiVars, gate, failed, clock, panel, events, own, spent>>

InputEnqueues ==
    /\ in.pc = "input"
    /\ \E job \in {"paint", "swap"} : Enqueue("input", job)
    /\ in' = [in EXCEPT !.pc = "posting"]
    /\ own' = taken + Len(queue')
    /\ UNCHANGED <<posted, taken, drained, gen, gui, gate, failed, clock, panel, events>>

InputCounts ==
    /\ in.pc = "posting"
    /\ Count("input")
    /\ in' = [in EXCEPT !.pc = "posted"]
    /\ UNCHANGED <<queue, taken, drained, gen, gui, gate, failed, clock, panel, events, own, spent>>

\* libjade_input returned.  Equal counts arm nothing.
InputReturns ==
    /\ in.pc \in {"input", "posted"}
    /\ in' = IF posted = in.jobs THEN Waiting
             ELSE [in EXCEPT !.pc = "mark", !.jobs = posted, !.since = clock]
    /\ UNCHANGED <<guiVars, gate, failed, clock, panel, events, own, spent>>

\* The clock cannot be read: the timeout runs from the press.
ReturnsUntimed ==
    /\ in.pc \in {"input", "posted"}
    /\ posted # in.jobs
    /\ in' = [in EXCEPT !.pc = "mark", !.jobs = posted]
    /\ Rare
    /\ UNCHANGED <<guiVars, gate, failed, clock, panel, events, own>>

\* The mark is published under the panel lock.
Mark ==
    /\ in.pc = "mark"
    /\ gui # "write"
    /\ gate' = Dispatched(gate, in.since, in.jobs % Width)
    /\ in' = Waiting
    /\ UNCHANGED <<guiVars, failed, clock, panel, events, own, spent>>

----------------------------------------------------------------------------
GuiStep ==
    \/ TakeJob
    \/ Publish
    \/ WriteBegin
    \/ FlushNoClock
    \/ \E written, timed \in BOOLEAN : WriteEnd(written, timed)

InputStep ==
    \/ Snapshot
    \/ Decide
    \/ InputBegins
    \/ InputEnqueues
    \/ InputCounts
    \/ InputReturns
    \/ ReturnsUntimed
    \/ Mark

Next ==
    \/ OtherEnqueues
    \/ OtherCounts
    \/ GuiStep
    \/ Refresh
    \/ \E acts \in BOOLEAN : Press(acts)
    \/ TimePasses
    \/ InputStep

\* The gui task loops at its frame rate for as long as Jade runs: gui_task.
Fairness == WF_vars(GuiStep)

Spec == Init /\ [][Next]_vars /\ Fairness

----------------------------------------------------------------------------
(* Properties.                                                             *)

Counts == 0 .. Width - 1
Times  == 0 .. Never
Jobs   == UNION {0 .. s + MaxJobs : s \in Starts}
Frames == [gen : 0 .. MaxJobs, drained : Jobs]
Gates  == [have_pending : BOOLEAN, pending_jobs : Counts, pending_since_ns : Times,
           have_completed : BOOLEAN, completed_drained : Counts,
           drain_advanced_ns : Times, drain_advanced_gen : 0 .. MaxJobs,
           have_settled : BOOLEAN, settled_ns : Times, settled_gen : 0 .. MaxJobs,
           usable : BOOLEAN]
Presses == [acts : BOOLEAN, at : Times, saw : Frames]

\* Type correctness; the counters never promise a job that is not there:
\* drained <= posted, but for the one job that is enqueued and not counted.
TypeOK ==
    /\ queue \in Seq({"paint", "swap"}) /\ poster \in {"nobody", "input", "other"}
    /\ posted \in Jobs /\ taken \in Jobs /\ drained \in 0 .. taken
    /\ taken + Len(queue) = posted + (IF poster = "nobody" THEN 0 ELSE 1)
    /\ gen \in 0 .. taken
    /\ gui \in {"wait", "drain", "flush", "write"}
    /\ gate \in Gates /\ failed \in BOOLEAN /\ clock \in Times /\ panel \in Frames
    /\ events \in Seq(Presses)
    /\ in.pc \in {"wait", "judge", "allowed", "input", "posting", "posted", "mark", "stopped"}
    /\ in.press \in Presses /\ in.gate \in Gates /\ in.gen \in 0 .. MaxJobs
    /\ in.jobs \in Jobs /\ in.since \in Times
    /\ own \in Jobs

\* An acting press that the gate allows was made on the screen that is current
\* when it is allowed (input_gate.h: "a press applies to what the user was
\* READING when they made it").
ActsOnScreenRead ==
    in.pc = "allowed" /\ in.press.acts => in.press.saw.gen = in.gen

\* The panel showed every job that an earlier press had posted, unless the gate
\* gave up on the gui task (rules 1, 2 and 4, and the retrospective repair).
ActsOnWorkShown ==
    in.pc = "allowed" /\ in.press.acts /\ ~in.gate.have_pending => in.press.saw.drained >= own

\* A mark is always met in the end: the timeout is only insurance
\* ("In normal operation it never fires").
MarkIsMet == gate.have_pending /\ ~failed ~> ~gate.have_pending \/ failed

============================================================================
