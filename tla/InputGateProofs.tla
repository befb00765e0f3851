-------------------------- MODULE InputGateProofs --------------------------
(***************************************************************************)
(* Proofs about the input gate: whatever the interleaving of the gui task, *)
(* the input thread and the tasks that post jobs, a press that the gate    *)
(* lets act was made on the screen that is current, and on a panel that    *)
(* showed every job an earlier press had posted; for any width of the job  *)
(* counters more than twice the jobs in flight, any timeout and any bound. *)
(*                                                                         *)
(* The last section is about the buttons that the presses come from: for   *)
(* any lines, any delays and any queue of the kernel's, a repeat comes     *)
(* only of a direction that was held for the whole delay.                  *)
(***************************************************************************)
EXTENDS InputGate, Buttons, Integers, WellFoundedInduction, TLAPS

----------------------------------------------------------------------------
(* The inductive invariant.                                                *)

InSteps == {"wait", "judge", "allowed", "input", "posting", "posted", "mark", "stopped"}
Ins     == [pc : InSteps, press : Presses, gate : Gates, gen : 0 .. MaxJobs,
            jobs : Jobs, since : Times]
Spents  == [jobs : 0 .. MaxJobs, presses : 0 .. MaxPresses, rare : 0 .. MaxRare]

\* The jobs posted before the behaviour.
Start == (taken + Len(queue)) - spent.jobs

\* Every count lies between the start and the jobs posted since.
Window ==
    /\ Start \in Starts /\ Start <= posted
    /\ Start <= panel.drained /\ panel.drained <= drained /\ drained <= taken
    /\ panel.gen <= gen /\ gen <= taken - Start

\* The time that the timeouts which ran out have taken.
RareTime == spent.rare * Timeout

\* Every frame was paid for by a job, a refresh or the first drawing.
ClockBound ==
    clock + (IF gui = "wait" THEN 0 ELSE 1) <= RareTime + spent.rare + (taken - Start) + 1

\* Who is posting, and the counts the input thread has read.
Posting ==
    /\ poster = "input" <=> in.pc = "posting"
    /\ own <= posted + (IF in.pc = "posting" THEN 1 ELSE 0)
    /\ in.pc \in {"input", "posting"} => in.jobs <= posted
    /\ in.pc = "posted" => in.jobs < posted
    /\ in.pc = "mark" => own <= in.jobs /\ Start <= in.jobs /\ in.jobs <= posted

\* A press on its way was made in the past, on a frame of the past.
Past(p) == p.at <= clock /\ p.saw.gen <= panel.gen

\* The gate's times are past, and its pairs describe frames the panel showed.
GatePast ==
    /\ gate.have_settled <=> gate.have_completed
    /\ gate.settled_ns <= clock /\ gate.settled_gen <= panel.gen
    /\ gate.drain_advanced_ns <= clock /\ gate.drain_advanced_gen <= panel.gen
    /\ gate.have_completed => gate.completed_drained = panel.drained % Width

\* A press made since the gate settled, or since the count last advanced, was
\* made on that screen or a later one, and with that count.
SawSettled(g, p) ==
    g.have_settled /\ p.at >= g.settled_ns => p.saw.gen >= g.settled_gen
SawAdvanced(p) ==
    gate.have_completed /\ p.at >= gate.drain_advanced_ns =>
        p.saw.gen >= gate.drain_advanced_gen /\ p.saw.drained >= panel.drained

\* A press made since the gate settled with no mark pending saw the work of
\* every earlier press.
SawWork(g, p) ==
    ~g.have_pending /\ g.have_settled /\ p.at >= g.settled_ns => p.saw.drained >= own

\* The mark that is pending stands for a job count that covers that work.
MarkCovers == \E p \in own .. posted : Start <= p /\ gate.pending_jobs = p % Width

\* The input thread has not published the mark of its last press yet.
Unmarked == in.pc \in {"posting", "posted", "mark"}

PressesPast == \A i \in 1 .. Len(events) : Past(events[i])

\* What the gate says as long as the panel works.
GateTrue ==
    ~failed =>
        /\ GatePast
        /\ \A i \in 1 .. Len(events) : SawSettled(gate, events[i]) /\ SawAdvanced(events[i])
        /\ ~Unmarked =>
              /\ gate.have_pending => MarkCovers
              /\ ~gate.have_pending => own <= panel.drained
              /\ \A i \in 1 .. Len(events) : SawWork(gate, events[i])

\* The same of the copy that the press in hand is judged by.
JudgeTrue ==
    /\ in.pc \in {"judge", "allowed"} => Past(in.press)
    /\ in.pc = "judge" => SawSettled(in.gate, in.press) /\ SawWork(in.gate, in.press)

Typed     == TypeOK /\ in \in Ins /\ spent \in Spents
CountsInv == Window /\ ClockBound /\ Posting
GateInv   == PressesPast /\ GateTrue /\ JudgeTrue /\ ActsOnScreenRead /\ ActsOnWorkShown

IInv == Typed /\ CountsInv /\ GateInv

----------------------------------------------------------------------------
(* Wrapped counters.                                                       *)

\* The width is positive and its half exceeds the jobs of a behaviour.
LEMMA WidthFacts ==
    /\ Width \in Nat /\ Width >= 2 /\ MaxJobs \in Nat /\ MaxJobs < Width
    /\ \A k \in Nat : k <= MaxJobs => k < Width \div 2 /\ (k > 0 => ~(Width - k < Width \div 2))
BY BoundsAssumption

\* A count and a later one differ, wrapped, by their distance.
LEMMA ModAdd ==
    ASSUME NEW a \in Nat, NEW k \in Nat, k < Width
    PROVE  /\ (a % Width) \in 0 .. Width - 1
           /\ (a + k) % Width = IF (a % Width) + k < Width THEN (a % Width) + k
                                                           ELSE ((a % Width) + k) - Width
<1> DEFINE r == a % Width
           q == a \div Width
           r2 == (a + k) % Width
           q2 == (a + k) \div Width
<1>1. Width \in Nat /\ Width > 0
  BY WidthFacts
<1>2. q \in Int /\ r \in 0 .. Width - 1 /\ a = (Width * q) + r
  BY <1>1
<1>3. q2 \in Int /\ r2 \in 0 .. Width - 1 /\ a + k = (Width * q2) + r2
  BY <1>1
<1> HIDE DEF r, q, r2, q2
<1>4. Width * (q2 - q) = (k + r) - r2
  BY <1>1, <1>2, <1>3
<1>5. q2 - q \in Int /\ -1 < q2 - q /\ q2 - q < 2
  BY <1>1, <1>2, <1>3, <1>4
<1>6. CASE q2 - q = 0
  BY <1>1, <1>2, <1>3, <1>4, <1>6 DEF r, r2
<1>7. CASE q2 - q = 1
  BY <1>1, <1>2, <1>3, <1>4, <1>7 DEF r, r2
<1> QED
  BY <1>5, <1>6, <1>7

\* Reached compares two counts of one behaviour as if they did not wrap.
LEMMA ReachedIff ==
    ASSUME NEW a \in Nat, NEW b \in Nat, a <= b + MaxJobs, b <= a + MaxJobs
    PROVE  Reached(a % Width, b % Width) <=> a >= b
<1> DEFINE W == Width
<1>1. W \in Nat /\ W >= 2 /\ MaxJobs \in Nat /\ MaxJobs < W
  BY WidthFacts
<1>2. CASE a >= b
  <2>1. PICK k \in Nat : k <= MaxJobs /\ k < W /\ a = b + k
    <3>1. a - b \in Nat /\ a - b <= MaxJobs /\ a - b < W /\ a = b + (a - b)
      BY <1>1, <1>2
    <3> QED
      BY <3>1
  <2>2. /\ (b % W) \in 0 .. W - 1
        /\ a % W = IF (b % W) + k < W THEN (b % W) + k ELSE ((b % W) + k) - W
    BY <1>1, <2>1, ModAdd
  <2>3. ((a % W) + W) - (b % W) = k + W \/ ((a % W) + W) - (b % W) = k
    BY <1>1, <2>1, <2>2
  <2>4. k % W = k /\ (k + W) % W = k
    BY <1>1, <2>1
  <2>5. k < W \div 2
    BY <2>1, WidthFacts
  <2> QED
    BY <1>2, <2>3, <2>4, <2>5 DEF Reached
<1>3. CASE a < b
  <2>1. PICK k \in Nat : k > 0 /\ k <= MaxJobs /\ k < W /\ b = a + k
    <3>1. b - a \in Nat /\ b - a > 0 /\ b - a <= MaxJobs /\ b - a < W /\ b = a + (b - a)
      BY <1>1, <1>3
    <3> QED
      BY <3>1
  <2>2. /\ (a % W) \in 0 .. W - 1
        /\ b % W = IF (a % W) + k < W THEN (a % W) + k ELSE ((a % W) + k) - W
    BY <1>1, <2>1, ModAdd
  <2>3. ((a % W) + W) - (b % W) = W - k \/ ((a % W) + W) - (b % W) = (W - k) + W
    BY <1>1, <2>1, <2>2
  <2>4. (W - k) % W = W - k /\ ((W - k) + W) % W = W - k
    BY <1>1, <2>1
  <2>5. ~(W - k < W \div 2)
    BY <2>1, WidthFacts
  <2> QED
    BY <1>3, <2>3, <2>4, <2>5 DEF Reached
<1> QED
  BY <1>2, <1>3

\* Equal wrapped counts of one behaviour are equal.
LEMMA ModInjective ==
    ASSUME NEW a \in Nat, NEW b \in Nat, a <= b, b <= a + MaxJobs, a % Width = b % Width
    PROVE  a = b
<1>1. Width \in Nat /\ MaxJobs \in Nat /\ MaxJobs < Width
  BY WidthFacts
<1>2. b - a \in Nat /\ b - a < Width /\ b = a + (b - a)
  BY <1>1
<1>3. PICK k \in Nat : k < Width /\ b = a + k
  BY <1>2
<1>4. /\ (a % Width) \in 0 .. Width - 1
      /\ (a + k) % Width = IF (a % Width) + k < Width THEN (a % Width) + k
                                                      ELSE ((a % Width) + k) - Width
  BY <1>3, ModAdd
<1>5. k = 0
  BY <1>1, <1>3, <1>4
<1> QED
  BY <1>3, <1>5

----------------------------------------------------------------------------
(* Types and bounds.                                                       *)

\* Counts of jobs are naturals, and every count within the window is one.
LEMMA JobsFacts ==
    /\ Jobs \subseteq Nat
    /\ \A s \in Starts, n \in Nat : n <= s + MaxJobs => n \in Jobs
BY BoundsAssumption DEF Jobs

\* What is bounded by the clock is a time.
LEMMA TimeFacts ==
    /\ Never \in Nat /\ Times \subseteq Nat /\ Never \in Times /\ 0 \in Times
    /\ \A t \in Nat : t <= Never => t \in Times
<1>1. (MaxRare + 1) * Timeout \in Nat
  BY BoundsAssumption
<1> QED
  BY <1>1, BoundsAssumption DEF Never, Times

\* The clock never comes near Never.
LEMMA ClockFacts ==
    ASSUME NEW t \in Nat, NEW r \in 0 .. MaxRare, NEW j \in 0 .. MaxJobs,
           t <= r * Timeout + r + j + 1
    PROVE  t <= Never /\ t + Timeout <= Never
<1>1. r * Timeout <= MaxRare * Timeout
  BY BoundsAssumption
<1>2. (MaxRare + 1) * Timeout = MaxRare * Timeout + Timeout
  BY BoundsAssumption
<1>3. r * Timeout \in Nat /\ MaxRare * Timeout \in Nat
  BY BoundsAssumption
<1> QED
  BY <1>1, <1>2, <1>3, BoundsAssumption DEF Never

\* One more rare event pays for one more timeout.
LEMMA RareStep ==
    ASSUME NEW r \in Nat
    PROVE  (r + 1) * Timeout = r * Timeout + Timeout /\ r * Timeout \in Nat
BY BoundsAssumption

\* Taking an element off a sequence.
LEMMA TailFacts ==
    ASSUME NEW S, NEW s \in Seq(S), s # <<>>
    PROVE  /\ Tail(s) \in Seq(S) /\ Len(s) >= 1 /\ Len(Tail(s)) = Len(s) - 1
           /\ \A i \in 1 .. Len(Tail(s)) : Tail(s)[i] = s[i + 1]
           /\ Head(s) \in S /\ Head(s) = s[1]
OBVIOUS

\* Adding one.
LEMMA AppendFacts ==
    ASSUME NEW S, NEW s \in Seq(S), NEW e \in S
    PROVE  /\ Append(s, e) \in Seq(S) /\ Len(Append(s, e)) = Len(s) + 1
           /\ \A i \in 1 .. Len(s) : Append(s, e)[i] = s[i]
           /\ Append(s, e)[Len(s) + 1] = e
OBVIOUS

\* The numbers in a press are naturals.
LEMMA PressFacts ==
    \A p \in Presses : p.at \in Nat /\ p.saw.gen \in Nat /\ p.saw.drained \in Nat
<1> SUFFICES ASSUME NEW p \in Presses
             PROVE p.at \in Nat /\ p.saw.gen \in Nat /\ p.saw.drained \in Nat
  OBVIOUS
<1>1. p.at \in Times /\ p.saw \in Frames
  BY DEF Presses
<1>2. p.saw.gen \in 0 .. MaxJobs /\ p.saw.drained \in Jobs
  BY <1>1 DEF Frames
<1>3. p.at \in Nat
  BY <1>1, TimeFacts
<1>4. p.saw.drained \in Nat
  BY <1>2, JobsFacts
<1>5. p.saw.gen \in Nat
  BY <1>2, BoundsAssumption
<1> QED
  BY <1>3, <1>4, <1>5

\* So are the times and screens of a gate.
LEMMA GateFacts ==
    \A g \in Gates :
        /\ g.settled_ns \in Nat /\ g.settled_gen \in Nat
        /\ g.drain_advanced_ns \in Nat /\ g.drain_advanced_gen \in Nat
<1> SUFFICES ASSUME NEW g \in Gates
             PROVE  /\ g.settled_ns \in Nat /\ g.settled_gen \in Nat
                    /\ g.drain_advanced_ns \in Nat /\ g.drain_advanced_gen \in Nat
  OBVIOUS
<1>1. /\ g.settled_ns \in Times /\ g.settled_gen \in 0 .. MaxJobs
      /\ g.drain_advanced_ns \in Times /\ g.drain_advanced_gen \in 0 .. MaxJobs
  BY DEF Gates
<1>2. g.settled_ns \in Nat /\ g.drain_advanced_ns \in Nat
  BY <1>1, TimeFacts
<1>3. g.settled_gen \in Nat /\ g.drain_advanced_gen \in Nat
  BY <1>1, BoundsAssumption
<1> QED
  BY <1>2, <1>3

\* The presses and the gates of a state.
LEMMA Members ==
    ASSUME IInv
    PROVE  /\ \A i \in 1 .. Len(events) : events[i] \in Presses
           /\ in.press \in Presses /\ gate \in Gates /\ in.gate \in Gates /\ panel \in Frames
<1>1. events \in Seq(Presses)
  BY DEF IInv, Typed, TypeOK
<1> QED
  BY <1>1 DEF IInv, Typed, TypeOK

\* The numbers of a state.
Numbered ==
    /\ posted \in Nat /\ taken \in Nat /\ drained \in Nat /\ gen \in Nat
    /\ own \in Nat /\ clock \in Nat /\ Len(queue) \in Nat /\ Len(events) \in Nat
    /\ panel.gen \in Nat /\ panel.drained \in Nat
    /\ spent.jobs \in 0 .. MaxJobs /\ spent.rare \in 0 .. MaxRare /\ spent.rare \in Nat
    /\ RareTime \in Nat /\ Start \in Nat /\ in.jobs \in Nat /\ in.since \in Nat
    /\ MaxJobs \in Nat /\ MaxRare \in Nat /\ Timeout \in Nat /\ Timeout > 0

\* They are naturals.
LEMMA Numbers ==
    ASSUME IInv
    PROVE  Numbered
<1>1. posted \in Nat /\ taken \in Nat /\ own \in Nat /\ in.jobs \in Nat /\ panel.drained \in Nat
  BY JobsFacts DEF IInv, Typed, TypeOK, Frames
<1>2. clock \in Nat /\ in.since \in Nat
  BY TimeFacts DEF IInv, Typed, TypeOK
<1>3. drained \in Nat /\ gen \in Nat /\ panel.gen \in Nat
  BY <1>1, BoundsAssumption DEF IInv, Typed, TypeOK, Frames
<1>4. Start \in Nat
  BY BoundsAssumption DEF IInv, CountsInv, Window
<1>5. spent.jobs \in 0 .. MaxJobs /\ spent.rare \in 0 .. MaxRare
  BY DEF IInv, Typed, Spents
<1>6. Len(queue) \in Nat /\ Len(events) \in Nat
  BY DEF IInv, Typed, TypeOK
<1>7. RareTime \in Nat
  BY <1>5, RareStep, BoundsAssumption DEF RareTime
<1> QED
  BY <1>1, <1>2, <1>3, <1>4, <1>5, <1>6, <1>7, BoundsAssumption DEF Numbered

----------------------------------------------------------------------------
(* What the gate's operations return.                                      *)

\* input_gate_write_end keeps the gate typed.
LEMMA WrittenTyped ==
    ASSUME NEW g \in Gates, NEW end \in Times, NEW usable \in BOOLEAN,
           NEW s \in 0 .. MaxJobs, NEW d \in Counts
    PROVE  Written(g, end, usable, s, d) \in Gates
<1> DEFINE advanced == ~g.have_completed \/ d # g.completed_drained
           noted    == IF advanced
                       THEN [g EXCEPT !.completed_drained = d, !.drain_advanced_ns = end,
                                      !.drain_advanced_gen = s, !.have_completed = TRUE]
                       ELSE g
           meets    == g.have_pending /\ Reached(d, g.pending_jobs)
           fresh    == ~g.have_settled \/ s # g.settled_gen
           settled  == IF meets \/ fresh
                       THEN [noted EXCEPT !.settled_ns = end, !.settled_gen = s, !.have_settled = TRUE]
                       ELSE noted
           pending  == g.have_pending /\ ~meets
<1>1. noted \in Gates
  BY DEF Gates
<1>2. pending \in BOOLEAN
  OBVIOUS
<1> HIDE DEF noted, meets, fresh, pending
<1>3. settled \in Gates
  BY <1>1 DEF Gates
<1> HIDE DEF settled
<1>4. [settled EXCEPT !.have_pending = pending, !.usable = usable] \in Gates
  BY <1>2, <1>3 DEF Gates
<1> QED
  BY <1>4 DEF Written, settled, noted, meets, fresh, pending

\* input_gate_write_end, field by field.
LEMMA WrittenFacts ==
    ASSUME NEW g \in Gates, NEW end \in Times, NEW usable \in BOOLEAN,
           NEW s \in 0 .. MaxJobs, NEW d \in Counts,
           NEW w, w = Written(g, end, usable, s, d)
    PROVE  /\ w.have_completed /\ w.have_settled /\ w.completed_drained = d
           /\ IF g.have_completed /\ d = g.completed_drained
              THEN /\ w.drain_advanced_ns = g.drain_advanced_ns
                   /\ w.drain_advanced_gen = g.drain_advanced_gen
              ELSE w.drain_advanced_ns = end /\ w.drain_advanced_gen = s
           /\ \/ w.settled_ns = end /\ w.settled_gen = s
              \/ /\ w.settled_ns = g.settled_ns /\ w.settled_gen = g.settled_gen
                 /\ g.have_settled /\ ~(g.have_pending /\ Reached(d, g.pending_jobs))
           /\ w.pending_jobs = g.pending_jobs
           /\ w.have_pending <=> g.have_pending /\ ~Reached(d, g.pending_jobs)
<1>1. w.have_pending <=> g.have_pending /\ ~Reached(d, g.pending_jobs)
  BY DEF Written, Gates
<1>2. w.pending_jobs = g.pending_jobs /\ w.completed_drained = d
  BY DEF Written, Gates
<1>3. w.have_completed /\ w.have_settled
  BY DEF Written, Gates
<1>4. IF g.have_completed /\ d = g.completed_drained
      THEN /\ w.drain_advanced_ns = g.drain_advanced_ns
           /\ w.drain_advanced_gen = g.drain_advanced_gen
      ELSE w.drain_advanced_ns = end /\ w.drain_advanced_gen = s
  BY DEF Written, Gates
<1>5. \/ w.settled_ns = end /\ w.settled_gen = s
      \/ /\ w.settled_ns = g.settled_ns /\ w.settled_gen = g.settled_gen
         /\ g.have_settled /\ ~(g.have_pending /\ Reached(d, g.pending_jobs))
  BY DEF Written, Gates
<1> QED
  BY <1>1, <1>2, <1>3, <1>4, <1>5

\* input_gate_input_dispatched keeps the gate typed.
LEMMA DispatchedTyped ==
    ASSUME NEW g \in Gates, NEW now \in Times, NEW jobs \in Counts
    PROVE  Dispatched(g, now, jobs) \in Gates
BY DEF Dispatched, Gates

\* input_gate_input_dispatched, field by field: the mark is pending, or the
\* gate has settled no earlier than the count last advanced.
LEMMA DispatchedFacts ==
    ASSUME NEW g \in Gates, NEW now \in Times, NEW jobs \in Counts,
           NEW w, w = Dispatched(g, now, jobs)
    PROVE  /\ w.have_completed = g.have_completed /\ w.completed_drained = g.completed_drained
           /\ w.drain_advanced_ns = g.drain_advanced_ns
           /\ w.drain_advanced_gen = g.drain_advanced_gen
           /\ \/ w.settled_ns = g.settled_ns /\ w.settled_gen = g.settled_gen
                 /\ w.have_settled = g.have_settled
              \/ /\ g.have_completed
                 /\ w.settled_ns = g.drain_advanced_ns /\ w.settled_gen = g.drain_advanced_gen
                 /\ w.have_settled
           /\ w.have_pending => w.pending_jobs = jobs
           /\ ~w.have_pending =>
                 /\ g.have_completed /\ Reached(g.completed_drained, jobs)
                 /\ w.settled_ns >= g.drain_advanced_ns
<1>1. /\ w.have_completed = g.have_completed /\ w.completed_drained = g.completed_drained
      /\ w.drain_advanced_ns = g.drain_advanced_ns
      /\ w.drain_advanced_gen = g.drain_advanced_gen
      /\ w.pending_jobs = jobs
  BY DEF Dispatched, Gates
<1>2. \/ w.settled_ns = g.settled_ns /\ w.settled_gen = g.settled_gen
         /\ w.have_settled = g.have_settled
      \/ /\ g.have_completed
         /\ w.settled_ns = g.drain_advanced_ns /\ w.settled_gen = g.drain_advanced_gen
         /\ w.have_settled
  BY DEF Dispatched, Gates
<1>3. ~w.have_pending => g.have_completed /\ Reached(g.completed_drained, jobs)
  BY DEF Dispatched, Gates
<1>4. ~w.have_pending => w.settled_ns >= g.drain_advanced_ns
  <2>1. g.drain_advanced_ns \in Nat /\ g.settled_ns \in Nat
    BY TimeFacts DEF Gates
  <2> QED
    BY <2>1 DEF Dispatched, Gates
<1> QED
  BY <1>1, <1>2, <1>3, <1>4

----------------------------------------------------------------------------
(* The tasks that post, and the gui task up to the write.                  *)

\* gui_post, the first half: the window grows by the job.
LEMMA EnqueueFacts ==
    ASSUME IInv, NEW who, NEW job \in {"paint", "swap"}, Enqueue(who, job), taken' = taken
    PROVE  /\ queue' \in Seq({"paint", "swap"}) /\ Len(queue') = Len(queue) + 1
           /\ spent'.jobs = spent.jobs + 1 /\ spent'.rare = spent.rare /\ spent' \in Spents
           /\ Start' = Start /\ poster = "nobody" /\ poster' = who
<1>1. Numbered
  BY Numbers
<1>2. queue' \in Seq({"paint", "swap"}) /\ Len(queue') = Len(queue) + 1
  BY AppendFacts DEF Enqueue, IInv, Typed, TypeOK
<1>3. spent \in Spents
  BY DEF IInv, Typed
<1>4. spent' = [spent EXCEPT !.jobs = @ + 1] /\ spent.jobs < MaxJobs
  BY DEF Enqueue
<1>5. spent'.jobs = spent.jobs + 1 /\ spent'.rare = spent.rare /\ spent' \in Spents
  BY <1>3, <1>4, BoundsAssumption DEF Spents
<1> QED
  BY SMTT(60), <1>1, <1>2, <1>5 DEF Enqueue, Start, Numbered

\* The second half: the job is counted within the window.
LEMMA CountFacts ==
    ASSUME IInv, NEW who, who # "nobody", Count(who), UNCHANGED <<queue, taken, spent>>
    PROVE  /\ posted' = posted + 1 /\ poster' = "nobody" /\ posted' \in Jobs
           /\ taken + Len(queue) = posted + 1 /\ Start' = Start
           /\ posted' <= Start + spent.jobs
<1>1. Numbered
  BY Numbers
<1>2. posted' = posted + 1 /\ poster' = "nobody" /\ poster # "nobody"
  BY DEF Count
<1>3. taken + Len(queue) = posted + 1
  BY <1>2 DEF IInv, Typed, TypeOK
<1>4. Start' = Start
  BY DEF Start
<1>5. posted' <= Start + spent.jobs
  BY <1>1, <1>2, <1>3 DEF Start, Numbered
<1>6. Start \in Starts
  BY DEF IInv, CountsInv, Window
<1>7. posted' \in Nat /\ posted' <= Start + MaxJobs
  BY <1>1, <1>2, <1>5 DEF Numbered
<1> QED
  BY <1>2, <1>3, <1>4, <1>5, <1>6, <1>7, JobsFacts

\* A rare event is counted.
LEMMA RareFacts ==
    ASSUME IInv, Rare
    PROVE  /\ spent' \in Spents /\ spent'.jobs = spent.jobs /\ spent'.rare = spent.rare + 1
           /\ RareTime' = RareTime + Timeout
<1>1. Numbered /\ spent \in Spents
  BY Numbers DEF IInv, Typed
<1>2. spent' = [spent EXCEPT !.rare = @ + 1] /\ spent.rare < MaxRare
  BY DEF Rare
<1>3. spent' \in Spents /\ spent'.jobs = spent.jobs /\ spent'.rare = spent.rare + 1
  BY <1>1, <1>2, BoundsAssumption DEF Spents
<1> QED
  BY <1>1, <1>3, RareStep DEF Numbered, RareTime

\* What the gate says outlives a step that changes neither the gate, the panel
\* nor the presses; the clock may move on and the panel fail.
LEMMA GateKept ==
    ASSUME IInv, UNCHANGED <<gate, panel, events, in, own>>, posted' \in Nat, posted' >= posted,
           clock' \in Nat, clock' >= clock, Start' = Start, failed => failed'
    PROVE  GateInv'
<1>0. Numbered
  BY Numbers
<1>1. /\ \A i \in 1 .. Len(events) : events[i].at \in Nat
      /\ in.press.at \in Nat
      /\ gate.settled_ns \in Nat /\ gate.drain_advanced_ns \in Nat
  BY PressFacts, GateFacts, Members
<1>2. PressesPast' /\ JudgeTrue' /\ ActsOnScreenRead' /\ ActsOnWorkShown'
  <2>1. PressesPast'
    BY SMTT(60), <1>0, <1>1 DEF IInv, GateInv, PressesPast, Past, Numbered
  <2>2. JudgeTrue'
    BY <1>0, <1>1 DEF IInv, GateInv, Past, JudgeTrue, SawSettled, SawWork, Numbered
  <2> QED
    BY <2>1, <2>2 DEF IInv, GateInv, ActsOnScreenRead, ActsOnWorkShown
<1>3. GateTrue'
  <2> SUFFICES ASSUME ~failed' PROVE GateTrue'
    BY DEF GateTrue
  <2>1. GateTrue /\ ~failed
    BY DEF IInv, GateInv
  <2>2. GatePast'
    BY <1>0, <1>1, <2>1 DEF GateTrue, GatePast, Numbered
  <2>3. MarkCovers => MarkCovers'
    BY <1>0 DEF MarkCovers, Numbered
  <2> QED
    BY <2>1, <2>2, <2>3 DEF GateTrue, SawSettled, SawAdvanced, SawWork, Unmarked
<1> QED
  BY <1>2, <1>3 DEF GateInv

\* Another task enqueues a job under gui_post_mutex ...
LEMMA OtherEnqueuesInv ==
    ASSUME IInv, OtherEnqueues
    PROVE  IInv'
<1>1. /\ queue' \in Seq({"paint", "swap"}) /\ Len(queue') = Len(queue) + 1
      /\ spent'.jobs = spent.jobs + 1 /\ spent'.rare = spent.rare /\ spent' \in Spents
      /\ Start' = Start /\ poster = "nobody" /\ poster' = "other"
  BY EnqueueFacts DEF OtherEnqueues
<1>2. UNCHANGED <<posted, taken, drained, gen, gui, gate, failed, clock, panel, events, in, own>>
  BY DEF OtherEnqueues
<1>3. Typed'
  BY <1>1, <1>2, Numbers DEF IInv, Typed, TypeOK, Numbered
<1>4. CountsInv'
  BY <1>1, <1>2 DEF IInv, CountsInv, Window, ClockBound, Posting, RareTime
<1>5. GateInv'
  BY SMTT(60), <1>1, <1>2, GateKept, Numbers DEF Numbered
<1> QED
  BY <1>3, <1>4, <1>5 DEF IInv

\* ... and counts it.
LEMMA OtherCountsInv ==
    ASSUME IInv, OtherCounts
    PROVE  IInv'
<1>0. Numbered
  BY Numbers
<1>1. /\ posted' = posted + 1 /\ poster' = "nobody" /\ posted' \in Jobs
      /\ taken + Len(queue) = posted + 1 /\ Start' = Start
  BY CountFacts DEF OtherCounts
<1>2. poster = "other" /\ UNCHANGED <<queue, taken, drained, gen, gui, gate, failed, clock, panel, events, in, own, spent>>
  BY DEF OtherCounts, Count
<1>3. Typed'
  BY <1>1, <1>2 DEF IInv, Typed, TypeOK
<1>4. CountsInv'
  <2>1. Window' /\ ClockBound'
    BY <1>0, <1>1, <1>2 DEF IInv, CountsInv, Window, ClockBound, RareTime, Numbered
  <2>2. in.pc # "posting"
    BY <1>2 DEF IInv, CountsInv, Posting
  <2>3. Posting'
    BY <1>0, <1>1, <1>2, <2>2 DEF IInv, CountsInv, Posting, Numbered
  <2> QED
    BY <2>1, <2>3 DEF CountsInv
<1>5. GateInv'
  BY <1>0, <1>1, <1>2, GateKept DEF Numbered
<1> QED
  BY <1>3, <1>4, <1>5 DEF IInv

\* handle_gui_input_queue takes a job.
LEMMA TakeJobInv ==
    ASSUME IInv, TakeJob
    PROVE  IInv'
<1>0. Numbered
  BY Numbers
<1>1. /\ queue' \in Seq({"paint", "swap"}) /\ Len(queue') = Len(queue) - 1 /\ Len(queue) >= 1
      /\ taken' = taken + 1 /\ gen' \in {gen, gen + 1} /\ gui' = "drain"
  BY TailFacts DEF TakeJob, IInv, Typed, TypeOK
<1>2. UNCHANGED <<posted, poster, drained, gate, failed, clock, panel, events, in, own, spent>>
  BY DEF TakeJob
<1>3. Start' = Start
  BY <1>0, <1>1, <1>2 DEF Start, Numbered
<1>4. taken' <= Start + MaxJobs
  BY SMTT(60), <1>0, <1>1 DEF Start, Numbered
<1>5. taken' \in Jobs
  BY <1>0, <1>1, <1>4, JobsFacts DEF IInv, CountsInv, Window, Numbered
<1>6. Typed'
  <2>1. gen' \in 0 .. taken' /\ drained' \in 0 .. taken'
    BY SMTT(60), <1>0, <1>1, <1>2 DEF IInv, Typed, TypeOK, Numbered
  <2>2. taken' + Len(queue') = posted' + (IF poster' = "nobody" THEN 0 ELSE 1)
    <3>1. taken' + Len(queue') = taken + Len(queue)
      BY <1>0, <1>1 DEF Numbered
    <3> QED
      BY <1>2, <3>1 DEF IInv, Typed, TypeOK
  <2> QED
    BY <1>1, <1>2, <1>5, <2>1, <2>2 DEF IInv, Typed, TypeOK
<1>7. CountsInv'
  <2>1. RareTime' = RareTime
    BY <1>2 DEF RareTime
  <2>2. Window'
    BY <1>0, <1>1, <1>2, <1>3 DEF IInv, CountsInv, Window, Numbered
  <2>3. ClockBound'
    BY SMTT(60), <1>0, <1>1, <1>2, <1>3, <2>1 DEF IInv, CountsInv, ClockBound, Numbered
  <2>4. Posting'
    BY <1>2, <1>3 DEF IInv, CountsInv, Posting
  <2> QED
    BY <2>2, <2>3, <2>4 DEF CountsInv
<1>8. GateInv'
  BY <1>0, <1>2, <1>3, GateKept DEF Numbered
<1> QED
  BY <1>6, <1>7, <1>8 DEF IInv

\* The count is published, and a write begins: only the gui task moves.
LEMMA GuiMovesInv ==
    ASSUME IInv, Publish \/ WriteBegin
    PROVE  IInv'
<1>0. Numbered
  BY Numbers
<1>1. /\ UNCHANGED <<queue, posted, poster, taken, gen, gate, failed, clock, panel, events, in, own, spent>>
      /\ drained' \in {drained, taken} /\ gui # "wait" /\ gui' \in {"flush", "write"}
  BY DEF Publish, WriteBegin
<1>2. Start' = Start
  BY <1>1 DEF Start
<1>3. Typed'
  BY <1>0, <1>1 DEF IInv, Typed, TypeOK, Numbered
<1>4. CountsInv'
  <2>1. RareTime' = RareTime
    BY <1>1 DEF RareTime
  <2>2. Window' /\ Posting'
    BY <1>0, <1>1, <1>2 DEF IInv, CountsInv, Window, Posting, Numbered
  <2>3. ClockBound'
    BY <1>0, <1>1, <1>2, <2>1 DEF IInv, CountsInv, ClockBound, Numbered
  <2> QED
    BY <2>2, <2>3 DEF CountsInv
<1>5. GateInv'
  BY <1>0, <1>1, <1>2, GateKept DEF Numbered
<1> QED
  BY <1>3, <1>4, <1>5 DEF IInv

\* A frame without a job, a flush that finds no clock, and the timeout running
\* out are paid for by the bound on rare events.
LEMMA RareInv ==
    ASSUME IInv, Refresh \/ FlushNoClock \/ TimePasses
    PROVE  IInv'
<1>0. Numbered
  BY Numbers
<1>1. /\ UNCHANGED <<queue, posted, poster, taken, drained, gen, gate, panel, events, in, own>>
      /\ gui' \in {gui, "flush", "wait"} /\ failed' \in {failed, TRUE}
      /\ clock' \in {clock, clock + Timeout} /\ (clock' # clock => gui' = gui)
  BY DEF Refresh, FlushNoClock, TimePasses, guiVars
<1>2. /\ spent' \in Spents /\ spent'.jobs = spent.jobs /\ spent'.rare = spent.rare + 1
      /\ RareTime' = RareTime + Timeout
  BY RareFacts DEF Refresh, FlushNoClock, TimePasses
<1>3. Start' = Start
  BY <1>1, <1>2 DEF Start
<1>4. CountsInv'
  <2>1. Window'
    BY <1>1, <1>3 DEF IInv, CountsInv, Window
  <2>2. clock' \in Nat /\ clock' >= clock
    BY <1>0, <1>1 DEF Numbered
  <2>3. ClockBound'
    <3> DEFINE busy == IF gui = "wait" THEN 0 ELSE 1
    <3>1. clock + busy <= RareTime + spent.rare + (taken - Start) + 1
      BY DEF IInv, CountsInv, ClockBound
    <3>2. busy \in {0, 1} /\ busy' \in {0, 1} /\ (clock' # clock => busy' = busy)
      BY <1>1
    <3> HIDE DEF busy
    <3>3. clock' + busy' <= RareTime' + spent'.rare + (taken' - Start') + 1
      <4>1. taken' = taken
        BY <1>1
      <4>2. CASE clock' = clock
        <5>1. clock <= RareTime + spent.rare + (taken - Start) + 1
          BY <1>0, <3>1, <3>2 DEF Numbered
        <5>2. clock' + 1 <= RareTime' + spent'.rare + (taken' - Start') + 1
          BY SMTT(60), <1>0, <1>2, <1>3, <4>1, <4>2, <5>1 DEF Numbered
        <5>3. CASE busy' = 0
          BY SMTT(60), <1>0, <1>2, <1>3, <4>1, <4>2, <5>1, <5>3 DEF Numbered
        <5>4. CASE busy' = 1
          BY <5>2, <5>4
        <5> QED
          BY <3>2, <5>3, <5>4
      <4>3. CASE clock' = clock + Timeout /\ busy' = busy
        BY SMTT(30), <1>0, <1>2, <1>3, <3>1, <3>2, <4>1, <4>3 DEF Numbered
      <4> QED
        BY <1>1, <3>2, <4>2, <4>3
    <3> QED
      BY <3>3 DEF ClockBound, busy
  <2>4. Posting'
    BY <1>0, <1>1, <1>3, <2>2 DEF IInv, CountsInv, Posting, Numbered
  <2> QED
    BY <2>1, <2>3, <2>4 DEF CountsInv
<1>5. clock' \in Times
  <2>1. clock \in Nat /\ clock <= RareTime + spent.rare + (taken - Start) + 1
    BY SMTT(60), <1>0, <1>2 DEF IInv, CountsInv, ClockBound, Numbered
  <2>2. taken - Start \in 0 .. MaxJobs
    BY SMTT(60), <1>0 DEF Start, IInv, CountsInv, Window, Numbered
  <2>3. clock + Timeout <= Never
    BY <1>0, <2>1, <2>2, ClockFacts DEF Numbered, RareTime
  <2> QED
    BY <1>0, <1>1, <2>1, <2>3, TimeFacts DEF Numbered
<1>6. failed' \in BOOLEAN
  BY <1>1 DEF IInv, Typed, TypeOK
<1>7. Typed'
  BY <1>1, <1>2, <1>5, <1>6 DEF IInv, Typed, TypeOK
<1>8. failed => failed'
  BY <1>1, Zenon
<1>9. GateInv'
  BY <1>0, <1>1, <1>3, <1>8, GateKept DEF Numbered
<1> QED
  BY <1>4, <1>7, <1>9 DEF IInv

\* A key press is made on what the panel shows now, after the gate settled.
LEMMA PressInv ==
    ASSUME IInv, NEW acts \in BOOLEAN, Press(acts)
    PROVE  IInv'
<1> DEFINE p == [acts |-> acts, at |-> clock, saw |-> panel]
<1>0. Numbered
  BY Numbers
<1>1. p \in Presses /\ p.at = clock /\ p.saw = panel
  BY DEF IInv, Typed, TypeOK, Presses
<1> HIDE DEF p
<1>2. /\ events' \in Seq(Presses) /\ Len(events') = Len(events) + 1
      /\ \A i \in 1 .. Len(events) : events'[i] = events[i]
      /\ events'[Len(events) + 1] = p
  BY <1>1, AppendFacts DEF Press, IInv, Typed, TypeOK, p
<1>3. \A i \in 1 .. Len(events') : events'[i] = p \/ \E j \in 1 .. Len(events) : events'[i] = events[j]
  BY <1>0, <1>2 DEF Numbered
<1>4. UNCHANGED <<guiVars, gate, failed, clock, panel, in, own>>
  BY DEF Press
<1>5. spent' \in Spents /\ spent'.jobs = spent.jobs /\ spent'.rare = spent.rare
  BY BoundsAssumption DEF Press, IInv, Typed, Spents
<1>6. Start' = Start /\ RareTime' = RareTime
  BY <1>4, <1>5 DEF Start, RareTime, guiVars
<1>7. Typed'
  BY <1>2, <1>4, <1>5 DEF IInv, Typed, TypeOK, guiVars
<1>8. CountsInv'
  BY <1>4, <1>5, <1>6 DEF IInv, CountsInv, Window, ClockBound, Posting, guiVars
<1>9. PressesPast'
  <2>1. Past(p)
    BY <1>0, <1>1 DEF Past, Numbered
  <2>2. \A j \in 1 .. Len(events) : Past(events[j])
    BY DEF IInv, GateInv, PressesPast
  <2>3. \A i \in 1 .. Len(events') : Past(events'[i])
    BY <1>3, <2>1, <2>2
  <2> QED
    BY <1>4, <2>3 DEF PressesPast, Past
<1>10. GateTrue'
  <2> SUFFICES ASSUME ~failed PROVE GateTrue'
    BY <1>4 DEF GateTrue
  <2>1. GatePast'
    BY <1>4 DEF IInv, GateInv, GateTrue, GatePast
  <2>2. \A i \in 1 .. Len(events') : SawSettled(gate, events'[i]) /\ SawAdvanced(events'[i])
    <3>1. SawSettled(gate, p) /\ SawAdvanced(p)
      BY <1>0, <1>1 DEF IInv, GateInv, GateTrue, GatePast, SawSettled, SawAdvanced, Numbered
    <3>2. \A j \in 1 .. Len(events) : SawSettled(gate, events[j]) /\ SawAdvanced(events[j])
      BY DEF IInv, GateInv, GateTrue
    <3> QED
      BY <1>3, <3>1, <3>2
  <2>3. ~Unmarked => \A i \in 1 .. Len(events') : SawWork(gate, events'[i])
    <3>1. ~Unmarked => SawWork(gate, p)
      BY <1>0, <1>1 DEF IInv, GateInv, GateTrue, SawWork, Numbered
    <3>2. ~Unmarked => \A j \in 1 .. Len(events) : SawWork(gate, events[j])
      BY DEF IInv, GateInv, GateTrue
    <3> QED
      BY <1>3, <3>1, <3>2
  <2>4. MarkCovers => MarkCovers'
    BY <1>4, <1>6 DEF MarkCovers, guiVars
  <2> QED
    BY <1>4, <2>1, <2>2, <2>3, <2>4 DEF IInv, GateInv, GateTrue, SawSettled, SawAdvanced, SawWork, Unmarked
<1>11. JudgeTrue' /\ ActsOnScreenRead' /\ ActsOnWorkShown'
  BY <1>4 DEF IInv, GateInv, JudgeTrue, Past, SawSettled, SawWork, ActsOnScreenRead, ActsOnWorkShown
<1> QED
  BY <1>7, <1>8, <1>9, <1>10, <1>11 DEF IInv, GateInv

----------------------------------------------------------------------------
(* The input thread.                                                       *)

\* The input thread at rest is typed.
LEMMA WaitingTyped ==
    ASSUME IInv
    PROVE  Waiting \in Ins /\ Waiting.pc = "wait"
<1>1. 0 \in Jobs /\ 0 \in Times /\ 0 \in 0 .. MaxJobs /\ 0 \in Counts
  BY JobsFacts, TimeFacts, WidthFacts, BoundsAssumption DEF IInv, CountsInv, Window, Counts
<1>2. NewGate \in Gates
  BY <1>1 DEF NewGate, Gates
<1>3. NoPress \in Presses
  BY <1>1 DEF NoPress, Presses, Frames, Blank
<1> QED
  BY <1>1, <1>2, <1>3 DEF Waiting, Ins, InSteps

\* A step of the input thread that leaves the gate and the counts alone keeps
\* what holds of them; it may take a press off the queue.
LEMMA InputKept ==
    ASSUME IInv, UNCHANGED <<guiVars, gate, failed, clock, panel, own>>, UNCHANGED spent \/ Rare,
           in' \in Ins, ~Unmarked' => ~Unmarked,
           events' \in Seq(Presses),
           \A i \in 1 .. Len(events') : \E j \in 1 .. Len(events) : events'[i] = events[j]
    PROVE  Typed' /\ Window' /\ ClockBound' /\ PressesPast' /\ GateTrue'
<1>0. Numbered
  BY Numbers
<1>1. /\ spent' \in Spents /\ spent'.jobs = spent.jobs
      /\ \/ spent'.rare = spent.rare /\ RareTime' = RareTime
         \/ spent'.rare = spent.rare + 1 /\ RareTime' = RareTime + Timeout
  BY RareFacts DEF IInv, Typed, RareTime
<1>2. Start' = Start
  BY <1>1 DEF Start, guiVars
<1>3. Typed' /\ Window' /\ ClockBound'
  <2>1. Typed'
    BY <1>1 DEF IInv, Typed, TypeOK, guiVars, Ins, InSteps
  <2>2. Window'
    BY <1>2 DEF IInv, CountsInv, Window, guiVars
  <2>3. ClockBound'
    <3> DEFINE busy == IF gui = "wait" THEN 0 ELSE 1
    <3>1. clock + busy <= RareTime + spent.rare + (taken - Start) + 1
      BY DEF IInv, CountsInv, ClockBound
    <3>2. busy \in {0, 1} /\ busy' = busy /\ clock' = clock /\ taken' = taken
      BY DEF guiVars
    <3> HIDE DEF busy
    <3>3. CASE spent'.rare = spent.rare /\ RareTime' = RareTime
      <4>1. clock' + busy' <= RareTime' + spent'.rare + (taken' - Start') + 1
        BY <1>2, <3>1, <3>2, <3>3
      <4> QED
        BY <4>1 DEF ClockBound, busy
    <3>4. CASE spent'.rare = spent.rare + 1 /\ RareTime' = RareTime + Timeout
      <4>1. Timeout \in Nat
        BY BoundsAssumption
      <4>2. clock' + busy' <= RareTime' + spent'.rare + (taken' - Start') + 1
        BY SMTT(30), <1>0, <1>2, <3>1, <3>2, <3>4, <4>1 DEF Numbered
      <4> QED
        BY <4>2 DEF ClockBound, busy
    <3> QED
      BY <1>1, <3>3, <3>4
  <2> QED
    BY <2>1, <2>2, <2>3
<1>4. PressesPast'
  BY DEF IInv, GateInv, PressesPast, Past
<1>5. GateTrue'
  <2> SUFFICES ASSUME ~failed PROVE GateTrue'
    BY DEF GateTrue
  <2>1. GatePast'
    BY DEF IInv, GateInv, GateTrue, GatePast
  <2>2. MarkCovers => MarkCovers'
    BY <1>2 DEF MarkCovers, guiVars
  <2>3. \A i \in 1 .. Len(events') : (SawSettled(gate, events[i]) /\ SawAdvanced(events[i]))'
    BY DEF IInv, GateInv, GateTrue, SawSettled, SawAdvanced
  <2>4. ~Unmarked' => \A i \in 1 .. Len(events') : SawWork(gate, events[i])'
    BY DEF IInv, GateInv, GateTrue, SawWork
  <2> QED
    BY <2>1, <2>2, <2>3, <2>4 DEF IInv, GateInv, GateTrue
<1> QED
  BY <1>3, <1>4, <1>5

\* The gate is copied: it tells the truth, for the panel works.
LEMMA SnapshotInv ==
    ASSUME IInv, Snapshot
    PROVE  IInv'
<1> DEFINE h == Head(events)
<1>1. /\ events' \in Seq(Presses) /\ h \in Presses /\ 1 \in 1 .. Len(events) /\ h = events[1]
      /\ \A i \in 1 .. Len(events') : \E j \in 1 .. Len(events) : events'[i] = events[j]
  <2>1. events \in Seq(Presses) /\ events # <<>> /\ events' = Tail(events)
    BY DEF Snapshot, IInv, Typed, TypeOK
  <2>2. /\ Tail(events) \in Seq(Presses) /\ Len(events) >= 1 /\ Len(Tail(events)) = Len(events) - 1
        /\ \A i \in 1 .. Len(Tail(events)) : Tail(events)[i] = events[i + 1]
        /\ h \in Presses /\ h = events[1]
    BY <2>1, TailFacts
  <2>3. \A i \in 1 .. Len(events') : i + 1 \in 1 .. Len(events)
    BY <2>1, <2>2, Numbers DEF Numbered
  <2> QED
    BY <2>1, <2>2, <2>3, Numbers DEF Numbered
<1> HIDE DEF h
<1>2. /\ in' \in Ins /\ in.pc = "wait"
      /\ failed => in'.pc = "stopped"
      /\ ~failed => in'.pc = "judge" /\ in'.press = h /\ in'.gate = gate
  BY <1>1, WaitingTyped DEF Snapshot, Ins, InSteps, IInv, Typed, TypeOK, h
<1>3. in'.pc \in {"stopped", "judge"}
  BY <1>2
<1>4. UNCHANGED <<guiVars, gate, failed, clock, panel, own, spent>>
  BY DEF Snapshot
<1>5. Typed' /\ Window' /\ ClockBound' /\ PressesPast' /\ GateTrue'
  BY <1>1, <1>2, <1>3, <1>4, InputKept DEF Unmarked
<1>6. Posting'
  BY <1>2, <1>3, <1>4 DEF IInv, CountsInv, Posting, guiVars
<1>7. JudgeTrue'
  <2>1. CASE failed
    BY <1>2, <2>1 DEF JudgeTrue
  <2>2. CASE ~failed
    <3>1. Past(h) /\ SawSettled(gate, h) /\ SawWork(gate, h)
      BY <1>1, <1>2, <2>2 DEF IInv, GateInv, PressesPast, GateTrue, Unmarked
    <3> QED
      BY <1>2, <1>4, <2>2, <3>1 DEF JudgeTrue, Past, SawSettled, SawWork
  <2> QED
    BY <2>1, <2>2
<1>8. ActsOnScreenRead' /\ ActsOnWorkShown'
  BY <1>3 DEF ActsOnScreenRead, ActsOnWorkShown
<1> QED
  BY <1>5, <1>6, <1>7, <1>8 DEF IInv, CountsInv, GateInv

\* The press is judged: since the gate settled its screen has been current,
\* and the press saw it.
LEMMA DecideInv ==
    ASSUME IInv, Decide
    PROVE  IInv'
<1>0. Numbered
  BY Numbers
<1>1. /\ in' \in Ins /\ in.pc = "judge" /\ in'.pc \in {"wait", "allowed"}
      /\ in'.pc = "allowed" =>
            /\ in'.press = in.press /\ in'.gate = in.gate /\ in'.gen = gen
            /\ in.press.acts => Judge(in.gate, in.press.at, gen)
  <2>1. gen \in 0 .. MaxJobs
    BY <1>0 DEF IInv, CountsInv, Window, Start, Numbered
  <2> QED
    BY <2>1, WaitingTyped DEF Decide, IInv, Typed, Ins, InSteps
<1>2. UNCHANGED <<guiVars, gate, failed, clock, panel, own, spent, events>>
  BY DEF Decide
<1>3. Typed' /\ Window' /\ ClockBound' /\ PressesPast' /\ GateTrue'
  <2>1. events' \in Seq(Presses) /\ \A i \in 1 .. Len(events') : i \in 1 .. Len(events) /\ events'[i] = events[i]
    BY <1>2 DEF IInv, Typed, TypeOK
  <2> QED
    BY <1>1, <1>2, <2>1, InputKept DEF Unmarked
<1>4. Posting'
  BY <1>1, <1>2 DEF IInv, CountsInv, Posting, guiVars
<1>5. Past(in.press) /\ SawSettled(in.gate, in.press) /\ SawWork(in.gate, in.press)
  BY <1>1 DEF IInv, GateInv, JudgeTrue
<1>6. JudgeTrue'
  BY <1>1, <1>2, <1>5 DEF JudgeTrue, Past
<1>7. ActsOnScreenRead'
  <2>1. in.press.saw.gen \in Nat /\ in.gate.settled_gen \in Nat
    BY Members, PressFacts, GateFacts
  <2>2. panel.gen <= gen
    BY DEF IInv, CountsInv, Window
  <2> QED
    BY <1>0, <1>1, <1>5, <2>1, <2>2 DEF ActsOnScreenRead, Judge, SawSettled, Past, Numbered
<1>8. ActsOnWorkShown'
  BY <1>1, <1>2, <1>5 DEF ActsOnWorkShown, Judge, SawWork
<1> QED
  BY <1>3, <1>4, <1>6, <1>7, <1>8 DEF IInv, CountsInv, GateInv

\* libjade_input begins: the job count is read.
LEMMA InputBeginsInv ==
    ASSUME IInv, InputBegins
    PROVE  IInv'
<1>0. Numbered
  BY Numbers
<1>1. in' \in Ins /\ in.pc = "allowed" /\ in'.pc = "input" /\ in'.jobs = posted
  <2>1. in \in Ins /\ posted \in Jobs
    BY DEF IInv, Typed, TypeOK
  <2>2. in.press.at \in Times
    BY <2>1 DEF Ins, Presses
  <2> QED
    BY <2>1, <2>2, WaitingTyped DEF InputBegins, Ins, InSteps
<1>2. UNCHANGED <<guiVars, gate, failed, clock, panel, own, spent, events>>
  BY DEF InputBegins
<1>3. Typed' /\ Window' /\ ClockBound' /\ PressesPast' /\ GateTrue'
  <2>1. events' \in Seq(Presses) /\ \A i \in 1 .. Len(events') : i \in 1 .. Len(events) /\ events'[i] = events[i]
    BY <1>2 DEF IInv, Typed, TypeOK
  <2> QED
    BY <1>1, <1>2, <2>1, InputKept DEF Unmarked
<1>4. Posting'
  BY <1>0, <1>1, <1>2 DEF IInv, CountsInv, Posting, guiVars, Numbered
<1>5. JudgeTrue' /\ ActsOnScreenRead' /\ ActsOnWorkShown'
  BY <1>1 DEF JudgeTrue, ActsOnScreenRead, ActsOnWorkShown
<1> QED
  BY <1>3, <1>4, <1>5 DEF IInv, CountsInv, GateInv

\* libjade_input returns: the mark will cover the job it posted.
LEMMA InputReturnsInv ==
    ASSUME IInv, InputReturns \/ ReturnsUntimed
    PROVE  IInv'
<1>0. Numbered
  BY Numbers
<1>1. /\ in' \in Ins /\ in.pc \in {"input", "posted"} /\ in'.pc \in {"wait", "mark"}
      /\ in'.pc = "wait" => posted = in.jobs
      /\ in'.pc = "mark" => in'.jobs = posted
  <2>1. in \in Ins /\ clock \in Times /\ posted \in Jobs
    BY DEF IInv, Typed, TypeOK
  <2>2. CASE InputReturns
    BY <2>1, <2>2, WaitingTyped DEF InputReturns, Ins, InSteps
  <2>3. CASE ReturnsUntimed
    BY <2>1, <2>3 DEF ReturnsUntimed, Ins, InSteps
  <2> QED
    BY <2>2, <2>3
<1>2. UNCHANGED <<guiVars, gate, failed, clock, panel, own, events>> /\ (UNCHANGED spent \/ Rare)
  BY DEF InputReturns, ReturnsUntimed
<1>3. in'.pc = "wait" => in.pc = "input"
  BY <1>0, <1>1 DEF IInv, CountsInv, Posting, Numbered
<1>4. Typed' /\ Window' /\ ClockBound' /\ PressesPast' /\ GateTrue'
  <2>1. events' \in Seq(Presses) /\ \A i \in 1 .. Len(events') : i \in 1 .. Len(events) /\ events'[i] = events[i]
    BY <1>2 DEF IInv, Typed, TypeOK
  <2>2. ~Unmarked' => ~Unmarked
    BY <1>1, <1>3 DEF Unmarked
  <2> QED
    BY <1>1, <1>2, <2>1, <2>2, InputKept
<1>5. Start <= posted
  BY DEF IInv, CountsInv, Window
<1>6. Posting'
  <2>1. Start' = Start
    BY <1>2, RareFacts DEF Start, guiVars
  <2> QED
    BY <1>0, <1>1, <1>2, <1>5, <2>1 DEF IInv, CountsInv, Posting, guiVars, Numbered
<1>7. JudgeTrue' /\ ActsOnScreenRead' /\ ActsOnWorkShown'
  BY <1>1 DEF JudgeTrue, ActsOnScreenRead, ActsOnWorkShown
<1> QED
  BY <1>4, <1>6, <1>7 DEF IInv, CountsInv, GateInv

\* The press posts a job; until its mark is published the gate is not asked
\* about the work of that press.
LEMMA InputEnqueuesInv ==
    ASSUME IInv, InputEnqueues
    PROVE  IInv'
<1>0. Numbered
  BY Numbers
<1>1. /\ queue' \in Seq({"paint", "swap"}) /\ Len(queue') = Len(queue) + 1
      /\ spent'.jobs = spent.jobs + 1 /\ spent'.rare = spent.rare /\ spent' \in Spents
      /\ Start' = Start /\ poster = "nobody" /\ poster' = "input"
  BY EnqueueFacts DEF InputEnqueues
<1>2. UNCHANGED <<posted, taken, drained, gen, gui, gate, failed, clock, panel, events>>
  BY DEF InputEnqueues
<1>3. in.pc = "input" /\ in' \in Ins /\ in'.pc = "posting" /\ in'.jobs = in.jobs
  BY DEF InputEnqueues, IInv, Typed, Ins, InSteps
<1>4. own' = posted + 1
  <2>1. taken + Len(queue) = posted
    BY <1>0, <1>1 DEF IInv, Typed, TypeOK, Numbered
  <2> QED
    BY <1>0, <1>1, <2>1 DEF InputEnqueues, Numbered
<1>5. own' \in Jobs
  <2>1. spent'.jobs <= MaxJobs /\ own' = (taken + Len(queue)) + 1
    BY SMTT(60), <1>0, <1>1 DEF InputEnqueues, Spents, Numbered
  <2>2. taken + Len(queue) = Start + spent.jobs
    BY <1>0 DEF Start, Numbered
  <2>3. own' <= Start + MaxJobs
    BY <1>0, <1>1, <2>1, <2>2 DEF Numbered
  <2> QED
    BY <1>0, <1>4, <2>3, JobsFacts DEF IInv, CountsInv, Window, Numbered
<1>6. Typed'
  <2>1. taken' + Len(queue') = posted' + (IF poster' = "nobody" THEN 0 ELSE 1)
    BY SMTT(60), <1>0, <1>1, <1>2 DEF IInv, Typed, TypeOK, Numbered
  <2> QED
    BY <1>1, <1>2, <1>3, <1>5, <2>1 DEF IInv, Typed, TypeOK, Ins, InSteps
<1>7. CountsInv'
  <2>1. Window' /\ ClockBound'
    BY <1>1, <1>2 DEF IInv, CountsInv, Window, ClockBound, RareTime
  <2>2. Posting'
    BY <1>0, <1>1, <1>2, <1>3, <1>4 DEF IInv, CountsInv, Posting, Numbered
  <2> QED
    BY <2>1, <2>2 DEF CountsInv
<1>8. PressesPast' /\ GateTrue'
  BY <1>2, <1>3 DEF IInv, GateInv, PressesPast, Past, GateTrue, GatePast, SawSettled, SawAdvanced, Unmarked
<1>9. JudgeTrue' /\ ActsOnScreenRead' /\ ActsOnWorkShown'
  BY <1>3 DEF JudgeTrue, ActsOnScreenRead, ActsOnWorkShown
<1> QED
  BY <1>6, <1>7, <1>8, <1>9 DEF IInv, GateInv

\* The job of the press is counted.
LEMMA InputCountsInv ==
    ASSUME IInv, InputCounts
    PROVE  IInv'
<1>0. Numbered
  BY Numbers
<1>1. /\ posted' = posted + 1 /\ poster' = "nobody" /\ posted' \in Jobs
      /\ taken + Len(queue) = posted + 1 /\ Start' = Start
  BY CountFacts DEF InputCounts
<1>2. UNCHANGED <<queue, taken, drained, gen, gui, gate, failed, clock, panel, events, own, spent>>
  BY DEF InputCounts
<1>3. in.pc = "posting" /\ in' \in Ins /\ in'.pc = "posted" /\ in'.jobs = in.jobs
  BY DEF InputCounts, IInv, Typed, Ins, InSteps
<1>4. Typed'
  BY <1>1, <1>2, <1>3 DEF IInv, Typed, TypeOK, Ins, InSteps
<1>5. CountsInv'
  <2>1. Window' /\ ClockBound'
    BY <1>0, <1>1, <1>2 DEF IInv, CountsInv, Window, ClockBound, RareTime, Numbered
  <2>2. Posting'
    BY <1>0, <1>1, <1>2, <1>3 DEF IInv, CountsInv, Posting, Numbered
  <2> QED
    BY <2>1, <2>2 DEF CountsInv
<1>6. PressesPast' /\ GateTrue'
  BY <1>2, <1>3 DEF IInv, GateInv, PressesPast, Past, GateTrue, GatePast, SawSettled, SawAdvanced, Unmarked
<1>7. JudgeTrue' /\ ActsOnScreenRead' /\ ActsOnWorkShown'
  BY <1>3 DEF JudgeTrue, ActsOnScreenRead, ActsOnWorkShown
<1> QED
  BY <1>4, <1>5, <1>6, <1>7 DEF IInv, GateInv

\* The mark is published: it is pending, or the panel showed its work already
\* and the gate settles at that completion.
LEMMA MarkInv ==
    ASSUME IInv, Mark
    PROVE  IInv'
<1>0. Numbered
  BY Numbers
<1>1. UNCHANGED <<queue, posted, poster, taken, drained, gen, gui, failed, clock, panel, events, own, spent>>
  BY DEF Mark, guiVars
<1>2. /\ in.pc = "mark" /\ in' \in Ins /\ in'.pc = "wait"
  BY WaitingTyped DEF Mark
<1>3. gate \in Gates /\ in.since \in Times /\ (in.jobs % Width) \in Counts
  <2>1. (in.jobs % Width) \in Counts
    BY <1>0, WidthFacts, ModAdd DEF Counts, Numbered
  <2> QED
    BY <2>1 DEF IInv, Typed, TypeOK
<1>4. gate' = Dispatched(gate, in.since, in.jobs % Width)
  BY DEF Mark
<1>5. gate' \in Gates
  BY <1>3, <1>4, DispatchedTyped
<1>6. /\ gate'.have_completed = gate.have_completed /\ gate'.completed_drained = gate.completed_drained
      /\ gate'.drain_advanced_ns = gate.drain_advanced_ns
      /\ gate'.drain_advanced_gen = gate.drain_advanced_gen
      /\ \/ gate'.settled_ns = gate.settled_ns /\ gate'.settled_gen = gate.settled_gen
            /\ gate'.have_settled = gate.have_settled
         \/ /\ gate.have_completed
            /\ gate'.settled_ns = gate.drain_advanced_ns /\ gate'.settled_gen = gate.drain_advanced_gen
            /\ gate'.have_settled
      /\ gate'.have_pending => gate'.pending_jobs = in.jobs % Width
      /\ ~gate'.have_pending =>
            /\ gate.have_completed /\ Reached(gate.completed_drained, in.jobs % Width)
            /\ gate'.settled_ns >= gate.drain_advanced_ns
  BY <1>3, <1>4, DispatchedFacts
<1>7. Start' = Start /\ RareTime' = RareTime
  BY <1>1 DEF Start, RareTime
<1>8. Typed'
  BY <1>1, <1>2, <1>5 DEF IInv, Typed, TypeOK, Ins, InSteps
<1>9. CountsInv'
  <2>1. Window' /\ ClockBound'
    BY <1>1, <1>7 DEF IInv, CountsInv, Window, ClockBound
  <2>2. Posting'
    BY <1>1, <1>2 DEF IInv, CountsInv, Posting
  <2> QED
    BY <2>1, <2>2 DEF CountsInv
<1>10. PressesPast'
  BY <1>1 DEF IInv, GateInv, PressesPast, Past
<1>11. GateTrue'
  <2> SUFFICES ASSUME ~failed PROVE GateTrue'
    BY <1>1 DEF GateTrue
  <2>1. /\ GatePast
        /\ \A i \in 1 .. Len(events) : SawSettled(gate, events[i]) /\ SawAdvanced(events[i])
    BY DEF IInv, GateInv, GateTrue
  <2>2. GatePast'
    BY <1>1, <1>6, <2>1 DEF GatePast
  <2>3. \A i \in 1 .. Len(events) : SawSettled(gate', events[i])
    BY <1>6, <2>1 DEF SawSettled, SawAdvanced, GatePast
  <2>4. \A i \in 1 .. Len(events) : SawAdvanced(events[i])'
    BY <1>1, <1>6, <2>1 DEF SawAdvanced
  <2>5. own <= in.jobs /\ Start <= in.jobs /\ in.jobs <= posted
    BY <1>2 DEF IInv, CountsInv, Posting
  <2>6. gate'.have_pending => MarkCovers'
    BY <1>0, <1>1, <1>6, <1>7, <2>5 DEF MarkCovers, Numbered
  <2>7. ~gate'.have_pending => own <= panel.drained
    <3> SUFFICES ASSUME ~gate'.have_pending PROVE own <= panel.drained
      OBVIOUS
    <3>1. Reached(panel.drained % Width, in.jobs % Width)
      BY <1>6, <2>1 DEF GatePast
    <3>2. posted <= Start + MaxJobs /\ taken <= Start + MaxJobs
      <4>1. posted <= taken + Len(queue) /\ taken <= taken + Len(queue)
        BY <1>0 DEF IInv, Typed, TypeOK, Numbered
      <4>2. taken + Len(queue) = Start + spent.jobs
        BY <1>0 DEF Start, Numbered
      <4> QED
        BY <1>0, <4>1, <4>2 DEF Numbered
    <3>3. panel.drained <= in.jobs + MaxJobs /\ in.jobs <= panel.drained + MaxJobs
      BY SMTT(60), <1>0, <2>5, <3>2 DEF IInv, CountsInv, Window, Numbered
    <3>4. panel.drained >= in.jobs
      BY <1>0, <3>1, <3>3, ReachedIff DEF Numbered
    <3> QED
      BY <1>0, <2>5, <3>4 DEF Numbered
  <2>8. \A i \in 1 .. Len(events) : SawWork(gate', events[i])
    <3> SUFFICES ASSUME NEW i \in 1 .. Len(events), ~gate'.have_pending, events[i].at >= gate'.settled_ns
                 PROVE  events[i].saw.drained >= own
      BY DEF SawWork
    <3>1. events[i] \in Presses /\ gate' \in Gates
      BY <1>5, Members
    <3>2. events[i].at \in Nat /\ events[i].saw.drained \in Nat /\ gate'.settled_ns \in Nat
          /\ gate.drain_advanced_ns \in Nat
      BY <1>3, <3>1, PressFacts, GateFacts
    <3>3. gate.have_completed /\ events[i].at >= gate.drain_advanced_ns
      BY <1>6, <3>2
    <3>4. events[i].saw.drained >= panel.drained
      BY <2>1, <3>3 DEF SawAdvanced
    <3> QED
      BY <1>0, <2>7, <3>2, <3>4 DEF Numbered
  <2> QED
    BY <1>1, <2>2, <2>3, <2>4, <2>6, <2>7, <2>8 DEF GateTrue, SawSettled, SawWork
<1>12. JudgeTrue' /\ ActsOnScreenRead' /\ ActsOnWorkShown'
  BY <1>2 DEF JudgeTrue, ActsOnScreenRead, ActsOnWorkShown
<1> QED
  BY <1>8, <1>9, <1>10, <1>11, <1>12 DEF IInv, GateInv

----------------------------------------------------------------------------
(* The write.                                                              *)

\* Every press on its way was made before the frame that is being written.
LEMMA PressesBefore ==
    ASSUME IInv, NEW i \in 1 .. Len(events)
    PROVE  /\ events[i].at \in Nat /\ events[i].saw.gen \in Nat /\ events[i].saw.drained \in Nat
           /\ events[i].at < clock + 1 /\ events[i].saw.gen <= gen
<1>0. Numbered
  BY Numbers
<1>1. events[i].at \in Nat /\ events[i].saw.gen \in Nat /\ events[i].saw.drained \in Nat
  BY Members, PressFacts
<1>2. events[i].at <= clock /\ events[i].saw.gen <= panel.gen /\ panel.gen <= gen
  BY DEF IInv, GateInv, PressesPast, Past, CountsInv, Window
<1> QED
  BY SMTT(60), <1>0, <1>1, <1>2 DEF Numbered

\* A frame that reached the panel, with its end read, makes the gate true of
\* the panel again.
LEMMA WriteEndGate ==
    ASSUME IInv, ~failed, NEW timed \in BOOLEAN,
           UNCHANGED <<posted, taken, queue, spent, drained, gen, events, in, own>>,
           clock' = clock + 1, panel' = [gen |-> gen, drained |-> drained], ~failed',
           gate' = Written(gate, clock + 1, timed, gen, drained % Width)
    PROVE  GateTrue'
<1> DEFINE d == drained % Width
           end == clock + 1
           meets == gate.have_pending /\ Reached(d, gate.pending_jobs)
<1>0. Numbered
  BY Numbers
<1>a. Start' = Start
  BY DEF Start
<1>b. end \in Times
  <2>1. clock <= RareTime + spent.rare + (taken - Start) + 1
    BY SMTT(60), <1>0 DEF IInv, CountsInv, ClockBound, Numbered
  <2>2. taken - Start \in 0 .. MaxJobs
    <3>1. Start <= panel.drained /\ panel.drained <= drained /\ drained <= taken
      BY DEF IInv, CountsInv, Window
    <3>2. taken + Len(queue) = Start + spent.jobs
      BY <1>0 DEF Start, Numbered
    <3> QED
      BY SMTT(60), <1>0, <3>1, <3>2 DEF Numbered
  <2>3. clock + Timeout <= Never
    BY <1>0, <2>1, <2>2, ClockFacts DEF Numbered, RareTime
  <2> QED
    BY <1>0, <2>3, TimeFacts DEF Numbered
<1>c. gen \in 0 .. MaxJobs
  BY SMTT(60), <1>0 DEF IInv, CountsInv, Window, Start, Numbered
<1>d. d \in Counts
  BY <1>0, WidthFacts, ModAdd DEF Counts, Numbered
<1>e. gate' = Written(gate, end, timed, gen, d) /\ gate \in Gates
  BY Members
<1>f. end \in Nat /\ end > clock
  BY <1>0 DEF Numbered
<1> HIDE DEF d, end
<1>1. /\ gate'.have_completed /\ gate'.have_settled /\ gate'.completed_drained = d
      /\ gate'.pending_jobs = gate.pending_jobs
      /\ gate'.have_pending <=> gate.have_pending /\ ~Reached(d, gate.pending_jobs)
  BY <1>b, <1>c, <1>d, <1>e, WrittenFacts
<1>g. \/ gate.have_completed /\ d = gate.completed_drained
         /\ gate'.drain_advanced_ns = gate.drain_advanced_ns
         /\ gate'.drain_advanced_gen = gate.drain_advanced_gen
      \/ gate'.drain_advanced_ns = end /\ gate'.drain_advanced_gen = gen
  BY <1>b, <1>c, <1>d, <1>e, WrittenFacts
<1>h. \/ gate'.settled_ns = end /\ gate'.settled_gen = gen
      \/ /\ gate'.settled_ns = gate.settled_ns /\ gate'.settled_gen = gate.settled_gen
         /\ gate.have_settled /\ ~meets
  BY <1>b, <1>c, <1>d, <1>e, WrittenFacts
<1> HIDE DEF meets
<1>2. panel'.gen = gen /\ panel'.drained = drained
  OBVIOUS
<1>3. GatePast /\ \A i \in 1 .. Len(events) : SawSettled(gate, events[i]) /\ SawAdvanced(events[i])
  BY DEF IInv, GateInv, GateTrue
<1>4. /\ gate.settled_ns \in Nat /\ gate.settled_gen \in Nat
      /\ gate.drain_advanced_ns \in Nat /\ gate.drain_advanced_gen \in Nat
  BY Members, GateFacts
<1>5. panel.gen <= gen /\ panel.drained <= drained /\ Start <= panel.drained /\ drained <= taken
  BY DEF IInv, CountsInv, Window
<1>6. taken <= Start + MaxJobs /\ posted <= Start + MaxJobs
  <2>1. posted <= taken + Len(queue) /\ taken <= taken + Len(queue)
    BY SMTT(60), <1>0 DEF IInv, Typed, TypeOK, Numbered
  <2>2. taken + Len(queue) = Start + spent.jobs
    BY <1>0 DEF Start, Numbered
  <2> QED
    BY SMTT(60), <1>0, <2>1, <2>2 DEF Numbered
<1>7. gate.have_completed /\ d = gate.completed_drained => drained = panel.drained
  <2> SUFFICES ASSUME gate.have_completed, d = gate.completed_drained
               PROVE  drained = panel.drained
    OBVIOUS
  <2>1. panel.drained % Width = drained % Width
    BY <1>3 DEF GatePast, d
  <2>2. drained <= panel.drained + MaxJobs
    BY <1>0, <1>5, <1>6 DEF Numbered
  <2> QED
    BY <1>0, <1>5, <2>1, <2>2, ModInjective DEF Numbered
<1>8. GatePast'
  <2>0. /\ gate.settled_ns <= clock /\ gate.settled_gen <= panel.gen
        /\ gate.drain_advanced_ns <= clock /\ gate.drain_advanced_gen <= panel.gen
        /\ clock \in Nat /\ panel.gen \in Nat /\ gen \in Nat
    BY <1>0, <1>3 DEF GatePast, Numbered
  <2>1. gate'.settled_ns <= end /\ gate'.settled_gen <= gen
    BY <1>h, <1>4, <1>5, <1>f, <2>0
  <2>2. gate'.drain_advanced_ns <= end /\ gate'.drain_advanced_gen <= gen
    BY <1>g, <1>4, <1>5, <1>f, <2>0
  <2> QED
    BY <1>1, <1>2, <2>1, <2>2 DEF GatePast, d, end
<1>9. \A i \in 1 .. Len(events) : SawSettled(gate', events[i])
  <2> SUFFICES ASSUME NEW i \in 1 .. Len(events), events[i].at >= gate'.settled_ns
               PROVE  events[i].saw.gen >= gate'.settled_gen
    BY DEF SawSettled
  <2>1. events[i].at \in Nat /\ events[i].at < end
    BY PressesBefore DEF end
  <2>2. gate'.settled_ns = gate.settled_ns /\ gate'.settled_gen = gate.settled_gen /\ gate.have_settled
    BY <1>h, <1>f, <2>1
  <2> QED
    BY <1>3, <2>2 DEF SawSettled
<1>10. \A i \in 1 .. Len(events) : SawAdvanced(events[i])'
  <2> SUFFICES ASSUME NEW i \in 1 .. Len(events), events[i].at >= gate'.drain_advanced_ns
               PROVE  events[i].saw.gen >= gate'.drain_advanced_gen /\ events[i].saw.drained >= drained
    BY <1>2 DEF SawAdvanced
  <2>1. events[i].at \in Nat /\ events[i].at < end
    BY PressesBefore DEF end
  <2>2. gate.have_completed /\ d = gate.completed_drained
    BY <1>g, <1>f, <2>1
  <2> QED
    BY <1>g, <1>f, <1>3, <1>7, <2>1, <2>2 DEF SawAdvanced
<1>11. ASSUME ~Unmarked
       PROVE  /\ gate'.have_pending => MarkCovers'
              /\ ~gate'.have_pending => own <= drained
              /\ \A i \in 1 .. Len(events) : SawWork(gate', events[i])
  <2>1. /\ gate.have_pending => MarkCovers
        /\ ~gate.have_pending => own <= panel.drained
        /\ \A i \in 1 .. Len(events) : SawWork(gate, events[i])
    BY <1>11 DEF IInv, GateInv, GateTrue
  <2>2. gate'.have_pending => MarkCovers'
    BY <1>a, <1>1, <2>1 DEF MarkCovers
  <2>3. ~gate'.have_pending => own <= drained
    <3>1. CASE ~gate.have_pending
      BY <1>0, <1>5, <2>1, <3>1 DEF Numbered
    <3>2. CASE gate.have_pending /\ Reached(d, gate.pending_jobs)
      <4>1. PICK p \in own .. posted : Start <= p /\ gate.pending_jobs = p % Width
        BY <2>1, <3>2 DEF MarkCovers
      <4>2. p \in Nat /\ own <= p /\ p <= Start + MaxJobs
        BY <1>0, <1>6, <4>1 DEF Numbered
      <4>3. drained <= p + MaxJobs /\ p <= drained + MaxJobs
        BY <1>0, <1>5, <1>6, <4>1, <4>2 DEF Numbered
      <4>4. Reached(drained % Width, p % Width)
        BY <3>2, <4>1 DEF d
      <4>5. drained >= p
        BY <1>0, <4>2, <4>3, <4>4, ReachedIff DEF Numbered
      <4> QED
        BY <1>0, <4>2, <4>5 DEF Numbered
    <3> QED
      BY <1>1, <3>1, <3>2
  <2>4. \A i \in 1 .. Len(events) : SawWork(gate', events[i])
    <3> SUFFICES ASSUME NEW i \in 1 .. Len(events), ~gate'.have_pending, events[i].at >= gate'.settled_ns
                 PROVE  events[i].saw.drained >= own
      BY DEF SawWork
    <3>1. events[i].at \in Nat /\ events[i].at < end
      BY PressesBefore DEF end
    <3>2. gate'.settled_ns = gate.settled_ns /\ gate.have_settled /\ ~meets
      BY <1>h, <1>f, <3>1
    <3>3. ~gate.have_pending
      BY <1>1, <3>2 DEF meets
    <3> QED
      BY <2>1, <3>2, <3>3 DEF SawWork
  <2> QED
    BY <2>2, <2>3, <2>4
<1> QED
  BY <1>2, <1>8, <1>9, <1>10, <1>11 DEF GateTrue, SawSettled, SawWork, Unmarked

\* The end of a write: a frame on the panel whose end was read tells the gate
\* what the panel shows; anything else fails the panel, and the gate is not
\* asked again.
LEMMA WriteEndInv ==
    ASSUME IInv, NEW written \in BOOLEAN, NEW timed \in BOOLEAN, WriteEnd(written, timed)
    PROVE  IInv'
<1> DEFINE end == IF timed THEN clock + 1 ELSE Never
<1>0. Numbered
  BY Numbers
<1>1. /\ UNCHANGED <<queue, posted, poster, taken, drained, gen, events, in, own>>
      /\ gui = "write" /\ gui' = "wait" /\ clock' = clock + 1
      /\ gate' = Written(gate, end, timed, gen, drained % Width)
      /\ panel' \in {panel, [gen |-> gen, drained |-> drained]}
  BY DEF WriteEnd
<1>2. failed' \in BOOLEAN /\ (~failed' => ~failed /\ written /\ timed)
  BY Zenon DEF WriteEnd, IInv, Typed, TypeOK
<1>3. /\ spent' \in Spents /\ spent'.jobs = spent.jobs
      /\ RareTime' + spent'.rare >= RareTime + spent.rare /\ RareTime' \in Nat
  <2>1. CASE written /\ timed
    <3>1. spent' = spent
      BY <2>1 DEF WriteEnd
    <3> QED
      BY <1>0, <3>1 DEF IInv, Typed, RareTime, Numbered
  <2>2. CASE ~(written /\ timed)
    <3>1. Rare
      BY <2>2 DEF WriteEnd
    <3>2. /\ spent' \in Spents /\ spent'.jobs = spent.jobs /\ spent'.rare = spent.rare + 1
          /\ RareTime' = RareTime + Timeout
      BY <3>1, RareFacts
    <3> QED
      BY <1>0, <3>2 DEF Numbered
  <2> QED
    BY <2>1, <2>2
<1>4. Start' = Start
  BY <1>1, <1>3 DEF Start
<1>5. clock + 1 <= RareTime + spent.rare + (taken - Start) + 1
  BY <1>1 DEF IInv, CountsInv, ClockBound
<1>6. taken - Start \in 0 .. MaxJobs
  <2>1. Start <= panel.drained /\ panel.drained <= drained /\ drained <= taken
    BY DEF IInv, CountsInv, Window
  <2>2. taken + Len(queue) = Start + spent.jobs
    BY <1>0 DEF Start, Numbered
  <2> QED
    BY <1>0, <2>1, <2>2 DEF Numbered
<1>7. clock + 1 \in Times
  <2>0. clock <= RareTime + spent.rare + (taken - Start) + 1
    BY <1>0, <1>5, <1>6 DEF Numbered
  <2>1. clock + Timeout <= Never
    BY <1>0, <1>6, <2>0, ClockFacts DEF Numbered, RareTime
  <2> QED
    BY <1>0, <2>1, TimeFacts DEF Numbered
<1>8. gen \in 0 .. MaxJobs /\ gen <= taken - Start
  BY <1>0, <1>6 DEF IInv, CountsInv, Window, Numbered
<1>9. gate' \in Gates
  <2>1. end \in Times
    BY <1>7, TimeFacts
  <2>2. (drained % Width) \in Counts
    BY <1>0, WidthFacts, ModAdd DEF Counts, Numbered
  <2>3. gate \in Gates
    BY Members
  <2> HIDE DEF end
  <2> QED
    BY <1>1, <1>8, <2>1, <2>2, <2>3, WrittenTyped
<1> HIDE DEF end
<1>10. drained \in Jobs
  <2>1. drained <= taken /\ Start \in Starts
    BY DEF IInv, CountsInv, Window
  <2>2. drained <= Start + MaxJobs
    BY <1>0, <1>6, <2>1 DEF Numbered
  <2> QED
    BY <1>0, <2>1, <2>2, JobsFacts DEF Numbered
<1>11. panel' \in Frames
  BY <1>1, <1>8, <1>10, Members DEF Frames
<1>12. Typed'
  BY <1>1, <1>2, <1>3, <1>7, <1>9, <1>11 DEF IInv, Typed, TypeOK
<1>13. CountsInv'
  <2>1. /\ Start <= panel'.drained /\ panel'.drained <= drained /\ panel'.gen <= gen
        /\ panel.gen <= panel'.gen
    BY <1>0, <1>1 DEF IInv, CountsInv, Window, Numbered
  <2>2. Window'
    BY <1>1, <1>4, <2>1 DEF IInv, CountsInv, Window
  <2>3. ClockBound'
    <3>1. spent'.rare \in Nat
      BY <1>3, BoundsAssumption DEF Spents
    <3>2. clock' + 0 <= RareTime' + spent'.rare + (taken - Start) + 1
      <4>1. PICK a \in Nat : a = RareTime' + spent'.rare
        BY <1>3, <3>1
      <4>2. PICK b \in Nat : b = taken - Start
        BY <1>6
      <4>3. clock + 1 <= RareTime + spent.rare + b + 1 /\ a >= RareTime + spent.rare
        BY <1>3, <1>5, <4>1, <4>2
      <4>4. clock + 1 <= a + b + 1
        BY <1>0, <4>3 DEF Numbered
      <4> QED
        BY <1>0, <1>1, <4>1, <4>2, <4>4 DEF Numbered
    <3> QED
      BY <1>1, <1>4, <3>2 DEF ClockBound
  <2>4. Posting'
    BY <1>0, <1>1, <1>4 DEF IInv, CountsInv, Posting, Numbered
  <2> QED
    BY <2>2, <2>3, <2>4 DEF CountsInv
<1>14. panel.gen <= panel'.gen /\ panel'.gen \in Nat
  BY <1>0, <1>1 DEF IInv, CountsInv, Window, Numbered
<1>15. PressesPast' /\ (in.pc \in {"judge", "allowed"} => Past(in.press)')
  <2>1. ASSUME NEW p \in Presses, Past(p) PROVE p.at <= clock' /\ p.saw.gen <= panel'.gen
    <3>1. p.at \in Nat /\ p.saw.gen \in Nat /\ p.at <= clock /\ p.saw.gen <= panel.gen
      BY <2>1, PressFacts DEF Past
    <3> QED
      BY SMTT(60), <1>0, <1>1, <1>14, <3>1 DEF Numbered
  <2>2. PressesPast'
    BY <1>1, <2>1, Members DEF IInv, GateInv, PressesPast, Past
  <2> QED
    BY <1>1, <2>1, <2>2, Members DEF IInv, GateInv, JudgeTrue, Past
<1>16. GateTrue'
  <2>1. CASE failed'
    BY <2>1 DEF GateTrue
  <2>2. CASE ~failed'
    <3>1. timed /\ written /\ ~failed
      BY <1>2, <2>2
    <3>2. end = clock + 1 /\ panel' = [gen |-> gen, drained |-> drained] /\ spent' = spent
      BY <3>1 DEF WriteEnd, end
    <3> QED
      BY <1>1, <2>2, <3>1, <3>2, WriteEndGate
  <2> QED
    BY <2>1, <2>2
<1>17. JudgeTrue' /\ ActsOnScreenRead' /\ ActsOnWorkShown'
  BY <1>1, <1>15 DEF IInv, GateInv, JudgeTrue, SawSettled, SawWork, ActsOnScreenRead, ActsOnWorkShown
<1> QED
  BY <1>12, <1>13, <1>15, <1>16, <1>17 DEF IInv, GateInv

----------------------------------------------------------------------------
(* The theorems.                                                           *)

\* A boot and a device at rest satisfy the invariant.
LEMMA InvInit == Init => IInv
<1> SUFFICES ASSUME Init PROVE IInv
  OBVIOUS
<1>1. /\ queue = <<>> /\ posted \in Starts /\ posted \in Nat /\ poster = "nobody" /\ taken = posted
      /\ drained = posted /\ gen = 0 /\ failed = FALSE /\ clock = 0
      /\ panel = [gen |-> 0, drained |-> posted] /\ events = <<>> /\ in = Waiting /\ own = 0
      /\ spent = [jobs |-> 0, presses |-> 0, rare |-> 0] /\ gui \in {"flush", "wait"}
  BY BoundsAssumption DEF Init
<1>2. 0 \in Jobs /\ posted \in Jobs /\ 0 \in Times /\ 0 \in 0 .. MaxJobs /\ 0 \in Counts
  BY <1>1, JobsFacts, TimeFacts, WidthFacts, BoundsAssumption DEF Counts
<1>3. NewGate \in Gates
  BY <1>2 DEF NewGate, Gates
<1>4. Len(queue) = 0 /\ Len(events) = 0
  BY <1>1
<1>5. Start = posted /\ RareTime = 0
  BY <1>1, <1>4, BoundsAssumption DEF Start, RareTime
<1>6. in \in Ins /\ in.pc = "wait"
  <2>1. NoPress \in Presses
    BY <1>2 DEF NoPress, Presses, Frames, Blank
  <2> QED
    BY <1>1, <1>2, <1>3, <2>1 DEF Waiting, Ins, InSteps
<1>7. gate \in Gates /\ ~gate.have_pending /\ GatePast
  <2>1. CASE gate = NewGate
    BY <1>1, <1>3, <2>1 DEF NewGate, GatePast
  <2>2. CASE \E usable \in BOOLEAN : gate = Written(NewGate, 0, usable, 0, posted % Width)
    <3>1. PICK usable \in BOOLEAN : gate = Written(NewGate, 0, usable, 0, posted % Width)
      BY <2>2
    <3>2. (posted % Width) \in Counts
      BY <1>1, WidthFacts, ModAdd DEF Counts
    <3>3. gate \in Gates
      BY <1>2, <1>3, <3>1, <3>2, WrittenTyped
    <3>4. /\ gate.have_completed /\ gate.have_settled /\ gate.completed_drained = posted % Width
          /\ gate.drain_advanced_ns = 0 /\ gate.drain_advanced_gen = 0
          /\ gate.settled_ns = 0 /\ gate.settled_gen = 0 /\ ~gate.have_pending
      BY <3>1 DEF Written, NewGate
    <3> QED
      BY <1>1, <3>3, <3>4 DEF GatePast
  <2> QED
    BY <2>1, <2>2 DEF Init
<1>8. Typed
  <2>1. panel \in Frames
    BY <1>1, <1>2 DEF Frames
  <2>2. spent \in Spents
    BY <1>1, BoundsAssumption DEF Spents
  <2>3. failed \in BOOLEAN
    BY <1>1
  <2> QED
    BY <1>1, <1>2, <1>4, <1>6, <1>7, <2>1, <2>2, <2>3 DEF Typed, TypeOK, Ins, InSteps
<1>9. CountsInv
  <2>1. spent.rare = 0 /\ panel.gen = 0 /\ panel.drained = posted
    BY <1>1
  <2> QED
    BY <1>1, <1>5, <1>6, <2>1 DEF CountsInv, Window, ClockBound, Posting
<1>10. GateInv
  <2>1. own <= panel.drained
    BY <1>1
  <2>2. PressesPast /\ GateTrue
    BY <1>4, <1>7, <2>1 DEF PressesPast, GateTrue
  <2> QED
    BY <1>6, <2>2 DEF GateInv, JudgeTrue, ActsOnScreenRead, ActsOnWorkShown
<1> QED
  BY <1>8, <1>9, <1>10 DEF IInv

\* Every step keeps it.
LEMMA InvStep == IInv /\ [Next]_vars => IInv'
<1> SUFFICES ASSUME IInv, [Next]_vars PROVE IInv'
  OBVIOUS
<1>1. CASE OtherEnqueues
  BY <1>1, OtherEnqueuesInv
<1>2. CASE OtherCounts
  BY <1>2, OtherCountsInv
<1>3. CASE TakeJob
  BY <1>3, TakeJobInv
<1>4. CASE Publish \/ WriteBegin
  BY <1>4, GuiMovesInv
<1>5. CASE Refresh \/ FlushNoClock \/ TimePasses
  BY <1>5, RareInv
<1>6. CASE \E written, timed \in BOOLEAN : WriteEnd(written, timed)
  BY <1>6, WriteEndInv
<1>7. CASE \E acts \in BOOLEAN : Press(acts)
  BY <1>7, PressInv
<1>8. CASE Snapshot
  BY <1>8, SnapshotInv
<1>9. CASE Decide
  BY <1>9, DecideInv
<1>10. CASE InputBegins
  BY <1>10, InputBeginsInv
<1>11. CASE InputEnqueues
  BY <1>11, InputEnqueuesInv
<1>12. CASE InputCounts
  BY <1>12, InputCountsInv
<1>13. CASE InputReturns \/ ReturnsUntimed
  BY <1>13, InputReturnsInv
<1>14. CASE Mark
  BY <1>14, MarkInv
<1>15. CASE UNCHANGED vars
  BY <1>15 DEF vars, guiVars, IInv, Typed, TypeOK, CountsInv, Window, Start, ClockBound, RareTime,
     Posting, GateInv, PressesPast, Past, GateTrue, GatePast, SawSettled, SawAdvanced, SawWork,
     MarkCovers, Unmarked, JudgeTrue, ActsOnScreenRead, ActsOnWorkShown
<1> QED
  BY <1>1, <1>2, <1>3, <1>4, <1>5, <1>6, <1>7, <1>8, <1>9, <1>10, <1>11, <1>12, <1>13, <1>14, <1>15
     DEF Next, GuiStep, InputStep

\* The invariant holds in every state of every behaviour.
LEMMA Invariance == Spec => []IInv
BY InvInit, InvStep, PTL DEF Spec

\* Type correctness of the gate, the gui task's counters and the input thread:
\* gui_jobs_drained never passes gui_jobs_posted but for the one job that is
\* enqueued and not yet counted, and no time reaches UINT64_MAX.
THEOREM TypeCorrect == Spec => []TypeOK
<1>1. IInv => TypeOK
  BY DEF IInv, Typed
<1> QED
  BY <1>1, Invariance, PTL

\* A press that input_gate_judge lets act was made on the screen that is
\* current when it is let through, for every interleaving of the threads.
THEOREM ActsOnWhatWasRead == Spec => []ActsOnScreenRead
<1>1. IInv => ActsOnScreenRead
  BY DEF IInv, GateInv
<1> QED
  BY <1>1, Invariance, PTL

\* The panel showed the press the work of every earlier press, unless the
\* timeout gave up on the gui task: the pending mark, the comparison of the
\* wrapped counts and the retrospective repair leave no gap between them.
THEOREM ActsAfterWorkShown == Spec => []ActsOnWorkShown
<1>1. IInv => ActsOnWorkShown
  BY DEF IInv, GateInv
<1> QED
  BY <1>1, Invariance, PTL

----------------------------------------------------------------------------
(* The buttons, which the presses come from.                               *)

Edges == [line : Lines, falls : BOOLEAN, age : 0 .. Delay]

\* What a queue q of edges says of the lines: the first edge of a line finds it
\* as the code believes it to be (P), its edges alternate, and the last leaves
\* it as it is (D).
HasEdge(q, l) == \E i \in 1 .. Len(q) : q[i].line = l
IsFirst(q, i) == \A j \in 1 .. Len(q) : j < i => q[j].line # q[i].line
IsLast(q, i)  == \A j \in 1 .. Len(q) : j > i => q[j].line # q[i].line
Follows(q, i, j) ==
    /\ i < j /\ q[i].line = q[j].line
    /\ \A k \in 1 .. Len(q) : i < k /\ k < j => q[k].line # q[i].line

Alternate(q) == \A i, j \in 1 .. Len(q) : Follows(q, i, j) => q[i].falls # q[j].falls
Begins(q, P) == \A i \in 1 .. Len(q) : IsFirst(q, i) /\ q[i].line \in Directions =>
                    (q[i].falls <=> q[i].line \notin P)
Ends(q, D)   == \A i \in 1 .. Len(q) : IsLast(q, i) => (q[i].falls <=> q[i].line \in D)
Quiet(q, P, D) == \A d \in Directions : ~HasEdge(q, d) => (d \in P <=> d \in D)

Chain(q, P, D) == Alternate(q) /\ Begins(q, P) /\ Ends(q, D) /\ Quiet(q, P, D)

\* The oldest edge comes first.  A direction that is down has been so since its
\* last edge, and for longer than every edge of others if its own were read.
Order(q) == \A i, j \in 1 .. Len(q) : i < j => q[i].age >= q[j].age
Since(q, h) == \A i \in 1 .. Len(q) :
    IsLast(q, i) /\ q[i].falls /\ q[i].line \in Directions => h[q[i].line] >= q[i].age
Before(q, P, h) == \A d \in P : ~HasEdge(q, d) => \A i \in 1 .. Len(q) : h[d] >= q[i].age

Aged(q, P, h) == Order(q) /\ Since(q, h) /\ Before(q, P, h)

\* The direction that repeats will have been down for the delay when the
\* deadline comes, unless its release is on the way.
DeadlineFits == held # NoLine /\ ~HasEdge(edges, held) => hold[held] + left >= Delay

\* Between the end of poll and the repeat nothing but a release can come.
ExpiredFits ==
    pc = "expired" => held # NoLine /\ held \in down \cup moved /\ hold[held] = Delay

PadInv ==
    /\ ButtonsTypeOK
    /\ HeldHasOwner
    /\ Chain(edges, pressed_dirs, down)
    /\ Aged(edges, pressed_dirs, hold)
    /\ DeadlineFits
    /\ ExpiredFits

\* The smallest of some directions is one of them.
LEMMA MinIsMember ==
    ASSUME ButtonsConstants, NEW S \in SUBSET Directions, S # {}
    PROVE  Min(S) \in S
<1>1. S \in SUBSET Nat
  BY DEF ButtonsConstants
<1>2. \E x \in S : \A y \in S : ~(<<y, x>> \in OpToRel(<, Nat))
  BY <1>1, WFMin, NatLessThanWellFounded
<1>3. \A x, y \in Nat : y < x => <<y, x>> \in OpToRel(<, Nat)
  BY DEF OpToRel
<1>4. \E x \in S : \A y \in S : ~(y < x)
  BY Zenon, <1>1, <1>2, <1>3
<1>5. \E x \in S : \A y \in S : x <= y
  BY <1>1, <1>4
<1> QED
  BY <1>5 DEF Min

\* Edges keep their types.
LEMMA EdgeFacts ==
    ASSUME ButtonsConstants
    PROVE  /\ Delay \in Nat /\ Delay > 0 /\ Interval \in 1 .. Delay
           /\ Directions \subseteq Nat /\ Directions \subseteq Lines
           /\ NoLine = 0 /\ 0 \notin Directions
           /\ \A e \in Edges : e.line \in Lines /\ e.falls \in BOOLEAN /\ e.age \in 0 .. Delay /\ e.age \in Nat
BY DEF ButtonsConstants, NoLine, Lines, Edges

\* An edge that is made continues the chain.
LEMMA ChainAppend ==
    ASSUME NEW q \in Seq(Edges), NEW e \in Edges, NEW P, NEW D, NEW D2, Chain(q, P, D),
           e.falls <=> e.line \notin D, e.falls <=> e.line \in D2,
           \A l : l # e.line => (l \in D2 <=> l \in D)
    PROVE  Chain(Append(q, e), P, D2)
<1> DEFINE r == Append(q, e)  n == Len(q)
<1>1. n \in Nat /\ Len(r) = n + 1 /\ (\A i \in 1 .. n : r[i] = q[i]) /\ r[n + 1] = e
  BY AppendFacts
<1>2. \A i \in 1 .. n + 1 : i \in 1 .. n \/ i = n + 1
  BY <1>1
<1>3. \A l : HasEdge(r, l) <=> HasEdge(q, l) \/ l = e.line
  BY <1>1, <1>2 DEF HasEdge
<1> HIDE DEF r, n
<1>4. Alternate(r)
  <2>1. SUFFICES ASSUME NEW i \in 1 .. n + 1, NEW j \in 1 .. n + 1, Follows(r, i, j)
                 PROVE r[i].falls # r[j].falls
    BY <1>1 DEF Alternate
  <2>2. i \in 1 .. n
    BY <1>1, <2>1 DEF Follows
  <2>3. CASE j \in 1 .. n
    <3>1. Follows(q, i, j)
      BY <1>1, <2>1, <2>2, <2>3 DEF Follows, n
    <3> QED
      BY <1>1, <2>2, <2>3, <3>1 DEF Chain, Alternate, n
  <2>4. CASE j = n + 1
    <3>1. IsLast(q, i)
      BY <1>1, <2>1, <2>2, <2>4 DEF Follows, IsLast, n
    <3>2. q[i].line = e.line
      BY <1>1, <2>1, <2>2, <2>4 DEF Follows
    <3>3. q[i].falls <=> q[i].line \in D
      BY <2>2, <3>1 DEF Chain, Ends, n
    <3>4. q[i] \in Edges /\ q[i].falls \in BOOLEAN /\ e.falls \in BOOLEAN
      <4>1. q[i] \in Edges
        BY <2>2 DEF n
      <4> QED
        BY <4>1 DEF Edges
    <3> QED
      BY <1>1, <2>2, <2>4, <3>2, <3>3, <3>4
  <2> QED
    BY <1>2, <2>3, <2>4
<1>5. Begins(r, P)
  <2>1. SUFFICES ASSUME NEW i \in 1 .. n + 1, IsFirst(r, i), r[i].line \in Directions
                 PROVE r[i].falls <=> r[i].line \notin P
    BY <1>1 DEF Begins
  <2>2. CASE i \in 1 .. n
    <3>1. IsFirst(q, i)
      BY <1>1, <2>1, <2>2 DEF IsFirst, n
    <3> QED
      BY <1>1, <2>1, <2>2, <3>1 DEF Chain, Begins, n
  <2>3. CASE i = n + 1
    <3>1. ~HasEdge(q, e.line)
      BY <1>1, <2>1, <2>3 DEF IsFirst, HasEdge, n
    <3> QED
      BY <1>1, <2>1, <2>3, <3>1 DEF Chain, Quiet
  <2> QED
    BY <1>2, <2>2, <2>3
<1>6. Ends(r, D2)
  <2>1. SUFFICES ASSUME NEW i \in 1 .. n + 1, IsLast(r, i)
                 PROVE r[i].falls <=> r[i].line \in D2
    BY <1>1 DEF Ends
  <2>2. CASE i \in 1 .. n
    <3>1. \A j \in 1 .. n + 1 : j > i => r[j].line # r[i].line
      BY <1>1, <2>1 DEF IsLast
    <3>2. r[n + 1].line # q[i].line
      BY <1>1, <2>2, <3>1
    <3>3. \A j \in 1 .. n : j \in 1 .. n + 1
      BY <1>1
    <3>4. IsLast(q, i) /\ q[i].line # e.line
      BY <1>1, <2>2, <3>1, <3>2, <3>3 DEF IsLast, n
    <3> QED
      BY <1>1, <2>1, <2>2, <3>4 DEF Chain, Ends, n
  <2>3. CASE i = n + 1
    BY <1>1, <2>3
  <2> QED
    BY <1>2, <2>2, <2>3
<1>7. Quiet(r, P, D2)
  BY <1>3 DEF Chain, Quiet
<1> QED
  BY <1>4, <1>5, <1>6, <1>7 DEF Chain, r

\* An edge that is read shortens the chain from its head.
LEMMA ChainTail ==
    ASSUME NEW q \in Seq(Edges), q # <<>>, NEW P, NEW P2, NEW D, Chain(q, P, D),
           Head(q).line \in Directions => (Head(q).line \in P2 <=> Head(q).falls),
           \A d \in Directions : d # Head(q).line => (d \in P2 <=> d \in P)
    PROVE  Chain(Tail(q), P2, D)
<1> DEFINE r == Tail(q)  n == Len(q)  e == Head(q)
<1>1. /\ n \in Nat /\ n >= 1 /\ Len(r) = n - 1 /\ (\A i \in 1 .. n - 1 : r[i] = q[i + 1])
      /\ e = q[1] /\ r \in Seq(Edges) /\ \A i \in 1 .. n : q[i].falls \in BOOLEAN
  <2>1. \A i \in 1 .. n : q[i] \in Edges
    OBVIOUS
  <2>2. \A i \in 1 .. n : q[i].falls \in BOOLEAN
    BY <2>1 DEF Edges
  <2> QED
    BY <2>2, TailFacts
<1>2. \A i \in 1 .. n - 1 : i + 1 \in 1 .. n /\ 1 < i + 1
  BY <1>1
<1>3. \A j \in 1 .. n : j # 1 => j - 1 \in 1 .. n - 1 /\ (j - 1) + 1 = j
  BY <1>1
<1>4. \A l : HasEdge(q, l) <=> HasEdge(r, l) \/ l = e.line
  BY <1>1, <1>2, <1>3 DEF HasEdge
<1> HIDE DEF r, n, e
<1>5. Alternate(r)
  <2>1. SUFFICES ASSUME NEW i \in 1 .. n - 1, NEW j \in 1 .. n - 1, Follows(r, i, j)
                 PROVE r[i].falls # r[j].falls
    BY <1>1 DEF Alternate
  <2>3. \A k \in 1 .. n : i + 1 < k /\ k < j + 1 => q[k].line # q[i + 1].line
    <3>1. SUFFICES ASSUME NEW k \in 1 .. n, i + 1 < k, k < j + 1
                   PROVE q[k].line # q[i + 1].line
      OBVIOUS
    <3>2. k - 1 \in 1 .. n - 1 /\ i < k - 1 /\ k - 1 < j /\ r[k - 1] = q[(k - 1) + 1] /\ (k - 1) + 1 = k
      <4>1. k - 1 \in 1 .. n - 1 /\ i < k - 1 /\ k - 1 < j /\ (k - 1) + 1 = k
        BY <1>1, <3>1
      <4> QED
        BY <1>1, <4>1
    <3> QED
      BY <1>1, <2>1, <3>2 DEF Follows
  <2>4. Follows(q, i + 1, j + 1)
    BY <1>1, <1>2, <2>1, <2>3 DEF Follows, n
  <2> QED
    BY <1>1, <1>2, <2>1, <2>4 DEF Chain, Alternate, n
<1>6. Begins(r, P2)
  <2>1. SUFFICES ASSUME NEW i \in 1 .. n - 1, IsFirst(r, i), r[i].line \in Directions
                 PROVE r[i].falls <=> r[i].line \notin P2
    BY <1>1 DEF Begins
  <2>2. \A k \in 1 .. n : 1 < k /\ k < i + 1 => q[k].line # r[i].line
    <3>1. SUFFICES ASSUME NEW k \in 1 .. n, 1 < k, k < i + 1
                   PROVE q[k].line # r[i].line
      OBVIOUS
    <3>2. k - 1 \in 1 .. n - 1 /\ k - 1 < i /\ r[k - 1] = q[(k - 1) + 1] /\ (k - 1) + 1 = k
      <4>1. k - 1 \in 1 .. n - 1 /\ k - 1 < i /\ (k - 1) + 1 = k
        BY <1>1, <3>1
      <4> QED
        BY <1>1, <4>1
    <3> QED
      BY <1>1, <2>1, <3>2 DEF IsFirst
  <2>3. CASE r[i].line = e.line
    <3>1. Follows(q, 1, i + 1)
      BY <1>1, <1>2, <2>2, <2>3 DEF Follows, n
    <3>2. q[1].falls # q[i + 1].falls
      BY <1>1, <1>2, <3>1 DEF Chain, Alternate, n
    <3> QED
      BY <1>1, <1>2, <2>1, <2>3, <3>2 DEF e
  <2>4. CASE r[i].line # e.line
    <3>1. IsFirst(q, i + 1)
      <4>1. \A k \in 1 .. n : k < i + 1 => k = 1 \/ 1 < k
        BY <1>1
      <4> QED
        BY <1>1, <1>2, <2>2, <2>4, <4>1 DEF IsFirst, n
    <3> QED
      BY <1>1, <1>2, <2>1, <2>4, <3>1 DEF Chain, Begins, n, e
  <2> QED
    BY <2>3, <2>4
<1>7. \A i \in 1 .. n - 1 : IsLast(r, i) => IsLast(q, i + 1)
  <2>1. SUFFICES ASSUME NEW i \in 1 .. n - 1, IsLast(r, i), NEW k \in 1 .. n, k > i + 1
                 PROVE q[k].line # q[i + 1].line
    BY DEF IsLast, n
  <2>2. k - 1 \in 1 .. n - 1 /\ k - 1 > i /\ r[k - 1] = q[(k - 1) + 1] /\ (k - 1) + 1 = k
    <3>1. k - 1 \in 1 .. n - 1 /\ k - 1 > i /\ (k - 1) + 1 = k
      BY <1>1, <2>1
    <3> QED
      BY <1>1, <3>1
  <2> QED
    BY <1>1, <2>1, <2>2 DEF IsLast
<1>8. Ends(r, D)
  BY <1>1, <1>2, <1>7 DEF Chain, Ends, n
<1>9. Quiet(r, P2, D)
  <2>1. SUFFICES ASSUME NEW d \in Directions, ~HasEdge(r, d)
                 PROVE d \in P2 <=> d \in D
    BY DEF Quiet
  <2>2. CASE d = e.line
    <3>1. IsLast(q, 1)
      <4>1. SUFFICES ASSUME NEW k \in 1 .. n, k > 1
                     PROVE q[k].line # d
        BY <1>1, <2>2 DEF IsLast, n
      <4>2. k - 1 \in 1 .. n - 1 /\ (k - 1) + 1 = k
        BY <1>1, <4>1
      <4>3. r[k - 1] = q[k]
        BY <1>1, <4>2
      <4> QED
        BY <1>1, <2>1, <4>2, <4>3 DEF HasEdge
    <3> QED
      BY <1>1, <2>2, <3>1 DEF Chain, Ends, n, e
  <2>3. CASE d # e.line
    BY <1>4, <2>1, <2>3 DEF Chain, Quiet, e
  <2> QED
    BY <2>2, <2>3
<1> QED
  BY <1>5, <1>6, <1>8, <1>9 DEF Chain, r

\* An edge that is made is younger than all that wait, and starts its line's hold.
LEMMA AgedAppend ==
    ASSUME ButtonsConstants, NEW q \in Seq(Edges), NEW e \in Edges, e.age = 0, NEW P \in SUBSET Directions,
           NEW h \in [Directions -> 0 .. Delay], NEW h2 \in [Directions -> 0 .. Delay],
           Aged(q, P, h), \A d \in Directions : d # e.line => h2[d] = h[d]
    PROVE  Aged(Append(q, e), P, h2)
<1> DEFINE r == Append(q, e)  n == Len(q)
<1>1. n \in Nat /\ Len(r) = n + 1 /\ (\A i \in 1 .. n : r[i] = q[i]) /\ r[n + 1] = e
  BY AppendFacts
<1>2. \A i \in 1 .. n + 1 : i \in 1 .. n \/ i = n + 1
  BY <1>1
<1>3. \A i \in 1 .. n : q[i] \in Edges
  OBVIOUS
<1>4. \A i \in 1 .. n : q[i].age \in Nat
  BY <1>3, EdgeFacts
<1>5. \A d \in Directions : h[d] \in Nat /\ h2[d] \in Nat
  BY EdgeFacts
<1> HIDE DEF r, n
<1>6. Order(r)
  <2>1. SUFFICES ASSUME NEW i \in 1 .. n + 1, NEW j \in 1 .. n + 1, i < j
                 PROVE r[i].age >= r[j].age
    BY <1>1 DEF Order
  <2>2. i \in 1 .. n
    BY <1>1, <2>1
  <2>3. CASE j \in 1 .. n
    BY <1>1, <2>1, <2>2, <2>3 DEF Order, Aged, n
  <2>4. CASE j = n + 1
    BY <1>1, <1>4, <2>2, <2>4
  <2> QED
    BY <1>2, <2>3, <2>4
<1>7. Since(r, h2)
  <2>1. SUFFICES ASSUME NEW i \in 1 .. n + 1, IsLast(r, i), r[i].falls, r[i].line \in Directions
                 PROVE h2[r[i].line] >= r[i].age
    BY <1>1 DEF Since
  <2>2. CASE i \in 1 .. n
    <3>1. \A j \in 1 .. n + 1 : j > i => r[j].line # r[i].line
      BY <1>1, <2>1 DEF IsLast
    <3>2. r[n + 1].line # q[i].line
      BY <1>1, <2>2, <3>1
    <3>3. \A j \in 1 .. n : j \in 1 .. n + 1
      BY <1>1
    <3>4. IsLast(q, i) /\ q[i].line # e.line
      BY <1>1, <2>2, <3>1, <3>2, <3>3 DEF IsLast, n
    <3> QED
      BY <1>1, <2>1, <2>2, <3>4 DEF Aged, Since, n
  <2>3. CASE i = n + 1
    BY <1>1, <1>5, <2>1, <2>3
  <2> QED
    BY <1>2, <2>2, <2>3
<1>8. Before(r, P, h2)
  <2>1. SUFFICES ASSUME NEW d \in P, ~HasEdge(r, d), NEW i \in 1 .. n + 1
                 PROVE h2[d] >= r[i].age
    BY <1>1 DEF Before
  <2>2. ~HasEdge(q, d) /\ d # e.line
    BY <1>1, <1>2, <2>1 DEF HasEdge, n
  <2>3. CASE i \in 1 .. n
    BY <1>1, <2>2, <2>3 DEF Aged, Before, n
  <2>4. CASE i = n + 1
    BY <1>1, <1>5, <2>4
  <2> QED
    BY <1>2, <2>3, <2>4
<1> QED
  BY <1>6, <1>7, <1>8 DEF Aged, r

\* A direction whose last edge is read was down for as long as the others wait.
LEMMA AgedTail ==
    ASSUME ButtonsConstants, NEW q \in Seq(Edges), q # <<>>, NEW P, NEW P2 \in SUBSET Directions,
           NEW h \in [Directions -> 0 .. Delay], Aged(q, P, h),
           Head(q).line \in P2 => Head(q).falls,
           \A d \in P2 : d # Head(q).line => d \in P
    PROVE  /\ Aged(Tail(q), P2, h)
           /\ \A d \in P2 : ~HasEdge(Tail(q), d) => h[d] >= Head(q).age
<1> DEFINE r == Tail(q)  n == Len(q)  e == Head(q)
<1>1. /\ n \in Nat /\ n >= 1 /\ Len(r) = n - 1 /\ (\A i \in 1 .. n - 1 : r[i] = q[i + 1])
      /\ e = q[1] /\ r \in Seq(Edges)
  BY TailFacts
<1>2. \A i \in 1 .. n - 1 : i + 1 \in 1 .. n /\ 1 < i + 1
  BY <1>1
<1>3. \A i \in 1 .. n : q[i] \in Edges
  OBVIOUS
<1>4. \A i \in 1 .. n : q[i].age \in Nat
  BY <1>3, EdgeFacts
<1>5. \A d \in Directions : h[d] \in Nat
  BY EdgeFacts
<1> HIDE DEF r, n, e
<1>6. \A i \in 1 .. n - 1 : IsLast(r, i) => IsLast(q, i + 1)
  <2>1. SUFFICES ASSUME NEW i \in 1 .. n - 1, IsLast(r, i), NEW k \in 1 .. n, k > i + 1
                 PROVE q[k].line # q[i + 1].line
    BY DEF IsLast, n
  <2>2. k - 1 \in 1 .. n - 1 /\ k - 1 > i /\ r[k - 1] = q[(k - 1) + 1] /\ (k - 1) + 1 = k
    <3>1. k - 1 \in 1 .. n - 1 /\ k - 1 > i /\ (k - 1) + 1 = k
      BY <1>1, <2>1
    <3> QED
      BY <1>1, <3>1
  <2> QED
    BY <1>1, <2>1, <2>2 DEF IsLast
<1>7. Order(r)
  <2>1. \A i, j \in 1 .. n - 1 : i < j => i + 1 < j + 1
    BY <1>1
  <2> QED
    BY <1>1, <1>2, <2>1 DEF Order, Aged, n
<1>8. Since(r, h)
  BY <1>1, <1>2, <1>6 DEF Since, Aged, n
<1>9. \A d \in P2 : ~HasEdge(r, d) => h[d] >= e.age
  <2>1. SUFFICES ASSUME NEW d \in P2, ~HasEdge(r, d)
                 PROVE h[d] >= e.age
    OBVIOUS
  <2>2. \A k \in 1 .. n : k > 1 => q[k].line # d
    <3>1. SUFFICES ASSUME NEW k \in 1 .. n, k > 1
                   PROVE q[k].line # d
      OBVIOUS
    <3>2. k - 1 \in 1 .. n - 1 /\ r[k - 1] = q[(k - 1) + 1] /\ (k - 1) + 1 = k
      <4>1. k - 1 \in 1 .. n - 1 /\ (k - 1) + 1 = k
        BY <1>1, <3>1
      <4> QED
        BY <1>1, <4>1
    <3> QED
      BY <1>1, <2>1, <3>2 DEF HasEdge
  <2>3. CASE d = e.line
    <3>1. IsLast(q, 1) /\ 1 \in 1 .. n
      BY <1>1, <2>2, <2>3 DEF IsLast, n
    <3>2. q[1].falls /\ q[1].line = d /\ d \in Directions
      BY <1>1, <2>3 DEF e
    <3> QED
      BY <1>1, <3>1, <3>2 DEF Aged, Since, n
  <2>4. CASE d # e.line
    <3>1. \A k \in 1 .. n : k = 1 \/ k > 1
      BY <1>1
    <3>2. ~HasEdge(q, d) /\ d \in P /\ 1 \in 1 .. n
      BY <1>1, <2>2, <2>4, <3>1 DEF HasEdge, n, e
    <3> QED
      BY <1>1, <3>2 DEF Aged, Before, n
  <2> QED
    BY <2>3, <2>4
<1>10. Before(r, P2, h)
  <2>1. SUFFICES ASSUME NEW d \in P2, ~HasEdge(r, d), NEW i \in 1 .. n - 1
                 PROVE h[d] >= r[i].age
    BY <1>1 DEF Before
  <2>2. q[1].age >= q[i + 1].age /\ 1 \in 1 .. n /\ i + 1 \in 1 .. n
    BY <1>1, <1>2 DEF Aged, Order, n
  <2>3. h[d] >= q[1].age
    BY <1>1, <1>9, <2>1
  <2>4. h[d] \in Nat /\ q[1].age \in Nat /\ q[i + 1].age \in Nat /\ r[i] = q[i + 1]
    BY <1>1, <1>4, <1>5, <2>2
  <2> QED
    BY <2>2, <2>3, <2>4
<1> QED
  BY <1>7, <1>8, <1>9, <1>10 DEF Aged, r, e

\* The ages of a queue when time has passed.
Older(q) == [i \in DOMAIN q |-> [q[i] EXCEPT !.age = Capped(@ + 1)]]

\* Only the ages of the edges change with the time.
LEMMA OlderFacts ==
    ASSUME ButtonsConstants, NEW q \in Seq(Edges)
    PROVE  /\ Older(q) \in Seq(Edges) /\ Len(Older(q)) = Len(q)
           /\ \A i \in 1 .. Len(q) : /\ q[i] \in Edges /\ Older(q)[i].line = q[i].line
                                     /\ Older(q)[i].falls = q[i].falls
                                     /\ Older(q)[i].age = Capped(q[i].age + 1)
<1>1. \A a \in 0 .. Delay : Capped(a + 1) \in 0 .. Delay
  BY EdgeFacts DEF Capped
<1>2. \A e \in Edges : LET o == [e EXCEPT !.age = Capped(e.age + 1)]
                       IN  /\ o \in Edges /\ o.line = e.line /\ o.falls = e.falls
                           /\ o.age = Capped(e.age + 1)
  BY <1>1 DEF Edges
<1>3. \A i \in 1 .. Len(q) : q[i] \in Edges
  OBVIOUS
<1>4. Older(q) = [i \in 1 .. Len(q) |-> [q[i] EXCEPT !.age = Capped(q[i].age + 1)]]
  BY DEF Older
<1>5. \A i \in 1 .. Len(q) : [q[i] EXCEPT !.age = Capped(q[i].age + 1)] \in Edges
  BY <1>2, <1>3
<1>6. Older(q) \in Seq(Edges) /\ Len(Older(q)) = Len(q)
  BY <1>4, <1>5
<1> QED
  BY <1>2, <1>3, <1>4, <1>6

\* Time leaves the chain alone.
LEMMA ChainTick ==
    ASSUME ButtonsConstants, NEW q \in Seq(Edges), NEW P, NEW D, Chain(q, P, D)
    PROVE  /\ Chain(Older(q), P, D)
           /\ \A l : HasEdge(Older(q), l) <=> HasEdge(q, l)
<1> DEFINE r == Older(q)
<1>1. Len(r) = Len(q) /\ \A i \in 1 .. Len(q) : r[i].line = q[i].line /\ r[i].falls = q[i].falls
  BY OlderFacts
<1> HIDE DEF r
<1>2. \A i, j \in 1 .. Len(q) : Follows(r, i, j) <=> Follows(q, i, j)
  BY <1>1 DEF Follows
<1>3. \A i \in 1 .. Len(q) : (IsFirst(r, i) <=> IsFirst(q, i)) /\ (IsLast(r, i) <=> IsLast(q, i))
  BY <1>1 DEF IsFirst, IsLast
<1>4. \A l : HasEdge(r, l) <=> HasEdge(q, l)
  BY <1>1 DEF HasEdge
<1>5. Alternate(r)
  BY <1>1, <1>2 DEF Chain, Alternate
<1>6. Begins(r, P) /\ Ends(r, D)
  BY <1>1, <1>3 DEF Chain, Begins, Ends
<1>7. Quiet(r, P, D)
  BY <1>4 DEF Chain, Quiet
<1> QED
  BY <1>4, <1>5, <1>6, <1>7 DEF Chain, r

\* What is down grows older with the edges.
LEMMA AgedTick ==
    ASSUME ButtonsConstants, NEW q \in Seq(Edges), NEW P \in SUBSET Directions, NEW D,
           NEW h \in [Directions -> 0 .. Delay], Chain(q, P, D), Aged(q, P, h)
    PROVE  Aged(Older(q), P, [d \in Directions |-> IF d \in D THEN Capped(h[d] + 1) ELSE h[d]])
<1> DEFINE r  == Older(q)
           h2 == [d \in Directions |-> IF d \in D THEN Capped(h[d] + 1) ELSE h[d]]
<1>1. /\ Len(r) = Len(q)
      /\ \A i \in 1 .. Len(q) : r[i].line = q[i].line /\ r[i].falls = q[i].falls
                                /\ r[i].age = Capped(q[i].age + 1) /\ q[i].age \in Nat
  BY OlderFacts, EdgeFacts
<1>2. \A a, b \in Nat : a >= b => Capped(a + 1) >= Capped(b + 1)
  BY EdgeFacts DEF Capped
<1>3. \A d \in Directions : h[d] \in Nat /\ (d \in D => h2[d] = Capped(h[d] + 1))
  BY EdgeFacts
<1> HIDE DEF r, h2
<1>4. \A i \in 1 .. Len(q) : IsLast(r, i) <=> IsLast(q, i)
  BY <1>1 DEF IsLast
<1>5. Order(r)
  BY <1>1, <1>2 DEF Aged, Order
<1>6. Since(r, h2)
  <2>1. SUFFICES ASSUME NEW i \in 1 .. Len(q), IsLast(q, i), q[i].falls, q[i].line \in Directions
                 PROVE h2[q[i].line] >= r[i].age
    BY <1>1, <1>4 DEF Since
  <2>2. q[i].line \in D /\ h[q[i].line] >= q[i].age
    BY <2>1 DEF Chain, Ends, Aged, Since
  <2> QED
    BY <1>1, <1>2, <1>3, <2>1, <2>2
<1>7. Before(r, P, h2)
  <2>1. SUFFICES ASSUME NEW d \in P, ~HasEdge(r, d), NEW i \in 1 .. Len(q)
                 PROVE h2[d] >= r[i].age
    BY <1>1 DEF Before
  <2>2. ~HasEdge(q, d)
    BY <1>1, <2>1 DEF HasEdge
  <2>3. d \in D /\ h[d] >= q[i].age
    BY <2>2 DEF Chain, Quiet, Aged, Before
  <2> QED
    BY <1>1, <1>2, <1>3, <2>3
<1> QED
  BY <1>5, <1>6, <1>7 DEF Aged, r, h2

\* What the steps use of the invariant.
LEMMA PadFacts ==
    ASSUME ButtonsConstants, PadInv
    PROVE  /\ edges \in Seq(Edges) /\ hold \in [Directions -> 0 .. Delay]
           /\ pressed_dirs \in SUBSET Directions /\ left \in 0 .. Delay /\ left \in Nat
           /\ held \in Directions \cup {NoLine} /\ Delay \in Nat /\ Delay > 0
           /\ \A d \in Directions : hold[d] \in 0 .. Delay /\ hold[d] \in Nat /\ d # NoLine
BY EdgeFacts DEF PadInv, ButtonsTypeOK, Edges

\* The thumb makes an edge: the first state of a press or of a release.
LEMMA EdgeInv ==
    ASSUME ButtonsConstants, PadInv, NEW l \in Lines, PushDown(l) \/ LetGo(l)
    PROVE  PadInv'
<1> DEFINE falls == l \notin down
           e == [line |-> l, falls |-> falls, age |-> 0]
<1>1. /\ l \notin moved /\ edges' = Append(edges, e) /\ moved' = moved \cup {l}
      /\ UNCHANGED <<pc, held, left, pressed_dirs, out, keyed>>
  BY DEF PushDown, LetGo, Edge, code
<1>2. e \in Edges /\ e.line = l /\ e.age = 0 /\ e.falls = falls
  BY EdgeFacts DEF Edges
<1>3. /\ down' = (IF falls THEN down \cup {l} ELSE down \ {l})
      /\ hold' = (IF falls /\ l \in Directions THEN [hold EXCEPT ![l] = 0] ELSE hold)
  BY DEF PushDown, LetGo
<1>4. edges' \in Seq(Edges) /\ Len(edges') = Len(edges) + 1 /\ edges'[Len(edges) + 1] = e
      /\ \A i \in 1 .. Len(edges) : edges'[i] = edges[i]
  BY <1>1, <1>2, PadFacts, AppendFacts
<1>5. hold' \in [Directions -> 0 .. Delay] /\ \A d \in Directions : d # l => hold'[d] = hold[d]
  BY <1>3, PadFacts
<1>6. ButtonsTypeOK'
  <2>1. down' \subseteq Lines /\ moved' \subseteq Lines
    BY <1>1, <1>3 DEF PadInv, ButtonsTypeOK
  <2> QED
    BY <1>1, <1>4, <1>5, <2>1 DEF PadInv, ButtonsTypeOK, Edges
<1>7. Chain(edges', pressed_dirs', down')
  <2>1. /\ falls <=> l \in down'
        /\ \A k : k # l => (k \in down' <=> k \in down)
    BY <1>3
  <2>2. Chain(edges, pressed_dirs, down) /\ edges \in Seq(Edges)
    BY PadFacts DEF PadInv
  <2> HIDE DEF e
  <2>3. Chain(Append(edges, e), pressed_dirs, down')
    BY <1>2, <2>1, <2>2, ChainAppend
  <2> QED
    BY <1>1, <2>3
<1>8. Aged(edges', pressed_dirs', hold')
  <2>1. Aged(edges, pressed_dirs, hold)
    BY DEF PadInv
  <2> HIDE DEF e
  <2>2. Aged(Append(edges, e), pressed_dirs, hold')
    BY <1>2, <1>5, <2>1, PadFacts, AgedAppend
  <2> QED
    BY <1>1, <2>2
<1>9. DeadlineFits'
  <2>1. SUFFICES ASSUME held # NoLine, ~HasEdge(edges', held)
                 PROVE hold'[held] + left >= Delay
    BY <1>1 DEF DeadlineFits, NoLine
  <2>2. Len(edges) \in Nat
    BY PadFacts
  <2>3. ~HasEdge(edges, held) /\ held # l
    BY <1>2, <1>4, <2>1, <2>2 DEF HasEdge
  <2> QED
    BY <1>5, <2>1, <2>3, PadFacts DEF PadInv, DeadlineFits
<1>10. ExpiredFits'
  <2>1. SUFFICES ASSUME pc = "expired"
                 PROVE held \in down' \cup moved' /\ hold'[held] = Delay
    BY <1>1 DEF PadInv, ExpiredFits, NoLine
  <2>2. held # NoLine /\ held \in down \cup moved /\ hold[held] = Delay /\ held \in Directions
    BY <2>1, PadFacts DEF PadInv, ExpiredFits
  <2>3. CASE held = l
    BY <1>1, <1>3, <2>2, <2>3
  <2>4. CASE held # l
    BY <1>1, <1>3, <1>5, <2>2, <2>4
  <2> QED
    BY <2>3, <2>4
<1>11. HeldHasOwner'
  BY <1>1 DEF PadInv, HeldHasOwner, NoLine
<1> QED
  BY <1>6, <1>7, <1>8, <1>9, <1>10, <1>11 DEF PadInv

\* Time passes.
LEMMA TickInv ==
    ASSUME ButtonsConstants, PadInv, Tick
    PROVE  PadInv'
<1> DEFINE h2 == [d \in Directions |-> IF d \in down THEN Capped(hold[d] + 1) ELSE hold[d]]
<1>1. /\ pc # "expired" /\ edges' = Older(edges) /\ hold' = h2 /\ moved' = {}
      /\ left' = (IF left = 0 THEN 0 ELSE left - 1)
      /\ UNCHANGED <<pc, held, pressed_dirs, out, down, keyed>>
  BY DEF Tick, Older
<1>2. edges \in Seq(Edges) /\ Chain(edges, pressed_dirs, down) /\ Aged(edges, pressed_dirs, hold)
  BY PadFacts DEF PadInv
<1>3. \A a \in 0 .. Delay : Capped(a + 1) \in 0 .. Delay /\ Capped(a + 1) = (IF a = Delay THEN Delay ELSE a + 1)
  BY EdgeFacts DEF Capped
<1>4. hold' \in [Directions -> 0 .. Delay]
  BY <1>1, <1>3, PadFacts
<1>5. edges' \in Seq(Edges)
  BY <1>1, <1>2, OlderFacts
<1>6. left' \in 0 .. Delay
  BY <1>1, PadFacts
<1>7. ButtonsTypeOK'
  BY <1>1, <1>4, <1>5, <1>6 DEF PadInv, ButtonsTypeOK, Edges
<1>8. Chain(edges', pressed_dirs', down')
  BY <1>1, <1>2, ChainTick
<1>9. Aged(edges', pressed_dirs', hold')
  BY <1>1, <1>2, PadFacts, AgedTick
<1>10. DeadlineFits'
  <2>1. SUFFICES ASSUME held # NoLine, ~HasEdge(Older(edges), held)
                 PROVE h2[held] + left' >= Delay
    BY <1>1 DEF DeadlineFits, NoLine
  <2>2. ~HasEdge(edges, held) /\ held \in Directions
    BY <1>2, <2>1, ChainTick, PadFacts
  <2>3. held \in down
    BY <1>2, <2>1, <2>2 DEF Chain, Quiet, PadInv, HeldHasOwner
  <2>4. hold[held] + left >= Delay
    BY <2>1, <2>2 DEF PadInv, DeadlineFits
  <2>5. h2[held] = (IF hold[held] = Delay THEN Delay ELSE hold[held] + 1)
    BY <1>3, <2>2, <2>3, PadFacts
  <2> QED
    BY <1>1, <2>2, <2>4, <2>5, PadFacts
<1>11. ExpiredFits'
  BY <1>1 DEF ExpiredFits
<1>12. HeldHasOwner'
  BY <1>1 DEF PadInv, HeldHasOwner, NoLine
<1> QED
  BY <1>7, <1>8, <1>9, <1>10, <1>11, <1>12 DEF PadInv

\* poll runs out of time with nothing to read: the direction that repeats has
\* been down for the whole delay.
LEMMA PollExpiresInv ==
    ASSUME ButtonsConstants, PadInv, PollExpires
    PROVE  PadInv'
<1>1. /\ edges = <<>> /\ held # NoLine /\ left = 0 /\ pc' = "expired"
      /\ UNCHANGED <<held, left, pressed_dirs, out, edges, down, moved, hold, keyed>>
  BY DEF PollExpires
<1>2. ~HasEdge(edges, held) /\ held \in Directions
  BY <1>1, PadFacts DEF HasEdge
<1>3. held \in down
  BY <1>1, <1>2 DEF PadInv, Chain, Quiet, HeldHasOwner
<1>4. hold[held] = Delay
  BY <1>1, <1>2, PadFacts DEF PadInv, DeadlineFits
<1>5. ButtonsTypeOK'
  BY <1>1 DEF PadInv, ButtonsTypeOK
<1>6. ExpiredFits'
  BY <1>1, <1>3, <1>4 DEF ExpiredFits, NoLine
<1>7. HeldHasOwner' /\ DeadlineFits'
  BY <1>1 DEF PadInv, HeldHasOwner, DeadlineFits, NoLine
<1> QED
  BY <1>1, <1>5, <1>6, <1>7 DEF PadInv

\* The direction that is held repeats.
LEMMA RepeatHeldInv ==
    ASSUME ButtonsConstants, PadInv, RepeatHeld
    PROVE  PadInv'
<1>1. /\ pc = "expired" /\ pc' = "poll" /\ left' = Interval /\ out' = [event |-> held, repeat |-> TRUE]
      /\ UNCHANGED <<held, pressed_dirs, edges, down, moved, hold, keyed>>
  BY DEF RepeatHeld, RepeatOf
<1>2. held \in Directions /\ hold[held] = Delay
  BY <1>1, PadFacts DEF PadInv, ExpiredFits
<1>3. ButtonsTypeOK'
  <2>1. out' \in [event : Lines \cup {NoLine}, repeat : BOOLEAN] /\ left' \in 0 .. Delay
    BY <1>1, <1>2, EdgeFacts
  <2> QED
    BY <1>1, <2>1 DEF PadInv, ButtonsTypeOK
<1>4. DeadlineFits' /\ ExpiredFits'
  BY <1>1, <1>2, EdgeFacts DEF DeadlineFits, ExpiredFits
<1>5. HeldHasOwner'
  BY <1>1 DEF PadInv, HeldHasOwner, NoLine
<1> QED
  BY <1>1, <1>3, <1>4, <1>5 DEF PadInv

\* What the reading of an edge makes of the code's variables: the directions
\* that it believes to be down, and the one that repeats.
ReadFits(edge) ==
    /\ pressed_dirs' \in SUBSET Directions
    /\ edge.line \in Directions => (edge.line \in pressed_dirs' <=> edge.falls)
    /\ \A d \in Directions : d # edge.line => (d \in pressed_dirs' <=> d \in pressed_dirs)
    /\ held' \in Directions \cup {NoLine} /\ left' \in 0 .. Delay
    /\ held' # NoLine => held' \in pressed_dirs'
    /\ \/ held' = held /\ left' = left /\ held # edge.line
       \/ held' = NoLine
       \/ left' = Delay - edge.age
    /\ out' \in [event : Lines \cup {NoLine}, repeat : BOOLEAN]

\* The first edge in the queue finds its line as the code believes it to be.
LEMMA HeadFits ==
    ASSUME ButtonsConstants, PadInv, edges # <<>>, Head(edges).line \in Directions
    PROVE  Head(edges).falls <=> Head(edges).line \notin pressed_dirs
<1>1. Len(edges) >= 1 /\ Head(edges) = edges[1] /\ Len(edges) \in Nat
  BY PadFacts, TailFacts
<1>2. 1 \in 1 .. Len(edges) /\ IsFirst(edges, 1)
  BY <1>1 DEF IsFirst
<1> QED
  BY <1>1, <1>2 DEF PadInv, Chain, Begins

\* A release passes the repeat on.
LEMMA ReleasedFits ==
    ASSUME ButtonsConstants, PadInv, NEW edge \in Edges, ~edge.falls, Released(edge)
    PROVE  /\ ReadFits(edge)
           /\ pressed_dirs' # {} /\ held' = NoLine => pressed_dirs # {} /\ held = NoLine
<1>1. /\ pressed_dirs' = pressed_dirs \ {edge.line} /\ out' = [event |-> NoLine, repeat |-> FALSE]
      /\ held # NoLine /\ held = edge.line =>
           /\ held' = (IF pressed_dirs' = {} THEN NoLine ELSE Min(pressed_dirs'))
           /\ left' = (IF pressed_dirs' = {} THEN 0 ELSE Delay - edge.age)
      /\ held = NoLine \/ held # edge.line => held' = held /\ left' = left
  BY DEF Released, Nothing, FullDelay
<1>2. edge.age \in 0 .. Delay
  BY EdgeFacts
<1>3. Delay - edge.age \in 0 .. Delay /\ 0 \in 0 .. Delay
  BY <1>2, EdgeFacts
<1>4. pressed_dirs' # {} => Min(pressed_dirs') \in pressed_dirs'
  BY <1>1, MinIsMember, PadFacts
<1>5. held # NoLine => held \in pressed_dirs
  BY DEF PadInv, HeldHasOwner
<1>6. out' \in [event : Lines \cup {NoLine}, repeat : BOOLEAN]
  BY <1>1
<1>7. /\ held' \in Directions \cup {NoLine} /\ left' \in 0 .. Delay
      /\ held' # NoLine => held' \in pressed_dirs'
      /\ \/ held' = held /\ left' = left /\ held # edge.line
         \/ held' = NoLine
         \/ left' = Delay - edge.age
      /\ pressed_dirs' # {} /\ held' = NoLine => pressed_dirs # {} /\ held = NoLine
  <2>1. CASE held # NoLine /\ held = edge.line
    BY <1>1, <1>3, <1>4, <2>1, PadFacts
  <2>2. CASE held = NoLine
    BY <1>1, <2>2, PadFacts
  <2>3. CASE held # NoLine /\ held # edge.line
    BY <1>1, <1>5, <2>3, PadFacts
  <2> QED
    BY <2>1, <2>2, <2>3
<1> QED
  BY <1>1, <1>6, <1>7, PadFacts DEF ReadFits

\* A press takes the repeat, ends it or leaves it alone.
LEMMA PressedFits ==
    ASSUME ButtonsConstants, PadInv, NEW edge \in Edges, edge.falls, Pressed(edge),
           edge.line \in Directions => edge.line \notin pressed_dirs
    PROVE  /\ ReadFits(edge)
           /\ pressed_dirs' # {} /\ held' = NoLine =>
                (pressed_dirs # {} /\ held = NoLine) \/ edge.line \in Keys
<1>1. edge.line \in Lines /\ edge.age \in 0 .. Delay
  BY EdgeFacts
<1>2. Delay - edge.age \in 0 .. Delay /\ 0 \in 0 .. Delay
  BY <1>1, EdgeFacts
<1>3. out' \in [event : Lines \cup {NoLine}, repeat : BOOLEAN]
  BY <1>1 DEF Pressed, PressOf
<1>4. held # NoLine => held \in pressed_dirs
  BY DEF PadInv, HeldHasOwner
<1>5. CASE edge.line \in Directions
  <2>1. /\ pressed_dirs' = pressed_dirs \cup {edge.line}
        /\ held = NoLine => held' = edge.line /\ left' = Delay - edge.age
        /\ held # NoLine => held' = held /\ left' = left
    BY <1>5 DEF Pressed, FullDelay, ButtonsConstants
  <2>2. edge.line # NoLine
    BY <1>5, PadFacts
  <2>3. /\ held' \in Directions \cup {NoLine} /\ left' \in 0 .. Delay
        /\ held' # NoLine /\ held' \in pressed_dirs'
        /\ (held' = held /\ left' = left /\ held # edge.line) \/ left' = Delay - edge.age
    BY <1>2, <1>4, <1>5, <2>1, <2>2, PadFacts
  <2> QED
    BY <1>3, <1>5, <2>1, <2>3, PadFacts DEF ReadFits
<1>6. CASE edge.line \in Keys
  <2>1. pressed_dirs' = pressed_dirs /\ held' = NoLine /\ left' = 0 /\ edge.line \notin Directions
    BY <1>6 DEF Pressed, ButtonsConstants
  <2> QED
    BY <1>2, <1>3, <1>6, <2>1, PadFacts DEF ReadFits
<1>7. CASE edge.line = Select
  <2>1. pressed_dirs' = pressed_dirs /\ held' = held /\ left' = left /\ edge.line \notin Directions
    BY <1>7 DEF Pressed, ButtonsConstants
  <2>2. held # edge.line
    BY <1>7, <2>1, PadFacts DEF ButtonsConstants
  <2> QED
    BY <1>3, <1>4, <2>1, <2>2, PadFacts DEF ReadFits
<1> QED
  BY <1>1, <1>5, <1>6, <1>7 DEF Lines

\* An edge is read.
LEMMA ReadEdgeInv ==
    ASSUME ButtonsConstants, PadInv, ReadEdge
    PROVE  PadInv'
<1> DEFINE edge == Head(edges)
<1>1. /\ pc = "poll" /\ edges # <<>> /\ edges' = Tail(edges) /\ UNCHANGED <<pc, down, moved, hold>>
      /\ keyed' = ((keyed \/ (edge.falls /\ edge.line \in Keys)) /\ pressed_dirs' # {})
  BY DEF ReadEdge
<1>2. edges' \in Seq(Edges) /\ edge \in Edges
  BY <1>1, PadFacts, TailFacts
<1>3. edge.falls => Pressed(edge)
  BY DEF ReadEdge
<1>4. ~edge.falls => Released(edge)
  BY DEF ReadEdge
<1>5. edge.line \in Directions => (edge.falls <=> edge.line \notin pressed_dirs)
  BY <1>1, HeadFits
<1>6. /\ ReadFits(edge)
      /\ pressed_dirs' # {} /\ held' = NoLine =>
           (pressed_dirs # {} /\ held = NoLine) \/ (edge.falls /\ edge.line \in Keys)
  <2> HIDE DEF edge
  <2>1. CASE edge.falls
    BY <1>2, <1>3, <1>5, <2>1, PressedFits
  <2>2. CASE ~edge.falls
    BY <1>2, <1>4, <2>2, ReleasedFits
  <2> QED
    BY <2>1, <2>2
<1>7. Chain(edges', pressed_dirs', down')
  <2>1. Chain(edges, pressed_dirs, down) /\ edges \in Seq(Edges)
    BY PadFacts DEF PadInv
  <2>2. Chain(Tail(edges), pressed_dirs', down)
    BY <1>1, <1>6, <2>1, ChainTail DEF ReadFits
  <2> QED
    BY <1>1, <2>2
<1>8. /\ Aged(edges', pressed_dirs', hold')
      /\ \A d \in pressed_dirs' : ~HasEdge(edges', d) => hold[d] >= edge.age
  <2>1. Aged(edges, pressed_dirs, hold) /\ edges \in Seq(Edges) /\ hold \in [Directions -> 0 .. Delay]
    BY PadFacts DEF PadInv
  <2>2. /\ pressed_dirs' \in SUBSET Directions
        /\ Head(edges).line \in pressed_dirs' => Head(edges).falls
        /\ \A d \in pressed_dirs' : d # Head(edges).line => d \in pressed_dirs
    BY <1>6 DEF ReadFits
  <2>3. /\ Aged(Tail(edges), pressed_dirs', hold)
        /\ \A d \in pressed_dirs' : ~HasEdge(Tail(edges), d) => hold[d] >= Head(edges).age
    BY <1>1, <2>1, <2>2, AgedTail
  <2> QED
    BY <1>1, <2>3
<1>9. DeadlineFits'
  <2>1. SUFFICES ASSUME held' # NoLine, ~HasEdge(edges', held')
                 PROVE hold[held'] + left' >= Delay
    BY <1>1 DEF DeadlineFits, NoLine
  <2>2. held' \in pressed_dirs' /\ held' \in Directions /\ left' \in 0 .. Delay
    BY <1>6, <2>1 DEF ReadFits
  <2>3. CASE held' = held /\ left' = left /\ held # edge.line
    <3>1. ~HasEdge(edges, held)
      <4>1. /\ Len(edges) \in Nat /\ Len(edges') = Len(edges) - 1 /\ edge = edges[1]
            /\ \A i \in 1 .. Len(edges') : edges'[i] = edges[i + 1]
        BY <1>1, PadFacts, TailFacts
      <4>2. SUFFICES ASSUME NEW k \in 1 .. Len(edges), edges[k].line = held
                     PROVE FALSE
        BY DEF HasEdge
      <4>3. k # 1
        BY <2>3, <4>1, <4>2
      <4>4. k - 1 \in 1 .. Len(edges') /\ (k - 1) + 1 = k
        BY <4>1, <4>3
      <4> QED
        BY <2>1, <2>3, <4>1, <4>2, <4>4 DEF HasEdge
    <3> QED
      BY <2>1, <2>3, <3>1 DEF PadInv, DeadlineFits
  <2>4. CASE left' = Delay - edge.age
    <3>1. hold[held'] >= edge.age /\ hold[held'] \in Nat /\ edge.age \in Nat /\ Delay \in Nat
      BY <1>2, <1>8, <2>1, <2>2, PadFacts, EdgeFacts
    <3> QED
      BY <2>4, <3>1
  <2> QED
    BY <1>6, <2>1, <2>3, <2>4 DEF ReadFits
<1>10. HeldHasOwner'
  <2>1. held' # NoLine => held' \in pressed_dirs'
    BY <1>6 DEF ReadFits
  <2>2. pressed_dirs' # {} /\ held' = NoLine => keyed'
    BY <1>1, <1>6 DEF PadInv, HeldHasOwner
  <2> QED
    BY <2>1, <2>2 DEF HeldHasOwner, NoLine
<1>11. ButtonsTypeOK'
  <2>1. keyed' \in BOOLEAN
    BY <1>1
  <2> QED
    BY <1>1, <1>2, <1>6, <2>1 DEF PadInv, ButtonsTypeOK, ReadFits, Edges, NoLine
<1>12. ExpiredFits'
  BY <1>1 DEF ExpiredFits
<1> QED
  BY <1>7, <1>8, <1>9, <1>10, <1>11, <1>12 DEF PadInv

\* The buttons start at rest.
LEMMA PadInvInit ==
    ASSUME ButtonsConstants, ButtonsInit
    PROVE  PadInv
<1>1. ButtonsTypeOK
  <2>1. out \in [event : Lines \cup {NoLine}, repeat : BOOLEAN] /\ edges \in Seq(Edges)
    BY DEF ButtonsInit, Nothing
  <2>2. left \in 0 .. Delay /\ hold \in [Directions -> 0 .. Delay] /\ held = NoLine
    BY EdgeFacts DEF ButtonsInit
  <2> QED
    BY <2>1, <2>2 DEF ButtonsInit, ButtonsTypeOK, Edges
<1>2. Chain(edges, pressed_dirs, down) /\ Aged(edges, pressed_dirs, hold)
  BY DEF ButtonsInit, Chain, Alternate, Begins, Ends, Quiet, Aged, Order, Since, Before
<1>3. DeadlineFits /\ ExpiredFits /\ HeldHasOwner
  BY DEF ButtonsInit, DeadlineFits, ExpiredFits, HeldHasOwner
<1> QED
  BY <1>1, <1>2, <1>3 DEF PadInv

\* Every step keeps the invariant.
LEMMA PadStep ==
    ASSUME ButtonsConstants, PadInv, [ButtonsNext]_buttonVars
    PROVE  PadInv'
<1>1. CASE \E l \in Lines : PushDown(l) \/ LetGo(l)
  BY <1>1, EdgeInv
<1>2. CASE Tick
  BY <1>2, TickInv
<1>3. CASE PollExpires
  BY <1>3, PollExpiresInv
<1>4. CASE RepeatHeld
  BY <1>4, RepeatHeldInv
<1>5. CASE ReadEdge
  BY <1>5, ReadEdgeInv
<1>6. CASE Fails \/ UNCHANGED buttonVars
  <2>1. /\ pc' = "stopped" \/ pc' = pc
        /\ UNCHANGED <<held, left, pressed_dirs, out, edges, down, moved, hold, keyed>>
    BY <1>6 DEF Fails, buttonVars, code
  <2>2. ButtonsTypeOK'
    BY <2>1 DEF PadInv, ButtonsTypeOK
  <2>3. HeldHasOwner' /\ DeadlineFits' /\ ExpiredFits'
    BY <2>1 DEF PadInv, HeldHasOwner, DeadlineFits, ExpiredFits, NoLine
  <2> QED
    BY <2>1, <2>2, <2>3 DEF PadInv
<1> QED
  BY <1>1, <1>2, <1>3, <1>4, <1>5, <1>6 DEF ButtonsNext

\* The invariant of the buttons holds in every state of every behaviour.
LEMMA PadInvariance == ButtonsSpec => []PadInv
<1>1. ButtonsInit => PadInv
  BY ButtonsAssumption, PadInvInit
<1>2. PadInv /\ [ButtonsNext]_buttonVars => PadInv'
  BY ButtonsAssumption, PadStep
<1> QED
  BY <1>1, <1>2, PTL DEF ButtonsSpec

\* Type correctness of buttons_wait: the time left until a repeat never
\* underflows, though it is measured from edges that waited to be read.
THEOREM ButtonsTypeCorrect == ButtonsSpec => []ButtonsTypeOK
<1>1. PadInv => ButtonsTypeOK
  BY DEF PadInv
<1> QED
  BY <1>1, PadInvariance, PTL

\* However late the loop reads the edges and whatever waits in the queue, a
\* repeat comes only of a direction that was held for the whole delay: a tap
\* never moves a selection twice.
THEOREM RepeatsOnlyWhatIsHeld == ButtonsSpec => RepeatsWhatIsHeld
<1>1. PadInv /\ [ButtonsNext]_buttonVars =>
        [RepeatHeld => held \in (down \cup moved) /\ hold[held] = Delay]_buttonVars
  BY DEF PadInv, ExpiredFits, RepeatHeld
<1> QED
  BY <1>1, PadInvariance, PTL DEF ButtonsSpec, RepeatsWhatIsHeld

\* The direction that repeats is one the code believes to be down, and while
\* one is down none is without the repeat but after a key.
THEOREM RepeatHasOwner == ButtonsSpec => []HeldHasOwner
<1>1. PadInv => HeldHasOwner
  BY DEF PadInv
<1> QED
  BY <1>1, PadInvariance, PTL

============================================================================
