-------------------------- MODULE PinExchangeProofs --------------------------
(***************************************************************************)
(* Proofs about unlocking over QR codes: whatever the interleaving of the  *)
(* main task, its clients, the phone and the server, and wherever the      *)
(* power is cut or a commit fails, no request repeats a replay counter,    *)
(* the key in hand answers the request just made, and the two tasks never  *)
(* compete for the screen; for any number of clients, requests and cuts.   *)
(***************************************************************************)
EXTENDS PinExchange, FiniteSetTheorems, FunctionTheorems, TLAPS

----------------------------------------------------------------------------
(* The inductive invariant: what the counters on the card are ahead of,    *)
(* and where the one message of the exchange is.                           *)

\* No reset was cut off, or failed, after request i.
Fresh(i) == \A k \in cuts.resets : k < i

\* A counter is above those sent with a unit key.
Above(unit, counter) ==
    \A i \in 1 .. Len(sent) : Fresh(i) /\ sent[i].unit = unit => sent[i].counter < counter

\* A record's counter is above those sent with its unit key.
Ahead(r) == Above(r.unit, r.counter)

\* At the next request even the counter before it is, and no other record may
\* be found by a start.
Reserved ==
    /\ card = {mem} /\ mem.counter > 0
    /\ Above(mem.unit, mem.counter - 1)

CounterInv ==
    /\ CountersRise
    /\ \A r \in card : Ahead(r)
    /\ Ahead(mem)
    /\ mpc \in {"unit", "send"} => Reserved
    /\ mpc = "send" => mem.unit # 0
    /\ mpc \in {"counter", "unit", "send"} => Len(sent) < MaxRequests

\* The request the main task holds the keys of is the last one made; what the
\* clients post are answers of the server.
RequestInv ==
    /\ mpc \in {"await", "key"} => request = Len(sent) /\ request # 0
    /\ mpc = "key" => request \in replies
    /\ \A i \in 1 .. Len(internal_out) : internal_out[i].kind = "http" => internal_out[i].request # 0
    /\ \A c \in Clients : client[c] \in {"show", "scan"} => item[c] # 0
    /\ \A i \in 1 .. Len(shared_in) : shared_in[i].reply \in replies \cup {0}

Idle(c) == client[c] \notin {"drain", "post", "show", "scan", "cancel"}

AllIdle        == \A c \in Clients : Idle(c)
OnlyOne(steps) == \E c \in Clients : client[c] \in steps /\ \A d \in Clients \ {c} : Idle(d)
SomeWaits      == \E c \in Clients : client[c] = "wait"
Cancels(n)     == \A i \in 1 .. Len(shared_in) : i <= n => shared_in[i].kind = "cancel"

\* Nothing is going on but the end of an exchange.
Resting ==
    /\ mpc \in {"home", "failed"}
    /\ Cancels(Len(shared_in))
    /\ \A c \in Clients : client[c] \notin {"drain", "post", "show", "scan"}
    /\ internal_out # <<>> => /\ Len(internal_out) = 1 /\ internal_out[1].kind # "http"
                              /\ SomeWaits /\ AllIdle

\* A client has started and not posted its request.
Starting ==
    /\ mpc = "home" /\ waiting
    /\ OnlyOne({"drain", "post"})
    /\ Cancels(Len(shared_in)) /\ internal_out = <<>>

\* Its request is in the queue, behind what earlier clients left.
Posted ==
    /\ mpc = "home" /\ waiting
    /\ AllIdle /\ SomeWaits
    /\ shared_in # <<>> /\ shared_in[Len(shared_in)].kind = "auth" /\ Cancels(Len(shared_in) - 1)
    /\ internal_out = <<>>

\* The main task works on it.
WorkSteps == {"entry", "counter", "unit", "send", "key", "retry"}

Working ==
    /\ mpc \in WorkSteps
    /\ AllIdle /\ SomeWaits /\ shared_in = <<>> /\ internal_out = <<>>

\* It waits for the server's answer: the request is on its way to a client, on
\* the client's screen, answered, or given up.
Requested ==
    /\ mpc = "await" /\ AllIdle /\ SomeWaits /\ shared_in = <<>>
    /\ Len(internal_out) = 1 /\ internal_out[1].kind = "http"

Showing ==
    /\ mpc = "await" /\ shared_in = <<>> /\ internal_out = <<>>
    /\ OnlyOne({"show", "scan", "cancel"})

Answered ==
    /\ mpc = "await" /\ AllIdle /\ internal_out = <<>>
    /\ Len(shared_in) = 1 /\ shared_in[1].kind \in {"pin", "cancel"}
    /\ shared_in[1].kind = "pin" => SomeWaits

TurnInv == Resting \/ Starting \/ Posted \/ Working \/ Requested \/ Showing \/ Answered

IInv == TypeOK /\ CounterInv /\ RequestInv /\ TurnInv /\ OwnScreen

\* The parts of the type invariant.
InMessages  == [kind : {"auth", "pin", "cancel"}, reply : {0} \cup Requests]
OutMessages == [kind : {"http", "result", "error"}, request : {0} \cup Requests]
Sents       == [unit : Requests, counter : Nat]
MainSteps   == {"home", "entry", "counter", "unit", "send", "await", "key", "retry", "failed"}
TaskSteps   == {"none", "drain", "post", "wait", "show", "scan", "cancel", "done"}

StoredType == mem \in Records /\ card \in (SUBSET Records) \ {{}} /\ before \in Records
BlobType   == has_encrypted_blob \in BOOLEAN
FlagType   == change \in BOOLEAN /\ waiting \in BOOLEAN
MainType   ==
    /\ wallet \in {"none", "new", "open"} /\ mpc \in MainSteps /\ stage \in {"get", "set"}
    /\ request \in {0} \cup Requests /\ screen \in {0} \cup Clients
InType     == shared_in \in Seq(InMessages)
OutType    == internal_out \in Seq(OutMessages)
TaskType   == client \in [Clients -> TaskSteps] /\ item \in [Clients -> {0} \cup Requests]
SentType   == sent \in Seq(Sents) /\ Len(sent) <= MaxRequests
CutsType   == cuts \in [n : 0 .. MaxCuts, resets : SUBSET (0 .. Len(sent))]
PhoneType  == taken \subseteq Requests /\ replies \subseteq taken

Typed == StoredType /\ BlobType /\ FlagType /\ MainType /\ InType /\ OutType /\ TaskType /\ SentType
         /\ CutsType /\ PhoneType

----------------------------------------------------------------------------
(* Sequences, messages and the types.                                      *)

\* The bounds are naturals.
LEMMA Bounds == MaxClients \in Nat /\ MaxRequests \in Nat /\ MaxCuts \in Nat
BY BoundsAssumption

\* The empty sequence.
LEMMA EmptyFacts ==
    /\ Len(<<>>) = 0
    /\ \A S : <<>> \in Seq(S)
    /\ \A S : \A s \in Seq(S) : Len(s) \in Nat /\ (s = <<>> <=> Len(s) = 0)
<1>1. ASSUME NEW S, NEW s \in Seq(S) PROVE Len(s) \in Nat /\ (s = <<>> <=> Len(s) = 0)
  OBVIOUS
<1> QED
  BY <1>1

\* Taking an element off a sequence.
LEMMA TailFacts ==
    ASSUME NEW S, NEW s \in Seq(S), s # <<>>
    PROVE  /\ Tail(s) \in Seq(S) /\ Len(s) \in Nat /\ Len(s) >= 1 /\ Len(Tail(s)) = Len(s) - 1
           /\ \A i \in 1 .. Len(Tail(s)) : Tail(s)[i] = s[i + 1] /\ i + 1 \in 1 .. Len(s)
           /\ Head(s) \in S /\ Head(s) = s[1] /\ 1 \in 1 .. Len(s)
           /\ Len(s) = 1 => Tail(s) = <<>>
<1>1. /\ Tail(s) \in Seq(S) /\ Len(s) \in Nat /\ Len(s) >= 1 /\ Len(Tail(s)) = Len(s) - 1
      /\ \A i \in 1 .. Len(Tail(s)) : Tail(s)[i] = s[i + 1] /\ i + 1 \in 1 .. Len(s)
      /\ Head(s) \in S /\ Head(s) = s[1] /\ 1 \in 1 .. Len(s)
  OBVIOUS
<1> QED
  BY <1>1, EmptyFacts

\* Adding one.
LEMMA AppendFacts ==
    ASSUME NEW S, NEW s \in Seq(S), NEW e \in S
    PROVE  /\ Append(s, e) \in Seq(S) /\ Len(s) \in Nat /\ Len(Append(s, e)) = Len(s) + 1
           /\ \A i \in 1 .. Len(s) : Append(s, e)[i] = s[i]
           /\ Append(s, e)[Len(s) + 1] = e /\ Append(s, e) # <<>>
OBVIOUS

\* The type invariant is its parts.
LEMMA TypeParts == TypeOK <=> Typed
BY DEF TypeOK, Typed, StoredType, BlobType, FlagType, MainType, InType, OutType, TaskType, SentType,
   CutsType, PhoneType, InMessages, OutMessages, Sents, MainSteps, TaskSteps

\* The same of the state after a step.
LEMMA TypePartsNext == TypeOK' <=> Typed'
BY TypeParts, PTL

----------------------------------------------------------------------------
(* The counters.                                                           *)

\* A unit key that no request was made with exists, and NewUnit is one.
LEMMA NewUnitIsNew ==
    ASSUME SentType
    PROVE  /\ NewUnit \in 1 .. Len(sent) + 1
           /\ \A i \in 1 .. Len(sent) : sent[i].unit # NewUnit
<1> DEFINE n == Len(sent)
           f == [i \in 1 .. n |-> sent[i].unit]
           U == {f[i] : i \in 1 .. n}
<1>1. n \in Nat /\ DOMAIN sent = 1 .. n
  BY DEF SentType
<1>2. \A k \in Nat : IsFiniteSet(1 .. k) /\ Cardinality(1 .. k) = k
  <2> SUFFICES ASSUME NEW k \in Nat PROVE IsFiniteSet(1 .. k) /\ Cardinality(1 .. k) = k
    OBVIOUS
  <2>1. IsFiniteSet(1 .. k) /\ Cardinality(1 .. k) = IF 1 > k THEN 0 ELSE k - 1 + 1
    BY FS_Interval
  <2> QED
    BY <2>1
<1> HIDE DEF n
<1>3. IsFiniteSet(1 .. n + 1) /\ Cardinality(1 .. n + 1) = n + 1 /\ n + 1 \in Nat
  BY <1>1, <1>2
<1>4. f \in Surjection(1 .. n, U)
  BY DEF Surjection
<1>5. IsFiniteSet(U) /\ Cardinality(U) <= n
  BY <1>1, <1>2, <1>4, FS_Surjection
<1>6. \E u \in 1 .. n + 1 : u \notin U
  <2> SUFFICES ASSUME 1 .. n + 1 \in SUBSET U PROVE FALSE
    OBVIOUS
  <2> HIDE DEF U
  <2>1. Cardinality(1 .. n + 1) <= Cardinality(U)
    BY <1>5, FS_Subset
  <2>2. Cardinality(U) \in Nat
    BY <1>5, FS_CardinalityType
  <2> QED
    BY <1>1, <1>3, <1>5, <2>1, <2>2
<1>7. U = {sent[i].unit : i \in DOMAIN sent}
  BY <1>1
<1>8. NewUnit \in 1 .. n + 1 /\ NewUnit \notin U
  BY <1>6, <1>7 DEF NewUnit, n
<1> QED
  BY <1>8 DEF n

\* The requests made, their keys and counters.
LEMMA SentFacts ==
    ASSUME Typed
    PROVE  /\ Len(sent) \in Nat /\ DOMAIN sent = 1 .. Len(sent)
           /\ \A i \in 1 .. Len(sent) : sent[i].unit \in Requests /\ sent[i].counter \in Nat
           /\ \A k \in cuts.resets : k \in 0 .. Len(sent)
<1>1. sent \in Seq(Sents)
  BY DEF Typed, SentType
<1>2. \A i \in 1 .. Len(sent) : sent[i] \in Sents
  BY <1>1
<1> QED
  BY <1>1, <1>2 DEF Typed, CutsType, Sents

\* A counter that is above those sent stays so when it rises.
LEMMA AboveRises ==
    ASSUME Typed, NEW u, NEW m \in Nat, NEW n \in Nat, m <= n, Above(u, m)
    PROVE  Above(u, n)
BY SentFacts DEF Above

\* A step that leaves the settings and the requests alone.
LEMMA CounterStays ==
    ASSUME CounterInv, UNCHANGED <<mem, card, sent, cuts>>,
           mpc' \in {"unit", "send"} => mpc' = mpc,
           mpc' = "counter" => Len(sent) < MaxRequests
    PROVE  CounterInv'
BY DEF CounterInv, CountersRise, Ahead, Above, Fresh, Reserved

\* A commit, whatever its outcome, of a record that is ahead.
LEMMA CommitStays ==
    ASSUME StoredType, CounterInv, NEW r \in Records, NEW ok \in BOOLEAN, Commit(r, ok), Ahead(r),
           UNCHANGED <<sent, cuts>>, mpc' \notin {"counter", "unit", "send"}
    PROVE  CounterInv' /\ StoredType'
<1>1. mem' = r /\ card' \subseteq card \cup {r} /\ card' # {} /\ before' \in card \cup {before}
  BY DEF Commit
<1>2. StoredType'
  BY <1>1 DEF StoredType
<1>3. CountersRise'
  BY DEF CounterInv, CountersRise
<1>4. \A x : Ahead(x) => Ahead(x)'
  BY DEF Ahead, Above, Fresh
<1>5. (\A x \in card : Ahead(x))'
  BY <1>1, <1>4 DEF CounterInv
<1>6. Ahead(mem)'
  BY <1>1, <1>4
<1> QED
  BY <1>2, <1>3, <1>5, <1>6 DEF CounterInv

\* A restart with one of some records.
LEMMA RestartStays ==
    ASSUME NEW r \in Records, mem' = r, card' = {r}, before' \in Records, CountersRise', Ahead(r)',
           mpc' = "home"
    PROVE  CounterInv' /\ StoredType'
<1>1. Ahead(mem)'
  BY DEF Ahead
<1>2. (\A x \in card : Ahead(x))'
  BY DEF Ahead
<1>3. StoredType'
  BY DEF StoredType
<1> QED
  BY <1>1, <1>2, <1>3 DEF CounterInv

----------------------------------------------------------------------------
(* The turns of an exchange.                                               *)

\* The main task's step tells whose turn it is.
LEMMA Turns ==
    ASSUME IInv
    PROVE  /\ Typed /\ CounterInv /\ RequestInv /\ OwnScreen
           /\ mpc \in WorkSteps => Working
           /\ mpc = "await" => Requested \/ Showing \/ Answered
           /\ mpc = "home" => Resting \/ Starting \/ Posted
           /\ mpc = "failed" => Resting
BY TypeParts DEF IInv, TurnInv, Resting, Starting, Posted, Working, Requested, Showing, Answered,
   WorkSteps

\* So does a client's.
LEMMA ClientTurns ==
    ASSUME IInv, NEW c \in Clients
    PROVE  /\ client[c] \in {"drain", "post"} => Starting /\ \A d \in Clients \ {c} : Idle(d)
           /\ client[c] \in {"show", "scan"} => Showing /\ \A d \in Clients \ {c} : Idle(d)
           /\ client[c] = "cancel" =>
                \/ Resting /\ internal_out = <<>>
                \/ Showing /\ \A d \in Clients \ {c} : Idle(d)
<1>1. Idle(c) <=> client[c] \notin {"drain", "post", "show", "scan", "cancel"}
  BY DEF Idle
<1>2. ASSUME NEW steps, OnlyOne(steps), ~Idle(c)
      PROVE  client[c] \in steps /\ \A d \in Clients \ {c} : Idle(d)
  BY <1>2 DEF OnlyOne
<1>3. AllIdle => Idle(c)
  BY DEF AllIdle
<1>4. Posted \/ Working \/ Requested \/ Answered => Idle(c)
  BY <1>3 DEF Posted, Working, Requested, Answered
<1>5. Resting => client[c] \notin {"drain", "post", "show", "scan"}
  BY DEF Resting
<1>6. Resting /\ ~Idle(c) => internal_out = <<>>
  BY <1>3 DEF Resting
<1>7. Starting /\ ~Idle(c) => client[c] \in {"drain", "post"} /\ \A d \in Clients \ {c} : Idle(d)
  BY <1>2 DEF Starting
<1>8. Showing /\ ~Idle(c) => /\ client[c] \in {"show", "scan", "cancel"}
                             /\ \A d \in Clients \ {c} : Idle(d)
  BY <1>2 DEF Showing
<1> QED
  BY <1>1, <1>4, <1>5, <1>6, <1>7, <1>8 DEF IInv, TurnInv

\* What a step leaves alone keeps its type.
LEMMA Same ==
    ASSUME Typed
    PROVE  /\ UNCHANGED stored => StoredType' /\ BlobType'
           /\ UNCHANGED <<change, waiting>> => FlagType'
           /\ UNCHANGED shared_in => InType'
           /\ UNCHANGED internal_out => OutType'
           /\ UNCHANGED tasks => TaskType'
           /\ UNCHANGED sent => SentType'
           /\ UNCHANGED <<sent, cuts>> => CutsType'
           /\ UNCHANGED outside => PhoneType'
BY DEF Typed, StoredType, BlobType, FlagType, InType, OutType, TaskType, SentType, CutsType,
   PhoneType, stored, tasks, outside

\* A flag that is set, cleared or left alone is a flag.
LEMMA FlagsNext ==
    ASSUME FlagType, change' = change \/ change' = TRUE \/ change' = FALSE,
           waiting' = waiting \/ waiting' = TRUE \/ waiting' = FALSE
    PROVE  FlagType'
BY Zenon DEF FlagType

\* A reply into the empty queue.
LEMMA ReplyFacts ==
    ASSUME OutType, NEW kind \in {"http", "result", "error"}, NEW n \in {0} \cup Requests,
           Reply(Out(kind, n)), internal_out = <<>>
    PROVE  /\ OutType' /\ internal_out' # <<>> /\ Len(internal_out') = 1
           /\ internal_out'[1].kind = kind /\ internal_out'[1].request = n
<1>1. Out(kind, n) \in OutMessages /\ Out(kind, n).kind = kind /\ Out(kind, n).request = n
  BY DEF Out, OutMessages
<1>2. internal_out \in Seq(OutMessages) /\ Len(internal_out) = 0
  BY EmptyFacts DEF OutType
<1>3. internal_out' = Append(internal_out, Out(kind, n))
  BY DEF Reply
<1> HIDE DEF Out
<1>4. /\ Append(internal_out, Out(kind, n)) \in Seq(OutMessages)
      /\ Len(Append(internal_out, Out(kind, n))) = Len(internal_out) + 1
      /\ Append(internal_out, Out(kind, n))[Len(internal_out) + 1] = Out(kind, n)
      /\ Append(internal_out, Out(kind, n)) # <<>>
  BY <1>1, <1>2, AppendFacts
<1> QED
  BY <1>1, <1>2, <1>3, <1>4 DEF OutType

\* The main task takes a message.
LEMMA ReceivedFacts ==
    ASSUME InType, shared_in # <<>>, shared_in' = Tail(shared_in)
    PROVE  /\ InType' /\ Len(shared_in) \in Nat /\ Len(shared_in) >= 1 /\ 1 \in 1 .. Len(shared_in)
           /\ Len(shared_in') = Len(shared_in) - 1
           /\ \A i \in 1 .. Len(shared_in') :
                 shared_in'[i] = shared_in[i + 1] /\ i + 1 \in 1 .. Len(shared_in)
           /\ Head(shared_in) = shared_in[1] /\ shared_in[1] \in InMessages
           /\ Len(shared_in) = 1 => shared_in' = <<>>
BY TailFacts DEF InType

\* A client posts one.
LEMMA PostFacts ==
    ASSUME InType, NEW kind \in {"auth", "pin", "cancel"}, NEW n \in {0} \cup Requests,
           Post(In(kind, n))
    PROVE  /\ InType' /\ Len(shared_in) \in Nat /\ Len(shared_in') = Len(shared_in) + 1
           /\ \A i \in 1 .. Len(shared_in) : shared_in'[i] = shared_in[i]
           /\ shared_in'[Len(shared_in) + 1].kind = kind
           /\ shared_in'[Len(shared_in) + 1].reply = n /\ shared_in' # <<>>
<1>1. In(kind, n) \in InMessages /\ In(kind, n).kind = kind /\ In(kind, n).reply = n
  BY DEF In, InMessages
<1>2. shared_in \in Seq(InMessages)
  BY DEF InType
<1>3. shared_in' = Append(shared_in, In(kind, n))
  BY DEF Post
<1>4. /\ Append(shared_in, In(kind, n)) \in Seq(InMessages) /\ Len(shared_in) \in Nat
      /\ Len(Append(shared_in, In(kind, n))) = Len(shared_in) + 1
      /\ \A i \in 1 .. Len(shared_in) : Append(shared_in, In(kind, n))[i] = shared_in[i]
      /\ Append(shared_in, In(kind, n))[Len(shared_in) + 1] = In(kind, n)
      /\ Append(shared_in, In(kind, n)) # <<>>
  BY <1>1, <1>2, AppendFacts
<1> QED
  BY <1>1, <1>3, <1>4 DEF InType

\* The main task's next step of an exchange, with the screen its own if it is
\* one of the user's.
LEMMA WorkInv ==
    ASSUME IInv, AllIdle, SomeWaits, internal_out' = <<>>, shared_in' = <<>>, UNCHANGED tasks,
           mpc' \in WorkSteps, mpc' \in {"entry", "retry"} => screen' = 0,
           mpc' = "key" => request' = Len(sent') /\ request' # 0 /\ request' \in replies'
    PROVE  RequestInv' /\ TurnInv' /\ OwnScreen'
<1>1. AllIdle' /\ SomeWaits'
  BY DEF AllIdle, SomeWaits, Idle, tasks
<1>2. TurnInv'
  BY <1>1 DEF TurnInv, Working
<1>3. \A c \in Clients : client'[c] \notin {"show", "scan"}
  BY <1>1 DEF AllIdle, Idle
<1>4. RequestInv'
  BY <1>3, EmptyFacts DEF RequestInv, WorkSteps
<1> QED
  BY <1>2, <1>3, <1>4 DEF OwnScreen, WorkSteps

\* The exchange ends without an answer.
LEMMA QuietInv ==
    ASSUME IInv, AllIdle, internal_out' = <<>>, shared_in' = <<>>, UNCHANGED tasks,
           mpc' \in {"home", "failed"}, screen' = 0
    PROVE  RequestInv' /\ TurnInv' /\ OwnScreen'
<1>1. AllIdle'
  BY DEF AllIdle, Idle, tasks
<1>2. TurnInv'
  BY <1>1, EmptyFacts DEF TurnInv, Resting, AllIdle, Idle, Cancels
<1>3. \A c \in Clients : client'[c] \notin {"show", "scan"}
  BY <1>1 DEF AllIdle, Idle
<1>4. RequestInv'
  BY <1>3, EmptyFacts DEF RequestInv
<1> QED
  BY <1>2, <1>3, <1>4 DEF OwnScreen

\* The exchange ends with one, for the client that waits.
LEMMA AnswerInv ==
    ASSUME IInv, AllIdle, SomeWaits, internal_out = <<>>, shared_in' = <<>>, UNCHANGED tasks,
           NEW kind \in {"result", "error"}, Reply(Out(kind, 0)),
           mpc' \in {"home", "failed"}, screen' = 0
    PROVE  OutType' /\ RequestInv' /\ TurnInv' /\ OwnScreen'
<1>1. AllIdle' /\ SomeWaits'
  BY DEF AllIdle, SomeWaits, Idle, tasks
<1>2. /\ OutType' /\ internal_out' # <<>> /\ Len(internal_out') = 1
      /\ internal_out'[1].kind = kind
  BY Turns, ReplyFacts DEF Typed
<1>3. TurnInv'
  BY <1>1, <1>2, EmptyFacts DEF TurnInv, Resting, AllIdle, Idle, Cancels
<1>4. \A c \in Clients : client'[c] \notin {"show", "scan"}
  BY <1>1 DEF AllIdle, Idle
<1>5. RequestInv'
  BY <1>2, <1>4, EmptyFacts DEF RequestInv
<1> QED
  BY <1>2, <1>3, <1>4, <1>5 DEF OwnScreen

----------------------------------------------------------------------------
(* The power, the factory reset and the home screen.                       *)

\* A restart: both tasks begin anew, with nothing in the queues.
LEMMA VolatileInv ==
    ASSUME IInv, Volatile, mem' \in Records, UNCHANGED <<sent, outside>>
    PROVE  /\ BlobType' /\ FlagType' /\ MainType' /\ InType' /\ OutType' /\ TaskType' /\ SentType'
           /\ PhoneType' /\ RequestInv' /\ TurnInv' /\ OwnScreen' /\ mpc' = "home"
<1>1. Typed /\ FlagType
  BY Turns DEF Typed
<1>2. BlobType' /\ FlagType'
  <2>1. change' = FALSE /\ waiting' = FALSE /\ has_encrypted_blob' = mem'.pin
    BY DEF Volatile
  <2>2. mem'.pin \in BOOLEAN
    BY DEF Records
  <2>3. BlobType'
    BY <2>1, <2>2, Zenon DEF BlobType
  <2> QED
    BY <1>1, <2>1, <2>3, FlagsNext
<1>3. MainType'
  BY DEF MainType, Volatile, MainSteps
<1>4. shared_in' = <<>> /\ internal_out' = <<>> /\ mpc' = "home" /\ screen' = 0
  BY DEF Volatile
<1>5. InType' /\ OutType'
  BY <1>4, EmptyFacts DEF InType, OutType
<1>6. TaskType' /\ \A c \in Clients : client'[c] \in {"none", "done"}
  BY DEF Volatile, TaskType, TaskSteps
<1>7. SentType' /\ PhoneType'
  BY <1>1, Same
<1>8. RequestInv' /\ OwnScreen'
  BY <1>4, <1>6, EmptyFacts DEF RequestInv, OwnScreen
<1>9. TurnInv'
  BY <1>4, <1>6, EmptyFacts DEF TurnInv, Resting, Cancels
<1> QED
  BY <1>2, <1>3, <1>4, <1>5, <1>6, <1>7, <1>8, <1>9

\* The record of an erased card is ahead of everything: it has no unit key.
LEMMA NothingAhead == ASSUME Typed PROVE Nothing \in Records /\ Ahead(Nothing)
<1>1. Nothing \in Records /\ Nothing.unit = 0
  BY Bounds DEF Nothing, Records
<1> QED
  BY <1>1, SentFacts DEF Ahead, Above, Requests

\* The device restarts with what the card kept.
LEMMA PowerCutInv == ASSUME IInv, PowerCut PROVE IInv'
<1>1. PICK r \in card : mem' = r /\ card' = {r} /\ before' \in {before} \cup (card \ {r})
  BY DEF PowerCut
<1>2. r \in Records /\ before' \in Records /\ Ahead(r) /\ CountersRise
  BY <1>1, Turns DEF Typed, StoredType, CounterInv
<1>3. /\ BlobType' /\ FlagType' /\ MainType' /\ InType' /\ OutType' /\ TaskType' /\ SentType'
      /\ PhoneType' /\ RequestInv' /\ TurnInv' /\ OwnScreen' /\ mpc' = "home"
  BY <1>1, <1>2, VolatileInv DEF PowerCut
<1>4. sent' = sent /\ cuts'.resets = cuts.resets /\ CutsType'
  <2>1. cuts \in [n : 0 .. MaxCuts, resets : SUBSET (0 .. Len(sent))]
    BY Turns DEF Typed, CutsType
  <2> QED
    BY <2>1, Bounds DEF PowerCut, CutsType
<1>5. CountersRise' /\ Ahead(r)'
  BY <1>2, <1>4 DEF CountersRise, Ahead, Above, Fresh
<1>6. CounterInv' /\ StoredType'
  BY <1>1, <1>2, <1>3, <1>5, RestartStays
<1> QED
  BY <1>3, <1>4, <1>6, TypePartsNext DEF IInv, Typed

\* Everything is erased.
LEMMA FactoryResetInv == ASSUME IInv, FactoryReset PROVE IInv'
<1>1. mem' = Nothing /\ card' = {Nothing} /\ before' = Nothing /\ UNCHANGED <<sent, cuts>>
  BY DEF FactoryReset
<1>2. Nothing \in Records /\ Ahead(Nothing) /\ CountersRise
  BY Turns, NothingAhead DEF CounterInv
<1>3. /\ BlobType' /\ FlagType' /\ MainType' /\ InType' /\ OutType' /\ TaskType' /\ SentType'
      /\ PhoneType' /\ RequestInv' /\ TurnInv' /\ OwnScreen' /\ mpc' = "home"
  BY <1>1, <1>2, VolatileInv DEF FactoryReset
<1>4. CutsType'
  BY <1>1, Turns, Same
<1>5. CountersRise' /\ Ahead(Nothing)'
  BY <1>1, <1>2 DEF CountersRise, Ahead, Above, Fresh, Nothing
<1>6. CounterInv' /\ StoredType'
  BY <1>1, <1>2, <1>3, <1>5, RestartStays
<1> QED
  BY <1>3, <1>4, <1>6, TypePartsNext DEF IInv, Typed

\* The erase is cut off: the requests made so far no longer count.
LEMMA FactoryResetCutInv == ASSUME IInv, FactoryResetCut PROVE IInv'
<1>1. PICK r \in HalfErased : mem' = r /\ card' = {r} /\ before' \in {before, r}
  BY DEF FactoryResetCut
<1>2. Typed /\ CountersRise /\ Len(sent) \in Nat
  BY Turns, SentFacts DEF CounterInv
<1>3. r \in Records /\ before' \in Records
  BY <1>1, <1>2, NothingAhead DEF Typed, StoredType, HalfErased
<1>4. /\ BlobType' /\ FlagType' /\ MainType' /\ InType' /\ OutType' /\ TaskType' /\ SentType'
      /\ PhoneType' /\ RequestInv' /\ TurnInv' /\ OwnScreen' /\ mpc' = "home"
  BY <1>1, <1>3, VolatileInv DEF FactoryResetCut
<1>5. sent' = sent /\ cuts'.resets = cuts.resets \cup {Len(sent)} /\ CutsType'
  <2>1. cuts \in [n : 0 .. MaxCuts, resets : SUBSET (0 .. Len(sent))]
    BY <1>2 DEF Typed, CutsType
  <2> QED
    BY <1>2, <2>1, Bounds DEF FactoryResetCut, CutsType
<1>6. CountersRise'
  BY <1>2, <1>5 DEF CountersRise
<1>7. Ahead(r)'
  BY <1>2, <1>5 DEF Ahead, Above, Fresh
<1>8. CounterInv' /\ StoredType'
  BY <1>1, <1>3, <1>4, <1>6, <1>7, RestartStays
<1> QED
  BY <1>4, <1>5, <1>8, TypePartsNext DEF IInv, Typed

\* The erase fails: the same of the records that may be left.
LEMMA FactoryResetFailsInv == ASSUME IInv, FactoryResetFails PROVE IInv'
<1>1. /\ mpc = "home" /\ mem' = Nothing /\ card' = HalfErased
      /\ cuts' = [cuts EXCEPT !.resets = @ \cup {Len(sent)}]
      /\ UNCHANGED <<before, has_encrypted_blob, wallet, change, waiting, main, shared_in,
                     internal_out, tasks, screen, sent, outside>>
  BY DEF FactoryResetFails
<1>2. Typed /\ CounterInv /\ RequestInv /\ OwnScreen /\ Len(sent) \in Nat
  BY Turns, SentFacts
<1>3. StoredType'
  BY <1>1, <1>2, NothingAhead DEF Typed, StoredType, HalfErased
<1>4. cuts'.resets = cuts.resets \cup {Len(sent)} /\ CutsType'
  <2>1. cuts \in [n : 0 .. MaxCuts, resets : SUBSET (0 .. Len(sent))]
    BY <1>2 DEF Typed, CutsType
  <2> QED
    BY <1>1, <1>2, <2>1 DEF CutsType
<1>5. BlobType'
  BY <1>1, <1>2 DEF Typed, BlobType
<1>6. Typed'
  BY <1>1, <1>2, <1>3, <1>4, <1>5, Same DEF Typed, MainType, main
<1>7. CounterInv'
  <2>1. CountersRise'
    BY <1>1, <1>2, <1>4 DEF CounterInv, CountersRise
  <2>2. \A u, n : Above(u, n)'
    BY <1>1, <1>2, <1>4 DEF Above, Fresh
  <2> QED
    BY <1>1, <2>1, <2>2 DEF CounterInv, Ahead, main
<1>8. RequestInv' /\ OwnScreen'
  BY <1>1, <1>2 DEF RequestInv, OwnScreen, main, tasks, outside
<1>9. TurnInv'
  BY <1>1 DEF IInv, TurnInv, Resting, Starting, Posted, Working, Requested, Showing, Answered, main,
     tasks, AllIdle, Idle, OnlyOne, SomeWaits, Cancels
<1> QED
  BY <1>6, <1>7, <1>8, <1>9, TypePartsNext DEF IInv

\* A wallet is made, or the wallet logged out.
LEMMA HomeInv == ASSUME IInv, NewWallet \/ Logout PROVE IInv'
<1>1. /\ UNCHANGED <<stored, change, waiting, main, shared_in, internal_out, tasks, screen, sent,
                     outside, cuts>>
      /\ wallet' \in {"none", "new"}
  BY DEF NewWallet, Logout
<1>2. Typed'
  BY <1>1, Turns, Same DEF Typed, MainType, main
<1>3. CounterInv'
  BY <1>1, Turns, CounterStays DEF stored, main, CounterInv
<1>4. RequestInv' /\ OwnScreen'
  BY <1>1, Turns DEF RequestInv, OwnScreen, main, tasks, outside
<1>5. TurnInv'
  BY <1>1 DEF IInv, TurnInv, Resting, Starting, Posted, Working, Requested, Showing, Answered, main,
     tasks, AllIdle, Idle, OnlyOne, SomeWaits, Cancels
<1> QED
  BY <1>2, <1>3, <1>4, <1>5, TypePartsNext DEF IInv

\* A client is created: only when nothing is on the way, so it is alone.
LEMMA StartClientInv == ASSUME IInv, Unlock \/ ChangePin PROVE IInv'
<1>1. /\ UNCHANGED <<stored, main, shared_in, internal_out, item, screen, sent, outside, cuts>>
      /\ StartClient /\ mpc = "home" /\ waiting' = TRUE
  BY DEF Unlock, ChangePin, StartClient
<1>2. wallet' \in {wallet, "none"} /\ (change' = change \/ change' = TRUE)
  BY DEF Unlock, ChangePin
<1>3. PICK c \in Clients : client[c] = "none" /\ client' = [client EXCEPT ![c] = "drain"]
  BY <1>1 DEF StartClient, Client
<1>4. Typed /\ client \in [Clients -> TaskSteps]
  BY Turns DEF Typed, TaskType
<1>5. Resting
  <2>1. ~waiting
    BY <1>1 DEF StartClient
  <2> QED
    BY <1>1, <2>1, Turns DEF Starting, Posted
<1>6. internal_out = <<>> /\ \A d \in Clients : Idle(d)
  <2>1. \A d \in Clients : client[d] # "cancel" /\ (client[d] = "wait" => internal_out = <<>>)
    BY <1>1 DEF StartClient, Prompt
  <2> QED
    BY <1>5, <2>1 DEF Resting, SomeWaits, Idle
<1>7. client'[c] = "drain" /\ \A d \in Clients \ {c} : client'[d] = client[d]
  BY <1>3, <1>4
<1>8. Typed'
  <2>1. TaskType'
    BY <1>1, <1>3, <1>4 DEF Typed, TaskType, TaskSteps
  <2>2. FlagType'
    BY <1>1, <1>2, <1>4, FlagsNext DEF Typed
  <2>3. MainType'
    BY <1>1, <1>2, <1>4 DEF Typed, MainType, main
  <2> QED
    BY <1>1, <1>4, <2>1, <2>2, <2>3, Same DEF Typed
<1>9. CounterInv'
  BY <1>1, Turns, CounterStays DEF stored, main, CounterInv
<1>10. TurnInv'
  <2>1. OnlyOne({"drain", "post"})'
    BY <1>6, <1>7 DEF OnlyOne, Idle
  <2>2. Cancels(Len(shared_in))'
    BY <1>1, <1>5 DEF Resting, Cancels
  <2>3. mpc' = "home" /\ internal_out' = <<>>
    BY <1>1, <1>6 DEF main
  <2> QED
    BY <1>1, <2>1, <2>2, <2>3 DEF TurnInv, Starting
<1>11. \A d \in Clients : client'[d] \notin {"show", "scan"}
  BY <1>6, <1>7 DEF Idle
<1>12. RequestInv' /\ OwnScreen'
  BY <1>1, <1>11, Turns DEF RequestInv, OwnScreen, main, outside
<1> QED
  BY <1>8, <1>9, <1>10, <1>12, TypePartsNext DEF IInv

----------------------------------------------------------------------------
(* The main task.                                                          *)

\* At home the head of the queue is a cancel, or the one request in it.
LEMMA AtHome ==
    ASSUME IInv, mpc = "home", shared_in # <<>>, shared_in' = Tail(shared_in)
    PROVE  /\ Head(shared_in).kind \in {"cancel", "auth"}
           /\ Head(shared_in).kind = "auth" => Posted /\ shared_in' = <<>>
<1>1. /\ Len(shared_in) \in Nat /\ Len(shared_in) >= 1 /\ 1 \in 1 .. Len(shared_in)
      /\ Head(shared_in) = shared_in[1] /\ (Len(shared_in) = 1 => shared_in' = <<>>)
  BY Turns, ReceivedFacts DEF Typed
<1>2. CASE Resting \/ Starting
  BY <1>1, <1>2 DEF Resting, Starting, Cancels
<1>3. CASE Posted
  <2>1. Len(shared_in) # 1 => shared_in[1].kind = "cancel"
    <3> SUFFICES ASSUME Len(shared_in) # 1 PROVE shared_in[1].kind = "cancel"
      OBVIOUS
    <3>1. \A n \in Nat : n >= 1 /\ n # 1 => 1 <= n - 1
      OBVIOUS
    <3>2. Cancels(Len(shared_in) - 1)
      BY <1>3 DEF Posted
    <3> QED
      BY <1>1, <3>1, <3>2 DEF Cancels
  <2> QED
    BY <1>1, <1>3, <2>1 DEF Posted
<1> QED
  BY <1>2, <1>3, Turns

\* The request of a client is taken: the PIN is asked for, or it is answered.
LEMMA DispatchAuthInv == ASSUME IInv, DispatchAuth PROVE IInv'
<1>1. /\ mpc = "home" /\ shared_in # <<>> /\ shared_in' = Tail(shared_in)
      /\ Head(shared_in).kind = "auth" /\ screen' = 0
      /\ UNCHANGED <<stored, change, tasks, sent, outside, cuts>>
  BY DEF DispatchAuth, Received, Show
<1>2. Typed /\ CounterInv /\ Posted /\ shared_in' = <<>> /\ InType'
  BY <1>1, Turns, AtHome, ReceivedFacts DEF Typed
<1>3. AllIdle /\ SomeWaits /\ internal_out = <<>>
  BY <1>2 DEF Posted
<1>4. mpc' \in {"entry", "home"} /\ MainType'
  BY <1>1, <1>2 DEF DispatchAuth, Main, Finish, Show, MainType, MainSteps, Typed
<1>5. CounterInv'
  BY <1>1, <1>2, <1>4, CounterStays DEF stored
<1>6. CASE wallet # "open" /\ (has_encrypted_blob \/ wallet = "new")
  <2>1. mpc' = "entry" /\ UNCHANGED <<internal_out, waiting>>
    BY <1>6 DEF DispatchAuth, Main
  <2>2. RequestInv' /\ TurnInv' /\ OwnScreen'
    BY <1>1, <1>2, <1>3, <2>1, WorkInv DEF WorkSteps
  <2> QED
    BY <1>1, <1>2, <1>4, <1>5, <2>1, <2>2, Same, TypePartsNext DEF IInv, Typed
<1>7. CASE ~(wallet # "open" /\ (has_encrypted_blob \/ wallet = "new"))
  <2>1. mpc' = "home" /\ Reply(Out("result", 0)) /\ waiting' = FALSE
    BY <1>7 DEF DispatchAuth, Main, Finish
  <2>2. OutType' /\ RequestInv' /\ TurnInv' /\ OwnScreen'
    BY <1>1, <1>2, <1>3, <2>1, AnswerInv
  <2>3. FlagType'
    BY <1>1, <1>2, <2>1, FlagsNext DEF Typed
  <2> QED
    BY <1>1, <1>2, <1>4, <1>5, <2>2, <2>3, Same, TypePartsNext DEF IInv, Typed
<1> QED
  BY <1>6, <1>7

\* What an earlier client left behind is dropped.
LEMMA DispatchOtherInv == ASSUME IInv, DispatchOther PROVE IInv'
<1>1. /\ mpc = "home" /\ shared_in # <<>> /\ shared_in' = Tail(shared_in)
      /\ Head(shared_in).kind \in {"pin", "cancel"} /\ screen' = 0
      /\ UNCHANGED <<stored, wallet, change, waiting, main, tasks, sent, outside, cuts>>
  BY DEF DispatchOther, Received, Show
<1>2. Head(shared_in).kind = "cancel" /\ UNCHANGED internal_out
  BY <1>1, AtHome DEF DispatchOther, Received
<1>3. Typed /\ CounterInv /\ RequestInv /\ OwnScreen
  BY Turns
<1>4. /\ InType' /\ Len(shared_in) \in Nat /\ Len(shared_in) >= 1
      /\ Len(shared_in') = Len(shared_in) - 1 /\ Head(shared_in) = shared_in[1]
      /\ \A i \in 1 .. Len(shared_in') :
            shared_in'[i] = shared_in[i + 1] /\ i + 1 \in 1 .. Len(shared_in)
  BY <1>1, <1>3, ReceivedFacts DEF Typed
<1>5. Typed'
  BY <1>1, <1>2, <1>3, <1>4, Same DEF Typed, MainType, main
<1>6. CounterInv'
  BY <1>1, <1>3, CounterStays DEF stored, main, CounterInv
<1>7. RequestInv'
  BY <1>1, <1>2, <1>3, <1>4 DEF RequestInv, main, tasks, outside
<1>8. Resting \/ Starting \/ Posted
  BY <1>1, Turns
<1>9. /\ Resting => Resting'
      /\ Starting => Starting'
  BY <1>1, <1>2, <1>4 DEF Resting, Starting, Cancels, main, tasks, OnlyOne, AllIdle, Idle, SomeWaits
<1>10. Posted => Posted'
  <2> SUFFICES ASSUME Posted PROVE Posted'
    OBVIOUS
  <2>1. Len(shared_in) >= 2
    BY <1>2, <1>4 DEF Posted
  <2>2. Len(shared_in') >= 1 /\ shared_in'[Len(shared_in')] = shared_in[Len(shared_in)]
    BY <1>4, <2>1
  <2>3. Cancels(Len(shared_in) - 1)'
    BY <1>4 DEF Posted, Cancels
  <2>4. shared_in' # <<>>
    BY <2>2, EmptyFacts
  <2> QED
    BY <1>1, <1>2, <2>2, <2>3, <2>4 DEF Posted, main, tasks, AllIdle, Idle, SomeWaits
<1>11. \A c \in Clients : client'[c] \notin {"show", "scan"}
  BY <1>1, <1>8, ClientTurns DEF tasks, Showing, Resting, Starting, Posted
<1>12. OwnScreen'
  BY <1>1, <1>11 DEF OwnScreen
<1> QED
  BY <1>5, <1>6, <1>7, <1>8, <1>9, <1>10, <1>12, TypePartsNext DEF IInv, TurnInv

\* The main task gives up, with an error, between taking a message and asking
\* the user or the server for the next.
LEMMA RejectedInv ==
    ASSUME IInv, NEW step \in {"home", "failed"}, Rejected(step), AllIdle, SomeWaits,
           internal_out = <<>>, shared_in' = <<>>, UNCHANGED <<tasks, change, outside, sent, cuts>>,
           wallet' \in {"none", "new", "open"}, stage' \in {"get", "set"},
           StoredType', BlobType', CounterInv'
    PROVE  IInv'
<1>1. /\ Reply(Out("error", 0)) /\ screen' = 0 /\ mpc' = step
      /\ (waiting' = waiting \/ waiting' = FALSE) /\ request' \in {request, 0}
  BY DEF Rejected, Finish, Main, Show
<1>2. Typed
  BY Turns
<1>3. OutType' /\ RequestInv' /\ TurnInv' /\ OwnScreen'
  BY <1>1, AnswerInv
<1>4. FlagType'
  BY <1>1, <1>2, FlagsNext DEF Typed
<1>5. MainType' /\ InType'
  BY <1>1, <1>2, EmptyFacts DEF Typed, MainType, MainSteps, InType
<1> QED
  BY <1>2, <1>3, <1>4, <1>5, Same, TypePartsNext DEF IInv, Typed

\* The PIN is not entered, or the wallet not opened after it.
LEMMA AbandonInv == ASSUME IInv, Abandon \/ NotOpened PROVE IInv'
<1>1. /\ mpc \in {"entry", "key"} /\ (Rejected("failed") \/ Rejected("home"))
      /\ UNCHANGED <<stored, wallet, change, stage, shared_in, tasks, sent, outside, cuts>>
  BY DEF Abandon, NotOpened
<1>2. mpc' \in {"home", "failed"}
  BY <1>1 DEF Rejected, Finish, Main
<1>3. Typed /\ Working /\ CounterInv'
  BY <1>1, <1>2, Turns, CounterStays DEF WorkSteps, stored
<1>4. /\ AllIdle /\ SomeWaits /\ internal_out = <<>> /\ shared_in' = <<>> /\ StoredType' /\ BlobType'
      /\ wallet' \in {"none", "new", "open"} /\ stage' \in {"get", "set"}
  BY <1>1, <1>3, Same DEF Working, Typed, MainType
<1> QED
  BY <1>1, <1>3, <1>4, RejectedInv

\* The PIN was entered, or the user tries again.
LEMMA EnterPinInv == ASSUME IInv, EnterPin \/ Retry PROVE IInv'
<1>1. /\ mpc \in WorkSteps /\ mpc' = "counter" /\ Len(sent) < MaxRequests
      /\ UNCHANGED <<stored, wallet, change, waiting, stage, request, shared_in, internal_out,
                     tasks, screen, sent, outside, cuts>>
  BY DEF EnterPin, Retry, Main, WorkSteps
<1>2. Typed /\ Working /\ CounterInv'
  BY <1>1, Turns, CounterStays DEF stored
<1>3. AllIdle /\ SomeWaits /\ internal_out' = <<>> /\ shared_in' = <<>>
  BY <1>1, <1>2 DEF Working
<1>4. RequestInv' /\ TurnInv' /\ OwnScreen'
  BY <1>1, <1>3, WorkInv DEF WorkSteps
<1>5. Typed'
  BY <1>1, <1>2, Same DEF Typed, MainType, MainSteps
<1> QED
  BY <1>2, <1>4, <1>5, TypePartsNext DEF IInv

\* The user leaves an error screen.
LEMMA LeaveErrorInv == ASSUME IInv, LeaveError PROVE IInv'
<1>1. /\ mpc = "failed" /\ screen = 0 /\ waiting' = FALSE /\ request' = 0 /\ mpc' = "home"
      /\ UNCHANGED <<stored, wallet, change, stage, shared_in, internal_out, tasks, screen, sent,
                     outside, cuts>>
  BY DEF LeaveError, Finish, Main
<1>2. Typed /\ Resting /\ CounterInv' /\ RequestInv /\ OwnScreen
  BY <1>1, Turns, CounterStays DEF stored
<1>3. Typed'
  <2>1. FlagType'
    BY <1>1, <1>2, FlagsNext DEF Typed
  <2> QED
    BY <1>1, <1>2, <2>1, Same DEF Typed, MainType, MainSteps
<1>4. TurnInv'
  BY <1>1, <1>2 DEF TurnInv, Resting, Cancels, tasks, AllIdle, Idle, SomeWaits
<1>5. RequestInv' /\ OwnScreen'
  BY <1>1, <1>2 DEF RequestInv, OwnScreen, tasks, outside
<1> QED
  BY <1>2, <1>3, <1>4, <1>5, TypePartsNext DEF IInv

\* The key is of a wrong PIN.
LEMMA WrongPinInv == ASSUME IInv, WrongPin PROVE IInv'
<1>1. /\ mpc = "key" /\ mpc' = "failed" /\ screen' = 0 /\ Reply(Out("result", 0))
      /\ UNCHANGED <<stored, wallet, change, waiting, stage, request, shared_in, tasks, sent,
                     outside, cuts>>
  BY DEF WrongPin, Main, Show
<1>2. Typed /\ Working /\ CounterInv'
  BY <1>1, Turns, CounterStays DEF WorkSteps, stored
<1>3. OutType' /\ RequestInv' /\ TurnInv' /\ OwnScreen'
  BY <1>1, <1>2, AnswerInv DEF Working
<1>4. MainType'
  BY <1>1, <1>2, Bounds DEF Typed, MainType, MainSteps
<1> QED
  BY <1>1, <1>2, <1>3, <1>4, Same, TypePartsNext DEF IInv, Typed

\* The key opens the wallet.
LEMMA RightPinInv == ASSUME IInv, RightPin PROVE IInv'
<1>1. /\ mpc = "key" /\ wallet' = "open" /\ screen' = 0
      /\ UNCHANGED <<stored, shared_in, tasks, sent, outside, cuts>>
  BY DEF RightPin, Show
<1>2. Typed /\ Working
  BY <1>1, Turns DEF WorkSteps
<1>3. /\ AllIdle /\ SomeWaits /\ internal_out = <<>> /\ shared_in' = <<>> /\ StoredType' /\ BlobType'
      /\ stage \in {"get", "set"}
  BY <1>1, <1>2, Same DEF Working, Typed, MainType
<1>4. CASE Main("entry") /\ stage' = "set" /\ UNCHANGED <<change, internal_out, waiting, request>>
  <2>1. mpc' = "entry" /\ CounterInv'
    BY <1>1, <1>4, Turns, CounterStays DEF stored, Main
  <2>2. RequestInv' /\ TurnInv' /\ OwnScreen'
    BY <1>1, <1>3, <1>4, <2>1, WorkInv DEF WorkSteps
  <2> QED
    BY <1>1, <1>2, <1>4, <2>1, <2>2, Same, TypePartsNext DEF IInv, Typed, MainType, MainSteps
<1>5. CASE Rejected("home") /\ UNCHANGED <<change, stage>>
  <2>1. CounterInv'
    BY <1>1, <1>5, Turns, CounterStays DEF stored, Rejected, Finish, Main
  <2> QED
    BY <1>1, <1>3, <1>5, <2>1, RejectedInv
<1>6. CASE Reply(Out("result", 0)) /\ Finish /\ change' = FALSE /\ UNCHANGED stage
  <2>1. mpc' = "home" /\ waiting' = FALSE /\ request' = 0
    BY <1>6 DEF Finish, Main
  <2>2. CounterInv'
    BY <1>1, <2>1, Turns, CounterStays DEF stored
  <2>3. OutType' /\ RequestInv' /\ TurnInv' /\ OwnScreen'
    BY <1>1, <1>3, <1>6, <2>1, AnswerInv
  <2>4. FlagType'
    BY <1>2, <1>6, <2>1, FlagsNext DEF Typed
  <2>5. MainType'
    BY <1>1, <1>3, <1>6, <2>1 DEF MainType, MainSteps
  <2> QED
    BY <1>1, <1>2, <2>2, <2>3, <2>4, <2>5, Same, TypePartsNext DEF IInv, Typed
<1> QED
  BY <1>4, <1>5, <1>6 DEF RightPin

\* The blob is stored with the server's key, or it could not be.
LEMMA SavedInv ==
    ASSUME IInv, NEW site \in {"store", "reencrypt"}, Saved(site) \/ NotSaved(site) PROVE IInv'
<1> DEFINE r == [mem EXCEPT !.pin = TRUE]
<1>1. PICK ok \in BOOLEAN : Commit(r, ok)
  BY Zenon DEF Saved, NotSaved, SavedOnly
<1>2. /\ mpc = "key" /\ screen' = 0
      /\ UNCHANGED <<stage, shared_in, tasks, sent, outside, cuts>>
  BY DEF SavedOnly, Saved, NotSaved, Show
<1>3. Typed /\ Working /\ CounterInv /\ mem \in Records
  BY <1>2, Turns DEF WorkSteps, Typed, StoredType
<1>4. AllIdle /\ SomeWaits /\ internal_out = <<>> /\ shared_in' = <<>>
  BY <1>2, <1>3 DEF Working
<1>5. r \in Records /\ Ahead(r)
  BY <1>3 DEF Records, CounterInv, Ahead
<1>6. mpc' \in {"home", "failed"}
  BY DEF Saved, NotSaved, Finish, Main
<1> HIDE DEF r
<1>7. CounterInv' /\ StoredType'
  BY <1>1, <1>2, <1>3, <1>5, <1>6, CommitStays DEF Typed
<1>8. MainType'
  BY <1>2, <1>3, <1>6 DEF Saved, NotSaved, Finish, Typed, MainType, MainSteps
<1>9. BlobType' /\ FlagType'
  <2>1. FlagType'
    BY <1>3, FlagsNext DEF Typed, Saved, NotSaved, Finish
  <2>2. has_encrypted_blob' = TRUE \/ has_encrypted_blob' = has_encrypted_blob
    BY DEF Saved, NotSaved
  <2>3. BlobType'
    BY <1>3, <2>2, Zenon DEF Typed, BlobType
  <2> QED
    BY <2>1, <2>3
<1>10. OutType' /\ RequestInv' /\ TurnInv' /\ OwnScreen'
  <2>1. CASE Reply(Out("result", 0)) \/ Reply(Out("error", 0))
    BY <1>2, <1>4, <1>6, <2>1, AnswerInv
  <2>2. CASE UNCHANGED internal_out
    BY <1>2, <1>3, <1>4, <1>6, <2>2, QuietInv, Same
  <2> QED
    BY <2>1, <2>2 DEF Saved, NotSaved
<1> QED
  BY <1>2, <1>3, <1>7, <1>8, <1>9, <1>10, Same, TypePartsNext DEF IInv, Typed

\* The next counter is committed, or could not be.
LEMMA NextCounterInv == ASSUME IInv, NEW ok \in BOOLEAN, NextCounter(ok) PROVE IInv'
<1>1. /\ mpc = "counter" /\ Commit(Incremented, ok)
      /\ UNCHANGED <<has_encrypted_blob, wallet, change, stage, shared_in, tasks, sent, outside, cuts>>
  BY DEF NextCounter
<1>2. Typed /\ Working /\ CounterInv /\ mem \in Records /\ Len(sent) < MaxRequests
  BY <1>1, Turns DEF WorkSteps, Typed, StoredType, CounterInv
<1>3. /\ AllIdle /\ SomeWaits /\ internal_out = <<>> /\ shared_in' = <<>>
      /\ wallet' \in {"none", "new", "open"} /\ stage' \in {"get", "set"} /\ BlobType'
  BY <1>1, <1>2 DEF Working, Typed, MainType, BlobType
<1>4. /\ Incremented \in Records /\ Incremented.unit = mem.unit
      /\ mem.counter \in Nat /\ Incremented.counter = mem.counter + 1
  BY <1>2 DEF Incremented, Records
<1>5. Ahead(Incremented) /\ Above(mem.unit, mem.counter)
  BY <1>2, <1>4, AboveRises DEF Ahead, CounterInv
<1>6. CASE ok
  <2>1. mpc' = "unit" /\ UNCHANGED <<internal_out, waiting, request, screen>>
    BY <1>6 DEF NextCounter, Main
  <2>2. mem' = Incremented /\ card' = {Incremented} /\ before' \in card
    BY <1>1, <1>6 DEF Commit
  <2>3. StoredType'
    BY <1>2, <1>4, <2>2 DEF Typed, StoredType
  <2>4. CounterInv'
    <3>1. CountersRise' /\ Len(sent') < MaxRequests
      BY <1>1, <1>2 DEF CounterInv, CountersRise
    <3>2. mem'.unit = mem.unit /\ mem'.counter = mem.counter + 1
      BY <1>4, <2>2
    <3>3. \A u, n : Above(u, n) => Above(u, n)'
      BY <1>1 DEF Above, Fresh
    <3>4. Ahead(mem)'
      BY <1>5, <2>2, <3>3 DEF Ahead
    <3>5. mem'.counter > 0 /\ mem'.counter - 1 = mem.counter
      BY <1>4, <3>2
    <3>6. Above(mem.unit, mem.counter - 1)'
      BY <1>5, <3>2, <3>3, <3>5
    <3>7. Reserved'
      BY <2>2, <3>5, <3>6 DEF Reserved
    <3>8. (\A x \in card : Ahead(x))'
      BY <2>2, <3>4
    <3> QED
      BY <2>1, <3>1, <3>4, <3>7, <3>8 DEF CounterInv
  <2>5. RequestInv' /\ TurnInv' /\ OwnScreen'
    BY <1>1, <1>3, <2>1, WorkInv DEF WorkSteps
  <2>6. MainType'
    BY <1>2, <1>3, <2>1 DEF Typed, MainType, MainSteps
  <2> QED
    BY <1>1, <1>2, <1>3, <2>1, <2>3, <2>4, <2>5, <2>6, Same, TypePartsNext DEF IInv, Typed
<1>7. CASE ~ok
  <2>1. Rejected("failed") /\ mpc' = "failed"
    BY <1>7 DEF NextCounter, Rejected, Main
  <2>2. CounterInv' /\ StoredType'
    BY <1>1, <1>2, <1>4, <1>5, <2>1, CommitStays DEF Typed
  <2> QED
    BY <1>1, <1>3, <2>1, <2>2, RejectedInv
<1> QED
  BY <1>6, <1>7

\* The unit key is made on demand: one that no request was made with.
LEMMA UnitKeyInv == ASSUME IInv, NEW ok \in BOOLEAN, UnitKey(ok) PROVE IInv'
<1> DEFINE r == [mem EXCEPT !.unit = NewUnit]
<1>1. /\ mpc = "unit"
      /\ UNCHANGED <<has_encrypted_blob, wallet, change, stage, shared_in, tasks, sent, outside, cuts>>
  BY DEF UnitKey, stored
<1>2. /\ Typed /\ Working /\ CounterInv /\ Reserved /\ mem \in Records
      /\ Len(sent) < MaxRequests /\ Len(sent) \in Nat
  BY <1>1, Turns, SentFacts DEF WorkSteps, Typed, StoredType, CounterInv
<1>3. /\ AllIdle /\ SomeWaits /\ internal_out = <<>> /\ shared_in' = <<>>
      /\ wallet' \in {"none", "new", "open"} /\ stage' \in {"get", "set"} /\ BlobType'
  BY <1>1, <1>2 DEF Working, Typed, MainType, BlobType
<1>4. NewUnit \in 1 .. Len(sent) + 1 /\ \A i \in 1 .. Len(sent) : sent[i].unit # NewUnit
  BY <1>2, NewUnitIsNew DEF Typed
<1>5. NewUnit \in 0 .. MaxRequests /\ NewUnit # 0
  BY <1>2, <1>4, Bounds
<1>6. r \in Records /\ r.unit = NewUnit /\ r.counter = mem.counter
  BY <1>2, <1>5 DEF Records
<1>7. \A n : Above(NewUnit, n)
  BY <1>4 DEF Above
<1> HIDE DEF r
<1>8. Ahead(r)
  BY <1>6, <1>7 DEF Ahead
<1>9. CASE ok /\ mem.unit # 0
  <2>1. mpc' = "send" /\ UNCHANGED <<stored, internal_out, waiting, request, screen>>
    BY <1>9 DEF UnitKey, Main
  <2>2. CounterInv'
    BY <1>1, <1>2, <1>9, <2>1 DEF CounterInv, CountersRise, Ahead, Above, Fresh, Reserved, stored
  <2>3. RequestInv' /\ TurnInv' /\ OwnScreen'
    BY <1>1, <1>3, <2>1, WorkInv DEF WorkSteps
  <2>4. MainType'
    BY <1>2, <1>3, <2>1 DEF Typed, MainType, MainSteps
  <2> QED
    BY <1>1, <1>2, <2>1, <2>2, <2>3, <2>4, Same, TypePartsNext DEF IInv, Typed
<1>10. CASE ok /\ mem.unit = 0
  <2>1. /\ mpc' = "send" /\ UNCHANGED <<internal_out, waiting, request, screen>>
        /\ mem' = r /\ card' = {r} /\ before' \in card
    BY <1>10 DEF UnitKey, Main, Commit, r
  <2>2. CounterInv'
    <3>1. CountersRise' /\ Len(sent') < MaxRequests
      BY <1>1, <1>2 DEF CounterInv, CountersRise
    <3>2. mem'.unit = NewUnit /\ mem'.counter = mem.counter /\ mem.counter > 0
      BY <1>2, <1>6, <2>1 DEF Reserved
    <3>3. \A i \in 1 .. Len(sent') : sent'[i].unit # mem'.unit
      BY <1>1, <1>4, <3>2
    <3>4. Ahead(mem)'
      BY <3>3 DEF Ahead, Above
    <3>5. Reserved'
      BY <2>1, <3>2, <3>3 DEF Reserved, Above
    <3>6. (\A x \in card : Ahead(x))'
      BY <2>1, <3>4
    <3> QED
      BY <1>5, <1>6, <2>1, <3>1, <3>4, <3>5, <3>6 DEF CounterInv
  <2>3. RequestInv' /\ TurnInv' /\ OwnScreen'
    BY <1>1, <1>3, <2>1, WorkInv DEF WorkSteps
  <2>4. MainType' /\ StoredType'
    BY <1>2, <1>3, <1>6, <2>1 DEF Typed, MainType, MainSteps, StoredType
  <2> QED
    BY <1>1, <1>2, <1>3, <2>1, <2>2, <2>3, <2>4, Same, TypePartsNext DEF IInv, Typed
<1>11. CASE ~ok
  <2>1. Rejected("failed") /\ mpc' = "failed" /\ Commit(r, ok)
    BY <1>11 DEF UnitKey, Rejected, Main, r
  <2>2. CounterInv' /\ StoredType'
    BY <1>1, <1>2, <1>6, <1>8, <2>1, CommitStays DEF Typed
  <2> QED
    BY <1>1, <1>3, <2>1, <2>2, RejectedInv
<1> QED
  BY <1>9, <1>10, <1>11

\* The request is made, with the counter before the one stored.
LEMMA SendRequestInv == ASSUME IInv, SendRequest PROVE IInv'
<1> DEFINE n == Len(sent)
           e == [unit |-> mem.unit, counter |-> mem.counter - 1]
<1>1. /\ mpc = "send" /\ sent' = Append(sent, e) /\ request' = Len(sent') /\ mpc' = "await"
      /\ Reply(Out("http", Len(sent')))
      /\ UNCHANGED <<stored, wallet, change, waiting, stage, shared_in, tasks, screen, outside, cuts>>
  BY DEF SendRequest, Main, HttpRequest
<1>2. /\ Typed /\ Working /\ CounterInv /\ Reserved /\ mem \in Records /\ mem.unit # 0
      /\ n < MaxRequests /\ n \in Nat
  BY <1>1, Turns, SentFacts DEF WorkSteps, Typed, StoredType, CounterInv
<1>3. AllIdle /\ SomeWaits /\ internal_out = <<>> /\ shared_in = <<>>
  BY <1>2 DEF Working
<1>4. mem.counter \in Nat /\ mem.counter > 0 /\ mem.unit \in Requests
  BY <1>2, Bounds DEF Reserved, Records, Requests
<1>5. e \in Sents /\ e.unit = mem.unit /\ e.counter = mem.counter - 1 /\ e.counter < mem.counter
  BY <1>4 DEF Sents
<1> HIDE DEF e
<1>6. /\ sent' \in Seq(Sents) /\ Len(sent') = n + 1 /\ sent'[n + 1] = e
      /\ \A i \in 1 .. n : sent'[i] = sent[i]
  BY <1>1, <1>2, <1>5, AppendFacts DEF Typed, SentType
<1> HIDE DEF n
<1>7. request' = n + 1 /\ n + 1 \in Requests /\ n + 1 # 0
  BY <1>1, <1>2, <1>6, Bounds DEF Requests
<1>8. /\ OutType' /\ internal_out' # <<>> /\ Len(internal_out') = 1
      /\ internal_out'[1].kind = "http" /\ internal_out'[1].request = n + 1
  BY <1>1, <1>2, <1>3, <1>6, <1>7, ReplyFacts DEF Typed
<1>9. Typed'
  <2>1. SentType' /\ CutsType'
    BY <1>1, <1>2, <1>6, Bounds DEF Typed, SentType, CutsType, n
  <2>2. MainType'
    BY <1>1, <1>2, <1>7 DEF Typed, MainType, MainSteps
  <2> QED
    BY <1>1, <1>2, <1>8, <2>1, <2>2, Same DEF Typed
<1>10. CounterInv'
  <2>1. \A i \in 1 .. n + 1 : i \in 1 .. n \/ i = n + 1
    BY <1>2
  <2>2. /\ \A i \in 1 .. n : sent[i].counter \in Nat
        /\ \A k \in cuts.resets : k \in 0 .. n
        /\ DOMAIN sent = 1 .. n /\ DOMAIN sent' = 1 .. n + 1
    BY <1>2, <1>6, SentFacts DEF n
  <2>3. \A i \in 1 .. n : Fresh(i) /\ sent[i].unit = mem.unit => sent[i].counter < e.counter
    BY <1>2, <1>5 DEF Reserved, Above, n
  <2>4. CountersRise'
    <3> SUFFICES ASSUME NEW i \in 1 .. n + 1, NEW j \in 1 .. n + 1, i < j,
                        sent'[i].unit = sent'[j].unit,
                        ~(\E k \in cuts.resets : i <= k /\ k < j)
                 PROVE  sent'[i].counter < sent'[j].counter
      BY <1>1, <2>2 DEF CountersRise
    <3>1. i \in 1 .. n /\ sent'[i] = sent[i]
      BY <1>2, <1>6
    <3>2. CASE j \in 1 .. n
      BY <1>2, <1>6, <2>2, <3>1, <3>2 DEF CounterInv, CountersRise
    <3>3. CASE j = n + 1
      <4>1. Fresh(i)
        BY <1>2, <2>2, <3>3 DEF Fresh
      <4> QED
        BY <1>5, <1>6, <2>3, <3>1, <3>3, <4>1
    <3> QED
      BY <2>1, <3>2, <3>3
  <2>5. Ahead(mem)'
    <3> SUFFICES ASSUME NEW i \in 1 .. n + 1, Fresh(i)', sent'[i].unit = mem.unit
                 PROVE  sent'[i].counter < mem.counter
      BY <1>1, <1>6 DEF Ahead, Above, stored
    <3>1. CASE i \in 1 .. n
      <4>1. Fresh(i) /\ sent'[i] = sent[i]
        BY <1>1, <1>6, <3>1 DEF Fresh
      <4> QED
        BY <1>2, <3>1, <4>1 DEF CounterInv, Ahead, Above, n
    <3>2. CASE i = n + 1
      BY <1>5, <1>6, <3>2
    <3> QED
      BY <2>1, <3>1, <3>2
  <2>6. card' = {mem'}
    BY <1>1, <1>2 DEF Reserved, stored
  <2>7. (\A x \in card : Ahead(x))'
    BY <2>5, <2>6
  <2> QED
    BY <1>1, <2>4, <2>5, <2>7 DEF CounterInv
<1>11. AllIdle' /\ SomeWaits' /\ shared_in' = <<>>
  BY <1>1, <1>3 DEF AllIdle, SomeWaits, Idle, tasks
<1>12. TurnInv'
  BY <1>1, <1>8, <1>11 DEF TurnInv, Requested
<1>13. \A c \in Clients : client'[c] \notin {"show", "scan"}
  BY <1>11 DEF AllIdle, Idle
<1>14. RequestInv' /\ OwnScreen'
  BY <1>1, <1>6, <1>7, <1>8, <1>11, <1>13, EmptyFacts DEF RequestInv, OwnScreen
<1> QED
  BY <1>9, <1>10, <1>12, <1>14, TypePartsNext DEF IInv

\* While the main task waits, a message in the queue is the only thing on its way.
LEMMA AtAwait ==
    ASSUME IInv, mpc = "await", shared_in # <<>>, shared_in' = Tail(shared_in)
    PROVE  /\ AllIdle /\ internal_out = <<>> /\ shared_in' = <<>>
           /\ Head(shared_in).kind \in {"pin", "cancel"}
           /\ Head(shared_in).kind = "pin" => SomeWaits
           /\ Head(shared_in).reply \in replies \cup {0}
<1>1. Answered
  BY Turns DEF Requested, Showing
<1>2. Head(shared_in) = shared_in[1] /\ 1 \in 1 .. Len(shared_in) /\ shared_in' = <<>>
  BY <1>1, Turns, ReceivedFacts DEF Typed, Answered
<1> QED
  BY <1>1, <1>2, Turns DEF Answered, RequestInv

\* A message for the PIN client arrives.
LEMMA PinArrivesInv == ASSUME IInv, PinArrives PROVE IInv'
<1>1. /\ mpc = "await" /\ shared_in # <<>> /\ shared_in' = Tail(shared_in)
      /\ Head(shared_in).kind # "cancel"
      /\ UNCHANGED <<stored, wallet, change, stage, tasks, sent, outside, cuts>>
  BY DEF PinArrives
<1>2. /\ AllIdle /\ internal_out = <<>> /\ shared_in' = <<>> /\ SomeWaits
      /\ Head(shared_in).reply \in replies \cup {0}
  BY <1>1, AtAwait
<1>3. Typed /\ CounterInv /\ request = Len(sent) /\ request # 0
  BY <1>1, Turns DEF RequestInv
<1>4. /\ InType' /\ StoredType' /\ BlobType'
      /\ wallet' \in {"none", "new", "open"} /\ stage' \in {"get", "set"}
  BY <1>1, <1>2, <1>3, EmptyFacts, Same DEF InType, Typed, MainType
<1>5. CASE Head(shared_in).kind = "pin" /\ Decrypts(Head(shared_in))
  <2>1. mpc' = "key" /\ UNCHANGED <<internal_out, waiting, request, screen>>
    BY <1>5 DEF PinArrives, Main
  <2>2. request \in replies
    BY <1>2, <1>3, <1>5 DEF Decrypts
  <2>3. RequestInv' /\ TurnInv' /\ OwnScreen'
    BY <1>1, <1>2, <1>3, <2>1, <2>2, WorkInv DEF WorkSteps, outside
  <2>4. CounterInv'
    BY <1>1, <1>3, <2>1, CounterStays DEF stored
  <2>5. MainType'
    BY <1>3, <1>4, <2>1 DEF Typed, MainType, MainSteps
  <2> QED
    BY <1>1, <1>3, <1>4, <2>1, <2>3, <2>4, <2>5, Same, TypePartsNext DEF IInv, Typed
<1>6. CASE ~(Head(shared_in).kind = "pin" /\ Decrypts(Head(shared_in)))
  <2>1. Rejected("failed") /\ mpc' = "failed"
    BY <1>6 DEF PinArrives, Rejected, Main
  <2>2. CounterInv'
    BY <1>1, <1>3, <2>1, CounterStays DEF stored
  <2> QED
    BY <1>1, <1>2, <1>4, <2>1, <2>2, RejectedInv
<1> QED
  BY <1>5, <1>6

\* The phone could not reach the server.
LEMMA PinWithoutInv == ASSUME IInv, PinWithout PROVE IInv'
<1>1. /\ mpc = "await" /\ shared_in # <<>> /\ shared_in' = Tail(shared_in)
      /\ Head(shared_in).kind = "pin" /\ mpc' = "retry" /\ screen' = 0
      /\ UNCHANGED <<stored, wallet, change, waiting, stage, request, internal_out, tasks, sent,
                     outside, cuts>>
  BY DEF PinWithout, Received, Main, Show
<1>2. AllIdle /\ internal_out = <<>> /\ shared_in' = <<>> /\ SomeWaits
  BY <1>1, AtAwait
<1>3. Typed /\ CounterInv' /\ InType'
  BY <1>1, <1>2, Turns, EmptyFacts, CounterStays DEF stored, InType
<1>4. RequestInv' /\ TurnInv' /\ OwnScreen'
  BY <1>1, <1>2, WorkInv DEF WorkSteps
<1>5. MainType'
  BY <1>1, <1>3, Bounds DEF Typed, MainType, MainSteps
<1> QED
  BY <1>1, <1>3, <1>4, <1>5, Same, TypePartsNext DEF IInv, Typed

\* The client gave up.
LEMMA CancelArrivesInv == ASSUME IInv, CancelArrives PROVE IInv'
<1>1. /\ mpc = "await" /\ shared_in # <<>> /\ shared_in' = Tail(shared_in) /\ screen' = 0
      /\ mpc' \in {"home", "failed"} /\ (waiting' = waiting \/ waiting' = FALSE)
      /\ request' \in {request, 0}
      /\ UNCHANGED <<stored, wallet, change, stage, internal_out, tasks, sent, outside, cuts>>
  BY DEF CancelArrives, Received, Main, Finish, Show
<1>2. AllIdle /\ internal_out = <<>> /\ shared_in' = <<>>
  BY <1>1, AtAwait
<1>3. Typed /\ CounterInv' /\ InType'
  BY <1>1, <1>2, Turns, EmptyFacts, CounterStays DEF stored, InType
<1>4. RequestInv' /\ TurnInv' /\ OwnScreen'
  BY <1>1, <1>2, QuietInv
<1>5. MainType'
  BY <1>1, <1>3 DEF Typed, MainType, MainSteps
<1>6. FlagType'
  BY <1>1, <1>3, FlagsNext DEF Typed
<1> QED
  BY <1>1, <1>3, <1>4, <1>5, <1>6, Same, TypePartsNext DEF IInv, Typed

\* The user does not try again.
LEMMA NoRetryInv == ASSUME IInv, NoRetry PROVE IInv'
<1>1. /\ mpc = "retry" /\ (Rejected("failed") \/ Rejected("home"))
      /\ UNCHANGED <<stored, wallet, change, stage, shared_in, tasks, sent, outside, cuts>>
  BY DEF NoRetry
<1>2. mpc' \in {"home", "failed"}
  BY <1>1 DEF Rejected, Finish, Main
<1>3. Typed /\ Working /\ CounterInv'
  BY <1>1, <1>2, Turns, CounterStays DEF WorkSteps, stored
<1>4. /\ AllIdle /\ SomeWaits /\ internal_out = <<>> /\ shared_in' = <<>> /\ StoredType' /\ BlobType'
      /\ wallet' \in {"none", "new", "open"} /\ stage' \in {"get", "set"}
  BY <1>1, <1>3, Same DEF Working, Typed, MainType
<1> QED
  BY <1>1, <1>3, <1>4, RejectedInv

----------------------------------------------------------------------------
(* The clients, the phone and the server.                                  *)

\* A client moves on: the others stay where they are.
LEMMA ClientMoves ==
    ASSUME TaskType, NEW c \in Clients, NEW step \in TaskSteps, Client(c, step)
    PROVE  /\ client' \in [Clients -> TaskSteps] /\ client'[c] = step
           /\ \A d \in Clients \ {c} : client'[d] = client[d]
           /\ (\A d \in Clients \ {c} : Idle(d)) => \A d \in Clients \ {c} : Idle(d)'
BY DEF TaskType, Client, Idle

\* A client discards what is left in the queue: there is nothing.
LEMMA DrainInv == ASSUME IInv, NEW c \in Clients, Drain(c) PROVE IInv'
<1>1. /\ client[c] = "drain"
      /\ UNCHANGED <<stored, wallet, change, waiting, main, shared_in, item, screen, sent, outside,
                     cuts>>
  BY DEF Drain
<1>2. Typed /\ CounterInv /\ RequestInv /\ Starting /\ \A d \in Clients \ {c} : Idle(d)
  BY <1>1, Turns, ClientTurns
<1>3. internal_out' = <<>> /\ Client(c, "post") /\ UNCHANGED internal_out
  BY <1>2 DEF Starting, Drain
<1>4. /\ client' \in [Clients -> TaskSteps] /\ client'[c] = "post"
      /\ \A d \in Clients \ {c} : client'[d] = client[d] /\ Idle(d)'
  BY <1>2, <1>3, ClientMoves DEF Typed, TaskSteps
<1>5. Typed'
  BY <1>1, <1>2, <1>3, <1>4, Same DEF Typed, MainType, TaskType, main
<1>6. CounterInv'
  BY <1>1, <1>2, CounterStays DEF stored, main, CounterInv
<1>7. TurnInv'
  BY <1>1, <1>2, <1>3, <1>4 DEF TurnInv, Starting, OnlyOne, Cancels, main
<1>8. \A d \in Clients : client'[d] \notin {"show", "scan"}
  BY <1>4 DEF Idle
<1>9. RequestInv' /\ OwnScreen'
  BY <1>1, <1>2, <1>3, <1>8, Turns DEF RequestInv, OwnScreen, main, outside
<1> QED
  BY <1>5, <1>6, <1>7, <1>9, TypePartsNext DEF IInv

\* A client posts its request.
LEMMA PostAuthInv == ASSUME IInv, NEW c \in Clients, PostAuth(c) PROVE IInv'
<1>1. /\ client[c] = "post" /\ Post(In("auth", 0)) /\ Client(c, "wait")
      /\ UNCHANGED <<stored, wallet, change, waiting, main, internal_out, item, screen, sent,
                     outside, cuts>>
  BY DEF PostAuth
<1>2. Typed /\ CounterInv /\ RequestInv /\ Starting /\ \A d \in Clients \ {c} : Idle(d)
  BY <1>1, Turns, ClientTurns
<1>3. /\ InType' /\ Len(shared_in) \in Nat /\ Len(shared_in') = Len(shared_in) + 1
      /\ \A i \in 1 .. Len(shared_in) : shared_in'[i] = shared_in[i]
      /\ shared_in'[Len(shared_in) + 1].kind = "auth"
      /\ shared_in'[Len(shared_in) + 1].reply = 0 /\ shared_in' # <<>>
  BY <1>1, <1>2, PostFacts DEF Typed
<1>4. /\ client' \in [Clients -> TaskSteps] /\ client'[c] = "wait"
      /\ \A d \in Clients \ {c} : client'[d] = client[d] /\ Idle(d)'
  BY <1>1, <1>2, ClientMoves DEF Typed, TaskSteps
<1>5. Typed'
  BY <1>1, <1>2, <1>3, <1>4, Same DEF Typed, MainType, TaskType, main
<1>6. CounterInv'
  BY <1>1, <1>2, CounterStays DEF stored, main, CounterInv
<1>7. AllIdle' /\ SomeWaits'
  BY <1>4 DEF AllIdle, SomeWaits, Idle
<1>8. Cancels(Len(shared_in) - 1)'
  BY <1>2, <1>3 DEF Starting, Cancels
<1>9. TurnInv'
  BY <1>1, <1>2, <1>3, <1>7, <1>8 DEF TurnInv, Starting, Posted, main
<1>10. \A d \in Clients : client'[d] \notin {"show", "scan"}
  BY <1>7 DEF AllIdle, Idle
<1>11. \A i \in 1 .. Len(shared_in') : shared_in'[i].reply \in replies \cup {0}
  BY <1>2, <1>3 DEF RequestInv
<1>12. RequestInv' /\ OwnScreen'
  BY <1>1, <1>2, <1>10, <1>11, Turns DEF RequestInv, OwnScreen, main, outside
<1> QED
  BY <1>5, <1>6, <1>9, <1>12, TypePartsNext DEF IInv

\* A client takes what the main task sent: a request is shown, an answer ends it.
LEMMA TakeReplyInv == ASSUME IInv, NEW c \in Clients, TakeReply(c) PROVE IInv'
<1> DEFINE m == internal_out[1]
<1>1. /\ client[c] = "wait" /\ internal_out # <<>> /\ internal_out' = Tail(internal_out)
      /\ UNCHANGED <<stored, wallet, change, waiting, main, shared_in, sent, outside, cuts>>
  BY DEF TakeReply
<1>2. Typed /\ CounterInv /\ RequestInv /\ OwnScreen /\ internal_out \in Seq(OutMessages)
  BY Turns DEF Typed, OutType
<1>3. /\ Head(internal_out) = m /\ m \in OutMessages /\ 1 \in 1 .. Len(internal_out)
      /\ OutType' /\ (Len(internal_out) = 1 => internal_out' = <<>>)
  BY <1>1, <1>2, TailFacts DEF OutType
<1>4. Resting \/ Requested
  BY <1>1 DEF IInv, TurnInv, Starting, Posted, Working, Showing, Answered
<1>5. Len(internal_out) = 1 /\ internal_out' = <<>> /\ AllIdle
  BY <1>1, <1>3, <1>4 DEF Resting, Requested
<1>6. CounterInv'
  BY <1>1, <1>2, CounterStays DEF stored, main, CounterInv
<1>7. CASE m.kind = "http"
  <2>1. /\ Client(c, "show") /\ item' = [item EXCEPT ![c] = m.request] /\ screen' = c
    BY <1>3, <1>7 DEF TakeReply, Show
  <2>2. /\ client' \in [Clients -> TaskSteps] /\ client'[c] = "show"
        /\ \A d \in Clients \ {c} : client'[d] = client[d] /\ Idle(d)'
    BY <1>2, <1>5, <2>1, ClientMoves DEF Typed, TaskSteps, AllIdle
  <2>3. Requested /\ m.request # 0 /\ m.request \in {0} \cup Requests
    BY <1>1, <1>2, <1>3, <1>4, <1>7 DEF Resting, RequestInv, OutMessages
  <2>4. item' \in [Clients -> {0} \cup Requests] /\ item'[c] = m.request
    BY <1>2, <2>1, <2>3 DEF Typed, TaskType
  <2>5. MainType'
    BY <1>1, <1>2, <2>1 DEF Typed, MainType, main
  <2>6. Typed'
    BY <1>1, <1>2, <1>3, <2>2, <2>4, <2>5, Same DEF Typed, TaskType
  <2>7. TurnInv'
    BY <1>1, <1>5, <2>2, <2>3 DEF TurnInv, Requested, Showing, OnlyOne, main
  <2>8. \A d \in Clients : client'[d] \in {"show", "scan"} => d = c
    BY <2>2 DEF Idle
  <2>9. RequestInv'
    BY <1>1, <1>2, <1>5, <2>3, <2>4, <2>8, EmptyFacts DEF RequestInv, main, outside
  <2>10. OwnScreen'
    BY <1>1, <2>1, <2>3, <2>8 DEF OwnScreen, Requested, main
  <2> QED
    BY <1>6, <2>6, <2>7, <2>9, <2>10, TypePartsNext DEF IInv
<1>8. CASE m.kind # "http"
  <2>1. Client(c, "cancel") /\ UNCHANGED <<item, screen>>
    BY <1>3, <1>8 DEF TakeReply
  <2>2. /\ client' \in [Clients -> TaskSteps] /\ client'[c] = "cancel"
        /\ \A d \in Clients \ {c} : client'[d] = client[d] /\ Idle(d)'
    BY <1>2, <1>5, <2>1, ClientMoves DEF Typed, TaskSteps, AllIdle
  <2>3. Resting
    BY <1>4, <1>8 DEF Requested
  <2>4. Typed'
    BY <1>1, <1>2, <1>3, <2>1, <2>2, Same DEF Typed, TaskType, MainType, main
  <2>5. \A d \in Clients : client'[d] \notin {"drain", "post", "show", "scan"}
    BY <2>2 DEF Idle
  <2>6. TurnInv'
    BY <1>1, <1>5, <2>3, <2>5 DEF TurnInv, Resting, Cancels, main
  <2>7. RequestInv'
    <3>1. Len(internal_out') = 0
      BY <1>5, EmptyFacts
    <3> QED
      BY <1>1, <1>2, <2>5, <3>1 DEF RequestInv, main, outside
  <2>8. OwnScreen'
    BY <1>1, <1>2, <2>1, <2>5 DEF OwnScreen, main
  <2> QED
    BY <1>6, <2>4, <2>6, <2>7, <2>8, TypePartsNext DEF IInv
<1> QED
  BY <1>7, <1>8

\* The phone takes the code on show.
LEMMA PhoneTakesInv == ASSUME IInv, NEW c \in Clients, PhoneTakes(c) PROVE IInv'
<1>1. /\ client[c] = "show" /\ taken' = taken \cup {item[c]}
      /\ UNCHANGED <<stored, wallet, change, waiting, main, shared_in, internal_out, tasks, screen,
                     sent, replies, cuts>>
  BY DEF PhoneTakes
<1>2. Typed /\ CounterInv /\ RequestInv /\ OwnScreen /\ item[c] # 0
  BY <1>1, Turns DEF RequestInv
<1>3. PhoneType'
  BY <1>1, <1>2 DEF Typed, TaskType, PhoneType
<1>4. Typed'
  BY <1>1, <1>2, <1>3, Same DEF Typed, MainType, main
<1>5. CounterInv'
  BY <1>1, <1>2, CounterStays DEF stored, main, CounterInv
<1>6. RequestInv' /\ OwnScreen'
  BY <1>1, <1>2 DEF RequestInv, OwnScreen, main, tasks
<1>7. TurnInv'
  BY <1>1 DEF IInv, TurnInv, Resting, Starting, Posted, Working, Requested, Showing, Answered, main,
     tasks, AllIdle, Idle, OnlyOne, SomeWaits, Cancels
<1> QED
  BY <1>4, <1>5, <1>6, <1>7, TypePartsNext DEF IInv

\* The server answers a request it has not answered.
LEMMA ServerAnswersInv == ASSUME IInv, ServerAnswers PROVE IInv'
<1>1. /\ \E r \in taken : replies' = replies \cup {r}
      /\ UNCHANGED <<stored, wallet, change, waiting, main, shared_in, internal_out, tasks, screen,
                     sent, taken, cuts>>
  BY DEF ServerAnswers
<1>2. Typed /\ CounterInv /\ RequestInv /\ OwnScreen
  BY Turns
<1>3. PhoneType' /\ replies \subseteq replies'
  BY <1>1, <1>2 DEF Typed, PhoneType
<1>4. Typed'
  BY <1>1, <1>2, <1>3, Same DEF Typed, MainType, main
<1>5. CounterInv'
  BY <1>1, <1>2, CounterStays DEF stored, main, CounterInv
<1>6. RequestInv' /\ OwnScreen'
  BY <1>1, <1>2, <1>3 DEF RequestInv, OwnScreen, main, tasks
<1>7. TurnInv'
  BY <1>1 DEF IInv, TurnInv, Resting, Starting, Posted, Working, Requested, Showing, Answered, main,
     tasks, AllIdle, Idle, OnlyOne, SomeWaits, Cancels
<1> QED
  BY <1>4, <1>5, <1>6, <1>7, TypePartsNext DEF IInv

\* From the code the user goes on to the scan, or leaves it.
LEMMA ClientUserInv == ASSUME IInv, NEW c \in Clients, GoToScan(c) \/ ScanFails(c) PROVE IInv'
<1>1. PICK step \in {"scan", "cancel"} : Client(c, step)
  BY DEF GoToScan, ScanFails
<1>2. /\ client[c] \in {"show", "scan"} /\ screen = c
      /\ UNCHANGED <<stored, wallet, change, waiting, main, shared_in, internal_out, item, screen,
                     sent, outside, cuts>>
  BY DEF GoToScan, ScanFails
<1>3. /\ Typed /\ CounterInv /\ RequestInv /\ OwnScreen /\ Showing
      /\ \A d \in Clients \ {c} : Idle(d)
  BY <1>2, Turns, ClientTurns
<1>4. /\ client' \in [Clients -> TaskSteps] /\ client'[c] = step
      /\ \A d \in Clients \ {c} : client'[d] = client[d] /\ Idle(d)'
  BY <1>1, <1>3, ClientMoves DEF Typed, TaskSteps
<1>5. Typed'
  BY <1>2, <1>3, <1>4, Same DEF Typed, MainType, TaskType, main
<1>6. CounterInv'
  BY <1>2, <1>3, CounterStays DEF stored, main, CounterInv
<1>7. TurnInv'
  BY <1>2, <1>3, <1>4 DEF TurnInv, Showing, OnlyOne, main
<1>8. \A d \in Clients : client'[d] \in {"show", "scan"} => d = c
  BY <1>4 DEF Idle
<1>9. RequestInv' /\ OwnScreen'
  BY <1>2, <1>3, <1>8 DEF RequestInv, OwnScreen, main, outside
<1> QED
  BY <1>5, <1>6, <1>7, <1>9, TypePartsNext DEF IInv

\* A reply is scanned, of this request or of any before it.
LEMMA ScanInv == ASSUME IInv, NEW c \in Clients, Scan(c) PROVE IInv'
<1>1. /\ client[c] = "scan" /\ Client(c, "wait")
      /\ UNCHANGED <<stored, wallet, change, waiting, main, internal_out, item, screen, sent,
                     outside, cuts>>
  BY DEF Scan
<1>2. PICK r \in replies \cup {0} : Post(In("pin", r))
  BY DEF Scan
<1>3. Typed /\ CounterInv /\ RequestInv /\ Showing /\ \A d \in Clients \ {c} : Idle(d)
  BY <1>1, Turns, ClientTurns
<1>4. r \in {0} \cup Requests /\ shared_in = <<>> /\ Len(shared_in) = 0 /\ mpc = "await"
  BY <1>3, EmptyFacts DEF Typed, PhoneType, Showing
<1>5. InType' /\ Len(shared_in') = 1 /\ shared_in'[1].kind = "pin" /\ shared_in'[1].reply = r
  BY <1>2, <1>3, <1>4, PostFacts DEF Typed
<1>6. /\ client' \in [Clients -> TaskSteps] /\ client'[c] = "wait"
      /\ \A d \in Clients \ {c} : client'[d] = client[d] /\ Idle(d)'
  BY <1>1, <1>3, ClientMoves DEF Typed, TaskSteps
<1>7. Typed'
  BY <1>1, <1>3, <1>5, <1>6, Same DEF Typed, MainType, TaskType, main
<1>8. CounterInv'
  BY <1>1, <1>3, CounterStays DEF stored, main, CounterInv
<1>9. AllIdle' /\ SomeWaits'
  BY <1>6 DEF AllIdle, SomeWaits, Idle
<1>10. TurnInv'
  BY <1>1, <1>3, <1>5, <1>9 DEF TurnInv, Showing, Answered, main
<1>11. \A d \in Clients : client'[d] \notin {"show", "scan"}
  BY <1>9 DEF AllIdle, Idle
<1>12. RequestInv' /\ OwnScreen'
  BY <1>1, <1>3, <1>4, <1>5, <1>11 DEF RequestInv, OwnScreen, main, outside
<1> QED
  BY <1>7, <1>8, <1>10, <1>12, TypePartsNext DEF IInv

\* The client's last act.
LEMMA PostCancelInv == ASSUME IInv, NEW c \in Clients, PostCancel(c) PROVE IInv'
<1>1. /\ client[c] = "cancel" /\ Post(In("cancel", 0)) /\ Client(c, "done")
      /\ UNCHANGED <<stored, wallet, change, waiting, main, internal_out, item, screen, sent,
                     outside, cuts>>
  BY DEF PostCancel
<1>2. Typed /\ CounterInv /\ RequestInv /\ OwnScreen
  BY Turns
<1>3. /\ InType' /\ Len(shared_in) \in Nat /\ Len(shared_in') = Len(shared_in) + 1
      /\ \A i \in 1 .. Len(shared_in) : shared_in'[i] = shared_in[i]
      /\ shared_in'[Len(shared_in) + 1].kind = "cancel"
      /\ shared_in'[Len(shared_in) + 1].reply = 0 /\ shared_in' # <<>>
  BY <1>1, <1>2, PostFacts DEF Typed, Requests
<1>4. /\ client' \in [Clients -> TaskSteps] /\ client'[c] = "done"
      /\ \A d \in Clients \ {c} : client'[d] = client[d]
      /\ (\A d \in Clients \ {c} : Idle(d)) => \A d \in Clients \ {c} : Idle(d)'
  BY <1>1, <1>2, ClientMoves DEF Typed, TaskSteps
<1>5. Typed'
  BY <1>1, <1>2, <1>3, <1>4, Same DEF Typed, MainType, TaskType, main
<1>6. CounterInv'
  BY <1>1, <1>2, CounterStays DEF stored, main, CounterInv
<1>7. \A i \in 1 .. Len(shared_in') : i \in 1 .. Len(shared_in) \/ i = Len(shared_in) + 1
  BY <1>3
<1>8. TurnInv'
  <2>1. CASE Resting /\ internal_out = <<>>
    <3>1. Cancels(Len(shared_in))'
      BY <1>3, <1>7, <2>1 DEF Resting, Cancels
    <3>2. \A d \in Clients : client'[d] \notin {"drain", "post", "show", "scan"}
      BY <1>4, <2>1 DEF Resting
    <3> QED
      BY <1>1, <2>1, <3>1, <3>2 DEF TurnInv, Resting, main
  <2>2. CASE Showing /\ \A d \in Clients \ {c} : Idle(d)
    <3>1. AllIdle'
      BY <1>4, <2>2 DEF AllIdle, Idle
    <3>2. Len(shared_in) = 0
      BY <2>2, EmptyFacts DEF Showing
    <3> QED
      BY <1>1, <1>3, <2>2, <3>1, <3>2 DEF TurnInv, Showing, Answered, main
  <2> QED
    BY <1>1, <2>1, <2>2, ClientTurns
<1>9. \A d \in Clients : client'[d] \in {"show", "scan"} => client[d] = client'[d]
  BY <1>4
<1>10. \A i \in 1 .. Len(shared_in') : shared_in'[i].reply \in replies \cup {0}
  BY <1>2, <1>3, <1>7 DEF RequestInv
<1>11. RequestInv' /\ OwnScreen'
  BY <1>1, <1>2, <1>9, <1>10 DEF RequestInv, OwnScreen, main, outside
<1> QED
  BY <1>5, <1>6, <1>8, <1>11, TypePartsNext DEF IInv

----------------------------------------------------------------------------
(* The theorems.                                                           *)

\* A device that was never used satisfies the invariant.
LEMMA InvInit == Init => IInv
<1> SUFFICES ASSUME Init PROVE IInv
  OBVIOUS
<1>1. shared_in = <<>> /\ internal_out = <<>> /\ sent = <<>> /\ mpc = "home" /\ screen = 0
  BY DEF Init
<1>2. Len(shared_in) = 0 /\ Len(internal_out) = 0 /\ Len(sent) = 0
  BY <1>1, EmptyFacts
<1>3. InType /\ OutType /\ SentType
  BY <1>1, <1>2, EmptyFacts, Bounds DEF InType, OutType, SentType
<1>4. FlagType
  BY Zenon DEF Init, FlagType
<1>12. BlobType
  BY Zenon DEF Init, BlobType
<1>5. StoredType
  BY Bounds DEF Init, StoredType, Nothing, Records
<1>6. MainType /\ TaskType /\ CutsType /\ PhoneType
  BY <1>2, Bounds DEF Init, MainType, MainSteps, TaskType, TaskSteps, CutsType, PhoneType
<1>7. Typed
  BY <1>3, <1>4, <1>5, <1>6, <1>12 DEF Typed
<1>8. CounterInv
  <2>1. CountersRise /\ (\A r : Ahead(r))
    BY <1>1, <1>2 DEF CountersRise, Ahead, Above
  <2> QED
    BY <1>1, <2>1 DEF CounterInv
<1>9. \A c \in Clients : client[c] = "none"
  BY DEF Init
<1>10. RequestInv /\ OwnScreen
  BY <1>1, <1>2, <1>9 DEF RequestInv, OwnScreen
<1>11. TurnInv
  BY <1>1, <1>2, <1>9 DEF TurnInv, Resting, Cancels
<1> QED
  BY <1>7, <1>8, <1>10, <1>11, TypeParts DEF IInv

\* A step that changes nothing keeps it.
LEMMA StutterInv == ASSUME IInv, UNCHANGED vars PROVE IInv'
<1>1. UNCHANGED <<stored, wallet, change, waiting, main, shared_in, internal_out, tasks, screen,
                  sent, outside, cuts>>
  BY DEF vars
<1>2. Typed'
  BY <1>1, Turns, Same DEF Typed, MainType, main
<1>3. CounterInv'
  BY <1>1, Turns, CounterStays DEF stored, main, CounterInv
<1>4. RequestInv' /\ OwnScreen'
  BY <1>1, Turns DEF RequestInv, OwnScreen, main, tasks, outside
<1>5. TurnInv'
  BY <1>1 DEF IInv, TurnInv, Resting, Starting, Posted, Working, Requested, Showing, Answered, main,
     tasks, AllIdle, Idle, OnlyOne, SomeWaits, Cancels
<1> QED
  BY <1>2, <1>3, <1>4, <1>5, TypePartsNext DEF IInv

\* Every step keeps it.
LEMMA InvStep == IInv /\ [Next]_vars => IInv'
<1> SUFFICES ASSUME IInv, [Next]_vars PROVE IInv'
  OBVIOUS
<1>1. CASE MainProgram
  <2>1. CASE \E site \in {"store", "reencrypt"} : Saved(site) \/ NotSaved(site)
    BY <2>1, SavedInv
  <2>2. CASE \E ok \in BOOLEAN : NextCounter(ok) \/ UnitKey(ok)
    BY <2>2, NextCounterInv, UnitKeyInv
  <2> QED
    BY <1>1, <2>1, <2>2, DispatchAuthInv, DispatchOtherInv, WrongPinInv, AbandonInv, RightPinInv,
       SendRequestInv, PinArrivesInv, PinWithoutInv, CancelArrivesInv DEF MainProgram
<1>2. CASE MainUser
  BY <1>2, AbandonInv, EnterPinInv, LeaveErrorInv, NoRetryInv DEF MainUser
<1>3. CASE Home
  BY <1>3, HomeInv, StartClientInv, FactoryResetInv, FactoryResetFailsInv DEF Home
<1>4. CASE \E c \in Clients : ClientProgram(c) \/ ClientUser(c) \/ PhoneTakes(c)
  BY <1>4, DrainInv, PostAuthInv, TakeReplyInv, PostCancelInv, ClientUserInv, ScanInv,
     PhoneTakesInv DEF ClientProgram, ClientUser
<1>5. CASE ServerAnswers \/ PowerCut \/ FactoryResetCut
  BY <1>5, ServerAnswersInv, PowerCutInv, FactoryResetCutInv
<1>6. CASE UNCHANGED vars
  BY <1>6, StutterInv
<1> QED
  BY <1>1, <1>2, <1>3, <1>4, <1>5, <1>6 DEF Next

\* The invariant holds in every state of every behaviour.
LEMMA Invariance == Spec => []IInv
BY InvInit, InvStep, PTL DEF Spec

\* Type correctness of the two tasks, their ring buffers, the card and the
\* phone: a client shows only requests that were made, and the server is sent
\* only requests that carry a unit key.
THEOREM TypeCorrect == Spec => []TypeOK
<1>1. IInv => TypeOK
  BY DEF IInv
<1> QED
  BY <1>1, Invariance, PTL

\* storage_get_replay_counter never gives a counter twice to the same unit key,
\* for any number of power cuts, failed commits and requests: the value is on
\* the card, in every record a start may find, before the request is sent.  Only
\* a factory reset that is cut off or fails between its two slots undoes that.
THEOREM CountersAlwaysRise == Spec => []CountersRise
<1>1. IInv => CountersRise
  BY DEF IInv, CounterInv
<1> QED
  BY <1>1, Invariance, PTL

\* handle_pin goes on only with the server's answer to the request the main task
\* has just made, whatever replies the phone holds and scans.
THEOREM KeyAlwaysOfThisRequest == Spec => []KeyIsOfThisRequest
<1>1. IInv => KeyIsOfThisRequest
  BY DEF IInv, RequestInv, KeyIsOfThisRequest
<1> QED
  BY <1>1, Invariance, PTL

\* The main task and any number of client tasks never compete for the screen:
\* the turns of an exchange exclude it, with no lock between them.
THEOREM ScreenAlwaysOwn == Spec => []OwnScreen
<1>1. IInv => OwnScreen
  BY DEF IInv
<1> QED
  BY <1>1, Invariance, PTL

============================================================================
