-------------------------- MODULE LifecycleProofs --------------------------
(* Proofs about Lifecycle, for every number of clients, of replugs and of   *)
(* nested run loops.  The argument rests on three facts about the order of  *)
(* things: a device has at most one termination pending, in the event queue *)
(* or as a detach on the USB thread's stack, and is dead by then (Doom); at *)
(* most one job exists, handed over, on the stack or answered, and its      *)
(* caller holds gStateMutex all the while (Sync); the plug-in's callback is *)
(* the innermost thing the USB thread is inside of (Callback).              *)
EXTENDS Lifecycle, FiniteSetTheorems, TLAPS

----------------------------------------------------------------------------
(* What is in a sequence, and how often.                                    *)
Some(q, S) == \E i \in 1 .. Len(q) : q[i] \in S
AtMostOne(q, S) ==
  \A i, j \in 1 .. Len(q) : q[i] \in S /\ q[j] \in S => i = j

LEMMA Push ==
  ASSUME NEW T, NEW q \in Seq(T), NEW x \in T
  PROVE  /\ <<x>> \o q \in Seq(T) /\ <<x>> \o q # <<>>
         /\ Head(<<x>> \o q) = x /\ Tail(<<x>> \o q) = q
         /\ Len(<<x>> \o q) = Len(q) + 1 /\ (<<x>> \o q)[1] = x
         /\ \A i \in 1 .. Len(q) : (<<x>> \o q)[i + 1] = q[i]
  OBVIOUS

(* A sequence against its tail.                                             *)
LEMMA TopSome ==
  ASSUME NEW T, NEW r \in Seq(T), r # <<>>, NEW S
  PROVE  /\ Some(r, S) <=> Head(r) \in S \/ Some(Tail(r), S)
         /\ AtMostOne(r, S) <=> AtMostOne(Tail(r), S)
                                /\ (Head(r) \in S => ~Some(Tail(r), S))
<1> DEFINE x == Head(r)
           q == Tail(r)
<1>1. /\ Len(r) = Len(q) + 1 /\ r[1] = x /\ Len(q) \in Nat
      /\ \A i \in 1 .. Len(q) : r[i + 1] = q[i]
  OBVIOUS
<1>2. \A i \in 2 .. Len(r) : i - 1 \in 1 .. Len(q) /\ r[i] = q[i - 1]
  BY <1>1
<1> HIDE DEF q, x
<1>3. Some(r, S) <=> x \in S \/ Some(q, S)
  <2>1. ASSUME x \in S PROVE Some(r, S)
    BY <1>1, <2>1 DEF Some
  <2>2. ASSUME Some(q, S) PROVE Some(r, S)
    <3>1. PICK i \in 1 .. Len(q) : q[i] \in S
      BY <2>2 DEF Some
    <3>2. i + 1 \in 1 .. Len(r) /\ r[i + 1] \in S
      BY <1>1, <3>1
    <3> QED BY <3>2 DEF Some
  <2>3. ASSUME Some(r, S), x \notin S PROVE Some(q, S)
    <3>1. PICK i \in 1 .. Len(r) : r[i] \in S
      BY <2>3 DEF Some
    <3>2. i - 1 \in 1 .. Len(q) /\ q[i - 1] \in S
      BY <1>1, <1>2, <2>3, <3>1
    <3> QED BY <3>2 DEF Some
  <2> QED BY <2>1, <2>2, <2>3
<1>4. ASSUME AtMostOne(q, S), x \in S => ~Some(q, S) PROVE AtMostOne(r, S)
  <2>1. ASSUME NEW i \in 1 .. Len(r), NEW j \in 1 .. Len(r), r[i] \in S, r[j] \in S
        PROVE  i = j
    <3>1. CASE i = 1 /\ j = 1 BY <3>1
    <3>2. CASE i # 1 /\ j # 1
      <4>1. i - 1 \in 1 .. Len(q) /\ j - 1 \in 1 .. Len(q)
            /\ q[i - 1] \in S /\ q[j - 1] \in S
        BY <1>1, <1>2, <2>1, <3>2
      <4>2. i - 1 = j - 1
        BY <4>1, <1>4 DEF AtMostOne
      <4> QED BY <4>2
    <3>3. CASE (i = 1 /\ j # 1) \/ (i # 1 /\ j = 1)
      <4>1. x \in S /\ \E k \in 1 .. Len(q) : q[k] \in S
        BY <1>1, <1>2, <2>1, <3>3
      <4> QED BY <4>1, <1>4 DEF Some
    <3> QED BY <3>1, <3>2, <3>3
  <2> QED BY <2>1 DEF AtMostOne
<1>5. ASSUME AtMostOne(r, S) PROVE AtMostOne(q, S) /\ (x \in S => ~Some(q, S))
  <2>1. ASSUME NEW i \in 1 .. Len(q), NEW j \in 1 .. Len(q), q[i] \in S, q[j] \in S
        PROVE  i = j
    <3>1. i + 1 \in 1 .. Len(r) /\ j + 1 \in 1 .. Len(r)
          /\ r[i + 1] \in S /\ r[j + 1] \in S
      BY <1>1, <2>1
    <3>2. i + 1 = j + 1
      BY <3>1, <1>5 DEF AtMostOne
    <3> QED BY <3>2
  <2>2. ASSUME x \in S, NEW i \in 1 .. Len(q), q[i] \in S PROVE FALSE
    <3>1. i + 1 \in 1 .. Len(r) /\ r[i + 1] \in S /\ 1 \in 1 .. Len(r) /\ r[1] \in S
      BY <1>1, <2>2
    <3>2. i + 1 = 1
      BY <3>1, <1>5 DEF AtMostOne
    <3> QED BY <3>2
  <2> QED BY <2>1, <2>2 DEF AtMostOne, Some
<1> QED BY <1>3, <1>4, <1>5 DEF q, x

LEMMA AppendSome ==
  ASSUME NEW T, NEW q \in Seq(T), NEW x \in T, NEW S
  PROVE  /\ Append(q, x) \in Seq(T)
         /\ Some(Append(q, x), S) <=> x \in S \/ Some(q, S)
         /\ AtMostOne(q, S) /\ (x \in S => ~Some(q, S)) => AtMostOne(Append(q, x), S)
<1> DEFINE r == Append(q, x)
<1>1. /\ r \in Seq(T) /\ Len(q) \in Nat /\ Len(r) = Len(q) + 1 /\ r[Len(r)] = x
      /\ \A i \in 1 .. Len(q) : r[i] = q[i]
  OBVIOUS
<1> HIDE DEF r
<1>3. Some(r, S) <=> x \in S \/ Some(q, S)
  BY <1>1 DEF Some
<1>4. ASSUME AtMostOne(q, S), x \in S => ~Some(q, S) PROVE AtMostOne(r, S)
  BY <1>1, <1>4 DEF AtMostOne, Some
<1> QED BY <1>1, <1>3, <1>4 DEF r

----------------------------------------------------------------------------
(* The inductive invariant.                                                 *)
Events == {Arrival(n) : n \in 1 .. MaxPlugs} \cup {Terminated}
Stacks == Seq(NestedLoops \cup Callbacks)
Jobs == {"start", "fail", "stop"}
Failing == {"fail", "stop"}
Doomed == Some(evq, {Terminated}) \/ Some(stack, {"detach"})
Gone == Some(stack, {"detach"}) \/ Inside = "removed"
Held == gStateMutex # "free"

(* r is the stack q with x on top of it.                                    *)
OnTop(r, x, q) ==
  /\ r \in Stacks /\ q \in Stacks /\ x \in NestedLoops \cup Callbacks
  /\ r # <<>> /\ Head(r) = x /\ Tail(r) = q
  /\ Some(r, Callbacks) <=> x \in Callbacks \/ Some(q, Callbacks)
  /\ Some(r, Jobs) <=> x \in Jobs \/ Some(q, Jobs)
  /\ Some(r, Failing) <=> x \in Failing \/ Some(q, Failing)
  /\ Some(r, {"start"}) <=> x = "start" \/ Some(q, {"start"})
  /\ Some(r, {"detach"}) <=> x = "detach" \/ Some(q, {"detach"})
  /\ AtMostOne(r, Jobs) <=> AtMostOne(q, Jobs) /\ (x \in Jobs => ~Some(q, Jobs))
  /\ AtMostOne(r, {"detach"}) <=>
       AtMostOne(q, {"detach"}) /\ (x = "detach" => ~Some(q, {"detach"}))

Device ==
  /\ present <=> dev # 0
  /\ plugged => plugs >= 1
  /\ dev <= plugs
  /\ running => dev # 0

Callback ==
  /\ stack # <<>> => ~Some(Tail(stack), Callbacks)
  /\ Inside = "removed" => dev = 0
  /\ Inside = "arrived" => dev # 0

Setup ==
  /\ hotplugCb <=> initPc # "create"
  /\ gIOCount > 0 => initPc = "done"
  /\ \A c \in Clients : pc[c] # "idle" => initPc = "done"
  /\ ~booted => dev = 0 /\ evq = <<>> /\ stack = <<>> /\ initPc = "create"

Doom ==
  /\ AtMostOne(evq, {Terminated}) /\ AtMostOne(stack, {"detach"})
  /\ ~(Some(evq, {Terminated}) /\ Some(stack, {"detach"}))
  /\ Doomed => dev # 0 /\ ~Live(dev)
  /\ Some(stack, {"detach"}) => ~running

Sync ==
  /\ \A c \in Clients : gStateMutex = c <=> pc[c] = "wait"
  /\ Held => gDevicePresent /\ gIOCount = 0
  /\ ~Held => job = "none" /\ reply = "none" /\ ~Some(stack, Jobs)
  /\ AtMostOne(stack, Jobs)
  /\ job # "none" => reply = "none" /\ ~Some(stack, Jobs)
  /\ reply # "none" => ~Some(stack, Jobs)
  /\ reply \in {"failed", "stopped"} \/ Some(stack, Failing) => ~running

Count ==
  /\ gIOCount <= Cardinality(Active)
  /\ \A c \in Clients : pc[c] = "StartIO" => ~active[c]
  /\ gIOCount > 0 => gDevicePresent
  /\ running => gIOCount > 0 \/ Held

Follows ==
  /\ gIOCount > 0 /\ ~running => Gone \/ Held
  /\ Some(stack, {"start"}) \/ reply = "started" => running \/ Gone

IInv == TypeOK /\ Device /\ Callback /\ Setup /\ Doom /\ Sync /\ Count /\ Follows

----------------------------------------------------------------------------
LEMMA Pushed ==
  ASSUME NEW q \in Stacks, NEW x \in NestedLoops \cup Callbacks
  PROVE  OnTop(<<x>> \o q, x, q)
<1> DEFINE r == <<x>> \o q
<1>1. r \in Stacks /\ r # <<>> /\ Head(r) = x /\ Tail(r) = q
  BY Push DEF Stacks
<1>2. ASSUME NEW S
      PROVE  /\ Some(r, S) <=> x \in S \/ Some(q, S)
             /\ AtMostOne(r, S) <=> AtMostOne(q, S) /\ (x \in S => ~Some(q, S))
  <2> HIDE DEF r
  <2> QED BY <1>1, TopSome DEF Stacks
<1> QED BY <1>1, <1>2 DEF OnTop

LEMMA Popped ==
  ASSUME NEW q \in Stacks, q # <<>>
  PROVE  OnTop(q, Head(q), Tail(q))
<1>1. Head(q) \in NestedLoops \cup Callbacks /\ Tail(q) \in Stacks
  BY DEF Stacks
<1>2. ASSUME NEW S
      PROVE  /\ Some(q, S) <=> Head(q) \in S \/ Some(Tail(q), S)
             /\ AtMostOne(q, S) <=> AtMostOne(Tail(q), S)
                                    /\ (Head(q) \in S => ~Some(Tail(q), S))
  BY TopSome DEF Stacks
<1> QED BY <1>1, <1>2 DEF OnTop

LEMMA EmptySome ==
  ASSUME NEW S
  PROVE  ~Some(<<>>, S) /\ AtMostOne(<<>>, S)
  BY DEF Some, AtMostOne

LEMMA NoCallback ==
  ASSUME NEW q \in Stacks, ~Some(q, Callbacks), q # <<>>
  PROVE  ~Some(Tail(q), Callbacks) /\ Head(q) \notin Callbacks
  BY Popped DEF OnTop

(* Inside the run loop, no call of the plug-in's callback is pending.       *)
LEMMA RunLoopFree ==
  ASSUME TypeOK, Callback, Inside \notin Callbacks
  PROVE  ~Some(stack, Callbacks)
<1>1. CASE stack = <<>>
  BY <1>1, EmptySome
<1>2. CASE stack # <<>>
  BY <1>2, Popped DEF OnTop, Callback, Inside, TypeOK, Stacks
<1> QED BY <1>1, <1>2

(* A job on the stack is a start, a failing start or a stop.                *)
LEMMA JobKinds ==
  ASSUME NEW q \in Stacks
  PROVE  Some(q, Jobs) <=> Some(q, {"start"}) \/ Some(q, Failing)
  BY DEF Some, Jobs, Failing

LEMMA CountActive ==
  ASSUME NEW A \in SUBSET Clients, NEW c \in Clients
  PROVE  /\ IsFiniteSet(A) /\ Cardinality(A) \in Nat
         /\ Cardinality(Clients) \in Nat /\ Cardinality(A) <= Cardinality(Clients)
         /\ Cardinality(A \cup {c}) >= 1 /\ Cardinality(A \cup {c}) \in Nat
         /\ c \notin A => Cardinality(A \cup {c}) = Cardinality(A) + 1
         /\ Cardinality(A \ {c}) \in Nat /\ Cardinality(A \ {c}) >= Cardinality(A) - 1
<1>1. IsFiniteSet(Clients) /\ IsFiniteSet(A)
  BY LifecycleAssumption, FS_Subset
<1>2. /\ Cardinality(A) \in Nat /\ Cardinality(Clients) \in Nat
      /\ Cardinality(A) <= Cardinality(Clients)
  BY <1>1, FS_CardinalityType, FS_Subset
<1>3. Cardinality(A \cup {c}) = IF c \in A THEN Cardinality(A) ELSE Cardinality(A) + 1
  BY <1>1, FS_AddElement
<1>4. Cardinality(A \ {c}) = IF c \in A THEN Cardinality(A) - 1 ELSE Cardinality(A)
  BY <1>1, FS_RemoveElement
<1>5. c \in A => Cardinality(A) # 0
  BY <1>1, FS_EmptySet
<1> QED BY <1>1, <1>2, <1>3, <1>4, <1>5

LEMMA InitIInv == Init => IInv
<1> SUFFICES ASSUME Init PROVE IInv
  OBVIOUS
<1> USE LifecycleAssumption, EmptySome, FS_EmptySet
<1>1. Active = {} /\ IsFiniteSet(Clients) /\ Cardinality(Clients) \in Nat
  BY FS_CardinalityType DEF Init, Active
<1>2. TypeOK
  <2>1. plugged \in BOOLEAN /\ plugs \in 0 .. MaxPlugs /\ dev \in 0 .. MaxPlugs
    BY DEF Init
  <2>2. evq \in Seq(Events) /\ stack \in Seq(NestedLoops \cup Callbacks)
    BY DEF Init
  <2>3. gIOCount \in 0 .. Cardinality(Clients)
    BY <1>1 DEF Init
  <2> QED BY <2>1, <2>2, <2>3 DEF Init, TypeOK, Events
<1>3. Device /\ Callback /\ Setup /\ Doom
  BY DEF Init, Device, Callback, Setup, Doom, Doomed, Inside
<1>4. Sync /\ Count /\ Follows
  BY <1>1 DEF Init, Sync, Held, Count, Follows
<1> QED BY <1>2, <1>3, <1>4 DEF IInv

----------------------------------------------------------------------------
(* One lemma per action.  What an action does to the stack comes first, as  *)
(* OnTop facts; then one step per part of the invariant.                    *)
LEMMA CreatedStep ==
  ASSUME IInv, Created PROVE IInv'
<1>1. TypeOK'
  BY LifecycleAssumption DEF IInv, TypeOK, Created, cableVars, engineVars, syncVars,
     halVars, clientVars
<1>2. Device'
  BY DEF IInv, Device, TypeOK, Created, cableVars, engineVars, syncVars, halVars,
     clientVars
<1>3. Callback'
  BY DEF IInv, Callback, Inside, Created, cableVars, engineVars, syncVars, halVars,
     clientVars
<1>4. Setup'
  BY DEF IInv, Setup, TypeOK, Created, cableVars, engineVars, syncVars, halVars,
     clientVars
<1>5. Doom'
  BY DEF IInv, Doom, Doomed, Live, Device, TypeOK, Created, cableVars, engineVars,
     syncVars, halVars, clientVars
<1>6. Sync'
  BY DEF IInv, Sync, Held, TypeOK, Setup, Count, Created, cableVars, engineVars,
     syncVars, halVars, clientVars
<1>7. Count'
  BY DEF IInv, Count, Sync, Held, Active, TypeOK, Created, cableVars, engineVars,
     syncVars, halVars, clientVars
<1>8. Follows'
  BY DEF IInv, Follows, Gone, Inside, Held, Sync, Count, Created, cableVars,
     engineVars, syncVars, halVars, clientVars
<1> QED BY <1>1, <1>2, <1>3, <1>4, <1>5, <1>6, <1>7, <1>8 DEF IInv

LEMMA CheckStep ==
  ASSUME IInv, CheckPresent PROVE IInv'
<1>1. TypeOK'
  BY LifecycleAssumption DEF IInv, TypeOK, CheckPresent, cableVars, engineVars,
     syncVars, halVars, clientVars
<1>2. Device'
  BY DEF IInv, Device, TypeOK, CheckPresent, cableVars, engineVars, syncVars, halVars,
     clientVars
<1>3. Callback'
  BY DEF IInv, Callback, Inside, CheckPresent, cableVars, engineVars, syncVars,
     halVars, clientVars
<1>4. Setup'
  BY DEF IInv, Setup, TypeOK, CheckPresent, cableVars, engineVars, syncVars, halVars,
     clientVars
<1>5. Doom'
  BY DEF IInv, Doom, Doomed, Live, Device, TypeOK, CheckPresent, cableVars, engineVars,
     syncVars, halVars, clientVars
<1>6. Sync'
  BY DEF IInv, Sync, Held, TypeOK, Setup, Count, CheckPresent, cableVars, engineVars,
     syncVars, halVars, clientVars
<1>7. Count'
  BY DEF IInv, Count, Sync, Held, Active, TypeOK, CheckPresent, cableVars, engineVars,
     syncVars, halVars, clientVars
<1>8. Follows'
  BY DEF IInv, Follows, Gone, Inside, Held, Sync, Count, CheckPresent, cableVars,
     engineVars, syncVars, halVars, clientVars
<1> QED BY <1>1, <1>2, <1>3, <1>4, <1>5, <1>6, <1>7, <1>8 DEF IInv

LEMMA PublishStep ==
  ASSUME IInv, PublishFound PROVE IInv'
<1>1. TypeOK'
  BY LifecycleAssumption DEF IInv, TypeOK, PublishFound, Publish, cableVars,
     engineVars, syncVars, halVars, clientVars
<1>2. Device'
  BY DEF IInv, Device, TypeOK, PublishFound, Publish, cableVars, engineVars, syncVars,
     halVars, clientVars
<1>3. Callback'
  BY DEF IInv, Callback, Inside, PublishFound, Publish, cableVars, engineVars,
     syncVars, halVars, clientVars
<1>4. Setup'
  BY DEF IInv, Setup, TypeOK, PublishFound, Publish, cableVars, engineVars, syncVars,
     halVars, clientVars
<1>5. Doom'
  BY DEF IInv, Doom, Doomed, Live, Device, TypeOK, PublishFound, Publish, cableVars,
     engineVars, syncVars, halVars, clientVars
<1>6. Sync'
  BY DEF IInv, Sync, Held, TypeOK, Setup, Count, PublishFound, Publish, cableVars,
     engineVars, syncVars, halVars, clientVars
<1>7. Count'
  BY DEF IInv, Count, Sync, Held, Active, TypeOK, PublishFound, Publish, cableVars,
     engineVars, syncVars, halVars, clientVars
<1>8. Follows'
  BY DEF IInv, Follows, Gone, Inside, Held, Sync, Count, PublishFound, Publish,
     cableVars, engineVars, syncVars, halVars, clientVars
<1> QED BY <1>1, <1>2, <1>3, <1>4, <1>5, <1>6, <1>7, <1>8 DEF IInv

LEMMA CallStep ==
  ASSUME IInv, NEW c \in Clients, Call(c) PROVE IInv'
<1>1. TypeOK'
  BY LifecycleAssumption DEF IInv, TypeOK, Call, cableVars, engineVars, syncVars,
     halVars, clientVars
<1>2. Device'
  BY DEF IInv, Device, TypeOK, Call, cableVars, engineVars, syncVars, halVars,
     clientVars
<1>3. Callback'
  BY DEF IInv, Callback, Inside, Call, cableVars, engineVars, syncVars, halVars,
     clientVars
<1>4. Setup'
  BY DEF IInv, Setup, TypeOK, Call, cableVars, engineVars, syncVars, halVars, clientVars
<1>5. Doom'
  BY DEF IInv, Doom, Doomed, Live, Device, TypeOK, Call, cableVars, engineVars,
     syncVars, halVars, clientVars
<1>6. Sync'
  BY DEF IInv, Sync, Held, TypeOK, Setup, Count, Call, cableVars, engineVars, syncVars,
     halVars, clientVars
<1>7. Count'
  BY DEF IInv, Count, Sync, Held, Active, TypeOK, Call, cableVars, engineVars,
     syncVars, halVars, clientVars
<1>8. Follows'
  BY DEF IInv, Follows, Gone, Inside, Held, Sync, Count, Call, cableVars, engineVars,
     syncVars, halVars, clientVars
<1> QED BY <1>1, <1>2, <1>3, <1>4, <1>5, <1>6, <1>7, <1>8 DEF IInv

LEMMA StartStep ==
  ASSUME IInv, NEW c \in Clients, UA4FX_StartIO(c) PROVE IInv'
<1>a. \/ /\ gIOCount' = gIOCount /\ active' = active /\ Active' = Active
      \/ /\ gIOCount > 0 /\ gIOCount' = gIOCount + 1 /\ Active' = Active \cup {c}
         /\ c \notin Active
  BY DEF UA4FX_StartIO, engine_sync, Refuse, Active, IInv, TypeOK, Count
<1>b. gIOCount' <= Cardinality(Active') /\ gIOCount' \in 0 .. Cardinality(Clients)
  <2>1. Active \in SUBSET Clients /\ Active' \in SUBSET Clients
    BY DEF Active
  <2>2. /\ Cardinality(Active) \in Nat
        /\ Cardinality(Active \cup {c}) >= 1 /\ Cardinality(Active \cup {c}) \in Nat
        /\ c \notin Active => Cardinality(Active \cup {c}) = Cardinality(Active) + 1
        /\ Cardinality(Active \ {c}) \in Nat
        /\ Cardinality(Active \ {c}) >= Cardinality(Active) - 1
    BY <2>1, CountActive
  <2>3. /\ Cardinality(Clients) \in Nat /\ Cardinality(Active') \in Nat
        /\ Cardinality(Active') <= Cardinality(Clients)
    BY <2>1, CountActive
  <2>4. gIOCount \in Nat /\ gIOCount <= Cardinality(Active)
    BY DEF IInv, TypeOK, Count
  <2>5. gIOCount' \in Nat /\ gIOCount' <= Cardinality(Active')
    <3>1. CASE gIOCount' = gIOCount /\ Active' = Active
      BY <2>4, <3>1
    <3>2. CASE gIOCount' = gIOCount + 1 /\ Active' = Active \cup {c} /\ c \notin Active
      <4>1. Cardinality(Active') = Cardinality(Active) + 1
        BY <2>2, <3>2
      <4> QED BY <2>2, <2>4, <3>2, <4>1
    <3> QED BY <1>a, <3>1, <3>2
  <2> QED BY <2>3, <2>5
<1>1. TypeOK'
  BY <1>b DEF IInv, TypeOK, UA4FX_StartIO, Refuse, Return, engine_sync, cableVars,
     engineVars, syncVars, halVars, clientVars
<1>2. Device'
  BY DEF IInv, Device, TypeOK, UA4FX_StartIO, Refuse, Return, engine_sync, cableVars,
     engineVars, syncVars, halVars, clientVars
<1>3. Callback'
  BY DEF IInv, Callback, Inside, UA4FX_StartIO, Refuse, Return, engine_sync, cableVars,
     engineVars, syncVars, halVars, clientVars
<1>4. Setup'
  BY DEF IInv, Setup, TypeOK, UA4FX_StartIO, Refuse, Return, engine_sync, cableVars,
     engineVars, syncVars, halVars, clientVars
<1>5. Doom'
  BY DEF IInv, Doom, Doomed, Live, Device, TypeOK, UA4FX_StartIO, Refuse, Return,
     engine_sync, cableVars, engineVars, syncVars, halVars, clientVars
<1>6. Sync'
  BY LifecycleAssumption DEF IInv, Sync, Held, TypeOK, Setup, Count, UA4FX_StartIO,
     Refuse, Return, engine_sync, cableVars, engineVars, syncVars, halVars, clientVars
<1>7. Count'
  BY <1>b DEF IInv, Count, Sync, Setup, Held, TypeOK, UA4FX_StartIO, Refuse, Return,
       engine_sync, cableVars, engineVars, syncVars, halVars, clientVars
<1>8. Follows'
  BY DEF IInv, Follows, Gone, Inside, Held, Sync, Count, UA4FX_StartIO, Refuse, Return,
     engine_sync, cableVars, engineVars, syncVars, halVars, clientVars
<1> QED BY <1>1, <1>2, <1>3, <1>4, <1>5, <1>6, <1>7, <1>8 DEF IInv

LEMMA StopStep ==
  ASSUME IInv, NEW c \in Clients, UA4FX_StopIO(c) PROVE IInv'
<1>a. /\ Active' = Active \ {c}
      /\ \/ gIOCount > 0 /\ gIOCount' = gIOCount - 1
         \/ gIOCount = 0 /\ gIOCount' = 0
  BY DEF UA4FX_StopIO, Uncount, Active, IInv, TypeOK
<1>b. gIOCount' <= Cardinality(Active') /\ gIOCount' \in 0 .. Cardinality(Clients)
  <2>1. Active \in SUBSET Clients /\ Active' \in SUBSET Clients
    BY DEF Active
  <2>2. /\ Cardinality(Active) \in Nat
        /\ Cardinality(Active \cup {c}) >= 1 /\ Cardinality(Active \cup {c}) \in Nat
        /\ c \notin Active => Cardinality(Active \cup {c}) = Cardinality(Active) + 1
        /\ Cardinality(Active \ {c}) \in Nat
        /\ Cardinality(Active \ {c}) >= Cardinality(Active) - 1
    BY <2>1, CountActive
  <2>3. /\ Cardinality(Clients) \in Nat /\ Cardinality(Active') \in Nat
        /\ Cardinality(Active') <= Cardinality(Clients)
    BY <2>1, CountActive
  <2>4. gIOCount \in Nat /\ gIOCount <= Cardinality(Active)
    BY DEF IInv, TypeOK, Count
  <2>5. gIOCount' \in Nat /\ gIOCount' <= Cardinality(Active')
    BY <1>a, <2>2, <2>4
  <2> QED BY <2>3, <2>5
<1>1. TypeOK'
  BY <1>b DEF IInv, TypeOK, UA4FX_StopIO, Uncount, Return, engine_sync, cableVars,
     engineVars, syncVars, halVars, clientVars
<1>2. Device'
  BY DEF IInv, Device, TypeOK, UA4FX_StopIO, Uncount, Return, engine_sync, TypeOK,
     cableVars, engineVars, syncVars, halVars, clientVars
<1>3. Callback'
  BY DEF IInv, Callback, Inside, UA4FX_StopIO, Uncount, Return, engine_sync, TypeOK,
     cableVars, engineVars, syncVars, halVars, clientVars
<1>4. Setup'
  BY DEF IInv, Setup, TypeOK, UA4FX_StopIO, Uncount, Return, engine_sync, TypeOK,
     cableVars, engineVars, syncVars, halVars, clientVars
<1>5. Doom'
  BY DEF IInv, Doom, Doomed, Live, Device, TypeOK, UA4FX_StopIO, Uncount, Return,
     engine_sync, TypeOK, cableVars, engineVars, syncVars, halVars, clientVars
<1>6. Sync'
  BY LifecycleAssumption DEF IInv, Sync, Held, TypeOK, Setup, Count, UA4FX_StopIO,
     Uncount, Return, engine_sync, TypeOK, cableVars, engineVars, syncVars, halVars,
     clientVars
<1>7. Count'
  BY <1>b DEF IInv, Count, Sync, Setup, Held, TypeOK, UA4FX_StopIO, Uncount, Return,
       engine_sync, cableVars, engineVars, syncVars, halVars, clientVars
<1>8. Follows'
  BY LifecycleAssumption DEF IInv, Follows, Gone, Inside, Held, Sync, Count,
     UA4FX_StopIO, Uncount, Return, engine_sync, TypeOK, cableVars, engineVars,
     syncVars, halVars, clientVars
<1> QED BY <1>1, <1>2, <1>3, <1>4, <1>5, <1>6, <1>7, <1>8 DEF IInv

LEMMA ReturnStep ==
  ASSUME IInv, NEW c \in Clients, SyncReturns(c) PROVE IInv'
<1>a. \/ gIOCount' = gIOCount /\ Active' = Active
      \/ gIOCount' = 1 /\ Active' = Active \cup {c}
  BY DEF SyncReturns, CountStarted, Active, IInv, TypeOK
<1>b. gIOCount' <= Cardinality(Active') /\ gIOCount' \in 0 .. Cardinality(Clients)
  <2>1. Active \in SUBSET Clients /\ Active' \in SUBSET Clients
    BY DEF Active
  <2>2. /\ Cardinality(Active) \in Nat
        /\ Cardinality(Active \cup {c}) >= 1 /\ Cardinality(Active \cup {c}) \in Nat
        /\ c \notin Active => Cardinality(Active \cup {c}) = Cardinality(Active) + 1
        /\ Cardinality(Active \ {c}) \in Nat
        /\ Cardinality(Active \ {c}) >= Cardinality(Active) - 1
    BY <2>1, CountActive
  <2>3. /\ Cardinality(Clients) \in Nat /\ Cardinality(Active') \in Nat
        /\ Cardinality(Active') <= Cardinality(Clients)
    BY <2>1, CountActive
  <2>4. gIOCount \in Nat /\ gIOCount <= Cardinality(Active)
    BY DEF IInv, TypeOK, Count
  <2>5. gIOCount' \in Nat /\ gIOCount' <= Cardinality(Active')
    BY <1>a, <2>2, <2>4
  <2> QED BY <2>3, <2>5
<1>c. Held
  BY LifecycleAssumption DEF IInv, Sync, SyncReturns, Held
<1>1. TypeOK'
  BY <1>b DEF IInv, TypeOK, SyncReturns, CountStarted, cableVars, engineVars, syncVars,
     halVars, clientVars
<1>2. Device'
  BY DEF IInv, Device, TypeOK, SyncReturns, CountStarted, cableVars, engineVars,
     syncVars, halVars, clientVars
<1>3. Callback'
  BY DEF IInv, Callback, Inside, SyncReturns, CountStarted, cableVars, engineVars,
     syncVars, halVars, clientVars
<1>4. Setup'
  BY DEF IInv, Setup, TypeOK, SyncReturns, CountStarted, cableVars, engineVars,
     syncVars, halVars, clientVars
<1>5. Doom'
  BY DEF IInv, Doom, Doomed, Live, Device, TypeOK, SyncReturns, CountStarted,
     cableVars, engineVars, syncVars, halVars, clientVars
<1>6. Sync'
  BY LifecycleAssumption DEF IInv, Sync, Held, TypeOK, Setup, Count, SyncReturns,
     CountStarted, cableVars, engineVars, syncVars, halVars, clientVars
<1>7. Count'
  BY <1>b, <1>c DEF IInv, Count, Sync, Setup, Held, TypeOK, SyncReturns, CountStarted,
     cableVars, engineVars, syncVars, halVars, clientVars
<1>8. Follows'
  BY DEF IInv, Follows, Gone, Inside, Held, Sync, Count, SyncReturns, CountStarted,
     cableVars, engineVars, syncVars, halVars, clientVars
<1> QED BY <1>1, <1>2, <1>3, <1>4, <1>5, <1>6, <1>7, <1>8 DEF IInv

LEMMA PlugStep ==
  ASSUME IInv, Plug PROVE IInv'
<1>a. evq' \in Seq(Events) /\ (Some(evq', {Terminated}) <=> Some(evq, {Terminated}))
      /\ AtMostOne(evq', {Terminated})
  <2>1. Arrival(plugs + 1) \in Events /\ Arrival(plugs + 1) \notin {Terminated}
        /\ evq \in Seq(Events) /\ AtMostOne(evq, {Terminated})
    BY LifecycleAssumption DEF IInv, TypeOK, Doom, Plug, Events, Arrival, Terminated
  <2> QED BY <2>1, AppendSome DEF Plug
<1>1. TypeOK'
  BY LifecycleAssumption, <1>a DEF IInv, TypeOK, Plug, Events, cableVars, engineVars,
     syncVars, halVars, clientVars
<1>2. Device'
  BY <1>a DEF IInv, Device, TypeOK, Plug, Events, cableVars, engineVars, syncVars,
     halVars, clientVars
<1>3. Callback'
  BY <1>a DEF IInv, Callback, Inside, Plug, Events, cableVars, engineVars, syncVars,
     halVars, clientVars
<1>4. Setup'
  BY <1>a DEF IInv, Setup, TypeOK, Plug, Events, cableVars, engineVars, syncVars,
     halVars, clientVars
<1>5. Doom'
  BY <1>a DEF IInv, Doom, Doomed, Live, Device, TypeOK, Plug, Events, cableVars,
     engineVars, syncVars, halVars, clientVars
<1>6. Sync'
  BY <1>a DEF IInv, Sync, Held, TypeOK, Setup, Count, Plug, Events, cableVars,
     engineVars, syncVars, halVars, clientVars
<1>7. Count'
  BY <1>a DEF IInv, Count, Sync, Held, Active, TypeOK, Plug, Events, cableVars,
     engineVars, syncVars, halVars, clientVars
<1>8. Follows'
  BY <1>a DEF IInv, Follows, Gone, Inside, Held, Sync, Count, Plug, Events, cableVars,
     engineVars, syncVars, halVars, clientVars
<1> QED BY <1>1, <1>2, <1>3, <1>4, <1>5, <1>6, <1>7, <1>8 DEF IInv

LEMMA UnplugStep ==
  ASSUME IInv, Unplug PROVE IInv'
<1>a. /\ Terminated \in Events /\ evq \in Seq(Events) /\ AtMostOne(evq, {Terminated})
      /\ dev = plugs => dev # 0 /\ Live(dev)
  BY DEF IInv, TypeOK, Doom, Unplug, Events, Device, Live
<1>b. /\ evq' \in Seq(Events) /\ AtMostOne(evq', {Terminated})
      /\ Some(evq', {Terminated}) <=> dev = plugs \/ Some(evq, {Terminated})
  BY <1>a, AppendSome DEF IInv, Unplug, Doom, Doomed
<1>1. TypeOK'
  BY LifecycleAssumption, <1>a, <1>b DEF IInv, TypeOK, Unplug, Events, cableVars,
     engineVars, syncVars, halVars, clientVars
<1>2. Device'
  BY <1>a, <1>b DEF IInv, Device, TypeOK, Unplug, Events, cableVars, engineVars,
     syncVars, halVars, clientVars
<1>3. Callback'
  BY <1>a, <1>b DEF IInv, Callback, Inside, Unplug, Events, cableVars, engineVars,
     syncVars, halVars, clientVars
<1>4. Setup'
  BY <1>a, <1>b DEF IInv, Setup, TypeOK, Unplug, Events, cableVars, engineVars,
     syncVars, halVars, clientVars
<1>5. Doom'
  BY <1>a, <1>b DEF IInv, Doom, Doomed, Live, Device, TypeOK, Unplug, Events,
     cableVars, engineVars, syncVars, halVars, clientVars
<1>6. Sync'
  BY <1>a, <1>b DEF IInv, Sync, Held, TypeOK, Setup, Count, Unplug, Events, cableVars,
     engineVars, syncVars, halVars, clientVars
<1>7. Count'
  BY <1>a, <1>b DEF IInv, Count, Sync, Held, Active, TypeOK, Unplug, Events, cableVars,
     engineVars, syncVars, halVars, clientVars
<1>8. Follows'
  BY <1>a, <1>b DEF IInv, Follows, Gone, Inside, Held, Sync, Count, Unplug, Events,
     cableVars, engineVars, syncVars, halVars, clientVars
<1> QED BY <1>1, <1>2, <1>3, <1>4, <1>5, <1>6, <1>7, <1>8 DEF IInv

LEMMA JobReturnsStep ==
  ASSUME IInv, JobReturns PROVE IInv'
<1>a. /\ OnTop(stack, Inside, stack') /\ ~Some(stack', Callbacks)
      /\ Inside' \notin Callbacks /\ stack' \in Stacks
      /\ stack' # <<>> => ~Some(Tail(stack'), Callbacks)
  <2>1. stack # <<>> /\ stack \in Stacks /\ stack' = Tail(stack)
    BY DEF JobReturns, Inside, NestedLoops, Callbacks, IInv, TypeOK, Stacks
  <2>2. OnTop(stack, Inside, stack') /\ ~Some(stack', Callbacks)
    BY <2>1, Popped DEF Inside, IInv, Callback
  <2> QED BY <2>2, NoCallback DEF Inside, OnTop, Callbacks
<1>b. Some(stack, Jobs) <=> Some(stack, {"start"}) \/ Some(stack, Failing)
  BY JobKinds DEF IInv, TypeOK, Stacks
<1>c. Some(stack', Jobs) <=> Some(stack', {"start"}) \/ Some(stack', Failing)
  BY <1>a, JobKinds
<1>1. TypeOK'
  BY LifecycleAssumption, <1>a, <1>b, <1>c DEF IInv, TypeOK, JobReturns, OnTop, Jobs,
     Failing, Callbacks, NestedLoops, Stacks, cableVars, engineVars, syncVars, halVars,
     clientVars
<1>2. Device'
  BY <1>a, <1>b, <1>c DEF IInv, Device, TypeOK, JobReturns, OnTop, Jobs, Failing,
     Callbacks, NestedLoops, Stacks, cableVars, engineVars, syncVars, halVars,
     clientVars
<1>3. Callback'
  BY <1>a DEF IInv, Callback, Callbacks, JobReturns, cableVars, engineVars, syncVars,
     halVars, clientVars
<1>4. Setup'
  BY <1>a, <1>b, <1>c DEF IInv, Setup, TypeOK, JobReturns, OnTop, Jobs, Failing,
     Callbacks, NestedLoops, Stacks, cableVars, engineVars, syncVars, halVars,
     clientVars
<1>5. Doom'
  BY <1>a, <1>b, <1>c DEF IInv, Doom, Doomed, Live, Device, TypeOK, JobReturns, OnTop,
     Jobs, Failing, Callbacks, NestedLoops, Stacks, cableVars, engineVars, syncVars,
     halVars, clientVars
<1>6. Sync'
  BY <1>a, <1>b, <1>c DEF IInv, Sync, Held, TypeOK, Setup, Count, JobReturns, OnTop,
     Jobs, Failing, Callbacks, NestedLoops, Stacks, cableVars, engineVars, syncVars,
     halVars, clientVars
<1>7. Count'
  BY <1>a, <1>b, <1>c DEF IInv, Count, Sync, Held, Active, TypeOK, JobReturns, OnTop,
     Jobs, Failing, Callbacks, NestedLoops, Stacks, cableVars, engineVars, syncVars,
     halVars, clientVars
<1>8. Follows'
  BY <1>a, <1>b, <1>c DEF IInv, Follows, Gone, Inside, Held, Sync, Count, JobReturns,
     OnTop, Jobs, Failing, Callbacks, NestedLoops, Stacks, cableVars, engineVars,
     syncVars, halVars, clientVars
<1> QED BY <1>1, <1>2, <1>3, <1>4, <1>5, <1>6, <1>7, <1>8 DEF IInv

LEMMA hotplugStep ==
  ASSUME IInv, hotplug PROVE IInv'
<1>a. /\ OnTop(stack, Inside, stack') /\ ~Some(stack', Callbacks)
      /\ Inside' \notin Callbacks /\ stack' \in Stacks
      /\ stack' # <<>> => ~Some(Tail(stack'), Callbacks)
  <2>1. stack # <<>> /\ stack \in Stacks /\ stack' = Tail(stack)
    BY DEF hotplug, Inside, NestedLoops, Callbacks, IInv, TypeOK, Stacks
  <2>2. OnTop(stack, Inside, stack') /\ ~Some(stack', Callbacks)
    BY <2>1, Popped DEF Inside, IInv, Callback
  <2> QED BY <2>2, NoCallback DEF Inside, OnTop, Callbacks
<1>b. Some(stack, Jobs) <=> Some(stack, {"start"}) \/ Some(stack, Failing)
  BY JobKinds DEF IInv, TypeOK, Stacks
<1>c. Some(stack', Jobs) <=> Some(stack', {"start"}) \/ Some(stack', Failing)
  BY <1>a, JobKinds
<1>d. Cardinality(Clients) \in Nat
  BY LifecycleAssumption, FS_CardinalityType
<1>1. TypeOK'
  <2>1. gIOCount' \in 0 .. Cardinality(Clients)
    BY <1>d DEF IInv, TypeOK, hotplug, RemovedCount
  <2>2. active' \in [Clients -> BOOLEAN]
    BY DEF IInv, TypeOK, hotplug
  <2> QED BY <1>a, <2>1, <2>2 DEF IInv, TypeOK, hotplug, Publish, Stacks, cableVars,
             engineVars, syncVars, halVars, clientVars
<1>2. Device'
  BY <1>a, <1>b, <1>c DEF IInv, Device, TypeOK, hotplug, Publish, RemovedCount, OnTop,
     Jobs, Failing, Callbacks, NestedLoops, Stacks, cableVars, engineVars, syncVars,
     halVars, clientVars
<1>3. Callback'
  BY <1>a DEF IInv, Callback, Callbacks, hotplug, cableVars, engineVars, syncVars,
     halVars, clientVars
<1>4. Setup'
  BY <1>a, <1>b, <1>c DEF IInv, Setup, TypeOK, hotplug, Publish, RemovedCount, OnTop,
     Jobs, Failing, Callbacks, NestedLoops, Stacks, cableVars, engineVars, syncVars,
     halVars, clientVars
<1>5. Doom'
  BY <1>a, <1>b, <1>c DEF IInv, Doom, Doomed, Live, Device, TypeOK, hotplug, Publish,
     RemovedCount, OnTop, Jobs, Failing, Callbacks, NestedLoops, Stacks, cableVars,
     engineVars, syncVars, halVars, clientVars
<1>6. Sync'
  BY <1>a, <1>b, <1>c DEF IInv, Sync, Held, TypeOK, Setup, Count, hotplug, Publish,
     RemovedCount, OnTop, Jobs, Failing, Callbacks, NestedLoops, Stacks, cableVars,
     engineVars, syncVars, halVars, clientVars
<1>7. Count'
  <2>1. Active \in SUBSET Clients /\ Active' \in SUBSET Clients
    BY DEF Active
  <2>2. IsFiniteSet(Active')
    BY <2>1, LifecycleAssumption, FS_Subset
  <2>3. Cardinality(Active') \in Nat
    BY <2>2, FS_CardinalityType
  <2>4. gIOCount' <= Cardinality(Active')
    <3>1. CASE Inside = "arrived"
      <4>1. Active' = Active /\ gIOCount' = gIOCount
        BY <3>1 DEF hotplug, Active
      <4> QED BY <4>1 DEF IInv, Count
    <3>2. CASE Inside # "arrived"
      BY <2>3, <3>2 DEF hotplug, RemovedCount
    <3> QED BY <3>1, <3>2
  <2> QED BY <2>4 DEF IInv, Count, Sync, Held, TypeOK, Device, Callback, hotplug,
             Publish, RemovedCount, cableVars, engineVars, syncVars, halVars,
             clientVars
<1>8. Follows'
  BY <1>a, <1>b, <1>c DEF IInv, Follows, Gone, Inside, Held, Sync, Count, hotplug,
     Publish, RemovedCount, OnTop, Jobs, Failing, Callbacks, NestedLoops, Stacks,
     cableVars, engineVars, syncVars, halVars, clientVars
<1> QED BY <1>1, <1>2, <1>3, <1>4, <1>5, <1>6, <1>7, <1>8 DEF IInv

LEMMA job_startStep ==
  ASSUME IInv, job_start PROVE IInv'
<1>a. ~Some(stack, Callbacks) /\ stack \in Stacks /\ Inside \notin Callbacks /\ booted
      /\ (stack # <<>> => ~Some(Tail(stack), Callbacks))
  <2>1. Inside \notin Callbacks /\ booted
    BY DEF job_start, InRunLoop, NestedLoops, Callbacks
  <2> QED BY <2>1, RunLoopFree DEF IInv, TypeOK, Stacks, Callback
<1>b. \/ /\ stack' = stack /\ running' = running
         /\ reply' = IF present /\ running THEN "started" ELSE "failed"
      \/ /\ OnTop(stack', "start", stack) /\ running' = TRUE /\ reply' = reply
         /\ present /\ ~running /\ Live(dev)
      \/ /\ OnTop(stack', "fail", stack) /\ running' = running /\ reply' = reply
         /\ ~running
  BY <1>a, Pushed DEF job_start, NestedLoops
<1>c. /\ Some(stack, Jobs) <=> Some(stack, {"start"}) \/ Some(stack, Failing)
      /\ Some(stack', Jobs) <=> Some(stack', {"start"}) \/ Some(stack', Failing)
  BY <1>a, <1>b, JobKinds DEF OnTop
<1>d. running => present
  BY DEF IInv, Device, TypeOK
<1>1. TypeOK'
  BY LifecycleAssumption, <1>a, <1>b, <1>c DEF IInv, TypeOK, job_start, OnTop, Jobs,
     Failing, Callbacks, NestedLoops, Stacks, cableVars, engineVars, syncVars, halVars,
     clientVars
<1>2. Device'
  BY <1>a, <1>b, <1>c DEF IInv, Device, TypeOK, job_start, OnTop, Jobs, Failing,
     Callbacks, NestedLoops, Stacks, cableVars, engineVars, syncVars, halVars,
     clientVars
<1>3. Callback'
  BY <1>a, <1>b DEF IInv, Callback, Device, TypeOK, OnTop, Inside, Callbacks,
     job_start, cableVars, engineVars, syncVars, halVars, clientVars
<1>4. Setup'
  BY <1>a, <1>b, <1>c DEF IInv, Setup, TypeOK, job_start, OnTop, Jobs, Failing,
     Callbacks, NestedLoops, Stacks, cableVars, engineVars, syncVars, halVars,
     clientVars
<1>5. Doom'
  BY <1>a, <1>b, <1>c DEF IInv, Doom, Doomed, Live, Device, TypeOK, job_start, OnTop,
     Jobs, Failing, Callbacks, NestedLoops, Stacks, cableVars, engineVars, syncVars,
     halVars, clientVars
<1>6. Sync'
  BY <1>a, <1>b, <1>c, <1>d DEF IInv, Sync, Held, TypeOK, Setup, Count, job_start,
     OnTop, Jobs, Failing, Callbacks, NestedLoops, Stacks, cableVars, engineVars,
     syncVars, halVars, clientVars
<1>7. Count'
  BY <1>a, <1>b, <1>c DEF IInv, Count, Sync, Held, Active, TypeOK, job_start, OnTop,
     Jobs, Failing, Callbacks, NestedLoops, Stacks, cableVars, engineVars, syncVars,
     halVars, clientVars
<1>8. Follows'
  BY <1>a, <1>b, <1>c DEF IInv, Follows, Gone, Inside, Held, Sync, Count, job_start,
     OnTop, Jobs, Failing, Callbacks, NestedLoops, Stacks, cableVars, engineVars,
     syncVars, halVars, clientVars
<1> QED BY <1>1, <1>2, <1>3, <1>4, <1>5, <1>6, <1>7, <1>8 DEF IInv

LEMMA job_stopStep ==
  ASSUME IInv, job_stop PROVE IInv'
<1>a. ~Some(stack, Callbacks) /\ stack \in Stacks /\ Inside \notin Callbacks /\ booted
      /\ (stack # <<>> => ~Some(Tail(stack), Callbacks))
  <2>1. Inside \notin Callbacks /\ booted
    BY DEF job_stop, InRunLoop, NestedLoops, Callbacks
  <2> QED BY <2>1, RunLoopFree DEF IInv, TypeOK, Stacks, Callback
<1>b. \/ stack' = stack /\ running' = running /\ ~running /\ reply' = "stopped"
      \/ OnTop(stack', "stop", stack) /\ running' = FALSE /\ running /\ reply' = reply
  BY <1>a, Pushed DEF job_stop, NestedLoops
<1>c. /\ Some(stack, Jobs) <=> Some(stack, {"start"}) \/ Some(stack, Failing)
      /\ Some(stack', Jobs) <=> Some(stack', {"start"}) \/ Some(stack', Failing)
  BY <1>a, <1>b, JobKinds DEF OnTop
<1>1. TypeOK'
  BY LifecycleAssumption, <1>a, <1>b, <1>c DEF IInv, TypeOK, job_stop, OnTop, Jobs,
     Failing, Callbacks, NestedLoops, Stacks, cableVars, engineVars, syncVars, halVars,
     clientVars
<1>2. Device'
  BY <1>a, <1>b, <1>c DEF IInv, Device, TypeOK, job_stop, OnTop, Jobs, Failing,
     Callbacks, NestedLoops, Stacks, cableVars, engineVars, syncVars, halVars,
     clientVars
<1>3. Callback'
  BY <1>a, <1>b DEF IInv, Callback, Device, TypeOK, OnTop, Inside, Callbacks, job_stop,
     cableVars, engineVars, syncVars, halVars, clientVars
<1>4. Setup'
  BY <1>a, <1>b, <1>c DEF IInv, Setup, TypeOK, job_stop, OnTop, Jobs, Failing,
     Callbacks, NestedLoops, Stacks, cableVars, engineVars, syncVars, halVars,
     clientVars
<1>5. Doom'
  BY <1>a, <1>b, <1>c DEF IInv, Doom, Doomed, Live, Device, TypeOK, job_stop, OnTop,
     Jobs, Failing, Callbacks, NestedLoops, Stacks, cableVars, engineVars, syncVars,
     halVars, clientVars
<1>6. Sync'
  BY <1>a, <1>b, <1>c DEF IInv, Sync, Held, TypeOK, Setup, Count, job_stop, OnTop,
     Jobs, Failing, Callbacks, NestedLoops, Stacks, cableVars, engineVars, syncVars,
     halVars, clientVars
<1>7. Count'
  BY <1>a, <1>b, <1>c DEF IInv, Count, Sync, Held, Active, TypeOK, job_stop, OnTop,
     Jobs, Failing, Callbacks, NestedLoops, Stacks, cableVars, engineVars, syncVars,
     halVars, clientVars
<1>8. Follows'
  BY <1>a, <1>b, <1>c DEF IInv, Follows, Gone, Inside, Held, Sync, Count, job_stop,
     OnTop, Jobs, Failing, Callbacks, NestedLoops, Stacks, cableVars, engineVars,
     syncVars, halVars, clientVars
<1> QED BY <1>1, <1>2, <1>3, <1>4, <1>5, <1>6, <1>7, <1>8 DEF IInv

LEMMA BootStep ==
  ASSUME IInv, Boot PROVE IInv'
<1>a. ~Some(stack, Callbacks) /\ stack \in Stacks /\ Inside \notin Callbacks
      /\ stack = <<>> /\ evq = <<>> /\ booted'
  BY EmptySome DEF Boot, IInv, TypeOK, Setup, Inside, Callbacks, Stacks
<1>f. plugged => plugs # 0
  BY DEF IInv, TypeOK, Device
<1>b. \/ stack' = stack /\ dev' = dev /\ present' = present /\ running' = running
      \/ /\ dev = 0 /\ dev' = 0 /\ present' = present /\ running' = running
         /\ hotplugCb /\ OnTop(stack', "removed", stack)
      \/ /\ dev = 0 /\ dev' = plugs /\ dev' # 0 /\ plugged /\ present' = TRUE /\ running' = running
         /\ stack' = stack \/ OnTop(stack', "arrived", stack)
  BY <1>a, <1>f, Pushed DEF Boot, device_attach, NotOpened, NoInterface, Opened,
     CallPlugIn,
                      Callbacks, Live
<1>c. /\ Some(stack, Jobs) <=> Some(stack, {"start"}) \/ Some(stack, Failing)
      /\ Some(stack', Jobs) <=> Some(stack', {"start"}) \/ Some(stack', Failing)
  BY <1>a, <1>b, JobKinds DEF OnTop
<1>d. gIOCount > 0 \/ Held => hotplugCb
  BY LifecycleAssumption DEF IInv, TypeOK, Setup, Sync, Held
<1>1. TypeOK'
  <2>1. stack' \in Seq(NestedLoops \cup Callbacks)
    BY <1>a, <1>b DEF OnTop, Stacks
  <2>2. dev' \in 0 .. MaxPlugs /\ present' \in BOOLEAN /\ running' \in BOOLEAN
    <3>1. /\ dev \in 0 .. MaxPlugs /\ plugs \in 0 .. MaxPlugs /\ 0 \in 0 .. MaxPlugs
          /\ present \in BOOLEAN /\ running \in BOOLEAN
      BY LifecycleAssumption DEF IInv, TypeOK
    <3> QED BY <1>b, <3>1
  <2>3. evq' \in Seq({Arrival(n) : n \in 1 .. MaxPlugs} \cup {Terminated})
    BY <1>a DEF TypeOK, IInv, Boot
  <2> QED BY <2>1, <2>2, <2>3 DEF IInv, TypeOK, Boot, cableVars, syncVars, halVars,
             clientVars
<1>2. Device'
  BY <1>a, <1>b, <1>c, <1>d DEF IInv, Device, TypeOK, Boot, OnTop, Jobs, Failing,
     Callbacks, NestedLoops, Stacks, cableVars, engineVars, syncVars, halVars,
     clientVars
<1>3. Callback'
  BY <1>a, <1>b DEF IInv, Callback, Device, TypeOK, OnTop, Inside, Callbacks, Boot,
     cableVars, engineVars, syncVars, halVars, clientVars
<1>4. Setup'
  BY <1>a, <1>b, <1>c, <1>d DEF IInv, Setup, TypeOK, Boot, OnTop, Jobs, Failing,
     Callbacks, NestedLoops, Stacks, cableVars, engineVars, syncVars, halVars,
     clientVars
<1>5. Doom'
  BY <1>a, <1>b, <1>c, <1>d DEF IInv, Doom, Doomed, Live, Device, TypeOK, Boot, OnTop,
     Jobs, Failing, Callbacks, NestedLoops, Stacks, cableVars, engineVars, syncVars,
     halVars, clientVars
<1>6. Sync'
  BY <1>a, <1>b, <1>c, <1>d, EmptySome DEF IInv, Sync, Held, TypeOK, Setup, Count,
     Boot, OnTop, Jobs, Failing, Callbacks, NestedLoops, Stacks, cableVars, engineVars,
     syncVars, halVars, clientVars
<1>7. Count'
  BY <1>a, <1>b, <1>c, <1>d DEF IInv, Count, Sync, Held, Active, TypeOK, Boot, OnTop,
     Jobs, Failing, Callbacks, NestedLoops, Stacks, cableVars, engineVars, syncVars,
     halVars, clientVars
<1>8. Follows'
  BY <1>a, <1>b, <1>c, <1>d DEF IInv, Follows, Gone, Inside, Held, Sync, Count, Boot,
     OnTop, Jobs, Failing, Callbacks, NestedLoops, Stacks, cableVars, engineVars,
     syncVars, halVars, clientVars
<1> QED BY <1>1, <1>2, <1>3, <1>4, <1>5, <1>6, <1>7, <1>8 DEF IInv

LEMMA DispatchStep ==
  ASSUME IInv, Dispatch PROVE IInv'
<1>a. ~Some(stack, Callbacks) /\ stack \in Stacks /\ Inside \notin Callbacks /\ booted
      /\ (stack # <<>> => ~Some(Tail(stack), Callbacks))
  <2>1. Inside \notin Callbacks /\ booted
    BY DEF Dispatch, InRunLoop, NestedLoops, Callbacks
  <2> QED BY <2>1, RunLoopFree DEF IInv, TypeOK, Stacks, Callback
<1>e. /\ evq \in Seq(Events) /\ evq' \in Seq(Events)
      /\ Some(evq, {Terminated}) <=> Head(evq) = Terminated \/ Some(evq', {Terminated})
      /\ AtMostOne(evq, {Terminated}) => /\ AtMostOne(evq', {Terminated})
                                         /\ Head(evq) = Terminated => ~Some(evq', {Terminated})
      /\ Head(evq).kind = "terminated" => Head(evq) = Terminated
  <2>1. evq \in Seq(Events) /\ evq # <<>> /\ evq' = Tail(evq) /\ Head(evq) \in Events
    BY DEF IInv, TypeOK, Events, Dispatch
  <2>2. Head(evq).kind = "terminated" => Head(evq) = Terminated
    BY <2>1 DEF Events, Arrival, Terminated
  <2> QED BY <2>1, <2>2, TopSome
<1>f. plugged => plugs # 0
  BY DEF IInv, TypeOK, Device
<1>b. \/ stack' = stack /\ dev' = dev /\ present' = present /\ running' = running
      \/ /\ dev = 0 /\ dev' = 0 /\ present' = present /\ running' = running
         /\ hotplugCb /\ OnTop(stack', "removed", stack)
      \/ /\ dev = 0 /\ dev' = plugs /\ dev' # 0 /\ plugged /\ present' = TRUE /\ running' = running
         /\ stack' = stack \/ OnTop(stack', "arrived", stack)
      \/ /\ dev # 0 /\ running /\ running' = FALSE /\ dev' = dev /\ present' = present
         /\ Head(evq) = Terminated /\ OnTop(stack', "detach", stack)
      \/ /\ dev # 0 /\ ~running /\ running' = FALSE /\ dev' = 0 /\ present' = FALSE
         /\ Head(evq) = Terminated
         /\ IF hotplugCb THEN OnTop(stack', "removed", stack) ELSE stack' = stack
  <2>1. CASE device_attach(Head(evq).service)
    BY <1>a, <1>f, <2>1, Pushed DEF device_attach, NotOpened, NoInterface, Opened,
       CallPlugIn,
                              Callbacks, Live
  <2>2. CASE device_detach /\ Head(evq).kind = "terminated"
    BY <1>a, <1>e, <2>2, Pushed DEF device_detach, CloseDevice, CallPlugIn, Callbacks,
                                    NestedLoops, IInv, TypeOK
  <2> QED BY <2>1, <2>2 DEF Dispatch
<1>c. /\ Some(stack, Jobs) <=> Some(stack, {"start"}) \/ Some(stack, Failing)
      /\ Some(stack', Jobs) <=> Some(stack', {"start"}) \/ Some(stack', Failing)
  BY <1>a, <1>b, JobKinds DEF OnTop
<1>d. gIOCount > 0 \/ Held => hotplugCb
  BY LifecycleAssumption DEF IInv, TypeOK, Setup, Sync, Held
<1>1. TypeOK'
  <2>1. stack' \in Seq(NestedLoops \cup Callbacks)
    BY <1>a, <1>b DEF OnTop, Stacks
  <2>2. dev' \in 0 .. MaxPlugs /\ present' \in BOOLEAN /\ running' \in BOOLEAN
    <3>1. /\ dev \in 0 .. MaxPlugs /\ plugs \in 0 .. MaxPlugs /\ 0 \in 0 .. MaxPlugs
          /\ present \in BOOLEAN /\ running \in BOOLEAN
      BY LifecycleAssumption DEF IInv, TypeOK
    <3> QED BY <1>b, <3>1
  <2>3. evq' \in Seq({Arrival(n) : n \in 1 .. MaxPlugs} \cup {Terminated})
    BY <1>e DEF Events
  <2> QED BY <2>1, <2>2, <2>3 DEF IInv, TypeOK, Dispatch, cableVars, syncVars, halVars,
             clientVars
<1>2. Device'
  BY <1>a, <1>b, <1>c, <1>d, <1>e DEF IInv, Device, TypeOK, Dispatch, OnTop, Jobs,
     Failing, Callbacks, NestedLoops, Stacks, Events, cableVars, engineVars, syncVars,
     halVars, clientVars
<1>3. Callback'
  BY <1>a, <1>b DEF IInv, Callback, Device, TypeOK, OnTop, Inside, Callbacks, Dispatch,
     cableVars, engineVars, syncVars, halVars, clientVars
<1>4. Setup'
  BY <1>a, <1>b, <1>c, <1>d, <1>e DEF IInv, Setup, TypeOK, Dispatch, OnTop, Jobs,
     Failing, Callbacks, NestedLoops, Stacks, Events, cableVars, engineVars, syncVars,
     halVars, clientVars
<1>5. Doom'
  BY <1>a, <1>b, <1>c, <1>d, <1>e DEF IInv, Doom, Doomed, Live, Device, TypeOK,
     Dispatch, OnTop, Jobs, Failing, Callbacks, NestedLoops, Stacks, Events, cableVars,
     engineVars, syncVars, halVars, clientVars
<1>6. Sync'
  BY <1>a, <1>b, <1>c, <1>d, <1>e DEF IInv, Sync, Held, TypeOK, Setup, Count, Dispatch,
     OnTop, Jobs, Failing, Callbacks, NestedLoops, Stacks, Events, cableVars,
     engineVars, syncVars, halVars, clientVars
<1>7. Count'
  BY <1>a, <1>b, <1>c, <1>d, <1>e DEF IInv, Count, Sync, Held, Active, TypeOK,
     Dispatch, OnTop, Jobs, Failing, Callbacks, NestedLoops, Stacks, Events, cableVars,
     engineVars, syncVars, halVars, clientVars
<1>8. Follows'
  BY <1>a, <1>b, <1>c, <1>d, <1>e DEF IInv, Follows, Gone, Inside, Held, Sync, Count,
     Dispatch, OnTop, Jobs, Failing, Callbacks, NestedLoops, Stacks, Events, cableVars,
     engineVars, syncVars, halVars, clientVars
<1> QED BY <1>1, <1>2, <1>3, <1>4, <1>5, <1>6, <1>7, <1>8 DEF IInv

LEMMA DetachReturnsStep ==
  ASSUME IInv, DetachReturns PROVE IInv'
<1>a. OnTop(stack, "detach", Tail(stack)) /\ ~Some(Tail(stack), Callbacks)
  <2>1. stack # <<>> /\ stack \in Stacks /\ Head(stack) = "detach"
    BY DEF DetachReturns, Inside, IInv, TypeOK, Stacks
  <2> QED BY <2>1, Popped DEF IInv, Callback
<1>b. /\ dev' = 0 /\ present' = FALSE /\ ~running
      /\ IF hotplugCb THEN OnTop(stack', "removed", Tail(stack)) ELSE stack' = Tail(stack)
  BY <1>a, Pushed DEF DetachReturns, CloseDevice, CallPlugIn, OnTop, Callbacks, IInv,
     Doom
<1>c. /\ Some(stack, Jobs) <=> Some(stack, {"start"}) \/ Some(stack, Failing)
      /\ Some(stack', Jobs) <=> Some(stack', {"start"}) \/ Some(stack', Failing)
  BY <1>a, <1>b, JobKinds DEF OnTop
<1>e. Tail(stack) # <<>> => /\ ~Some(Tail(Tail(stack)), Callbacks)
                           /\ Head(Tail(stack)) \notin Callbacks
  BY <1>a, NoCallback DEF OnTop
<1>d. gIOCount > 0 \/ Held => hotplugCb
  BY LifecycleAssumption DEF IInv, TypeOK, Setup, Sync, Held
<1>1. TypeOK'
  <2>1. stack' \in Seq(NestedLoops \cup Callbacks)
    BY <1>a, <1>b DEF OnTop, Stacks
  <2>2. dev' \in 0 .. MaxPlugs /\ present' \in BOOLEAN /\ running' \in BOOLEAN
    <3>1. /\ dev \in 0 .. MaxPlugs /\ plugs \in 0 .. MaxPlugs /\ 0 \in 0 .. MaxPlugs
          /\ present \in BOOLEAN /\ running \in BOOLEAN
      BY LifecycleAssumption DEF IInv, TypeOK
    <3> QED BY <1>b, <3>1 DEF DetachReturns
  <2>3. evq' \in Seq({Arrival(n) : n \in 1 .. MaxPlugs} \cup {Terminated})
    BY <1>a DEF TypeOK, IInv, DetachReturns
  <2> QED BY <2>1, <2>2, <2>3 DEF IInv, TypeOK, DetachReturns, cableVars, syncVars,
             halVars, clientVars
<1>2. Device'
  BY <1>a, <1>b, <1>c, <1>d DEF IInv, Device, TypeOK, DetachReturns, OnTop, Jobs,
     Failing, Callbacks, NestedLoops, Stacks, cableVars, engineVars, syncVars, halVars,
     clientVars
<1>3. Callback'
  BY <1>a, <1>b, <1>e DEF IInv, Callback, Device, TypeOK, OnTop, Inside, Callbacks,
     DetachReturns, cableVars, engineVars, syncVars, halVars, clientVars
<1>4. Setup'
  BY <1>a, <1>b, <1>c, <1>d DEF IInv, Setup, TypeOK, DetachReturns, OnTop, Jobs,
     Failing, Callbacks, NestedLoops, Stacks, cableVars, engineVars, syncVars, halVars,
     clientVars
<1>5. Doom'
  BY <1>a, <1>b, <1>c, <1>d DEF IInv, Doom, Doomed, Live, Device, TypeOK,
     DetachReturns, OnTop, Jobs, Failing, Callbacks, NestedLoops, Stacks, cableVars,
     engineVars, syncVars, halVars, clientVars
<1>6. Sync'
  BY <1>a, <1>b, <1>c, <1>d DEF IInv, Sync, Held, TypeOK, Setup, Count, DetachReturns,
     OnTop, Jobs, Failing, Callbacks, NestedLoops, Stacks, cableVars, engineVars,
     syncVars, halVars, clientVars
<1>7. Count'
  BY <1>a, <1>b, <1>c, <1>d DEF IInv, Count, Sync, Held, Active, TypeOK, DetachReturns,
     OnTop, Jobs, Failing, Callbacks, NestedLoops, Stacks, cableVars, engineVars,
     syncVars, halVars, clientVars
<1>8. Follows'
  BY <1>a, <1>b, <1>c, <1>d DEF IInv, Follows, Gone, Inside, Held, Sync, Count,
     DetachReturns, OnTop, Jobs, Failing, Callbacks, NestedLoops, Stacks, cableVars,
     engineVars, syncVars, halVars, clientVars
<1> QED BY <1>1, <1>2, <1>3, <1>4, <1>5, <1>6, <1>7, <1>8 DEF IInv

LEMMA StutterStep == ASSUME IInv, UNCHANGED vars PROVE IInv'
  BY DEF IInv, TypeOK, Device, Callback, Setup, Doom, Doomed, Live, Sync, Held, Count,
     Active,
         Follows, Gone, Inside, vars, cableVars, engineVars, syncVars, halVars, clientVars

LEMMA NextIInv == ASSUME IInv, [Next]_vars PROVE IInv'
<1>1. CASE Plug BY <1>1, PlugStep
<1>2. CASE Unplug BY <1>2, UnplugStep
<1>3. CASE UsbThread
  BY <1>3, BootStep, DispatchStep, DetachReturnsStep, hotplugStep, job_startStep,
     job_stopStep, JobReturnsStep DEF UsbThread
<1>4. CASE Initialize
  BY <1>4, CreatedStep, CheckStep, PublishStep DEF Initialize
<1>5. CASE \E c \in Clients : Call(c) \/ Client(c)
  BY <1>5, CallStep, StartStep, StopStep, ReturnStep DEF Client
<1>6. CASE UNCHANGED vars BY <1>6, StutterStep
<1> QED BY <1>1, <1>2, <1>3, <1>4, <1>5, <1>6 DEF Next

LEMMA Invariance == Spec => []IInv
<1>1. Init => IInv BY InitIInv
<1>2. IInv /\ [Next]_vars => IInv' BY NextIInv
<1> QED BY <1>1, <1>2, PTL DEF Spec

----------------------------------------------------------------------------
(* Every variable keeps its type; in particular the count stays between 0   *)
(* and the number of clients (UA4FX_StopIO guards its decrement).           *)
THEOREM TypeCorrect == Spec => []TypeOK
<1>1. IInv => TypeOK BY DEF IInv
<1> QED BY <1>1, Invariance, PTL

(* Clients are counted only on a published device: hotplug resets the count *)
(* and UA4FX_StartIO refuses without a device, whatever comes in between.   *)
THEOREM CountNeedsDeviceTheorem == Spec => []CountNeedsDevice
<1>1. IInv => CountNeedsDevice BY DEF IInv, Count, CountNeedsDevice
<1> QED BY <1>1, Invariance, PTL

(* The engine streams only into the device it holds open, also when a start *)
(* is dispatched in the run loop nested in device_detach.                   *)
THEOREM RunningNeedsDeviceTheorem == Spec => []RunningNeedsDevice
<1>1. IInv => RunningNeedsDevice BY DEF IInv, Device, RunningNeedsDevice
<1> QED BY <1>1, Invariance, PTL

(* The engine never streams for nobody: StopIO of the last client stops it, *)
(* a failed start or an unplug leaves it stopped.                           *)
THEOREM RunningIsCountedTheorem == Spec => []RunningIsCounted
<1>1. IInv => RunningIsCounted BY DEF IInv, Count, Held, RunningIsCounted
<1> QED BY <1>1, Invariance, PTL

(* No client of a failed start or of a device that left stays counted.      *)
THEOREM NoOvercountTheorem == Spec => []NoOvercount
<1>1. IInv => NoOvercount BY DEF IInv, Count, NoOvercount
<1> QED BY <1>1, Invariance, PTL

(* When every call, job and notification is done, the engine runs exactly   *)
(* if clients are counted, whatever was nested in what on the way there.    *)
THEOREM EngineFollowsCountTheorem == Spec => []EngineFollowsCount
<1>1. ASSUME IInv PROVE EngineFollowsCount
  <2>1. SUFFICES ASSUME Quiet PROVE running <=> gIOCount > 0
    BY DEF EngineFollowsCount
  <2>2. ~Held /\ ~Gone
    BY <2>1, EmptySome DEF Quiet, Idle, Held, Gone, Inside
  <2> QED BY <1>1, <2>2 DEF IInv, Count, Follows
<1> QED BY <1>1, Invariance, PTL

(* The plug-in publishes a device only while the engine holds it, except in *)
(* UA4FX_Initialize: the USB thread stays inside the callback of an arrival *)
(* until it is published, and cannot detach the device meanwhile.           *)
THEOREM GhostOnlyAtInitTheorem == Spec => GhostOnlyAtInit
<1> DEFINE A == ~present /\ ~gDevicePresent /\ gDevicePresent' => initPc' # initPc
<1>1. ASSUME IInv, Next PROVE A
  <2> SUFFICES ASSUME ~gDevicePresent, gDevicePresent', ~present PROVE initPc' # initPc
    OBVIOUS
  <2>1. PublishFound \/ hotplug
    <3>1. gDevicePresent' # gDevicePresent
      OBVIOUS
    <3> QED BY <1>1, <3>1 DEF Next, UsbThread, Initialize, Client, Plug, Unplug, Boot,
               Dispatch, DetachReturns, job_start, job_stop, JobReturns, Created,
               CheckPresent, Call, UA4FX_StartIO, UA4FX_StopIO, SyncReturns, halVars
  <2>2. CASE PublishFound
    BY <2>2 DEF PublishFound
  <2>3. CASE hotplug
    BY <1>1, <2>3 DEF hotplug, IInv, Callback, Device, TypeOK
  <2> QED BY <2>1, <2>2, <2>3
<1>2. IInv /\ [Next]_vars => [A]_vars
  BY <1>1
<1>3. IInv /\ [Next]_vars => [~present /\ ~gDevicePresent /\ gDevicePresent' => initPc' # initPc]_vars
  BY <1>2
<1> QED BY <1>3, Invariance, PTL DEF Spec, GhostOnlyAtInit

----------------------------------------------------------------------------
(* Until the device is unplugged, nothing of it is ever taken down: it is   *)
(* attached once, and the count is reset before anybody is counted.         *)
Whole ==
  NeverUnplugged =>
    /\ dev = 0 => ~gDevicePresent /\ initPc # "publish" /\ Active = {}
    /\ Held => Active = {}
    /\ gIOCount = Cardinality(Active)
    /\ \A c \in Clients : pc[c] = "StopIO" => active[c]

(* Before the device is unplugged there is no detach, so it stays open.     *)
LEMMA NoDetach ==
  ASSUME IInv, NeverUnplugged
  PROVE  ~Doomed /\ (evq # <<>> => Head(evq).kind # "terminated")
<1>1. ~Doomed
  BY DEF IInv, Doom, Device, Live, NeverUnplugged, TypeOK
<1>2. ASSUME evq # <<>>, Head(evq).kind = "terminated" PROVE FALSE
  <2>1. evq \in Seq(Events) /\ Len(evq) \in Nat
    BY DEF IInv, TypeOK, Events
  <2>2. evq[1] \in Events /\ 1 \in 1 .. Len(evq) /\ Head(evq) = evq[1]
    BY <1>2, <2>1
  <2>3. evq[1] = Terminated
    BY <1>2, <2>2 DEF Events, Arrival, Terminated
  <2>4. Some(evq, {Terminated})
    BY <2>2, <2>3 DEF Some
  <2> QED BY <1>1, <2>4 DEF Doomed
<1> QED BY <1>1, <1>2

LEMMA StepWhole ==
  ASSUME IInv, Whole, [Next]_vars PROVE Whole'
<1> SUFFICES ASSUME NeverUnplugged'
             PROVE  /\ dev' = 0 => ~gDevicePresent' /\ initPc' # "publish" /\ Active' = {}
                    /\ Held' => Active' = {}
                    /\ gIOCount' = Cardinality(Active')
                    /\ \A c \in Clients : pc'[c] = "StopIO" => active'[c]
  BY DEF Whole
<1>1. NeverUnplugged
  <2>1. CASE Plug \/ Unplug
    BY <2>1 DEF Plug, Unplug, NeverUnplugged, IInv, TypeOK, Device
  <2>2. CASE UNCHANGED cableVars
    BY <2>2 DEF cableVars, NeverUnplugged
  <2> QED BY <2>1, <2>2 DEF Next, UsbThread, Initialize, Client, Boot, Dispatch, DetachReturns,
             hotplug, job_start, job_stop, JobReturns, Created, CheckPresent, PublishFound,
             Call, UA4FX_StartIO, UA4FX_StopIO, SyncReturns, vars
<1>2. /\ dev = 0 => ~gDevicePresent /\ initPc # "publish" /\ Active = {}
      /\ Held => Active = {}
      /\ gIOCount = Cardinality(Active)
      /\ \A c \in Clients : pc[c] = "StopIO" => active[c]
  BY <1>1 DEF Whole
<1>3. /\ TypeOK /\ ~Doomed /\ (evq # <<>> => Head(evq).kind # "terminated")
      /\ present <=> dev # 0
      /\ Inside = "removed" => dev = 0
      /\ Inside = "arrived" => dev # 0
      /\ Held => gIOCount = 0
  BY <1>1, NoDetach DEF IInv, Device, Callback, Sync
<1>4. Cardinality({}) = 0
  BY FS_EmptySet
<1>5. CASE UNCHANGED <<gDevicePresent, initPc, active, gStateMutex, gIOCount, pc>>
           /\ (dev' = 0 => dev = 0)
  BY <1>2, <1>5 DEF Active, Held
<1>6. CASE Boot \/ Dispatch
  <2>1. dev' = 0 => dev = 0
    <3>1. ASSUME NEW n, device_attach(n) PROVE dev' = 0 => dev = 0
      BY <3>1 DEF device_attach, NotOpened, NoInterface, Opened
    <3> QED BY <1>3, <1>6, <3>1 DEF Boot, Dispatch
  <2> QED BY <1>5, <1>6, <2>1 DEF Boot, Dispatch, halVars, clientVars
<1>7. CASE DetachReturns
  <2>1. Some(stack, {"detach"})
    <3>1. stack # <<>> /\ stack \in Stacks
      BY <1>3, <1>7 DEF DetachReturns, Inside, TypeOK, Stacks
    <3> QED BY <1>7, <3>1, Popped DEF DetachReturns, Inside, OnTop
  <2> QED BY <1>3, <2>1 DEF Doomed
<1>8. CASE hotplug
  <2>1. CASE Inside = "arrived"
    BY <1>2, <1>3, <1>8, <2>1 DEF hotplug, Publish, Active, Held
  <2>2. CASE Inside = "removed"
    <3>1. dev' = 0 /\ Active = {} /\ initPc' # "publish" /\ ~gDevicePresent' /\ gIOCount' = 0
      BY <1>2, <1>3, <1>8, <2>2 DEF hotplug, RemovedCount
    <3>2. Active' = {}
      BY <1>8, <2>2 DEF hotplug, Active
    <3>3. \A c \in Clients : pc'[c] # "StopIO"
      BY <1>2, <1>8, <3>1 DEF hotplug, Active
    <3> QED BY <1>4, <3>1, <3>2, <3>3
  <2> QED BY <1>8, <2>1, <2>2 DEF hotplug, Callbacks
<1>9. CASE CheckPresent \/ PublishFound
  <2>1. /\ dev' = dev /\ present' = present /\ gIOCount' = gIOCount
        /\ gStateMutex' = gStateMutex /\ pc' = pc /\ active' = active
    BY <1>9 DEF CheckPresent, PublishFound, Publish, engineVars, halVars, clientVars
  <2>2. dev = 0 => gDevicePresent' = gDevicePresent /\ initPc' # "publish"
    <3>1. CASE CheckPresent
      BY <1>3, <3>1 DEF CheckPresent, halVars
    <3>2. CASE PublishFound
      BY <1>2, <3>2 DEF PublishFound
    <3> QED BY <1>9, <3>1, <3>2
  <2> QED BY <1>2, <2>1, <2>2 DEF Active, Held
<1>10. CASE \E c \in Clients : Call(c)
  BY <1>2, <1>3, <1>10 DEF Call, Active, Held, engineVars, halVars, TypeOK
<1>11. ASSUME NEW c \in Clients, UA4FX_StartIO(c) \/ UA4FX_StopIO(c) \/ SyncReturns(c)
       PROVE  /\ dev' = dev /\ gDevicePresent' = gDevicePresent /\ initPc' = initPc
              /\ \A b \in Clients \ {c} : pc'[b] = pc[b] /\ active'[b] = active[b]
              /\ pc'[c] # "StopIO"
  BY <1>3, <1>11 DEF UA4FX_StartIO, UA4FX_StopIO, SyncReturns, Refuse, Return, engine_sync,
     Uncount, CountStarted, engineVars, TypeOK
<1>12. IsFiniteSet(Active)
  BY LifecycleAssumption, FS_Subset DEF Active
<1>13. ASSUME NEW c \in Clients, UA4FX_StartIO(c) PROVE Whole'
  <2>1. CASE UNCHANGED <<gIOCount, active>> /\ ~Held'
    BY <1>2, <1>11, <1>13, <2>1 DEF Whole, Active
  <2>2. CASE UNCHANGED <<gIOCount, active>> /\ gIOCount = 0
    <3>1. Active = {}
      BY <1>2, <1>12, <2>2, FS_EmptySet
    <3> QED BY <1>2, <1>11, <1>13, <2>2, <3>1 DEF Whole, Active
  <2>3. CASE gIOCount' = gIOCount + 1 /\ active' = [active EXCEPT ![c] = TRUE]
             /\ gDevicePresent /\ ~Held'
    <3>1. c \notin Active /\ Active' = Active \cup {c}
      BY <1>3, <1>13, <2>3 DEF IInv, Count, UA4FX_StartIO, Active, TypeOK
    <3>2. Cardinality(Active') = Cardinality(Active) + 1
      BY <1>12, <3>1, FS_AddElement
    <3> QED BY <1>2, <1>11, <1>13, <2>3, <3>2 DEF Whole
  <2> QED BY <1>13, <2>1, <2>2, <2>3 DEF UA4FX_StartIO, Refuse, Return, engine_sync, Held
<1>14. ASSUME NEW c \in Clients, UA4FX_StopIO(c) PROVE Whole'
  <2>1. c \in Active /\ Active' = Active \ {c} /\ dev # 0
    BY <1>2, <1>3, <1>14 DEF UA4FX_StopIO, Active, TypeOK
  <2>2. Cardinality(Active') = Cardinality(Active) - 1 /\ IsFiniteSet(Active')
    BY <1>12, <2>1, FS_RemoveElement
  <2>3. gIOCount > 0 /\ gIOCount \in Nat /\ gIOCount' = gIOCount - 1 /\ (gIOCount = 1 \/ ~Held')
    <3>1. gIOCount # 0 /\ gIOCount \in Nat
      BY <1>2, <1>3, <1>12, <2>1, FS_EmptySet DEF TypeOK
    <3> QED BY <1>14, <3>1 DEF UA4FX_StopIO, Uncount, engine_sync, Held
  <2>4. Held' => Active' = {}
    BY <1>2, <2>2, <2>3, FS_EmptySet
  <2> QED BY <1>2, <1>11, <1>14, <2>1, <2>2, <2>3, <2>4 DEF Whole
<1>15. ASSUME NEW c \in Clients, SyncReturns(c) PROVE Whole'
  <2>1. Held /\ ~Held' /\ Active = {} /\ gIOCount = 0 /\ dev # 0
    BY <1>2, <1>3, <1>15, LifecycleAssumption DEF IInv, Sync, SyncReturns, Held
  <2>2. CASE gIOCount' = gIOCount /\ active' = active
    BY <1>2, <1>11, <1>15, <2>1, <2>2 DEF Whole, Active
  <2>3. CASE gIOCount' = 1 /\ active' = [active EXCEPT ![c] = TRUE]
    <3>1. Active' = {c}
      BY <1>3, <2>1, <2>3 DEF Active, TypeOK
    <3>2. Cardinality(Active') = 1
      BY <3>1, FS_Singleton
    <3> QED BY <1>2, <1>11, <1>15, <2>1, <2>3, <3>2 DEF Whole
  <2> QED BY <1>15, <2>2, <2>3 DEF SyncReturns, CountStarted
<1>16. CASE Plug \/ Unplug \/ job_start \/ job_stop \/ JobReturns \/ UNCHANGED vars
  BY <1>5, <1>16 DEF Plug, Unplug, job_start, job_stop, JobReturns, vars, engineVars, halVars,
     clientVars
<1>17. CASE Created
  BY <1>2, <1>17 DEF Created, engineVars, halVars, clientVars, Active, Held
<1>18. CASE \E c \in Clients : Client(c)
  BY <1>13, <1>14, <1>15, <1>18 DEF Client, Whole
<1> QED BY <1>6, <1>7, <1>8, <1>9, <1>10, <1>16, <1>17, <1>18 DEF Next, UsbThread, Initialize

(* Until the device is unplugged, gIOCount is the number of clients whose   *)
(* StartIO succeeded and who did not call StopIO, however their calls, the  *)
(* jobs and the arrival of the device interleave.                           *)
THEOREM CountIsActiveTheorem == Spec => []CountIsActive
<1>1. Init => Whole
  BY FS_EmptySet, LifecycleAssumption DEF Init, Whole, Active, Held
<1>2. IInv /\ Whole /\ [Next]_vars => Whole'
  BY StepWhole
<1>3. Whole => CountIsActive
  BY DEF Whole, CountIsActive
<1> QED BY <1>1, <1>2, <1>3, Invariance, PTL DEF Spec
=============================================================================
