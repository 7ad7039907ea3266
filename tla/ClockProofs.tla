---------------------------- MODULE ClockProofs ----------------------------
(* Proofs about Clock: its type invariant for either memory order, and, for *)
(* the program's order (x86), that a reader gets a whole pair, the last one *)
(* published, and never sees the timeline go back.                          *)
EXTENDS Clock, SequenceTheorems, TLAPS
----------------------------------------------------------------------------
Names == {"odd", "ztsSample", "ztsHost", "even", "stampPending", "fixed"}
Stores == [to : Names, v : Nat \cup (Nat \X Nat)]
StoreTyped(s) ==
  /\ s.to = "even" => s.v \in Nat \X Nat
  /\ s.to \in {"ztsSample", "ztsHost"} => s.v \in Nat
  /\ s.to = "stampPending" => s.v \in 0 .. 1
Program(p) == p \in Seq(Stores) /\ \A i \in DOMAIN p : StoreTyped(p[i])
Fields == {"s1", "ztsSample", "ztsHost", "seed", "s2"}

EngineTypes ==
  /\ ztsSeq \in Nat /\ ztsSample \in Nat /\ ztsHost \in Nat
  /\ seed \in 0 .. MaxStarts /\ nextZts \in 1 .. MaxStamps + 1 /\ stampPending \in 0 .. 2
  /\ running \in BOOLEAN /\ fixed \in BOOLEAN
  /\ start \in {"off", "begun", "waiting", "returned", "stopping"}
  /\ Program(prog) /\ current \in Nat \X Nat \X Nat
Kept == [s1 : Nat, ztsSample : Nat, ztsHost : Nat, seed : Nat, s2 : Nat, on : Nat]
ReaderTypes ==
  /\ todo \in [Readers -> Seq(Fields)] /\ \A r \in Readers : Len(todo[r]) <= 5
  /\ got \in [Readers -> Kept]
  /\ result \in [Readers -> Nat \X Nat \X Nat \X Nat]
Types == EngineTypes /\ ReaderTypes

(* What a publication still to be done looks like: each store and those     *)
(* that come after it.                                                      *)
After(i) ==
  /\ prog[i].to = "odd" => i + 1 \in DOMAIN prog /\ prog[i + 1].to = "ztsSample"
  /\ prog[i].to = "ztsSample" =>
       /\ i + 2 \in DOMAIN prog
       /\ prog[i + 1].to = "ztsHost" /\ prog[i + 2].to = "even"
       /\ prog[i + 2].v = <<prog[i].v, prog[i + 1].v>>
  /\ prog[i].to = "ztsHost" =>
       i + 1 \in DOMAIN prog /\ prog[i + 1].to \in {"odd", "even"}
  /\ prog[i].to = "even" /\ i + 1 \in DOMAIN prog =>
       prog[i + 1].to \in {"stampPending", "fixed"}
  /\ prog[i].to = "stampPending" /\ i + 1 \in DOMAIN prog =>
       /\ i + 2 \in DOMAIN prog /\ prog[i].v = 0
       /\ prog[i + 1].to = "ztsHost" /\ prog[i + 2].to = "odd"
  /\ prog[i].to = "fixed" => i = Len(prog)
Shape == \A i \in DOMAIN prog : After(i)

(* The counter is odd from the first store of a publication to its last.    *)
Within == /\ prog # <<>>
          /\ \/ prog[1].to \in {"ztsSample", "even"}
             \/ prog[1].to = "ztsHost" /\ prog[2].to = "even"
Parity ==
  /\ ztsSeq % 2 = (IF Within THEN 1 ELSE 0)
  /\ prog # <<>> /\ prog[1].to = "ztsHost" /\ prog[2].to = "even" =>
       prog[2].v = <<ztsSample, prog[1].v>>
  /\ prog # <<>> /\ prog[1].to = "even" => prog[1].v = <<ztsSample, ztsHost>>

(* The stamps of a start are counted once; nothing of its origin is left to *)
(* be done when that is fixed.                                              *)
Fixing ==
  /\ fixed => /\ stampPending = 0
              /\ \A i \in DOMAIN prog :
                   /\ prog[i].to \notin {"stampPending", "fixed"}
                   /\ prog[i].to = "ztsHost" => prog[i + 1].to = "even"
  /\ \A i \in DOMAIN prog : prog[i].to = "fixed" =>
       stampPending = 0 \/ \E j \in 1 .. i - 1 : prog[j].to = "stampPending" /\ prog[j].v = 0
AtFixed == fixed \/ (prog # <<>> /\ prog[1].to = "fixed")
Newest ==
  /\ AtFixed => /\ ztsSeq % 2 = 0 => current = <<ztsSample, ztsHost, seed>>
                /\ current[1] < nextZts /\ current[3] = seed
  /\ \A i \in DOMAIN prog : prog[i].to = "even" =>
       /\ prog[i].v[1] < nextZts
       /\ fixed => prog[i].v[1] > current[1] /\ prog[i].v[2] > current[2]
Engines ==
  /\ start \in {"off", "begun"} => ~running
  /\ start = "stopping" => ~running
  /\ start = "off" => prog = <<>>

(* A reader's loads so far: those of a whole pair, if the counter has not   *)
(* moved.                                                                   *)
Reading(r) ==
  LET t == todo[r]  g == got[r] IN
  /\ t \in {<<>>, <<"s2">>, <<"seed", "s2">>, <<"ztsHost", "seed", "s2">>,
            <<"ztsSample", "ztsHost", "seed", "s2">>, Loads}
  /\ g.on <= seed /\ (g.on = seed /\ g.on # 0 => fixed)
  /\ Len(t) \in 1 .. 4 =>
       /\ g.s1 <= ztsSeq /\ g.s1 % 2 = 0
       /\ g.s1 = ztsSeq /\ g.on = seed /\ g.on # 0 =>
            /\ Len(t) <= 3 => g.ztsSample = current[1]
            /\ Len(t) <= 2 => g.ztsHost = current[2]
            /\ Len(t) <= 1 => g.seed = current[3]
Returned(r) ==
  Sound(result[r]) =>
    /\ fixed /\ result[r][3] = seed
    /\ \/ result[r][1] = current[1] /\ result[r][2] = current[2]
       \/ result[r][1] < current[1] /\ result[r][2] < current[2]

Publishing == Shape /\ Parity /\ Fixing /\ Newest /\ Engines
----------------------------------------------------------------------------
(* What is left of a sequence without its i-th element.                     *)
LEMMA Dropped ==
  ASSUME NEW S, NEW s \in Seq(S), NEW i \in DOMAIN s
  PROVE  LET t == SubSeq(s, 1, i - 1) \o SubSeq(s, i + 1, Len(s)) IN
         /\ t \in Seq(S) /\ Len(t) = Len(s) - 1
         /\ \A j \in DOMAIN t : t[j] = IF j < i THEN s[j] ELSE s[j + 1]
<1> DEFINE u == SubSeq(s, 1, i - 1)
           v == SubSeq(s, i + 1, Len(s))
           t == u \o v
<1>1. /\ u \in Seq(S) /\ Len(u) = i - 1 /\ DOMAIN u = 1 .. i - 1
      /\ \A j \in 1 .. i - 1 : u[j] = s[j]
  OBVIOUS
<1>2. /\ v \in Seq(S) /\ Len(v) = Len(s) - i
      /\ \A j \in 1 .. Len(s) - i : v[j] = s[i + j]
  OBVIOUS
<1> HIDE DEF u, v
<1>4. /\ t \in Seq(S) /\ Len(t) = Len(u) + Len(v)
      /\ \A k \in 1 .. Len(u) + Len(v) : t[k] = IF k <= Len(u) THEN u[k] ELSE v[k - Len(u)]
  <2>1. u \in Seq(S) /\ v \in Seq(S)
    BY <1>1, <1>2
  <2>2. /\ u \o v \in Seq(S) /\ Len(u \o v) = Len(u) + Len(v)
        /\ \A k \in 1 .. Len(u) + Len(v) :
             (u \o v)[k] = IF k <= Len(u) THEN u[k] ELSE v[k - Len(u)]
    BY <2>1, ConcatProperties, Zenon
  <2> QED BY <2>2, Zenon
<1> HIDE DEF t
<1>5. Len(s) \in Nat /\ i \in 1 .. Len(s)
  OBVIOUS
<1>7. Len(t) = Len(s) - 1 /\ DOMAIN t = 1 .. Len(t)
  <2>1. t \in Seq(S) /\ Len(t) = (i - 1) + (Len(s) - i)
    BY <1>1, <1>2, <1>4
  <2> QED BY <1>5, <2>1
<1>6. ASSUME NEW j \in DOMAIN t
      PROVE  t[j] = IF j < i THEN s[j] ELSE s[j + 1]
  <2>1. t[j] = IF j <= i - 1 THEN u[j] ELSE v[j - (i - 1)]
    BY <1>1, <1>2, <1>5, <1>4, <1>7
  <2>2. CASE j < i
    BY <1>1, <1>5, <1>7, <2>1, <2>2
  <2>3. CASE ~(j < i)
    <3>1. j - (i - 1) \in 1 .. Len(s) - i /\ i + (j - (i - 1)) = j + 1 /\ ~(j <= i - 1)
      BY <1>5, <1>7, <2>3
    <3>2. t[j] = v[j - (i - 1)] /\ v[j - (i - 1)] = s[i + (j - (i - 1))]
      BY <1>2, <2>1, <3>1
    <3> QED BY <2>3, <3>1, <3>2
  <2> QED BY <2>2, <2>3
<1> QED BY <1>4, <1>6, <1>7 DEF t, u, v

(* The stores of a publication, one after the other.                        *)
LEMMA Publication ==
  ASSUME NEW a \in Nat, NEW b \in Nat
  PROVE  LET p == zts_publish(a, b) IN
         /\ p \in Seq(Stores) /\ Len(p) = 4
         /\ p[1] = Store("odd", 1) /\ p[2] = Store("ztsSample", a)
         /\ p[3] = Store("ztsHost", b) /\ p[4] = Store("even", <<a, b>>)
<1>1. /\ Store("odd", 1) \in Stores /\ Store("ztsSample", a) \in Stores
      /\ Store("ztsHost", b) \in Stores /\ Store("even", <<a, b>>) \in Stores
  BY DEF Store, Stores, Names
<1> QED BY <1>1 DEF zts_publish

LEMMA FirstPublication ==
  ASSUME NEW b \in Nat
  PROVE  LET p == Origin(b) IN
         /\ p \in Seq(Stores) /\ Len(p) = 5
         /\ p[1] = Store("ztsHost", 0) /\ p[2] = Store("odd", 1)
         /\ p[3] = Store("ztsSample", 0) /\ p[4] = Store("ztsHost", b)
         /\ p[5] = Store("even", <<0, b>>)
<1> DEFINE q == zts_publish(0, b)
<1>1. Store("ztsHost", 0) \in Stores
  BY DEF Store, Stores, Names
<1>2. /\ q \in Seq(Stores) /\ Len(q) = 4
      /\ q[1] = Store("odd", 1) /\ q[2] = Store("ztsSample", 0)
      /\ q[3] = Store("ztsHost", b) /\ q[4] = Store("even", <<0, b>>)
  BY Publication
<1> DEFINE z == <<Store("ztsHost", 0)>>
           p == z \o q
<1>3. Origin(b) = p
  BY DEF Origin
<1>4. z \in Seq(Stores) /\ Len(z) = 1 /\ z[1] = Store("ztsHost", 0)
  BY <1>1
<1> HIDE DEF q, z
<1>5. /\ p \in Seq(Stores) /\ Len(p) = Len(z) + Len(q)
      /\ \A i \in 1 .. Len(z) + Len(q) : p[i] = IF i <= Len(z) THEN z[i] ELSE q[i - Len(z)]
  <2>1. z \in Seq(Stores) /\ q \in Seq(Stores)
    BY <1>2, <1>4
  <2> QED BY <2>1, ConcatProperties, Zenon
<1> HIDE DEF p
<1>6. /\ Len(p) = 5
      /\ p[1] = z[1] /\ p[2] = q[1] /\ p[3] = q[2] /\ p[4] = q[3] /\ p[5] = q[4]
  BY <1>2, <1>4, <1>5
<1> QED BY <1>2, <1>3, <1>4, <1>5, <1>6

(* The stores that a counted stamp leaves to do.                            *)
LEMMA CountedDown ==
  ASSUME NEW h \in Nat, stampPending \in 1 .. 2
  PROVE  LET q == StampSeen(h) IN
         /\ q \in Seq(Stores)
         /\ q[1] = Store("stampPending", stampPending - 1)
         /\ stampPending = 2 => Len(q) = 1
         /\ stampPending = 1 =>
              /\ Len(q) = 7 /\ q[2] = Store("ztsHost", 0) /\ q[3] = Store("odd", 1)
              /\ q[4] = Store("ztsSample", 0) /\ q[5] = Store("ztsHost", h)
              /\ q[6] = Store("even", <<0, h>>) /\ q[7] = Store("fixed", 1)
<1> DEFINE s == <<Store("stampPending", stampPending - 1)>>
           o == Origin(h)
           f == <<Store("fixed", 1)>>
           of == o \o f
           sof == s \o of
<1>1. s \in Seq(Stores) /\ Len(s) = 1 /\ s[1] = Store("stampPending", stampPending - 1)
  BY DEF Store, Stores, Names
<1>2. f \in Seq(Stores) /\ Len(f) = 1 /\ f[1] = Store("fixed", 1)
  BY DEF Store, Stores, Names
<1>3. /\ o \in Seq(Stores) /\ Len(o) = 5
      /\ o[1] = Store("ztsHost", 0) /\ o[2] = Store("odd", 1)
      /\ o[3] = Store("ztsSample", 0) /\ o[4] = Store("ztsHost", h)
      /\ o[5] = Store("even", <<0, h>>)
  BY FirstPublication
<1>4. CASE stampPending = 2
  <2>1. StampSeen(h) = s \o <<>>
    BY <1>4 DEF StampSeen
  <2>2. StampSeen(h) = s
    BY <1>1, <2>1
  <2> QED BY <1>1, <1>4, <2>2
<1>5. CASE stampPending = 1
  <2>1. StampSeen(h) = sof
    BY <1>5 DEF StampSeen
  <2> HIDE DEF s, o, f
  <2>2. s \in Seq(Stores) /\ o \in Seq(Stores) /\ f \in Seq(Stores)
    BY <1>1, <1>2, <1>3
  <2>3. /\ of \in Seq(Stores) /\ Len(of) = Len(o) + Len(f)
        /\ \A i \in 1 .. Len(o) + Len(f) : of[i] = IF i <= Len(o) THEN o[i] ELSE f[i - Len(o)]
    BY <2>2, ConcatProperties, Zenon
  <2> HIDE DEF of
  <2>4. /\ sof \in Seq(Stores) /\ Len(sof) = Len(s) + Len(of)
        /\ \A i \in 1 .. Len(s) + Len(of) : sof[i] = IF i <= Len(s) THEN s[i] ELSE of[i - Len(s)]
    <3>1. s \in Seq(Stores) /\ of \in Seq(Stores)
      BY <2>2, <2>3
    <3> QED BY <3>1, ConcatProperties, Zenon
  <2> HIDE DEF sof
  <2>5. /\ Len(of) = 6 /\ of[1] = o[1] /\ of[2] = o[2] /\ of[3] = o[3] /\ of[4] = o[4]
        /\ of[5] = o[5] /\ of[6] = f[1]
    BY <1>2, <1>3, <2>3
  <2>6. /\ Len(sof) = 7 /\ sof[1] = s[1] /\ sof[2] = of[1] /\ sof[3] = of[2]
        /\ sof[4] = of[3] /\ sof[5] = of[4] /\ sof[6] = of[5] /\ sof[7] = of[6]
    BY <1>1, <2>4, <2>5
  <2> QED BY <1>1, <1>2, <1>3, <1>5, <2>1, <2>4, <2>5, <2>6
<1> QED BY <1>4, <1>5

(* The stores that a harvested frame leaves to do: the first d publish, the *)
(* other n are those of its stamp.                                          *)
Leaves(d, n, h) ==
  /\ prog' \in Seq(Stores) /\ Len(prog') = d + n
  /\ d = 4 => /\ nextZts <= MaxStamps /\ nextZts' = nextZts + 1
              /\ prog'[1] = Store("odd", 1) /\ prog'[2] = Store("ztsSample", nextZts)
              /\ prog'[3] = Store("ztsHost", Later(h))
              /\ prog'[4] = Store("even", <<nextZts, Later(h)>>)
  /\ d = 0 => nextZts' = nextZts
  /\ n # 0 => stampPending > 0 /\ prog'[d + 1] = Store("stampPending", stampPending - 1)
  /\ n = 1 => stampPending = 2
  /\ n = 7 => /\ stampPending = 1
              /\ prog'[d + 2] = Store("ztsHost", 0) /\ prog'[d + 3] = Store("odd", 1)
              /\ prog'[d + 4] = Store("ztsSample", 0) /\ prog'[d + 5] = Store("ztsHost", h)
              /\ prog'[d + 6] = Store("even", <<0, h>>) /\ prog'[d + 7] = Store("fixed", 1)
LEMMA Harvested ==
  ASSUME Types, harvest
  PROVE  \E d \in {0, 4}, n \in {0, 1, 7}, h \in Hosts : Leaves(d, n, h)
<1>1. PICK h \in Hosts, passes \in BOOLEAN, stamped \in BOOLEAN :
        /\ passes => nextZts <= MaxStamps
        /\ prog' = (IF passes THEN clock_advance(h) ELSE <<>>)
                   \o (IF Counts(stamped) THEN StampSeen(h) ELSE <<>>)
        /\ nextZts' = IF passes THEN nextZts + 1 ELSE nextZts
  BY Zenon DEF harvest
<1> DEFINE P == IF passes THEN clock_advance(h) ELSE <<>>
           Q == IF Counts(stamped) THEN StampSeen(h) ELSE <<>>
           d == Len(P)
           n == Len(Q)
<1>2. h \in Nat /\ nextZts \in Nat /\ Later(h) \in Nat /\ stampPending \in 0 .. 2
  BY ClockAssumption DEF Types, EngineTypes, Later
<1>3. /\ P \in Seq(Stores) /\ d \in {0, 4}
      /\ d = 4 => /\ passes
                  /\ P[1] = Store("odd", 1) /\ P[2] = Store("ztsSample", nextZts)
                  /\ P[3] = Store("ztsHost", Later(h))
                  /\ P[4] = Store("even", <<nextZts, Later(h)>>)
      /\ d = 0 => ~passes
  <2>1. CASE passes
    BY <1>2, <2>1, Publication DEF clock_advance
  <2>2. CASE ~passes
    BY <2>2
  <2> QED BY <2>1, <2>2
<1>4. /\ Q \in Seq(Stores) /\ n \in {0, 1, 7}
      /\ n # 0 => stampPending > 0 /\ Q[1] = Store("stampPending", stampPending - 1)
      /\ n = 1 => stampPending = 2
      /\ n = 7 => /\ stampPending = 1
                  /\ Q[2] = Store("ztsHost", 0) /\ Q[3] = Store("odd", 1)
                  /\ Q[4] = Store("ztsSample", 0) /\ Q[5] = Store("ztsHost", h)
                  /\ Q[6] = Store("even", <<0, h>>) /\ Q[7] = Store("fixed", 1)
  <2>1. CASE Counts(stamped)
    <3>1. stampPending \in 1 .. 2
      BY <1>2, <2>1 DEF Counts
    <3>2. Q = StampSeen(h)
      BY <2>1
    <3> HIDE DEF Q
    <3> QED BY <1>2, <3>1, <3>2, CountedDown
  <2>2. CASE ~Counts(stamped)
    BY <2>2
  <2> QED BY <2>1, <2>2
<1>5. prog' = P \o Q
  BY <1>1
<1> HIDE DEF P, Q
<1>6. /\ P \o Q \in Seq(Stores) /\ Len(P \o Q) = Len(P) + Len(Q)
      /\ \A i \in 1 .. Len(P) + Len(Q) :
           (P \o Q)[i] = IF i <= Len(P) THEN P[i] ELSE Q[i - Len(P)]
  <2>1. P \in Seq(Stores) /\ Q \in Seq(Stores)
    BY <1>3, <1>4
  <2> QED BY <2>1, ConcatProperties, Zenon
<1>7. /\ prog' \in Seq(Stores) /\ Len(prog') = d + n
      /\ \A i \in 1 .. d + n : prog'[i] = IF i <= d THEN P[i] ELSE Q[i - d]
  BY <1>5, <1>6, Zenon
<1> HIDE DEF d, n
<1>8. d = 4 => prog'[1] = P[1] /\ prog'[2] = P[2] /\ prog'[3] = P[3] /\ prog'[4] = P[4]
  BY <1>3, <1>4, <1>7
<1>9. n # 0 => prog'[d + 1] = Q[1]
  BY <1>3, <1>4, <1>7
<1>10. n = 7 => /\ prog'[d + 2] = Q[2] /\ prog'[d + 3] = Q[3] /\ prog'[d + 4] = Q[4]
                /\ prog'[d + 5] = Q[5] /\ prog'[d + 6] = Q[6] /\ prog'[d + 7] = Q[7]
  BY <1>3, <1>4, <1>7
<1>11. d \in {0, 4} /\ n \in {0, 1, 7} /\ h \in Hosts
  BY <1>3, <1>4
<1> USE <1>11
<1> WITNESS d \in {0, 4}, n \in {0, 1, 7}, h \in Hosts
<1> QED BY <1>1, <1>3, <1>4, <1>7, <1>8, <1>9, <1>10 DEF Leaves
----------------------------------------------------------------------------
(* Types, for either memory order.                                          *)
LEMMA TypesGiveTypeOK == Types => TypeOK
<1> SUFFICES ASSUME Types PROVE TypeOK
  OBVIOUS
<1>1. Len(Loads) = 5
  BY DEF Loads
<1>2. \A r \in Readers : got[r].s1 \in Nat /\ Len(todo[r]) <= Len(Loads)
  BY <1>1 DEF Types, ReaderTypes, Kept
<1> QED BY <1>2 DEF Types, EngineTypes, TypeOK

LEMMA InitTypes == Init => Types
<1> SUFFICES ASSUME Init PROVE Types
  OBVIOUS
<1>1. Program(<<>>)
  BY DEF Program
<1>2. EngineTypes
  <2>1. Program(prog)
    BY <1>1 DEF Init
  <2>2. 0 \in 0 .. MaxStarts /\ 1 \in 1 .. MaxStamps + 1
    BY ClockAssumption
  <2>3. seed \in 0 .. MaxStarts /\ nextZts \in 1 .. MaxStamps + 1 /\ stampPending \in 0 .. 2
    BY <2>2 DEF Init
  <2>4. current \in Nat \X Nat \X Nat
    BY DEF Init
  <2>5. /\ ztsSeq \in Nat /\ ztsSample \in Nat /\ ztsHost \in Nat
        /\ running \in BOOLEAN /\ fixed \in BOOLEAN /\ start = "off"
    BY DEF Init
  <2> QED BY <2>1, <2>3, <2>4, <2>5 DEF EngineTypes
<1>3. Nothing \in Kept
  BY DEF Nothing, Kept
<1>4. ReaderTypes
  BY <1>3 DEF Init, ReaderTypes
<1> QED BY <1>2, <1>4 DEF Types

LEMMA HarvestTypes == Types /\ harvest => Types'
<1> SUFFICES ASSUME Types, harvest PROVE Types'
  OBVIOUS
<1>1. PICK d \in {0, 4}, n \in {0, 1, 7}, h \in Hosts : Leaves(d, n, h)
  BY Harvested
<1>2. h \in Nat /\ nextZts \in 1 .. MaxStamps + 1 /\ Later(h) \in Nat /\ stampPending \in 0 .. 2
  BY ClockAssumption DEF Types, EngineTypes, Later
<1>3. nextZts' \in 1 .. MaxStamps + 1
  BY <1>1, <1>2, ClockAssumption DEF Leaves
<1>4. Program(prog')
  <2>1. ASSUME NEW i \in DOMAIN prog' PROVE StoreTyped(prog'[i])
    <3>1. Len(prog') = d + n /\ i \in 1 .. d + n
      BY <1>1 DEF Leaves
    <3>2. CASE i <= d
      <4>1. d = 4 /\ i \in {1, 2, 3, 4}
        BY <3>1, <3>2
      <4> QED BY <1>1, <1>2, <4>1 DEF Leaves, Store, StoreTyped
    <3>3. CASE i > d
      <4>1. n # 0 /\ (i = d + 1 \/ n = 7)
        BY <3>1, <3>3
      <4>2. CASE i = d + 1
        <5>1. stampPending - 1 \in 0 .. 1
          BY <1>1, <1>2, <4>1 DEF Leaves
        <5> QED BY <1>1, <4>1, <4>2, <5>1 DEF Leaves, Store, StoreTyped
      <4>3. CASE i # d + 1
        <5>1. n = 7 /\ i \in {d + 2, d + 3, d + 4, d + 5, d + 6, d + 7}
          BY <3>1, <3>3, <4>1, <4>3
        <5> QED BY <1>1, <1>2, <5>1 DEF Leaves, Store, StoreTyped
      <4> QED BY <4>2, <4>3
    <3> QED BY <3>1, <3>2, <3>3
  <2> QED BY <1>1, <2>1 DEF Leaves, Program
<1>5. EngineTypes'
  BY <1>3, <1>4 DEF harvest, memory, history, Types, EngineTypes
<1>6. ReaderTypes'
  BY DEF harvest, readerVars, Types, ReaderTypes
<1> QED BY <1>5, <1>6 DEF Types

LEMMA StoreTypes == Types /\ StoreStep => Types'
<1> SUFFICES ASSUME Types, StoreStep PROVE Types'
  OBVIOUS
<1>1. PICK i \in DOMAIN prog : StoreStep!(i)
  BY Zenon DEF StoreStep
<1>2. prog \in Seq(Stores) /\ prog[i] \in Stores /\ StoreTyped(prog[i])
  BY DEF Types, EngineTypes, Program
<1>3. Program(prog')
  <2>1. /\ prog' \in Seq(Stores) /\ Len(prog') = Len(prog) - 1
        /\ \A j \in DOMAIN prog' : prog'[j] = IF j < i THEN prog[j] ELSE prog[j + 1]
    BY <1>1, <1>2, Dropped, Zenon
  <2>2. ASSUME NEW j \in DOMAIN prog' PROVE StoreTyped(prog'[j])
    <3>1. j \in DOMAIN prog /\ j + 1 \in DOMAIN prog
      BY <1>2, <2>1
    <3> QED BY <2>1, <3>1 DEF Types, EngineTypes, Program
  <2> QED BY <2>1, <2>2 DEF Program
<1>4. /\ ztsSeq' \in Nat /\ ztsSample' \in Nat /\ ztsHost' \in Nat
      /\ stampPending' \in 0 .. 2
  BY <1>1, <1>2 DEF Put, StoreTyped, Types, EngineTypes
<1>5. current' \in Nat \X Nat \X Nat
  BY <1>1, <1>2 DEF StoreTyped, Types, EngineTypes
<1>6. fixed' \in BOOLEAN
  BY <1>1 DEF Types, EngineTypes
<1>7. EngineTypes'
  BY <1>1, <1>3, <1>4, <1>5, <1>6 DEF Types, EngineTypes
<1>8. ReaderTypes'
  BY <1>1 DEF readerVars, Types, ReaderTypes
<1> QED BY <1>7, <1>8 DEF Types

LEMMA StartTypes == Types /\ job_start => Types'
<1> SUFFICES ASSUME Types, job_start PROVE Types'
  OBVIOUS
<1>1. PICK h \in Hosts : prog' = Origin(h)
  BY Zenon DEF job_start
<1>2. Program(prog')
  <2>1. h \in Nat
    BY ClockAssumption
  <2> DEFINE p == Origin(h)
  <2>2. /\ p \in Seq(Stores) /\ Len(p) = 5
        /\ p[1] = Store("ztsHost", 0) /\ p[2] = Store("odd", 1)
        /\ p[3] = Store("ztsSample", 0) /\ p[4] = Store("ztsHost", h)
        /\ p[5] = Store("even", <<0, h>>)
    BY <2>1, FirstPublication
  <2> HIDE DEF p
  <2>3. \A i \in DOMAIN p : i \in {1, 2, 3, 4, 5}
    BY <2>2
  <2>4. \A i \in DOMAIN p : StoreTyped(p[i])
    BY <2>1, <2>2, <2>3 DEF Store, StoreTyped
  <2> QED BY <1>1, <2>2, <2>4 DEF Program, p
<1>3. EngineTypes'
  <2>1. seed + 1 \in 0 .. MaxStarts /\ 1 \in 1 .. MaxStamps + 1
    BY ClockAssumption DEF job_start, Types, EngineTypes
  <2>2. seed' \in 0 .. MaxStarts /\ nextZts' \in 1 .. MaxStamps + 1 /\ stampPending' \in 0 .. 2
    BY <2>1 DEF job_start
  <2> QED BY <1>2, <2>2 DEF job_start, memory, Types, EngineTypes
<1>4. ReaderTypes'
  BY DEF job_start, Types, ReaderTypes
<1> QED BY <1>3, <1>4 DEF Types

LEMMA RunTypes == Types /\ (Run \/ StartReturns \/ job_stop \/ Joined) => Types'
<1> SUFFICES ASSUME Types, Run \/ StartReturns \/ job_stop \/ Joined PROVE Types'
  OBVIOUS
<1> USE DEF memory, readerVars, history, Types, EngineTypes, ReaderTypes
<1>1. CASE Run
  BY <1>1 DEF Run
<1>2. CASE StartReturns
  BY <1>2 DEF StartReturns
<1>3. CASE job_stop
  BY <1>3 DEF job_stop
<1>4. CASE Joined
  BY <1>4 DEF Joined, Join
<1> QED BY <1>1, <1>2, <1>3, <1>4

LEMMA ReadTypes ==
  ASSUME Types, NEW r \in Readers, GetZeroTimeStamp(r) \/ Load(r) \/ LastLoad(r)
  PROVE  Types'
<1>1. EngineTypes'
  <2>1. UNCHANGED others
    BY DEF GetZeroTimeStamp, Load, LastLoad
  <2> QED BY <2>1 DEF others, memory, history, Types, EngineTypes
<1>2. /\ ztsSeq \in Nat /\ ztsSample \in Nat /\ ztsHost \in Nat /\ seed \in Nat
      /\ got \in [Readers -> Kept] /\ got[r] \in Kept /\ todo \in [Readers -> Seq(Fields)]
      /\ todo[r] \in Seq(Fields) /\ Len(todo[r]) <= 5
      /\ result \in [Readers -> Nat \X Nat \X Nat \X Nat]
  BY DEF Types, EngineTypes, ReaderTypes
<1>3. Loads \in Seq(Fields) /\ Len(Loads) <= 5
  <2>1. Loads \in Seq(Fields)
    BY DEF Loads, Fields
  <2>2. Len(Loads) = 5
    BY DEF Loads
  <2> QED BY <2>1, <2>2
<1>4. ASSUME NEW v \in Fields PROVE Value(v) \in Nat
  BY <1>2 DEF Value, Fields
<1>5. CASE GetZeroTimeStamp(r)
  <2>1. todo' \in [Readers -> Seq(Fields)] /\ \A q \in Readers : Len(todo'[q]) <= 5
    <3>1. todo' = [todo EXCEPT ![r] = Loads]
      BY <1>5 DEF GetZeroTimeStamp
    <3>2. todo' \in [Readers -> Seq(Fields)]
      BY <1>2, <1>3, <3>1
    <3>3. \A q \in Readers : todo'[q] = IF q = r THEN Loads ELSE todo[q]
      BY <1>2, <3>1
    <3>4. \A q \in Readers : Len(todo'[q]) <= 5
      BY <1>3, <3>3 DEF Types, ReaderTypes
    <3> QED BY <3>2, <3>4
  <2>2. got' \in [Readers -> Kept]
    BY <1>2, <1>5 DEF GetZeroTimeStamp, Kept
  <2> QED BY <1>1, <1>2, <1>5, <2>1, <2>2 DEF GetZeroTimeStamp, Types, ReaderTypes
<1>6. CASE Load(r)
  <2>1. PICK i \in DOMAIN todo[r] : Load(r)!(i)
    BY <1>6, Zenon DEF Load
  <2> DEFINE t == SubSeq(todo[r], 1, i - 1) \o SubSeq(todo[r], i + 1, Len(todo[r]))
             v == todo[r][i]
  <2>2. t \in Seq(Fields) /\ Len(t) = Len(todo[r]) - 1
    BY <1>2, Dropped, Zenon
  <2>3. v \in Fields /\ Value(v) \in Nat
    BY <1>2, <1>4
  <2>4. /\ todo' = [todo EXCEPT ![r] = t] /\ got' = [got EXCEPT ![r][v] = Value(v)]
        /\ result' = result
    BY <2>1
  <2> HIDE DEF t, v
  <2>5. todo' \in [Readers -> Seq(Fields)] /\ \A q \in Readers : Len(todo'[q]) <= 5
    BY <1>2, <2>2, <2>4 DEF Types, ReaderTypes
  <2>6. got' \in [Readers -> Kept]
    BY <1>2, <2>3, <2>4 DEF Kept, Fields
  <2> QED BY <1>1, <1>2, <2>4, <2>5, <2>6 DEF Types, ReaderTypes
<1>7. CASE LastLoad(r)
  <2> DEFINE v == Head(todo[r])
             g == [got[r] EXCEPT ![v] = Value(v)]
             again == "s2" \in {Loads[i] : i \in DOMAIN Loads} /\ g.s1 # g.s2
             new == <<g.ztsSample, g.ztsHost, g.seed, g.on>>
             keep == [Nothing EXCEPT !.on = IF again THEN g.on ELSE 0]
  <2>1. v \in Fields /\ Value(v) \in Nat
    <3>1. Len(todo[r]) = 1
      BY <1>7 DEF LastLoad
    <3>2. todo[r] \in Seq(Fields) /\ todo[r] # <<>>
      <4>1. todo[r] \in Seq(Fields)
        BY <1>2
      <4>2. todo[r] # <<>>
        BY <3>1
      <4> QED BY <4>1, <4>2
    <3>3. v \in Fields
      BY <3>2, HeadTailProperties, Zenon
    <3> QED BY <1>4, <3>3
  <2>2. g \in Kept
    BY <1>2, <2>1 DEF Kept, Fields
  <2>3. /\ todo' = [todo EXCEPT ![r] = IF again THEN Loads ELSE <<>>]
        /\ result' = IF again THEN result ELSE [result EXCEPT ![r] = new]
        /\ got' = [got EXCEPT ![r] = keep]
    BY <1>7 DEF LastLoad
  <2> HIDE DEF v, g, again
  <2>4. new \in Nat \X Nat \X Nat \X Nat /\ keep \in Kept
    BY <2>2 DEF Kept, Nothing
  <2> HIDE DEF new, keep
  <2>5. todo' \in [Readers -> Seq(Fields)] /\ \A q \in Readers : Len(todo'[q]) <= 5
    <3> DEFINE t == IF again THEN Loads ELSE <<>>
    <3>1. t \in Seq(Fields) /\ Len(t) <= 5
      <4>1. CASE again
        BY <1>3, <4>1
      <4>2. CASE ~again
        BY <4>2
      <4> QED BY <4>1, <4>2
    <3>2. todo' = [todo EXCEPT ![r] = t]
      BY <2>3
    <3> HIDE DEF t
    <3>3. todo' \in [Readers -> Seq(Fields)]
      BY <1>2, <3>1, <3>2
    <3>4. \A q \in Readers : Len(todo'[q]) <= 5
      BY <1>2, <3>1, <3>2 DEF Types, ReaderTypes
    <3> QED BY <3>3, <3>4
  <2>6. got' \in [Readers -> Kept] /\ result' \in [Readers -> Nat \X Nat \X Nat \X Nat]
    BY <1>2, <2>3, <2>4
  <2> QED BY <1>1, <2>5, <2>6 DEF Types, ReaderTypes
<1> QED BY <1>5, <1>6, <1>7

LEMMA StepTypes == Types /\ [Next]_vars => Types'
<1> SUFFICES ASSUME Types, [Next]_vars PROVE Types'
  OBVIOUS
<1>1. CASE Engine
  BY <1>1, HarvestTypes, StoreTypes, StartTypes, RunTypes DEF Engine
<1>2. CASE \E r \in Readers : GetZeroTimeStamp(r) \/ Reader(r)
  BY <1>2, ReadTypes DEF Reader
<1>3. CASE UNCHANGED vars
  BY <1>3 DEF vars, memory, readerVars, history, Types, EngineTypes, ReaderTypes
<1> QED BY <1>1, <1>2, <1>3 DEF Next

(* UA4FX_USB.c:188-200: the types of the clock's fields and of what readers *)
(* hold, whichever order the machine gives to plain stores and loads.       *)
THEOREM TypeCorrect == Spec => []TypeOK
<1>1. Spec => []Types
  BY InitTypes, StepTypes, PTL DEF Spec
<1>2. []Types => []TypeOK
  BY TypesGiveTypeOK, PTL
<1> QED BY <1>1, <1>2, PTL
----------------------------------------------------------------------------
(* With stores in the program's order, the first one left is the next done. *)
Done ==
  /\ Len(prog) \in Nat \ {0} /\ DOMAIN prog = 1 .. Len(prog)
  /\ Len(prog') = Len(prog) - 1 /\ DOMAIN prog' = 1 .. Len(prog) - 1
  /\ \A j \in 1 .. Len(prog) - 1 : prog'[j] = prog[j + 1]
  /\ (prog' = <<>>) = (Len(prog) = 1)
  /\ \A j \in 1 .. Len(prog) : prog[j].to \in Names /\ StoreTyped(prog[j])
  /\ StoreStep!(1)
LEMMA InOrder ==
  ASSUME Types, WEAK = FALSE, StoreStep
  PROVE  Done
<1>1. PICK i \in DOMAIN prog : StoreStep!(i)
  BY Zenon DEF StoreStep
<1>2. prog \in Seq(Stores) /\ \A j \in DOMAIN prog : StoreTyped(prog[j])
  BY DEF Types, EngineTypes, Program
<1>3. Len(prog) \in Nat \ {0} /\ DOMAIN prog = 1 .. Len(prog)
  BY <1>2
<1>4. i = 1
  <2>1. Overtakes(i)
    BY <1>1
  <2> QED BY <1>3, <2>1, WEAK = FALSE DEF Overtakes
<1>5. StoreStep!(1)
  BY <1>1, <1>4, Zenon
<1>6. /\ prog' \in Seq(Stores) /\ Len(prog') = Len(prog) - 1
      /\ \A j \in DOMAIN prog' : prog'[j] = IF j < 1 THEN prog[j] ELSE prog[j + 1]
  <2>1. prog' = SubSeq(prog, 1, 1 - 1) \o SubSeq(prog, 1 + 1, Len(prog))
    BY <1>5
  <2>2. 1 \in DOMAIN prog
    BY <1>3
  <2> QED BY <1>2, <2>1, <2>2, Dropped, Zenon
<1>7. DOMAIN prog' = 1 .. Len(prog) - 1
  BY <1>6
<1>8. \A j \in 1 .. Len(prog) - 1 : prog'[j] = prog[j + 1]
  BY <1>3, <1>6, <1>7
<1>9. (prog' = <<>>) = (Len(prog) = 1)
  BY <1>3, <1>6
<1>10. \A j \in 1 .. Len(prog) : prog[j].to \in Names /\ StoreTyped(prog[j])
  <2>1. \A j \in 1 .. Len(prog) : prog[j] \in Stores /\ StoreTyped(prog[j])
    BY <1>2, <1>3
  <2> QED BY <2>1 DEF Stores
<1> QED BY <1>3, <1>5, <1>6, <1>7, <1>8, <1>9, <1>10 DEF Done

LEMMA StoreShape == Done /\ Shape => Shape'
<1> SUFFICES ASSUME Done, Shape PROVE Shape'
  OBVIOUS
<1>1. SUFFICES ASSUME NEW i \in DOMAIN prog' PROVE After(i)'
  BY DEF Shape
<1>2. i \in 1 .. Len(prog) - 1 /\ i + 1 \in 1 .. Len(prog) /\ prog'[i] = prog[i + 1]
  BY DEF Done
<1>3. After(i + 1)
  BY <1>2 DEF Shape, Done
<1>4. /\ i + 1 + 1 \in 1 .. Len(prog) => i + 1 \in DOMAIN prog' /\ prog'[i + 1] = prog[i + 1 + 1]
      /\ i + 1 + 2 \in 1 .. Len(prog) =>
           /\ i + 1 \in DOMAIN prog' /\ prog'[i + 1] = prog[i + 1 + 1]
           /\ i + 2 \in DOMAIN prog' /\ prog'[i + 2] = prog[i + 1 + 2]
      /\ i + 1 \in DOMAIN prog' => i + 1 + 1 \in 1 .. Len(prog) 
  BY <1>2 DEF Done
<1>5. i + 1 = Len(prog) => i = Len(prog')
  BY <1>2 DEF Done
<1>6. DOMAIN prog = 1 .. Len(prog)
  BY DEF Done
<1> QED BY <1>2, <1>3, <1>4, <1>5, <1>6 DEF After

(* The first stores, and what they leave first.                             *)
Firsts ==
  LET s == prog[1] IN
  /\ s.to \in Names /\ StoreTyped(s)
  /\ s.to = "odd" => prog' # <<>> /\ prog'[1].to = "ztsSample"
  /\ s.to = "ztsSample" => /\ prog' # <<>> /\ prog'[1].to = "ztsHost" /\ prog'[2].to = "even"
                           /\ prog'[2].v = <<s.v, prog'[1].v>>
  /\ s.to = "ztsHost" => /\ prog' # <<>> /\ prog'[1].to \in {"odd", "even"}
                         /\ prog'[1] = prog[2]
  /\ s.to = "even" /\ prog' # <<>> => prog'[1].to \in {"stampPending", "fixed"}
  /\ s.to = "stampPending" /\ prog' # <<>> =>
       prog'[1].to = "ztsHost" /\ prog'[2].to = "odd" /\ s.v = 0
  /\ s.to = "fixed" => prog' = <<>>
LEMMA FirstsLemma == Done /\ Shape => Firsts
<1> SUFFICES ASSUME Done, Shape PROVE Firsts
  OBVIOUS
<1>1. /\ After(1) /\ DOMAIN prog = 1 .. Len(prog) /\ Len(prog) \in Nat \ {0}
      /\ prog[1].to \in Names /\ StoreTyped(prog[1])
  BY DEF Done, Shape
<1>2. /\ 1 + 1 \in 1 .. Len(prog) => prog'[1] = prog[2] /\ prog' # <<>>
      /\ 1 + 2 \in 1 .. Len(prog) => prog'[2] = prog[3] /\ prog'[1] = prog[2] /\ prog' # <<>>
      /\ prog' # <<>> => 1 + 1 \in 1 .. Len(prog)
      /\ Len(prog) = 1 => prog' = <<>>
  BY DEF Done
<1> QED BY <1>1, <1>2 DEF After, Firsts

LEMMA StoreParity == Done /\ Shape /\ Parity /\ ztsSeq \in Nat => Parity'
<1> SUFFICES ASSUME Done, Shape, Parity, ztsSeq \in Nat PROVE Parity'
  OBVIOUS
<1> DEFINE s == prog[1]
<1>1. Firsts
  BY FirstsLemma
<1>2. /\ ztsSeq' = IF s.to \in {"odd", "even"} THEN ztsSeq + 1 ELSE ztsSeq
      /\ ztsSample' = Put(s, "ztsSample") /\ ztsHost' = Put(s, "ztsHost")
      /\ prog # <<>>
  BY DEF Done
<1>3. (ztsSeq + 1) % 2 = 1 - (ztsSeq % 2)
  OBVIOUS
<1>4. CASE s.to = "odd"
  BY <1>1, <1>2, <1>3, <1>4 DEF Firsts, Parity, Within, Put
<1>5. CASE s.to = "ztsSample"
  BY <1>1, <1>2, <1>3, <1>5 DEF Firsts, Parity, Within, Put
<1>6. CASE s.to = "ztsHost"
  BY <1>1, <1>2, <1>3, <1>6 DEF Firsts, Parity, Within, Put
<1>7. CASE s.to = "even"
  BY <1>1, <1>2, <1>3, <1>7 DEF Firsts, Parity, Within, Put
<1>8. CASE s.to = "stampPending"
  BY <1>1, <1>2, <1>3, <1>8 DEF Firsts, Parity, Within, Put
<1>9. CASE s.to = "fixed"
  BY <1>1, <1>2, <1>3, <1>9 DEF Firsts, Parity, Within, Put
<1> QED BY <1>1, <1>4, <1>5, <1>6, <1>7, <1>8, <1>9 DEF Firsts, Names

LEMMA StoreFixing == Done /\ Shape /\ Fixing => Fixing'
<1> SUFFICES ASSUME Done, Shape, Fixing PROVE Fixing'
  OBVIOUS
<1> DEFINE s == prog[1]
<1>1. Firsts
  BY FirstsLemma
<1>2. /\ fixed' = (fixed \/ s.to = "fixed")
      /\ stampPending' = IF s.to = "stampPending" THEN s.v ELSE stampPending
      /\ 1 \in DOMAIN prog
  BY DEF Done, Put
<1>3. ASSUME NEW i \in DOMAIN prog'
      PROVE  /\ i \in 1 .. Len(prog) - 1 /\ i + 1 \in DOMAIN prog /\ prog'[i] = prog[i + 1]
             /\ prog' # <<>>
             /\ i + 1 \in DOMAIN prog' => prog'[i + 1] = prog[i + 1 + 1]
             /\ prog[i + 1].to = "ztsHost" => i + 1 \in DOMAIN prog'
  <2>1. i \in 1 .. Len(prog) - 1 /\ i + 1 \in DOMAIN prog /\ prog'[i] = prog[i + 1]
    BY DEF Done
  <2>2. After(i + 1)
    BY <2>1 DEF Shape
  <2> QED BY <2>1, <2>2 DEF Done, After
<1>4. ASSUME fixed'
      PROVE  /\ stampPending' = 0
             /\ \A i \in DOMAIN prog' :
                  /\ prog'[i].to \notin {"stampPending", "fixed"}
                  /\ prog'[i].to = "ztsHost" => prog'[i + 1].to = "even"
  <2>1. CASE fixed
    <3>1. s.to \notin {"stampPending", "fixed"} /\ stampPending = 0
      BY <1>2, <2>1 DEF Fixing
    <3>2. stampPending' = 0
      BY <1>2, <3>1
    <3>3. ASSUME NEW i \in DOMAIN prog'
          PROVE  /\ prog'[i].to \notin {"stampPending", "fixed"}
                 /\ prog'[i].to = "ztsHost" => prog'[i + 1].to = "even"
      BY <1>3, <2>1 DEF Fixing
    <3> QED BY <3>2, <3>3
  <2>2. CASE s.to = "fixed"
    <3>1. prog' = <<>> /\ DOMAIN prog' = {}
      BY <1>1, <2>2 DEF Firsts
    <3>2. stampPending = 0
      BY <1>2, <2>2 DEF Fixing
    <3> QED BY <1>2, <2>2, <3>1, <3>2
  <2> QED BY <1>2, <1>4, <2>1, <2>2
<1>5. ASSUME NEW i \in DOMAIN prog', prog'[i].to = "fixed"
      PROVE  stampPending' = 0
             \/ \E j \in 1 .. i - 1 : prog'[j].to = "stampPending" /\ prog'[j].v = 0
  <2>1. i \in 1 .. Len(prog) - 1 /\ i + 1 \in DOMAIN prog /\ prog[i + 1].to = "fixed"
    BY <1>3, <1>5
  <2>2. CASE stampPending = 0 /\ s.to # "stampPending"
    BY <1>2, <2>2
  <2>3. CASE s.to = "stampPending"
    BY <1>1, <1>2, <1>3, <2>3 DEF Firsts
  <2>4. CASE stampPending # 0 /\ s.to # "stampPending"
    <3>1. PICK j \in 1 .. (i + 1) - 1 : prog[j].to = "stampPending" /\ prog[j].v = 0
      BY <2>1, <2>4 DEF Fixing
    <3>2. j - 1 \in 1 .. i - 1 /\ j - 1 \in DOMAIN prog' /\ prog'[j - 1] = prog[j]
      BY <2>1, <2>4, <3>1 DEF Done
    <3> QED BY <3>1, <3>2
  <2> QED BY <2>2, <2>3, <2>4
<1> QED BY <1>4, <1>5 DEF Fixing

LEMMA StoreNewest ==
  Types /\ Done /\ Shape /\ Parity /\ Fixing /\ Newest => Newest'
<1> SUFFICES ASSUME Types, Done, Shape, Parity, Fixing, Newest PROVE Newest'
  OBVIOUS
<1> DEFINE s == prog[1]
<1>1. Firsts
  BY FirstsLemma
<1>2. /\ ztsSeq' = IF s.to \in {"odd", "even"} THEN ztsSeq + 1 ELSE ztsSeq
      /\ ztsSample' = Put(s, "ztsSample") /\ ztsHost' = Put(s, "ztsHost")
      /\ fixed' = (fixed \/ s.to = "fixed")
      /\ current' = IF s.to = "even" THEN <<s.v[1], s.v[2], seed>> ELSE current
      /\ nextZts' = nextZts /\ seed' = seed
      /\ prog # <<>> /\ 1 \in DOMAIN prog
  BY DEF Done
<1>3. ztsSeq \in Nat /\ (ztsSeq + 1) % 2 = 1 - (ztsSeq % 2) /\ nextZts \in Nat /\ seed \in Nat
  BY DEF Types, EngineTypes
<1>4. ASSUME NEW i \in DOMAIN prog'
      PROVE  i + 1 \in DOMAIN prog /\ prog'[i] = prog[i + 1]
  BY DEF Done
<1>5. AtFixed' => fixed \/ s.to = "fixed" \/ (s.to = "even" /\ prog' # <<>> /\ prog'[1].to = "fixed")
  <2>1. SUFFICES ASSUME ~fixed', prog' # <<>>, prog'[1].to = "fixed" PROVE s.to = "even"
    BY <1>2 DEF AtFixed
  <2> QED BY <1>1, <2>1 DEF Firsts, Names
<1>6. ASSUME AtFixed'
      PROVE  /\ ztsSeq' % 2 = 0 => current' = <<ztsSample', ztsHost', seed'>>
             /\ current'[1] < nextZts' /\ current'[3] = seed'
  <2>1. CASE s.to = "even"
    <3>1. s.v \in Nat \X Nat /\ s.v = <<ztsSample, ztsHost>>
      BY <1>1, <1>2, <2>1 DEF Firsts, StoreTyped, Parity
    <3>2. s.v[1] < nextZts
      BY <1>2, <2>1 DEF Newest
    <3> QED BY <1>2, <2>1, <3>1, <3>2 DEF Put
  <2>2. CASE s.to # "even"
    <3>1. AtFixed
      BY <1>2, <1>5, <1>6, <2>2 DEF AtFixed
    <3>2. s.to # "fixed" => fixed
      BY <1>5, <1>6, <2>2
    <3>3. ztsSeq' % 2 = 0 => ztsSeq % 2 = 0 /\ ztsSample' = ztsSample /\ ztsHost' = ztsHost
      <4>1. CASE s.to = "odd"
        BY <1>2, <1>3, <4>1 DEF Parity, Within
      <4>2. CASE s.to = "ztsSample"
        BY <1>2, <4>2 DEF Parity, Within
      <4>3. CASE s.to = "ztsHost"
        <5>1. prog[2].to = "even"
          BY <1>2, <3>2, <4>3 DEF Fixing
        <5> QED BY <1>2, <4>3, <5>1 DEF Parity, Within
      <4>4. CASE s.to \in {"stampPending", "fixed"}
        BY <1>2, <4>4 DEF Put
      <4> QED BY <1>1, <2>2, <4>1, <4>2, <4>3, <4>4 DEF Firsts, Names
    <3> QED BY <1>2, <2>2, <3>1, <3>3 DEF Newest
  <2> QED BY <2>1, <2>2
<1>7. ASSUME NEW i \in DOMAIN prog', prog'[i].to = "even"
      PROVE  /\ prog'[i].v[1] < nextZts'
             /\ fixed' => prog'[i].v[1] > current'[1] /\ prog'[i].v[2] > current'[2]
  <2>1. prog'[i].v[1] < nextZts'
    BY <1>2, <1>4, <1>7 DEF Newest
  <2>2. ASSUME fixed' PROVE fixed /\ s.to # "even"
    <3>1. s.to # "fixed"
      <4>1. prog' # <<>>
        BY DEF Done
      <4> QED BY <1>1, <4>1 DEF Firsts
    <3>2. fixed
      BY <1>2, <2>2, <3>1
    <3>3. s.to # "even"
      <4>1. SUFFICES ASSUME s.to = "even" PROVE FALSE
        OBVIOUS
      <4>2. prog' # <<>> /\ 1 \in DOMAIN prog' /\ prog'[1].to \in {"stampPending", "fixed"}
        BY <1>1, <4>1 DEF Done, Firsts
      <4> QED BY <1>4, <3>2, <4>2 DEF Fixing
    <3> QED BY <3>2, <3>3
  <2> QED BY <1>2, <1>4, <1>7, <2>1, <2>2 DEF Newest
<1> QED BY <1>6, <1>7 DEF Newest

LEMMA HarvestPublishing == Types /\ Publishing /\ harvest => Publishing'
<1> SUFFICES ASSUME Types, Publishing, harvest PROVE Publishing'
  OBVIOUS
<1> USE DEF Publishing
<1>1. PICK d \in {0, 4}, n \in {0, 1, 7}, h \in Hosts : Leaves(d, n, h)
  BY Harvested
<1>2. /\ prog = <<>> /\ (running \/ start = "stopping") /\ running' = running /\ start' = start
      /\ ztsSeq' = ztsSeq /\ ztsSample' = ztsSample /\ ztsHost' = ztsHost /\ seed' = seed
      /\ stampPending' = stampPending /\ current' = current /\ fixed' = fixed
  BY DEF harvest, memory, history
<1>3. /\ h \in Nat /\ nextZts \in Nat /\ nextZts # 0 /\ Later(h) \in Nat /\ Later(h) > ztsHost
      /\ ztsHost \in Nat /\ stampPending \in 0 .. 2 /\ ztsSeq \in Nat
      /\ current \in Nat \X Nat \X Nat /\ fixed \in BOOLEAN
  BY ClockAssumption DEF Types, EngineTypes, Later
<1>4. /\ Len(prog') = d + n /\ DOMAIN prog' = 1 .. d + n /\ (prog' = <<>>) = (d + n = 0)
  BY <1>1 DEF Leaves
<1>5. ASSUME NEW i \in DOMAIN prog'
      PROVE  \/ i <= d /\ d = 4 /\ i \in {1, 2, 3, 4}
             \/ n # 0 /\ i = d + 1
             \/ n = 7 /\ i \in {d + 2, d + 3, d + 4, d + 5, d + 6, d + 7}
  BY <1>4
<1>6. Shape'
  <2>1. SUFFICES ASSUME NEW i \in DOMAIN prog' PROVE After(i)'
    BY DEF Shape
  <2>2. CASE i <= d /\ d = 4 /\ i \in {1, 2, 3, 4}
    <3>1. i = 4 /\ i + 1 \in DOMAIN prog' => n # 0 /\ i + 1 = d + 1
      BY <1>4, <2>2
    <3>2. CASE i \in {1, 2, 3}
      <4>1. i = 1 => i + 1 \in DOMAIN prog'
        BY <1>4, <2>2
      <4>2. i = 2 => i + 1 \in DOMAIN prog' /\ i + 2 \in DOMAIN prog'
        BY <1>4, <2>2
      <4>3. i = 3 => i + 1 \in DOMAIN prog'
        BY <1>4, <2>2
      <4> QED BY <1>1, <2>2, <3>2, <4>1, <4>2, <4>3 DEF Leaves, After, Store
    <3>3. CASE i = 4
      <4>1. prog'[i].to = "even"
        BY <1>1, <2>2, <3>3 DEF Leaves, Store
      <4>2. i + 1 \in DOMAIN prog' => prog'[i + 1].to = "stampPending"
        BY <1>1, <3>1, <3>3 DEF Leaves, Store
      <4> QED BY <4>1, <4>2 DEF After
    <3> QED BY <2>2, <3>2, <3>3
  <2>3. CASE n # 0 /\ i = d + 1
    <3>1. CASE n = 1
      BY <1>1, <1>3, <1>4, <2>3, <3>1 DEF Leaves, After, Store
    <3>2. CASE n = 7
      <4>1. i + 1 = d + 2 /\ i + 2 = d + 3 /\ i + 2 \in DOMAIN prog'
        BY <1>4, <2>3, <3>2
      <4> QED BY <1>1, <1>3, <2>3, <3>2, <4>1 DEF Leaves, After, Store
    <3> QED BY <2>3, <3>1, <3>2
  <2>4. CASE n = 7 /\ i \in {d + 2, d + 3, d + 4, d + 5, d + 6, d + 7}
    <3>1. /\ i + 1 \in DOMAIN prog' <=> i # d + 7
          /\ i + 2 \in DOMAIN prog' <=> i \notin {d + 6, d + 7}
          /\ i = d + 7 <=> i = Len(prog')
      BY <1>4, <2>4
    <3>2. CASE i = d + 2
      BY <1>1, <2>4, <3>1, <3>2 DEF Leaves, After, Store
    <3>3. CASE i = d + 3
      BY <1>1, <2>4, <3>1, <3>3 DEF Leaves, After, Store
    <3>4. CASE i = d + 4
      BY <1>1, <2>4, <3>1, <3>4 DEF Leaves, After, Store
    <3>5. CASE i = d + 5
      BY <1>1, <2>4, <3>1, <3>5 DEF Leaves, After, Store
    <3>6. CASE i = d + 6
      BY <1>1, <2>4, <3>1, <3>6 DEF Leaves, After, Store
    <3>7. CASE i = d + 7
      BY <1>1, <2>4, <3>1, <3>7 DEF Leaves, After, Store
    <3> QED BY <2>4, <3>2, <3>3, <3>4, <3>5, <3>6, <3>7
  <2> QED BY <1>5, <2>2, <2>3, <2>4
<1>7. /\ d = 4 => prog'[1].to = "odd"
      /\ d = 0 /\ n # 0 => prog'[1].to = "stampPending"
  BY <1>1 DEF Leaves, Store
<1>8. ztsSeq % 2 = 0
  BY <1>2 DEF Parity, Within
<1>9. Parity'
  <2>1. ~Within'
    BY <1>4, <1>7 DEF Within
  <2> QED BY <1>2, <1>4, <1>7, <1>8, <2>1 DEF Parity
<1>10. fixed => n = 0
  BY <1>1, <1>3 DEF Fixing, Leaves
<1>11. Fixing'
  <2>1. ASSUME fixed, NEW i \in DOMAIN prog'
        PROVE  /\ prog'[i].to \notin {"stampPending", "fixed"}
               /\ prog'[i].to = "ztsHost" => prog'[i + 1].to = "even"
    BY <1>1, <1>5, <1>10, <2>1 DEF Leaves, Store
  <2>2. ASSUME NEW i \in DOMAIN prog', prog'[i].to = "fixed"
        PROVE  \E j \in 1 .. i - 1 : prog'[j].to = "stampPending" /\ prog'[j].v = 0
    <3>1. n = 7 /\ i = d + 7
      <4>1. ~(d = 4 /\ i \in {1, 2, 3, 4})
        BY <1>1, <2>2 DEF Leaves, Store
      <4>2. ~(n # 0 /\ i = d + 1)
        BY <1>1, <2>2 DEF Leaves, Store
      <4>3. n = 7 /\ i \in {d + 2, d + 3, d + 4, d + 5, d + 6, d + 7}
        BY <1>5, <4>1, <4>2
      <4> QED BY <1>1, <2>2, <4>3 DEF Leaves, Store
    <3>2. prog'[d + 1].to = "stampPending" /\ prog'[d + 1].v = 0
      BY <1>1, <3>1 DEF Leaves, Store
    <3>3. d + 1 \in 1 .. i - 1
      BY <3>1
    <3> QED BY <3>2, <3>3
  <2> QED BY <1>2, <2>1, <2>2 DEF Fixing
<1>12. Newest'
  <2>1. AtFixed' = fixed
    BY <1>2, <1>3, <1>4, <1>7 DEF AtFixed
  <2>2. nextZts <= nextZts' /\ nextZts' \in Nat /\ nextZts' # 0
    BY <1>1, <1>3 DEF Leaves
  <2>3. fixed => /\ current = <<ztsSample, ztsHost, seed>>
                 /\ current[1] < nextZts /\ current[3] = seed
    BY <1>8 DEF Newest, AtFixed
  <2>4. AtFixed' => /\ current' = <<ztsSample', ztsHost', seed'>>
                    /\ current'[1] < nextZts' /\ current'[3] = seed'
    BY <1>2, <1>3, <2>1, <2>2, <2>3
  <2>5. ASSUME NEW i \in DOMAIN prog', prog'[i].to = "even"
        PROVE  /\ prog'[i].v[1] < nextZts'
               /\ fixed' => prog'[i].v[1] > current'[1] /\ prog'[i].v[2] > current'[2]
    <3>1. \/ d = 4 /\ i = 4 /\ prog'[i].v = <<nextZts, Later(h)>>
          \/ n = 7 /\ prog'[i].v = <<0, h>>
      BY <1>1, <1>5, <2>5 DEF Leaves, Store
    <3>2. CASE d = 4 /\ prog'[i].v = <<nextZts, Later(h)>>
      <4>1. nextZts' = nextZts + 1
        BY <1>1, <3>2 DEF Leaves
      <4> QED BY <1>2, <1>3, <2>3, <3>2, <4>1
    <3>3. CASE n = 7 /\ prog'[i].v = <<0, h>>
      BY <1>2, <1>3, <1>10, <2>2, <3>3
    <3> QED BY <3>1, <3>2, <3>3
  <2> QED BY <2>4, <2>5 DEF Newest
<1>13. Engines'
  BY <1>2 DEF Engines
<1> QED BY <1>6, <1>9, <1>11, <1>12, <1>13

LEMMA StartPublishing == Types /\ Publishing /\ job_start => Publishing'
<1> SUFFICES ASSUME Types, Publishing, job_start PROVE Publishing'
  OBVIOUS
<1> USE DEF Publishing
<1>1. PICK h \in Hosts : prog' = Origin(h)
  BY Zenon DEF job_start
<1>2. /\ prog' \in Seq(Stores) /\ Len(prog') = 5
      /\ prog'[1] = Store("ztsHost", 0) /\ prog'[2] = Store("odd", 1)
      /\ prog'[3] = Store("ztsSample", 0) /\ prog'[4] = Store("ztsHost", h)
      /\ prog'[5] = Store("even", <<0, h>>)
  <2>1. h \in Nat
    BY ClockAssumption
  <2> QED BY <1>1, <2>1, FirstPublication, Zenon
<1>3. prog = <<>> /\ ~running /\ start' = "begun" /\ running' = running
  BY DEF job_start, Engines
<1>4. ztsSeq' = ztsSeq /\ ztsSeq % 2 = 0 /\ ~fixed' /\ nextZts' = 1
  BY <1>3 DEF job_start, memory, Parity, Within
<1>5. DOMAIN prog' = 1 .. 5 /\ prog' # <<>> /\ \A i \in DOMAIN prog' : i \in {1, 2, 3, 4, 5}
  BY <1>2
<1>6. Shape'
  BY <1>2, <1>5 DEF Shape, After, Store
<1>7. Parity'
  BY <1>2, <1>4 DEF Parity, Within, Store
<1>8. Fixing'
  BY <1>2, <1>4, <1>5 DEF Fixing, Store
<1>9. Newest'
  BY <1>2, <1>4, <1>5 DEF Newest, AtFixed, Store
<1>10. Engines'
  BY <1>3 DEF Engines
<1> QED BY <1>6, <1>7, <1>8, <1>9, <1>10

engineVars == <<memory, seed, nextZts, stampPending, prog, history>>
LEMMA RestPublishing ==
  Publishing /\ UNCHANGED engineVars /\ Engines' => Publishing'
BY DEF engineVars, memory, history, Publishing, Shape, After, Parity, Within, Fixing,
       Newest, AtFixed

LEMMA StepPublishing ==
  ASSUME WEAK = FALSE, Types, Publishing, [Next]_vars
  PROVE  Publishing'
<1>1. CASE harvest
  BY <1>1, HarvestPublishing
<1>2. CASE StoreStep
  <2>1. Done
    BY <1>2, InOrder
  <2>2. Engines'
    <3>1. start' = start /\ running' = running /\ prog # <<>>
      BY <2>1 DEF Done
    <3> QED BY <3>1 DEF Publishing, Engines
  <2>3. ztsSeq \in Nat
    BY DEF Types, EngineTypes
  <2> QED BY <2>1, <2>2, <2>3, StoreShape, StoreParity, StoreFixing, StoreNewest
         DEF Publishing
<1>3. CASE job_start
  BY <1>3, StartPublishing
<1>4. CASE Run \/ StartReturns \/ job_stop \/ Joined
  <2>1. UNCHANGED engineVars
    BY <1>4 DEF Run, StartReturns, job_stop, Joined, Join, engineVars, memory, history
  <2>2. Engines'
    BY <1>4 DEF Run, StartReturns, job_stop, Joined, Join, Publishing, Engines
  <2> QED BY <2>1, <2>2, RestPublishing
<1>5. CASE (\E r \in Readers : GetZeroTimeStamp(r) \/ Reader(r)) \/ UNCHANGED vars
  <2>1. UNCHANGED others
    BY <1>5 DEF Reader, GetZeroTimeStamp, Load, LastLoad, vars, others
  <2>2. UNCHANGED engineVars /\ Engines'
    BY <2>1 DEF others, engineVars, memory, history, Publishing, Engines
  <2> QED BY <2>2, RestPublishing
<1> QED BY <1>1, <1>2, <1>3, <1>4, <1>5 DEF Next, Engine
----------------------------------------------------------------------------
(* Loads in the program's order: the first one left is the next done.       *)
LEMMA Second ==
  ASSUME NEW S, NEW t \in Seq(S), NEW u \in Seq(S), Len(t) = Len(u) + 1,
         \A j \in 1 .. Len(u) : u[j] = t[j + 1]
  PROVE  SubSeq(t, 1, 1 - 1) \o SubSeq(t, 1 + 1, Len(t)) = u
<1> DEFINE w == SubSeq(t, 1, 1 - 1) \o SubSeq(t, 1 + 1, Len(t))
<1>1. 1 \in DOMAIN t
  OBVIOUS
<1>2. /\ w \in Seq(S) /\ Len(w) = Len(t) - 1
      /\ \A j \in DOMAIN w : w[j] = IF j < 1 THEN t[j] ELSE t[j + 1]
  BY <1>1, Dropped, Zenon
<1> HIDE DEF w
<1>3. Len(w) = Len(u) /\ \A j \in 1 .. Len(u) : w[j] = u[j]
  BY <1>2
<1>4. w = u
  BY <1>2, <1>3, SeqEqual
<1> QED BY <1>4 DEF w

Rest(t, u) ==
  \/ t = Loads /\ u = <<"ztsSample", "ztsHost", "seed", "s2">>
  \/ t = <<"ztsSample", "ztsHost", "seed", "s2">> /\ u = <<"ztsHost", "seed", "s2">>
  \/ t = <<"ztsHost", "seed", "s2">> /\ u = <<"seed", "s2">>
  \/ t = <<"seed", "s2">> /\ u = <<"s2">>

LEMMA LoadsInOrder ==
  ASSUME Types, WEAK = FALSE, NEW r \in Readers, Reading(r), Load(r)
  PROVE  /\ Rest(todo[r], todo'[r])
         /\ todo[r][1] = "s1" => ztsSeq % 2 = 0
         /\ got'[r] = [got[r] EXCEPT ![todo[r][1]] = Value(todo[r][1])]
         /\ \A q \in Readers \ {r} : todo'[q] = todo[q] /\ got'[q] = got[q]
         /\ UNCHANGED <<result, others>>
<1>1. PICK i \in DOMAIN todo[r] : Load(r)!(i)
  BY Zenon DEF Load
<1>2. /\ todo \in [Readers -> Seq(Fields)] /\ got \in [Readers -> Kept]
      /\ todo[r] \in Seq(Fields) /\ Len(todo[r]) > 1
  BY <1>1 DEF Types, ReaderTypes
<1>3. i = 1
  BY <1>1, WEAK = FALSE
<1>4. todo' = [todo EXCEPT ![r] = SubSeq(todo[r], 1, 1 - 1) \o SubSeq(todo[r], 1 + 1, Len(todo[r]))]
  BY <1>1, <1>3
<1>5. todo'[r] = SubSeq(todo[r], 1, 1 - 1) \o SubSeq(todo[r], 1 + 1, Len(todo[r]))
  BY <1>2, <1>4, Zenon
<1>6. Rest(todo[r], todo'[r])
  <2>1. ASSUME NEW u \in Seq(Fields), Rest(todo[r], u) PROVE todo'[r] = u
    <3>1. Len(todo[r]) = Len(u) + 1 /\ \A j \in 1 .. Len(u) : u[j] = todo[r][j + 1]
      <4>1. CASE todo[r] = <<"seed", "s2">> /\ u = <<"s2">>
        BY <4>1
      <4>2. CASE todo[r] = <<"ztsHost", "seed", "s2">> /\ u = <<"seed", "s2">>
        BY <4>2
      <4>3. CASE todo[r] = <<"ztsSample", "ztsHost", "seed", "s2">> /\ u = <<"ztsHost", "seed", "s2">>
        BY <4>3
      <4>4. CASE todo[r] = Loads /\ u = <<"ztsSample", "ztsHost", "seed", "s2">>
        BY <4>4 DEF Loads
      <4> QED BY <2>1, <4>1, <4>2, <4>3, <4>4 DEF Rest
    <3> QED BY <1>2, <1>5, <3>1, Second, Zenon
  <2>2. \E u \in Seq(Fields) : Rest(todo[r], u)
    <3>1. /\ <<"s2">> \in Seq(Fields) /\ <<"seed", "s2">> \in Seq(Fields)
          /\ <<"ztsHost", "seed", "s2">> \in Seq(Fields)
          /\ <<"ztsSample", "ztsHost", "seed", "s2">> \in Seq(Fields)
      BY DEF Fields
    <3>2. todo[r] # <<>> /\ todo[r] # <<"s2">>
      <4>1. Len(todo[r]) > 1 /\ Len(todo[r]) \in Nat
        BY <1>2
      <4>2. todo[r] # <<>>
        BY <4>1
      <4>3. todo[r] # <<"s2">>
        <5>1. Len(<<"s2">>) = 1
          OBVIOUS
        <5>2. \A n \in Nat : n > 1 => n # 1
          OBVIOUS
        <5> QED BY <4>1, <5>1, <5>2, Zenon
      <4> QED BY <4>2, <4>3
    <3>3. todo[r] \in {<<"seed", "s2">>, <<"ztsHost", "seed", "s2">>,
                      <<"ztsSample", "ztsHost", "seed", "s2">>, Loads}
      BY <3>2, Zenon DEF Reading
    <3> QED BY <3>1, <3>3, Zenon DEF Rest
  <2> QED BY <2>1, <2>2, Zenon
<1>7. /\ got' = [got EXCEPT ![r][todo[r][1]] = Value(todo[r][1])]
      /\ todo[r][1] = "s1" => ztsSeq % 2 = 0
      /\ UNCHANGED <<result, others>>
  BY <1>1, <1>3
<1>8. /\ got'[r] = [got[r] EXCEPT ![todo[r][1]] = Value(todo[r][1])]
      /\ \A q \in Readers \ {r} : got'[q] = got[q]
  BY <1>2, <1>7
<1>9. \A q \in Readers \ {r} : todo'[q] = todo[q]
  BY <1>2, <1>4
<1> QED BY <1>6, <1>7, <1>8, <1>9

(* A return, and what it gives.                                             *)
LEMMA LastInOrder ==
  ASSUME Types, NEW r \in Readers, Reading(r), LastLoad(r)
  PROVE  /\ todo[r] = <<"s2">>
         /\ \/ /\ got[r].s1 # ztsSeq /\ todo'[r] = Loads /\ result'[r] = result[r]
               /\ got'[r].on = got[r].on
            \/ /\ got[r].s1 = ztsSeq /\ todo'[r] = <<>> /\ got'[r].on = 0
               /\ result'[r] = <<got[r].ztsSample, got[r].ztsHost, got[r].seed, got[r].on>>
         /\ \A q \in Readers \ {r} :
              todo'[q] = todo[q] /\ got'[q] = got[q] /\ result'[q] = result[q]
         /\ UNCHANGED others
<1> DEFINE g == [got[r] EXCEPT ![Head(todo[r])] = Value(Head(todo[r]))]
           again == "s2" \in {Loads[i] : i \in DOMAIN Loads} /\ g.s1 # g.s2
<1>1. todo[r] = <<"s2">> /\ Head(todo[r]) = "s2"
  BY DEF LastLoad, Reading, Loads
<1>2. got[r] \in Kept
  BY DEF Types, ReaderTypes
<1>3. /\ g.s1 = got[r].s1 /\ g.s2 = ztsSeq /\ g.ztsSample = got[r].ztsSample
      /\ g.ztsHost = got[r].ztsHost /\ g.seed = got[r].seed /\ g.on = got[r].on
  BY <1>1, <1>2 DEF Value, Kept
<1>4. "s2" \in {Loads[i] : i \in DOMAIN Loads}
  <2>1. 5 \in DOMAIN Loads /\ Loads[5] = "s2"
    BY DEF Loads
  <2> QED BY <2>1, Zenon
<1>5. again <=> got[r].s1 # ztsSeq
  BY <1>3, <1>4
<1>6. /\ todo' = [todo EXCEPT ![r] = IF again THEN Loads ELSE <<>>]
      /\ result' = IF again THEN result
                   ELSE [result EXCEPT ![r] = <<g.ztsSample, g.ztsHost, g.seed, g.on>>]
      /\ got' = [got EXCEPT ![r] = [Nothing EXCEPT !.on = IF again THEN g.on ELSE 0]]
      /\ UNCHANGED others
  BY DEF LastLoad
<1> HIDE DEF again, g
<1>7. /\ todo \in [Readers -> Seq(Fields)] /\ got \in [Readers -> Kept]
      /\ result \in [Readers -> Nat \X Nat \X Nat \X Nat]
  BY DEF Types, ReaderTypes
<1>8. todo'[r] = IF again THEN Loads ELSE <<>>
  BY <1>6, <1>7, Zenon
<1>9. got'[r].on = IF again THEN got[r].on ELSE 0
  BY <1>3, <1>6, <1>7 DEF Nothing
<1>10. result'[r] = IF again THEN result[r]
                   ELSE <<got[r].ztsSample, got[r].ztsHost, got[r].seed, got[r].on>>
  BY <1>3, <1>6, <1>7
<1>11. \A q \in Readers \ {r} : todo'[q] = todo[q] /\ got'[q] = got[q] /\ result'[q] = result[q]
  BY <1>6, <1>7
<1> QED BY <1>1, <1>5, <1>6, <1>8, <1>9, <1>10, <1>11

(* What a reader has loaded, and what it was given, after each step.        *)
Reads(r) == Reading(r) /\ Returned(r)
LEMMA InitReads == ASSUME Init, NEW r \in Readers PROVE Reads(r)
<1>1. todo[r] = <<>> /\ got[r] = Nothing /\ result[r] = <<0, 0, 0, 0>> /\ seed = 0 /\ ~fixed
  BY DEF Init
<1>2. Reading(r)
  <2>1. got[r].on = 0
    BY <1>1 DEF Nothing
  <2>2. ~(Len(todo[r]) \in 1 .. 4)
    BY <1>1
  <2> QED BY <1>1, <2>1, <2>2 DEF Reading
<1>3. Returned(r)
  BY <1>1 DEF Returned, Sound
<1> QED BY <1>2, <1>3 DEF Reads

(* No step of the engine but a new start, or the last store of a later      *)
(* pair, touches what readers have.                                         *)
LEMMA QuietReads ==
  ASSUME NEW r \in Readers, Reads(r), fixed => fixed',
         UNCHANGED <<ztsSeq, seed, current, todo, got, result>>
  PROVE  Reads(r)'
BY DEF Reads, Reading, Returned, Sound

LEMMA StoreReads ==
  ASSUME Types, Publishing, Done, NEW r \in Readers, Reads(r)
  PROVE  Reads(r)'
<1> USE DEF Reads
<1> DEFINE s == prog[1]
<1>1. /\ ztsSeq' = IF s.to \in {"odd", "even"} THEN ztsSeq + 1 ELSE ztsSeq
      /\ fixed' = (fixed \/ s.to = "fixed") /\ seed' = seed
      /\ current' = IF s.to = "even" THEN <<s.v[1], s.v[2], seed>> ELSE current
      /\ todo' = todo /\ got' = got /\ result' = result
      /\ 1 \in DOMAIN prog /\ StoreTyped(s)
  BY DEF Done, readerVars
<1>2. /\ ztsSeq \in Nat /\ current \in Nat \X Nat \X Nat /\ got[r].s1 \in Nat
      /\ result[r] \in Nat \X Nat \X Nat \X Nat /\ fixed \in BOOLEAN
  BY DEF Types, EngineTypes, ReaderTypes, Kept
<1>3. CASE s.to \notin {"odd", "even"}
  BY <1>1, <1>3, QuietReads
<1>4. CASE s.to \in {"odd", "even"}
  <2>1. ztsSeq' = ztsSeq + 1 /\ fixed' = fixed
    BY <1>1, <1>2, <1>4
  <2>2. Reading(r)'
    <3>1. Len(todo[r]) \in 1 .. 4 => got[r].s1 <= ztsSeq' /\ got[r].s1 # ztsSeq'
      BY <1>2, <2>1 DEF Reading
    <3> QED BY <1>1, <2>1, <3>1 DEF Reading
  <2>3. Returned(r)'
    <3>1. SUFFICES ASSUME Sound(result[r])
                   PROVE  /\ fixed' /\ result[r][3] = seed
                          /\ \/ result[r][1] = current'[1] /\ result[r][2] = current'[2]
                             \/ result[r][1] < current'[1] /\ result[r][2] < current'[2]
      BY <1>1 DEF Returned, Sound
    <3>2. /\ fixed /\ result[r][3] = seed
          /\ \/ result[r][1] = current[1] /\ result[r][2] = current[2]
             \/ result[r][1] < current[1] /\ result[r][2] < current[2]
      BY <3>1 DEF Returned
    <3>3. CASE s.to = "even"
      <4>1. s.v[1] > current[1] /\ s.v[2] > current[2] /\ s.v \in Nat \X Nat
        BY <1>1, <3>2, <3>3 DEF Publishing, Newest, StoreTyped
      <4>2. current'[1] = s.v[1] /\ current'[2] = s.v[2]
        BY <1>1, <3>3
      <4> QED BY <1>2, <2>1, <3>2, <4>1, <4>2
    <3>4. CASE s.to # "even"
      BY <1>1, <2>1, <3>2, <3>4
    <3> QED BY <3>3, <3>4
  <2> QED BY <2>2, <2>3
<1> QED BY <1>3, <1>4

LEMMA StartReads ==
  ASSUME Types, job_start, NEW r \in Readers, Reads(r)
  PROVE  Reads(r)'
<1> USE DEF Reads
<1>1. /\ seed' = seed + 1 /\ todo' = todo /\ got' = got /\ ztsSeq' = ztsSeq
      /\ result'[r] = <<0, 0, 0, 0>>
  BY DEF job_start, memory
<1>2. seed \in Nat /\ got[r].on \in Nat
  BY DEF Types, EngineTypes, ReaderTypes, Kept
<1>3. got[r].on <= seed' /\ got[r].on # seed'
  BY <1>1, <1>2 DEF Reading
<1>4. Reading(r)'
  BY <1>1, <1>3 DEF Reading
<1>5. Returned(r)'
  BY <1>1 DEF Returned, Sound
<1> QED BY <1>4, <1>5

LEMMA CallReads ==
  ASSUME Types, NEW r \in Readers, GetZeroTimeStamp(r), NEW q \in Readers, Reads(q)
  PROVE  Reads(q)'
<1> USE DEF Reads
<1>1. /\ UNCHANGED others /\ result' = result
      /\ todo' = [todo EXCEPT ![r] = Loads]
      /\ got' = [got EXCEPT ![r].on = IF fixed THEN seed ELSE 0]
  BY DEF GetZeroTimeStamp
<1>2. /\ ztsSeq' = ztsSeq /\ seed' = seed /\ current' = current /\ fixed' = fixed
  BY <1>1 DEF others, memory, history
<1>3. /\ todo \in [Readers -> Seq(Fields)] /\ got \in [Readers -> Kept] /\ seed \in Nat
  BY DEF Types, EngineTypes, ReaderTypes
<1>4. Returned(q)'
  BY <1>1, <1>2 DEF Returned, Sound
<1>5. CASE q = r
  <2>1. todo'[q] = Loads /\ got'[q].on = IF fixed THEN seed ELSE 0
    BY <1>1, <1>3, <1>5 DEF Kept
  <2>2. Len(Loads) = 5
    BY DEF Loads
  <2> QED BY <1>2, <1>3, <1>4, <2>1, <2>2 DEF Reading
<1>6. CASE q # r
  <2>1. todo'[q] = todo[q] /\ got'[q] = got[q]
    BY <1>1, <1>3, <1>6
  <2> QED BY <1>2, <1>4, <2>1 DEF Reading
<1> QED BY <1>5, <1>6

LEMMA LoadReads ==
  ASSUME Types, Publishing, WEAK = FALSE,
         NEW r \in Readers, Reads(r), Load(r), NEW q \in Readers, Reads(q)
  PROVE  Reads(q)'
<1> USE DEF Reads
<1>1. /\ Rest(todo[r], todo'[r])
      /\ todo[r][1] = "s1" => ztsSeq % 2 = 0
      /\ got'[r] = [got[r] EXCEPT ![todo[r][1]] = Value(todo[r][1])]
      /\ \A p \in Readers \ {r} : todo'[p] = todo[p] /\ got'[p] = got[p]
      /\ UNCHANGED <<result, others>>
  BY LoadsInOrder
<1>2. /\ ztsSeq' = ztsSeq /\ seed' = seed /\ current' = current /\ fixed' = fixed
      /\ result' = result
  BY <1>1 DEF others, memory, history
<1>3. got[r] \in Kept /\ ztsSeq \in Nat
  BY DEF Types, EngineTypes, ReaderTypes
<1>4. Returned(q)'
  BY <1>2 DEF Returned, Sound
<1>5. CASE q = r
  <2> DEFINE g == got[r]
             h == got'[r]
             t == todo[r]
             u == todo'[r]
             whole == g.s1 = ztsSeq /\ g.on = seed /\ g.on # 0
  <2>1. Reading(r) /\ Rest(t, u) /\ h = [g EXCEPT ![t[1]] = Value(t[1])]
    BY <1>1
  <2>2. ASSUME whole, g.s1 % 2 = 0 PROVE current = <<ztsSample, ztsHost, seed>>
    BY <2>1, <2>2 DEF Reading, Publishing, Newest, AtFixed
  <2>3. CASE t = Loads
    <3>1. t[1] = "s1" /\ Value("s1") = ztsSeq
      BY <2>3 DEF Loads, Value
    <3>2. u = <<"ztsSample", "ztsHost", "seed", "s2">> /\ Len(u) = 4
      BY <2>1, <2>3 DEF Rest, Loads
    <3>3. h.s1 = ztsSeq /\ h.on = g.on /\ ztsSeq % 2 = 0
      BY <1>1, <1>3, <2>1, <3>1 DEF Kept
    <3> QED BY <1>2, <1>3, <1>4, <1>5, <2>1, <3>2, <3>3 DEF Reading
  <2>4. CASE t = <<"ztsSample", "ztsHost", "seed", "s2">>
    <3>1. t[1] = "ztsSample" /\ Value("ztsSample") = ztsSample /\ Len(t) = 4
      BY <2>4 DEF Value
    <3>2. u = <<"ztsHost", "seed", "s2">> /\ Len(u) = 3
      BY <2>1, <2>4 DEF Rest, Loads
    <3>3. h.s1 = g.s1 /\ h.on = g.on /\ h.ztsSample = ztsSample
      BY <1>3, <2>1, <3>1 DEF Kept
    <3>4. g.s1 <= ztsSeq /\ g.s1 % 2 = 0
      BY <2>1, <3>1 DEF Reading
    <3>5. whole => h.ztsSample = current[1]
      BY <2>2, <3>3, <3>4
    <3> QED BY <1>2, <1>4, <1>5, <2>1, <3>2, <3>3, <3>4, <3>5 DEF Reading
  <2>5. CASE t = <<"ztsHost", "seed", "s2">>
    <3>1. t[1] = "ztsHost" /\ Value("ztsHost") = ztsHost /\ Len(t) = 3
      BY <2>5 DEF Value
    <3>2. u = <<"seed", "s2">> /\ Len(u) = 2
      BY <2>1, <2>5 DEF Rest, Loads
    <3>3. h.s1 = g.s1 /\ h.on = g.on /\ h.ztsSample = g.ztsSample /\ h.ztsHost = ztsHost
      BY <1>3, <2>1, <3>1 DEF Kept
    <3>4. /\ g.s1 <= ztsSeq /\ g.s1 % 2 = 0
          /\ whole => g.ztsSample = current[1]
      BY <2>1, <3>1 DEF Reading
    <3>5. whole => h.ztsSample = current[1] /\ h.ztsHost = current[2]
      BY <2>2, <3>3, <3>4
    <3> QED BY <1>2, <1>4, <1>5, <2>1, <3>2, <3>3, <3>4, <3>5 DEF Reading
  <2>6. CASE t = <<"seed", "s2">>
    <3>1. t[1] = "seed" /\ Value("seed") = seed /\ Len(t) = 2
      BY <2>6 DEF Value
    <3>2. u = <<"s2">> /\ Len(u) = 1
      BY <2>1, <2>6 DEF Rest, Loads
    <3>3. /\ h.s1 = g.s1 /\ h.on = g.on /\ h.ztsSample = g.ztsSample /\ h.ztsHost = g.ztsHost
          /\ h.seed = seed
      BY <1>3, <2>1, <3>1 DEF Kept
    <3>4. /\ g.s1 <= ztsSeq /\ g.s1 % 2 = 0
          /\ whole => g.ztsSample = current[1] /\ g.ztsHost = current[2]
      BY <2>1, <3>1 DEF Reading
    <3>5. whole => h.ztsSample = current[1] /\ h.ztsHost = current[2] /\ h.seed = current[3]
      BY <2>2, <3>3, <3>4
    <3> QED BY <1>2, <1>4, <1>5, <2>1, <3>2, <3>3, <3>4, <3>5 DEF Reading
  <2> QED BY <2>1, <2>3, <2>4, <2>5, <2>6 DEF Rest
<1>6. CASE q # r
  BY <1>1, <1>2, <1>4, <1>6 DEF Reading
<1> QED BY <1>5, <1>6

LEMMA LastReads ==
  ASSUME Types, Publishing, NEW r \in Readers, Reads(r), LastLoad(r),
         NEW q \in Readers, Reads(q)
  PROVE  Reads(q)'
<1> USE DEF Reads
<1>1. /\ todo[r] = <<"s2">>
      /\ \/ /\ got[r].s1 # ztsSeq /\ todo'[r] = Loads /\ result'[r] = result[r]
            /\ got'[r].on = got[r].on
         \/ /\ got[r].s1 = ztsSeq /\ todo'[r] = <<>> /\ got'[r].on = 0
            /\ result'[r] = <<got[r].ztsSample, got[r].ztsHost, got[r].seed, got[r].on>>
      /\ \A p \in Readers \ {r} :
           todo'[p] = todo[p] /\ got'[p] = got[p] /\ result'[p] = result[p]
      /\ UNCHANGED others
  BY LastInOrder
<1>2. /\ ztsSeq' = ztsSeq /\ seed' = seed /\ current' = current /\ fixed' = fixed
      /\ seed \in Nat
  BY <1>1 DEF others, memory, history, Types, EngineTypes
<1>3. CASE q # r
  BY <1>1, <1>2, <1>3 DEF Reading, Returned, Sound
<1>4. CASE q = r
  <2>1. CASE todo'[r] = Loads
    <3>1. Len(todo'[r]) = 5 /\ todo'[r] # <<>>
      BY <2>1 DEF Loads
    <3>2. result'[r] = result[r] /\ got'[r].on = got[r].on
      BY <1>1, <3>1
    <3> QED BY <1>2, <1>4, <2>1, <3>1, <3>2 DEF Reading, Returned, Sound
  <2>2. CASE todo'[r] = <<>>
    <3>1. Loads # <<>>
      BY DEF Loads
    <3>2. /\ got[r].s1 = ztsSeq /\ got'[r].on = 0
          /\ result'[r] = <<got[r].ztsSample, got[r].ztsHost, got[r].seed, got[r].on>>
      BY <1>1, <2>2, <3>1
    <3>3. ~(Len(todo'[r]) \in 1 .. 4)
      BY <2>2
    <3>4. Reading(r)'
      BY <1>2, <2>2, <3>2, <3>3 DEF Reading
    <3>5. Len(todo[r]) = 1
      BY <1>1
    <3>6. got[r].on = seed /\ got[r].on # 0 =>
            /\ fixed /\ got[r].ztsSample = current[1] /\ got[r].ztsHost = current[2]
            /\ got[r].seed = current[3]
      BY <3>2, <3>5 DEF Reading
    <3>7. fixed => current[3] = seed
      BY DEF Publishing, Newest, AtFixed
    <3>8. Returned(r)'
      BY <1>2, <3>2, <3>6, <3>7 DEF Returned, Sound
    <3> QED BY <1>4, <3>4, <3>8
  <2> QED BY <1>1, <2>1, <2>2
<1> QED BY <1>3, <1>4

IInv == Types /\ Publishing /\ \A r \in Readers : Reads(r)
LEMMA InitIInv == Init => IInv
<1> SUFFICES ASSUME Init PROVE IInv
  OBVIOUS
<1>1. prog = <<>> /\ DOMAIN prog = {} /\ ztsSeq = 0 /\ ~fixed /\ start = "off" /\ ~running
  BY DEF Init
<1>2. 0 % 2 = 0
  OBVIOUS
<1>3. Publishing
  BY <1>1, <1>2 DEF Publishing, Shape, Parity, Within, Fixing, Newest, AtFixed, Engines
<1> QED BY <1>3, InitTypes, InitReads DEF IInv

LEMMA StepIInv == WEAK = FALSE /\ IInv /\ [Next]_vars => IInv'
<1> SUFFICES ASSUME WEAK = FALSE, IInv, [Next]_vars PROVE IInv'
  OBVIOUS
<1>1. Types' /\ Publishing'
  BY StepTypes, StepPublishing DEF IInv
<1>2. ASSUME NEW q \in Readers PROVE Reads(q)'
  <2>1. Types /\ Publishing /\ Reads(q)
    BY DEF IInv
  <2>2. CASE StoreStep
    BY <2>1, <2>2, InOrder, StoreReads
  <2>3. CASE job_start
    BY <2>1, <2>3, StartReads
  <2>4. CASE harvest \/ Run \/ StartReturns \/ job_stop \/ Joined \/ UNCHANGED vars
    <3>1. UNCHANGED <<ztsSeq, seed, current, fixed, todo, got, result>>
      BY <2>4 DEF harvest, Run, StartReturns, job_stop, Joined, vars, memory,
         readerVars, history
    <3> QED BY <2>1, <3>1, QuietReads
  <2>5. ASSUME NEW r \in Readers, GetZeroTimeStamp(r) \/ Load(r) \/ LastLoad(r)
        PROVE  Reads(q)'
    <3>1. Reads(r)
      BY DEF IInv
    <3> QED BY <2>1, <2>5, <3>1, CallReads, LoadReads, LastReads
  <2> QED BY <2>2, <2>3, <2>4, <2>5 DEF Next, Engine, Reader
<1> QED BY <1>1, <1>2 DEF IInv

(* UA4FX_USB.h:78, UA4FX_USB.c:864-872: in the program's order, a call made *)
(* once the origin is fixed returns the pair that is the last published as  *)
(* it returns, both halves, with its seed.                                  *)
THEOREM WholeStamps == ASSUME WEAK = FALSE PROVE Spec => StampWhole
<1>1. IInv /\ [Next]_vars =>
        [\A r \in Readers : Returns(r) /\ Sound(result'[r])
           => SubSeq(result'[r], 1, 3) = current]_vars
  <2> SUFFICES ASSUME IInv, NEW r \in Readers, Returns(r), Sound(result'[r])
               PROVE  SubSeq(result'[r], 1, 3) = current
    OBVIOUS
  <2>1. /\ Types /\ Publishing /\ Reads(r) /\ Reads(r)'
        /\ result'[r] = <<got[r].ztsSample, got[r].ztsHost, got[r].seed, got[r].on>>
        /\ got[r].s1 = ztsSeq /\ Len(todo[r]) = 1
    <3>1. Types /\ Publishing /\ Reads(r) /\ LastLoad(r) /\ todo'[r] = <<>> /\ Reading(r)
      BY DEF IInv, Returns, Reads
    <3>2. Loads # <<>>
      BY DEF Loads
    <3>3. todo[r] = <<"s2">>
      BY <3>1, LastInOrder
    <3>4. Len(todo[r]) = 1
      BY <3>3
    <3> QED BY <3>1, <3>2, <3>4, LastInOrder, LastReads
  <2>2. got[r].on = seed /\ got[r].on # 0
    BY <2>1 DEF Sound
  <2>3. /\ got[r].ztsSample = current[1] /\ got[r].ztsHost = current[2]
        /\ got[r].seed = current[3]
    BY <2>1, <2>2 DEF Reads, Reading
  <2>4. current = <<current[1], current[2], current[3]>>
    BY <2>1 DEF Types, EngineTypes
  <2> QED BY <2>1, <2>3, <2>4
<1> QED BY <1>1, InitIInv, StepIInv, WEAK = FALSE, PTL DEF Spec, StampWhole

(* UA4FX_USB.c:246-269, 436-441: on one timeline, no reader sees sample or  *)
(* host time go back, nor two host times for one sample time.               *)
THEOREM TimelineNeverBack == ASSUME WEAK = FALSE PROVE Spec => TimelineGoesOn
<1>1. IInv /\ [Next]_vars =>
        [\A r \in Readers :
           LET new == result'[r]  old == result[r] IN
           Returns(r) /\ Sound(new) /\ Sound(old)
             => new = old \/ (new[1] > old[1] /\ new[2] > old[2])]_vars
  <2> SUFFICES ASSUME IInv, NEW r \in Readers, Returns(r), Sound(result'[r]), Sound(result[r])
               PROVE  \/ result'[r] = result[r]
                      \/ result'[r][1] > result[r][1] /\ result'[r][2] > result[r][2]
    OBVIOUS
  <2> DEFINE new == result'[r]
             old == result[r]
  <2>1. /\ Types /\ Publishing /\ Reads(r)
        /\ new = <<got[r].ztsSample, got[r].ztsHost, got[r].seed, got[r].on>>
        /\ got[r].s1 = ztsSeq /\ Len(todo[r]) = 1
    <3>1. Types /\ Publishing /\ Reads(r) /\ LastLoad(r) /\ todo'[r] = <<>> /\ Reading(r)
      BY DEF IInv, Returns, Reads
    <3>2. Loads # <<>>
      BY DEF Loads
    <3>3. todo[r] = <<"s2">>
      BY <3>1, LastInOrder
    <3>4. Len(todo[r]) = 1
      BY <3>3
    <3> QED BY <3>1, <3>2, <3>4, LastInOrder
  <2>2. got[r].on = seed /\ got[r].on # 0
    BY <2>1 DEF Sound
  <2>3. /\ got[r].ztsSample = current[1] /\ got[r].ztsHost = current[2]
        /\ got[r].seed = current[3] /\ current[3] = seed
    BY <2>1, <2>2 DEF Reads, Reading, Publishing, Newest, AtFixed
  <2>4. /\ old[3] = seed /\ old[4] = seed
        /\ \/ old[1] = current[1] /\ old[2] = current[2]
           \/ old[1] < current[1] /\ old[2] < current[2]
    BY <2>1 DEF Reads, Returned, Sound
  <2>5. new[1] = current[1] /\ new[2] = current[2] /\ new[3] = seed /\ new[4] = seed
    BY <2>1, <2>2, <2>3
  <2>6. /\ old[1] \in Nat /\ old[2] \in Nat /\ current[1] \in Nat /\ current[2] \in Nat
        /\ old = <<old[1], old[2], old[3], old[4]>> /\ new = <<new[1], new[2], new[3], new[4]>>
    BY <2>1 DEF Types, EngineTypes, ReaderTypes
  <2> QED BY <2>4, <2>5, <2>6
<1> QED BY <1>1, InitIInv, StepIInv, WEAK = FALSE, PTL DEF Spec, TimelineGoesOn
=============================================================================
