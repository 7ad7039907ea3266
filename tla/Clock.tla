------------------------------- MODULE Clock -------------------------------
(* Zero timestamps: the engine publishes pairs of a sample time and a host  *)
(* time, a period apart, and the host's IO threads read the last one        *)
(* without a lock, under a sequence counter (src/driver/UA4FX_USB.c         *)
(* 188-200, 246-269, 436-441, 484-486, 604-662, 864-872).  Sample times are *)
(* counted in periods.  The counter is atomic, the data are plain fields.   *)
(* Publishing is done by whoever holds the stream's lock, one at a time.    *)
EXTENDS Integers, Sequences

CONSTANTS
  Readers,   \* IO threads of the host
  Hosts,     \* host times that frame stamps may show, in any order
  MaxStarts, MaxStamps, \* bounds: starts, and periods after each
  WEAK       \* arm64: a plain store may pass an increment, and the plain loads
             \* the second load of the counter; x86 keeps the program's order

ASSUME ClockAssumption == /\ Hosts \subseteq Nat \ {0} /\ WEAK \in BOOLEAN
                          /\ MaxStarts \in Nat /\ MaxStamps \in Nat

VARIABLES
  ztsSeq, ztsSample, ztsHost, seed, \* what readers load
  nextZts, stampPending, running,
  start,        \* off, begun, waiting, returned or stopping
  prog,         \* stores the publishing thread has still to do
  todo, got,    \* per reader: loads still to do; what the others brought
  result,       \* per reader: what its last call on this timeline returned
  current,      \* history: the last pair published, and its seed
  fixed         \* history: the origin is fixed
memory == <<ztsSeq, ztsSample, ztsHost>>
readerVars == <<todo, got, result>>
history == <<current, fixed>>
vars == <<memory, seed, nextZts, stampPending, running, start, prog, readerVars, history>>
----------------------------------------------------------------------------
Store(to, v) == [to |-> to, v |-> v]
zts_publish_noOdd(sample, host) ==
  <<Store("ztsSample", sample), Store("ztsHost", host),
    Store("even", <<sample, host>>), Store("even", <<sample, host>>)>>
zts_publish(sample, host) ==
  <<Store("odd", 1), Store("ztsSample", sample), Store("ztsHost", host),
    Store("even", <<sample, host>>)>>

(* "e->ztsHost = 0; zts_publish(e, 0.0, host0)": a plain store comes first. *)
Origin(host0) == <<Store("ztsHost", 0)>> \o zts_publish(0, host0)

(* clock_advance: a stamp is never earlier than the one before it.          *)
Later_unclamped(host) == host
Later(host) == IF host <= ztsHost THEN ztsHost + 1 ELSE host
clock_advance(host) == zts_publish(nextZts, Later(host))

(* The stamp that brings stampPending to zero fixes the origin: counted     *)
(* down first, published next.                                              *)
StampSeen(host) ==
  <<Store("stampPending", stampPending - 1)>>
  \o (IF stampPending = 1 THEN Origin(host) \o <<Store("fixed", 1)>> ELSE <<>>)

Counts_always(stamped) == stamped
Counts(stamped) == stamped /\ stampPending > 0

(* One harvested frame: the clock may pass the next period, and the frame   *)
(* may be stamped.  After a stop has cleared `running`, the turn that the   *)
(* tick thread is in goes on until it is joined.                            *)
harvest == \E host \in Hosts, passes, stamped \in BOOLEAN :
  /\ (running \/ start = "stopping") /\ prog = <<>> /\ (passes \/ Counts(stamped))
  /\ passes => nextZts <= MaxStamps
  /\ prog' = (IF passes THEN clock_advance(host) ELSE <<>>)
             \o (IF Counts(stamped) THEN StampSeen(host) ELSE <<>>)
  /\ nextZts' = IF passes THEN nextZts + 1 ELSE nextZts
  /\ UNCHANGED <<memory, seed, stampPending, running, start, readerVars, history>>

(* One store reaches the memory.                                            *)
Overtakes(i) == \A j \in 1 .. i - 1 :
  /\ WEAK /\ prog[i].to \notin {"odd", "even", "fixed", prog[j].to}
  /\ prog[j].to # "fixed"
Put(s, v) == IF s.to = v THEN s.v ELSE CASE v = "ztsSample" -> ztsSample
                                         [] v = "ztsHost" -> ztsHost
                                         [] v = "stampPending" -> stampPending
StoreStep == \E i \in DOMAIN prog :
  LET s == prog[i] IN
  /\ Overtakes(i)
  /\ prog' = SubSeq(prog, 1, i - 1) \o SubSeq(prog, i + 1, Len(prog))
  /\ ztsSeq' = IF s.to \in {"odd", "even"} THEN ztsSeq + 1 ELSE ztsSeq
  /\ ztsSample' = Put(s, "ztsSample") /\ ztsHost' = Put(s, "ztsHost")
  /\ stampPending' = Put(s, "stampPending")
  /\ fixed' = (fixed \/ s.to = "fixed")
  /\ current' = IF s.to = "even" THEN <<s.v[1], s.v[2], seed>> ELSE current
  /\ UNCHANGED <<seed, nextZts, running, start, readerVars>>

(* job_start, up to `running`; its wait for two stamps, 100 ms at most; and *)
(* job_stop, which the device's detach calls as well.                       *)
job_start == \E host \in Hosts :
  /\ start = "off" /\ start' = "begun" /\ seed < MaxStarts
  /\ seed' = seed + 1 /\ nextZts' = 1 /\ stampPending' = 2
  /\ prog' = Origin(host) /\ fixed' = FALSE
  /\ result' = [r \in Readers |-> <<0, 0, 0, 0>>]
  /\ UNCHANGED <<memory, running, todo, got, current>>
Run == /\ start = "begun" /\ prog = <<>> /\ start' = "waiting" /\ running' = TRUE
       /\ UNCHANGED <<memory, seed, nextZts, stampPending, prog, readerVars, history>>
StartReturns ==
  /\ start = "waiting" /\ start' = "returned"
  /\ UNCHANGED <<memory, seed, nextZts, stampPending, running, prog, readerVars, history>>
job_stop == /\ start \in {"waiting", "returned"} /\ start' = "stopping" /\ running' = FALSE
            /\ UNCHANGED <<memory, seed, nextZts, stampPending, prog, readerVars, history>>
Join_missing == start = "stopping" /\ prog' = <<>>
Join == start = "stopping" /\ prog = <<>> /\ UNCHANGED prog
Joined == /\ Join /\ start' = "off"
          /\ UNCHANGED <<memory, seed, nextZts, stampPending, running, readerVars, history>>

(* get_zero_timestamp: the loads, in order on x86.  It starts over if the   *)
(* counter is odd or has moved.                                             *)
Loads_noCheck == <<"s1", "ztsSample", "ztsHost", "seed">>
Loads == <<"s1", "ztsSample", "ztsHost", "seed", "s2">>
Nothing == [s1 |-> 0, ztsSample |-> 0, ztsHost |-> 0, seed |-> 0, s2 |-> 0, on |-> 0]
Value(v) == CASE v \in {"s1", "s2"} -> ztsSeq [] v = "ztsSample" -> ztsSample
              [] v = "ztsHost" -> ztsHost [] v = "seed" -> seed
others == <<memory, seed, nextZts, stampPending, running, start, prog, history>>

GetZeroTimeStamp(r) ==
  /\ todo[r] = <<>> /\ start = "returned" /\ running
  /\ todo' = [todo EXCEPT ![r] = Loads]
  /\ got' = [got EXCEPT ![r].on = IF fixed THEN seed ELSE 0]
  /\ UNCHANGED <<result, others>>
Load(r) == \E i \in DOMAIN todo[r] :
  LET v == todo[r][i] IN
  /\ i = 1 \/ (WEAK /\ todo[r][1] # "s1")
  /\ v = "s1" => ztsSeq % 2 = 0
  /\ Len(todo[r]) > 1
  /\ got' = [got EXCEPT ![r][v] = Value(v)]
  /\ todo' = [todo EXCEPT ![r] = SubSeq(@, 1, i - 1) \o SubSeq(@, i + 1, Len(@))]
  /\ UNCHANGED <<result, others>>
LastLoad(r) ==
  /\ Len(todo[r]) = 1
  /\ LET g == [got[r] EXCEPT ![Head(todo[r])] = Value(Head(todo[r]))]
         again == "s2" \in {Loads[i] : i \in DOMAIN Loads} /\ g.s1 # g.s2
     IN  /\ todo' = [todo EXCEPT ![r] = IF again THEN Loads ELSE <<>>]
         /\ result' = IF again THEN result
                      ELSE [result EXCEPT ![r] = <<g.ztsSample, g.ztsHost, g.seed, g.on>>]
         /\ got' = [got EXCEPT ![r] = [Nothing EXCEPT !.on = IF again THEN g.on ELSE 0]]
  /\ UNCHANGED others
Returns(r) == LastLoad(r) /\ todo'[r] = <<>>
----------------------------------------------------------------------------
Init ==
  /\ ztsSeq = 0 /\ ztsSample = 0 /\ ztsHost = 0 /\ seed = 0
  /\ nextZts = 1 /\ stampPending = 0 /\ running = FALSE /\ start = "off" /\ prog = <<>>
  /\ todo = [r \in Readers |-> <<>>] /\ got = [r \in Readers |-> Nothing]
  /\ result = [r \in Readers |-> <<0, 0, 0, 0>>]
  /\ current = <<0, 0, 0>> /\ fixed = FALSE

Engine == harvest \/ StoreStep \/ job_start \/ Run \/ StartReturns \/ job_stop \/ Joined
Reader(r) == Load(r) \/ LastLoad(r)
Next == Engine \/ \E r \in Readers : GetZeroTimeStamp(r) \/ Reader(r)
Spec == Init /\ [][Next]_vars
FairSpec == Spec /\ WF_vars(StoreStep) /\ \A r \in Readers : WF_vars(Reader(r))
----------------------------------------------------------------------------
TypeOK ==
  /\ {ztsSeq, ztsSample, ztsHost} \subseteq Nat /\ seed \in 0 .. MaxStarts
  /\ nextZts \in 1 .. MaxStamps + 1 /\ stampPending \in 0 .. 2
  /\ {running, fixed} \subseteq BOOLEAN
  /\ start \in {"off", "begun", "waiting", "returned", "stopping"}
  /\ \A r \in Readers : got[r].s1 \in Nat /\ Len(todo[r]) <= Len(Loads)

(* UA4FX_USB.h:78: "Most recent zero timestamp."  A call made once the      *)
(* origin is fixed returns the pair that is the last published as it        *)
(* returns, both halves, with its seed (unless the engine is started anew   *)
(* during the call).                                                        *)
Sound(res) == res[4] # 0 /\ res[4] = seed
StampWhole ==
  [][\A r \in Readers : Returns(r) /\ Sound(result'[r])
       => SubSeq(result'[r], 1, 3) = current]_vars

(* On one timeline, that is, between changes of the seed, a reader never    *)
(* sees sample or host time go back, nor two host times for one sample      *)
(* time, however the frames' stamps jitter.                                 *)
TimelineGoesOn ==
  [][\A r \in Readers :
       LET new == result'[r]  old == result[r] IN
       Returns(r) /\ Sound(new) /\ Sound(old)
         => new = old \/ (new[1] > old[1] /\ new[2] > old[2])]_vars

(* A reader never spins for ever: no stop leaves a publication half-way.    *)
CallsReturn == \A r \in Readers : todo[r] # <<>> ~> todo[r] = <<>>
=============================================================================
