----------------------------- MODULE Lifecycle -----------------------------
(***************************************************************************)
(* Start, stop and hot-plug: how the HAL plug-in (driver/UA4FX_Driver.c)   *)
(* and the streaming engine (driver/UA4FX_USB.c) share one device.         *)
(*                                                                         *)
(* Host threads call StartIO and StopIO; they hold gStateMutex while they  *)
(* wait in engine_sync for the USB thread to run their job.  The USB       *)
(* thread runs jobs and kernel notifications from its run loop, and again  *)
(* from the run loops nested in job_start and stream_stop; its hot-plug    *)
(* callback takes gStateMutex.  Initialize runs in a thread of the host.   *)
(*                                                                         *)
(* A definition named X_variant is no part of the model: it is X with a    *)
(* plausible mistake, for which some property below must fail.             *)
(***************************************************************************)
EXTENDS Integers, Sequences, FiniteSets

CONSTANTS
  Clients,   \* host threads that start and stop IO
  MaxPlugs,  \* bound of the model: how often the device is plugged in
  PluggedAtBoot, \* whether the device may be there, or not, at the start
  CanUnplug, \* the user may pull the cable
  Faults     \* calls to a present device may fail: bandwidth, exclusive open

ASSUME LifecycleAssumption ==
  /\ MaxPlugs \in Nat \ {0}
  /\ PluggedAtBoot \subseteq BOOLEAN
  /\ CanUnplug \in BOOLEAN /\ Faults \in BOOLEAN
  /\ IsFiniteSet(Clients) /\ "free" \notin Clients

VARIABLES
  \* the cable and the kernel's notifications, in order
  plugged, plugs,          \* each time it is plugged in, it is a new service
  evq,
  \* engine: state of the USB thread
  booted,                  \* the run loop runs, `ready` is signalled
  dev,                     \* e->dev: the service that is open, 0 for none
  present, running,
  hotplugCb,               \* e->hotplugCb is set
  stack,                   \* what the USB thread is inside of, innermost first
  \* engine_sync: the block handed to the run loop and its result
  job, reply,
  \* HAL plug-in
  gStateMutex, gDevicePresent, gIOCount,
  initPc,                  \* where UA4FX_Initialize is
  pc,                      \* where each client's call is
  active                   \* clients that were told their IO runs

cableVars == <<plugged, plugs>>
engineVars == <<dev, present, running, stack>>
syncVars == <<job, reply>>
halVars == <<gStateMutex, gDevicePresent, gIOCount>>
clientVars == <<pc, active>>
vars == <<cableVars, evq, booted, engineVars, hotplugCb, syncVars, halVars,
          initPc, clientVars>>

(* Nested run loops: waiting for the first frames of a start, draining     *)
(* after a failed start, a stop, a detach.  In "arrived" and "removed" the *)
(* thread is inside the plug-in's callback and waits for gStateMutex.      *)
NestedLoops == {"start", "fail", "stop", "detach"}
Callbacks == {"arrived", "removed"}

Arrival(n) == [kind |-> "arrival", service |-> n]
Terminated == [kind |-> "terminated", service |-> 0]

Init ==
  /\ plugged \in PluggedAtBoot /\ plugs = IF plugged THEN 1 ELSE 0
  /\ evq = <<>> /\ booted = FALSE
  /\ dev = 0 /\ present = FALSE /\ running = FALSE
  /\ hotplugCb = FALSE /\ stack = <<>>
  /\ job = "none" /\ reply = "none"
  /\ gStateMutex = "free" /\ gDevicePresent = FALSE /\ gIOCount = 0
  /\ initPc = "create"
  /\ pc = [c \in Clients |-> "idle"] /\ active = [c \in Clients |-> FALSE]

Live(n) == plugged /\ n = plugs

----------------------------------------------------------------------------
(* The user and the kernel.  A terminated message goes to whoever          *)
(* registered interest in the service, which device_attach did.            *)
Plug ==
  /\ ~plugged /\ plugs < MaxPlugs
  /\ plugged' = TRUE /\ plugs' = plugs + 1
  /\ evq' = IF booted THEN Append(evq, Arrival(plugs + 1)) ELSE evq
  /\ UNCHANGED <<booted, engineVars, hotplugCb, syncVars, halVars, initPc,
                 clientVars>>

Unplug ==
  /\ CanUnplug /\ plugged /\ plugged' = FALSE
  /\ evq' = IF dev = plugs THEN Append(evq, Terminated) ELSE evq
  /\ UNCHANGED <<plugs, booted, engineVars, hotplugCb, syncVars, halVars,
                 initPc, clientVars>>

----------------------------------------------------------------------------
(* device_attach and device_detach on the USB thread.  Both end with the   *)
(* plug-in's callback, if it is set.                                       *)
CallPlugIn_last(f, st) == IF hotplugCb THEN st \o <<f>> ELSE st
CallPlugIn(f, st) == IF hotplugCb THEN <<f>> \o st ELSE st

(* Ignored while another service is open; a service that is gone, or that  *)
(* somebody else holds, does not open.                                     *)
NotOpened(n) ==
  /\ dev # 0 \/ ~Live(n) \/ Faults
  /\ UNCHANGED <<dev, present, running, stack>>

(* "no PCM interface could be opened": the device is given up again.       *)
NoInterface(n) ==
  /\ dev = 0 /\ Live(n) /\ Faults
  /\ stack' = CallPlugIn("removed", stack)
  /\ UNCHANGED <<dev, present, running>>

Opened(n) ==
  /\ dev = 0 /\ Live(n)
  /\ dev' = n /\ present' = TRUE
  /\ stack' = CallPlugIn("arrived", stack)
  /\ UNCHANGED running

device_attach(n) == NotOpened(n) \/ NoInterface(n) \/ Opened(n)

CloseDevice_silent(st) ==
  dev' = 0 /\ present' = FALSE /\ stack' = st
CloseDevice(st) ==
  dev' = 0 /\ present' = FALSE /\ stack' = CallPlugIn("removed", st)

device_detach_running ==
  IF dev = 0 THEN UNCHANGED <<dev, present, running, stack>>
  ELSE CloseDevice(stack) /\ UNCHANGED running
device_detach ==
  \/ dev = 0 /\ UNCHANGED <<dev, present, running, stack>>
  \/ /\ dev # 0 /\ running
     /\ running' = FALSE /\ stack' = <<"detach">> \o stack
     /\ UNCHANGED <<dev, present>>
  \/ dev # 0 /\ ~running /\ CloseDevice(stack) /\ UNCHANGED running

(* usb_thread: a device that is there already is attached before the run   *)
(* loop starts.                                                            *)
Boot ==
  /\ ~booted /\ booted' = TRUE
  /\ \/ plugged /\ device_attach(plugs)
     \/ ~plugged /\ UNCHANGED <<dev, present, running, stack>>
  /\ UNCHANGED <<cableVars, evq, hotplugCb, syncVars, halVars, initPc,
                 clientVars>>

Inside == IF stack = <<>> THEN "loop" ELSE Head(stack)
InRunLoop == booted /\ Inside \in NestedLoops \cup {"loop"}

Dispatch ==
  /\ InRunLoop /\ evq # <<>> /\ evq' = Tail(evq)
  /\ \/ Head(evq).kind = "arrival" /\ device_attach(Head(evq).service)
     \/ Head(evq).kind = "terminated" /\ device_detach
  /\ UNCHANGED <<cableVars, booted, hotplugCb, syncVars, halVars, initPc,
                 clientVars>>

(* The drain of a detach is over: the rest of device_detach.               *)
DetachReturns ==
  /\ Inside = "detach"
  /\ CloseDevice(Tail(stack))
  /\ UNCHANGED <<cableVars, evq, booted, running, hotplugCb, syncVars, halVars,
                 initPc, clientVars>>

----------------------------------------------------------------------------
(* hotplug, the plug-in's callback: it holds gStateMutex throughout.  The  *)
(* host forgets the clients of a device that leaves its device list.       *)
RemovedCount == gIOCount' = 0

Publish == gStateMutex = "free" /\ gDevicePresent' = TRUE

hotplug ==
  /\ Inside \in Callbacks /\ stack' = Tail(stack)
  /\ \/ /\ Inside = "arrived" /\ Publish
        /\ UNCHANGED <<gIOCount, active>>
     \/ /\ Inside = "removed" /\ gStateMutex = "free"
        /\ gDevicePresent' = FALSE /\ RemovedCount
        /\ active' = [c \in Clients |-> FALSE]
  /\ UNCHANGED <<cableVars, evq, booted, dev, present, running, hotplugCb,
                 syncVars, gStateMutex, initPc, pc>>

(* UA4FX_Initialize: create the engine, set the callback, and publish a    *)
(* device the engine found before the callback was set.                    *)
Created ==
  /\ initPc = "create" /\ booted
  /\ hotplugCb' = TRUE /\ initPc' = "check"
  /\ UNCHANGED <<cableVars, evq, booted, engineVars, syncVars, halVars,
                 clientVars>>

CheckPresent ==
  /\ initPc = "check"
  /\ initPc' = IF present /\ ~gDevicePresent THEN "publish" ELSE "done"
  /\ UNCHANGED <<cableVars, evq, booted, engineVars, hotplugCb, syncVars,
                 halVars, clientVars>>

PublishFound ==
  /\ initPc = "publish" /\ Publish /\ initPc' = "done"
  /\ UNCHANGED <<cableVars, evq, booted, engineVars, hotplugCb, syncVars,
                 gStateMutex, gIOCount, clientVars>>

----------------------------------------------------------------------------
(* StartIO and StopIO.  The host starts a client that is not active and    *)
(* stops one that is; the call may then wait for gStateMutex.              *)
Call(c) ==
  /\ initPc = "done" /\ pc[c] = "idle"
  /\ pc' = [pc EXCEPT ![c] = IF active[c] THEN "StopIO" ELSE "StartIO"]
  /\ UNCHANGED <<cableVars, evq, booted, engineVars, hotplugCb, syncVars,
                 halVars, initPc, active>>

(* engine_sync hands the job to the run loop; the caller keeps the mutex.  *)
engine_sync(c, fn) ==
  /\ job' = fn /\ gStateMutex' = c
  /\ pc' = [pc EXCEPT ![c] = "wait"]
  /\ UNCHANGED reply

Return(c) == pc' = [pc EXCEPT ![c] = "idle"] /\ UNCHANGED syncVars

Refuse_leak(c) == pc' = [pc EXCEPT ![c] = "idle"] /\ gStateMutex' = c
                  /\ UNCHANGED <<syncVars, gIOCount, active>>
Refuse(c) == Return(c) /\ UNCHANGED <<gStateMutex, gIOCount, active>>

(* The count cannot reach UINT32_MAX with finitely many clients.           *)
UA4FX_StartIO(c) ==
  /\ pc[c] = "StartIO" /\ gStateMutex = "free"
  /\ \/ ~gDevicePresent /\ Refuse(c)
     \/ /\ gDevicePresent /\ gIOCount = 0
        /\ engine_sync(c, "start") /\ UNCHANGED <<gIOCount, active>>
     \/ /\ gDevicePresent /\ gIOCount > 0
        /\ gIOCount' = gIOCount + 1 /\ active' = [active EXCEPT ![c] = TRUE]
        /\ Return(c) /\ UNCHANGED gStateMutex
  /\ UNCHANGED <<cableVars, evq, booted, engineVars, hotplugCb,
                 gDevicePresent, initPc>>

Uncount_unguarded(c) ==
  \/ gIOCount = 1 /\ gIOCount' = 0 /\ engine_sync(c, "stop")
  \/ /\ gIOCount # 1 /\ gIOCount' = gIOCount - 1
     /\ Return(c) /\ UNCHANGED gStateMutex
Uncount_anyStops(c) ==
  \/ gIOCount > 0 /\ gIOCount' = 0 /\ engine_sync(c, "stop")
  \/ /\ gIOCount = 0 /\ UNCHANGED gIOCount
     /\ Return(c) /\ UNCHANGED gStateMutex
Uncount(c) ==
  \/ gIOCount = 1 /\ gIOCount' = 0 /\ engine_sync(c, "stop")
  \/ /\ gIOCount > 1 /\ gIOCount' = gIOCount - 1
     /\ Return(c) /\ UNCHANGED gStateMutex
  \/ /\ gIOCount = 0 /\ UNCHANGED gIOCount
     /\ Return(c) /\ UNCHANGED gStateMutex

UA4FX_StopIO(c) ==
  /\ pc[c] = "StopIO" /\ gStateMutex = "free"
  /\ Uncount(c)
  /\ active' = [active EXCEPT ![c] = FALSE]
  /\ UNCHANGED <<cableVars, evq, booted, engineVars, hotplugCb,
                 gDevicePresent, initPc>>

(* The USB thread signalled `done`.                                        *)
CountStarted_always(c) ==
  IF reply \in {"started", "failed"}
  THEN gIOCount' = 1 /\ active' = [active EXCEPT ![c] = (reply = "started")]
  ELSE UNCHANGED <<gIOCount, active>>
CountStarted(c) ==
  IF reply = "started"
  THEN gIOCount' = 1 /\ active' = [active EXCEPT ![c] = TRUE]
  ELSE UNCHANGED <<gIOCount, active>>

SyncReturns(c) ==
  /\ pc[c] = "wait" /\ reply # "none"
  /\ CountStarted(c)
  /\ reply' = "none" /\ gStateMutex' = "free"
  /\ pc' = [pc EXCEPT ![c] = "idle"]
  /\ UNCHANGED <<cableVars, evq, booted, engineVars, hotplugCb, job,
                 gDevicePresent, initPc>>

----------------------------------------------------------------------------
(* The jobs, on the USB thread.  A start fails when the device is absent,  *)
(* stream_prepare fails or, with a drain, the first submission fails.      *)

job_start ==
  /\ InRunLoop /\ job = "start" /\ job' = "none"
  /\ \/ /\ ~present \/ running \/ Faults \/ ~Live(dev)
        /\ reply' = IF present /\ running THEN "started" ELSE "failed"
        /\ UNCHANGED <<running, stack>>
     \/ /\ present /\ ~running /\ Live(dev)
        /\ running' = TRUE /\ stack' = <<"start">> \o stack
        /\ UNCHANGED reply
     \/ /\ present /\ ~running /\ (Faults \/ ~Live(dev))
        /\ stack' = <<"fail">> \o stack
        /\ UNCHANGED <<running, reply>>
  /\ UNCHANGED <<cableVars, evq, booted, dev, present, hotplugCb, halVars,
                 initPc, clientVars>>

job_stop ==
  /\ InRunLoop /\ job = "stop" /\ job' = "none"
  /\ \/ ~running /\ reply' = "stopped" /\ UNCHANGED <<running, stack>>
     \/ /\ running /\ running' = FALSE
        /\ stack' = <<"stop">> \o stack /\ UNCHANGED reply
  /\ UNCHANGED <<cableVars, evq, booted, dev, present, hotplugCb, halVars,
                 initPc, clientVars>>

(* The nested run loop ends: the stamps came, the transfers came back, or  *)
(* the loop ran out of turns.                                              *)
JobReturns ==
  /\ Inside \in NestedLoops \ {"detach"}
  /\ stack' = Tail(stack)
  /\ reply' = [start |-> "started", fail |-> "failed", stop |-> "stopped"]
                [Inside]
  /\ UNCHANGED <<cableVars, evq, booted, dev, present, running, hotplugCb, job,
                 halVars, initPc, clientVars>>

----------------------------------------------------------------------------
UsbThread == \/ Boot \/ Dispatch \/ DetachReturns \/ hotplug
             \/ job_start \/ job_stop \/ JobReturns
Initialize == Created \/ CheckPresent \/ PublishFound
Client(c) == UA4FX_StartIO(c) \/ UA4FX_StopIO(c) \/ SyncReturns(c)
Next == \/ Plug \/ Unplug \/ UsbThread \/ Initialize
        \/ \E c \in Clients : Call(c) \/ Client(c)
Spec == Init /\ [][Next]_vars

(* Every thread keeps running.  A call that waits for gStateMutex gets it  *)
(* in the end if it is free again and again: the host's calls are rare.    *)
Fairness ==
  /\ WF_vars(Boot) /\ WF_vars(Dispatch) /\ WF_vars(DetachReturns)
  /\ WF_vars(job_start) /\ WF_vars(job_stop) /\ WF_vars(JobReturns)
  /\ SF_vars(hotplug) /\ WF_vars(Created) /\ WF_vars(CheckPresent)
  /\ SF_vars(PublishFound)
  /\ \A c \in Clients : SF_vars(Client(c))
FairSpec == Spec /\ Fairness

----------------------------------------------------------------------------
TypeOK ==
  /\ plugged \in BOOLEAN /\ plugs \in 0 .. MaxPlugs
  /\ evq \in Seq({Arrival(n) : n \in 1 .. MaxPlugs} \cup {Terminated})
  /\ booted \in BOOLEAN /\ dev \in 0 .. MaxPlugs
  /\ present \in BOOLEAN /\ running \in BOOLEAN /\ hotplugCb \in BOOLEAN
  /\ stack \in Seq(NestedLoops \cup Callbacks)
  /\ job \in {"none", "start", "stop"}
  /\ reply \in {"none", "started", "failed", "stopped"}
  /\ gStateMutex \in Clients \cup {"free"}
  /\ gDevicePresent \in BOOLEAN /\ gIOCount \in 0 .. Cardinality(Clients)
  /\ initPc \in {"create", "check", "publish", "done"}
  /\ pc \in [Clients -> {"idle", "StartIO", "StopIO", "wait"}]
  /\ active \in [Clients -> BOOLEAN]

Idle == gStateMutex = "free" /\ \A c \in Clients : pc[c] = "idle"
Quiet == Idle /\ initPc = "done" /\ evq = <<>> /\ stack = <<>> /\ job = "none"
Active == {c \in Clients : active[c]}

(* The count belongs to a published device: a client that starts while the *)
(* device goes is not counted on past its removal (hotplug, StartIO).      *)
CountNeedsDevice == gIOCount > 0 => gDevicePresent

(* The engine streams only into a device it holds open, even when a start  *)
(* lands in the run loop nested in a detach (job_start, device_detach).    *)
RunningNeedsDevice == running => present /\ dev # 0

(* The engine never streams for nobody: it runs because a client is        *)
(* counted, or because a caller holds gStateMutex to change that.          *)
RunningIsCounted == running => gIOCount > 0 \/ gStateMutex # "free"

(* No start that failed, and no client of a device that left, stays in the *)
(* count: it never keeps the engine running after the last StopIO.  (It    *)
(* may be too low: a StopIO that waited for the mutex over an unplug and a *)
(* replug takes the place of another client's.)                            *)
NoOvercount == gStateMutex = "free" => gIOCount <= Cardinality(Active)

(* Once every call, job and notification is done, the engine runs exactly  *)
(* if clients are counted: they never wait on an engine that a detach      *)
(* stopped between their start and its result.                             *)
EngineFollowsCount == Quiet => (running <=> gIOCount > 0)

NeverUnplugged == plugs = 0 \/ (plugs = 1 /\ plugged)

(* Until the device is unplugged, the count is the number of clients whose *)
(* StartIO succeeded and who did not call StopIO.                          *)
CountIsActive ==
  NeverUnplugged /\ gStateMutex = "free" => gIOCount = Cardinality(Active)

(* The USB thread waits for gStateMutex while its owner waits for the USB   *)
(* thread.                                                                 *)
LockCycle == Inside \in Callbacks /\ gStateMutex # "free" /\ reply = "none"

(* Every StartIO and StopIO returns, whatever fails and whenever the device *)
(* is unplugged or plugged in: only the lock cycle can keep one.           *)
CallsReturn ==
  \A c \in Clients : pc[c] # "idle" ~> (pc[c] = "idle" \/ LockCycle)

(* UA4FX_USB.h:65 calls start and stop thread-safe and synchronous, and    *)
(* README.md:41 says that hot-unplug is handled cleanly: the USB thread    *)
(* must not wait for gStateMutex while its owner waits for the USB thread. *)
NoLockCycle == ~LockCycle

(* README.md:40-41: the device "disappears again when you unplug it".  The *)
(* plug-in never publishes a device that is gone, except in Initialize:    *)
(* its check of device_present and its call of hotplug are two steps       *)
(* (UA4FX_Driver.c:297), and the device may leave in between.              *)
GhostOnlyAtInit ==
  [][~present /\ ~gDevicePresent /\ gDevicePresent' => initPc' # initPc]_vars

(* README.md:40: "plug the unit in at any time" and the device appears.    *)
ReplugPublished == Quiet /\ plugged => present /\ gDevicePresent
=============================================================================
