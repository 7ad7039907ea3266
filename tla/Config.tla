------------------------------- MODULE Config -------------------------------
(* The settings of the plug-in: trim, volume and mute, which act at once,   *)
(* and the USB geometry, which the host applies once it has stopped IO      *)
(* (src/driver/UA4FX_Driver.c 58-67, 171-241, 276-337, 609-655;             *)
(* src/driver/UA4FX_USB.c 850-859).  gStateMutex covers the assignments of  *)
(* a setter; the copy it saves afterwards is read and written without it.   *)
(* One direction stands for both: their gains never meet.                   *)
EXTENDS Integers

CONSTANTS
  Threads,     \* threads of the host that set properties
  Host,        \* the thread of the host that performs configuration changes
  Requests,    \* dictionaries a client sets; a slider sets "vol", a button "mute"
  Legacy,      \* dictionaries the storage may hold at the first start
  MaxRequests  \* bound: a client sets nothing while so many changes wait

Callers == Threads \cup {Host}
GeometryKeys == {"framesPerXfer", "xfersInFlight", "xfersInFlightOut", "outputLeadMs"}
GainKeys == {"trim", "vol", "mute"}
Keys == GeometryKeys \cup GainKeys

MAXNF == 8          \* UA4FX_MAX_FRAMES_PER_XFER
MAXNB == 8          \* UA4FX_MAX_XFERS_IN_FLIGHT
kTrim_MinDB == -24
kTrim_MaxDB == 24
kVolume_MinDB == -60
kVolume_MaxDB == 0
Silence == -90      \* from here on db_to_lin is zero

IsDict(d) == /\ DOMAIN d \subseteq Keys
             /\ \A k \in DOMAIN d : d[k] \in (IF k \in GeometryKeys THEN Nat ELSE Int)
ASSUME ConfigAssumption == /\ Host \notin Threads
                           /\ Callers \cap {"free", "none", "stored", "overtaken"} = {}
                           /\ \A d \in Requests \cup Legacy : IsDict(d)
                           /\ MaxRequests \in Nat

VARIABLES
  engine,    \* the geometry of the engine
  gains,     \* trim, volume and mute
  gain,      \* the level the IO thread multiplies with
  pending,   \* gPendingConfig
  stored,    \* the dictionary in the host's storage
  mutex,     \* who holds gStateMutex, or none
  pc, job,   \* where each caller is; its dictionary, level, flag and copy
  requests,  \* configuration changes asked for and not yet performed
  running,   \* IO is running
  waiting,   \* history: a geometry was accepted and not yet performed
  newest     \* history: who holds the newest copy (none was made yet); or it
             \* is in the storage, or was overwritten there by an older one
shared == <<engine, gains, gain, pending, stored, mutex, requests, running>>
vars == <<shared, pc, job, waiting, newest>>

free == "free"
saved == newest = "stored"
overtaken == newest = "overtaken"
----------------------------------------------------------------------------
Overlay(old, d) == [k \in DOMAIN old |-> IF k \in DOMAIN d THEN d[k] ELSE old[k]]
Within(v, lo, hi) == IF v < lo THEN lo ELSE IF v > hi THEN hi ELSE v

Defaults == [framesPerXfer |-> 1, xfersInFlight |-> 8, xfersInFlightOut |-> 8,
             outputLeadMs |-> 2]
DefaultGains == [trim |-> 0, vol |-> 0, mute |-> 0]

(* The clamps of ua4fx_engine_set_config; apply_config_dict has the same.   *)
set_config_fullLead(g) ==
  LET nf == Within(g["framesPerXfer"], 1, MAXNF)
      no == Within(g["xfersInFlightOut"], 2, MAXNB)
  IN  [framesPerXfer |-> nf, xfersInFlight |-> Within(g["xfersInFlight"], 2, MAXNB),
       xfersInFlightOut |-> no, outputLeadMs |-> Within(g["outputLeadMs"], 1, no * nf)]
set_config(g) ==
  LET nf == Within(g["framesPerXfer"], 1, MAXNF)
      no == Within(g["xfersInFlightOut"], 2, MAXNB)
  IN  [framesPerXfer |-> nf, xfersInFlight |-> Within(g["xfersInFlight"], 2, MAXNB),
       xfersInFlightOut |-> no, outputLeadMs |-> Within(g["outputLeadMs"], 1, no * nf - 1)]

WithGains_unclamped(g, d) == Overlay(g, d)
WithGains(g, d) ==
  LET new == Overlay(g, d)
  IN  [trim |-> Within(new["trim"], kTrim_MinDB, kTrim_MaxDB),
       vol |-> Within(new["vol"], kVolume_MinDB, kVolume_MaxDB),
       mute |-> IF new["mute"] # 0 THEN 1 ELSE 0]
Effective(g) == IF g["mute"] # 0 THEN Silence ELSE g["trim"] + g["vol"]

(* UA4FX_Initialize: what the plug-in starts with when d is in the storage. *)
(* A geometry that is not the default one is migrated.                      *)
Migrated(g, d) ==
  [framesPerXfer |-> g["framesPerXfer"],
   xfersInFlight |-> IF g["framesPerXfer"] = 1 /\ g["xfersInFlight"] < 8
                     THEN Defaults["xfersInFlight"] ELSE g["xfersInFlight"],
   xfersInFlightOut |-> IF "xfersInFlightOut" \notin DOMAIN d
                        THEN Defaults["xfersInFlightOut"] ELSE g["xfersInFlightOut"],
   outputLeadMs |-> IF "outputLeadMs" \notin DOMAIN d
                    THEN Defaults["outputLeadMs"] ELSE g["outputLeadMs"]]
Wanted(d) == set_config(Overlay(Defaults, d))
Loaded(d) == IF Wanted(d) = Defaults THEN Defaults ELSE set_config(Migrated(Wanted(d), d))
LeftPending(d) == IF Wanted(d) = Defaults THEN [k \in GeometryKeys |-> 0]
                  ELSE Migrated(Wanted(d), d)

(* copy_config_dict: the geometry of the engine, and the gains.             *)
Settings_effective(geometry, g) ==
  [k \in Keys |-> IF k \in GeometryKeys THEN geometry[k]
                  ELSE IF k = "vol" THEN g["trim"] + g["vol"] ELSE g[k]]
Settings(geometry, g) ==
  [k \in Keys |-> IF k \in GeometryKeys THEN geometry[k] ELSE g[k]]

NoDict == [k \in {} |-> 0]
Idle == [dict |-> NoDict, level |-> 0, changed |-> FALSE, copy |-> Settings(Defaults, DefaultGains)]

Starting(d) ==
  /\ engine = Loaded(d) /\ gains = WithGains(DefaultGains, d)
  /\ gain = Effective(gains) /\ pending = LeftPending(d)
  /\ mutex = free /\ pc = [c \in Callers |-> "idle"]
  /\ job = [c \in Callers |-> Idle]
  /\ requests = 0 /\ running = FALSE
  /\ waiting = FALSE /\ newest = "none"
Init == stored \in Legacy /\ Starting(stored)

Goto(c, step, j) == pc' = [pc EXCEPT ![c] = step] /\ job' = [job EXCEPT ![c] = j]

(* UA4FX_SetPropertyData: the lock is taken, the settings change and       *)
(* apply_gains computes the level ...                                       *)
Lock_missing(c) == mutex' = c
Lock(c) == mutex = free /\ mutex' = c
SetPropertyData(t, d) ==
  /\ pc[t] = "idle" /\ requests < MaxRequests
  /\ Lock(t)
  /\ gains' = WithGains(gains, d)
  /\ Goto(t, "apply", [job[t] EXCEPT !.dict = d, !.level = Effective(gains')])
  /\ UNCHANGED <<engine, gain, pending, stored, requests, running, waiting, newest>>

(* ... and stores it.  A geometry that differs from the engine's waits for *)
(* PerformDeviceConfigurationChange.  The lock is released.                 *)
AcceptGeometry(g) == pending' = g /\ waiting' = TRUE /\ engine' = engine
AfterApply_unchanged(changed) == IF changed THEN "request" ELSE "save"
AfterApply(changed) == "save"
apply_config_dict(t) ==
  LET want == set_config(Overlay(engine, job[t].dict))
      changed == want # engine
  IN  /\ pc[t] = "apply"
      /\ gain' = job[t].level
      /\ IF changed THEN AcceptGeometry(want) ELSE UNCHANGED <<pending, waiting, engine>>
      /\ mutex' = free
      /\ Goto(t, AfterApply(changed), [Idle EXCEPT !.changed = changed])
      /\ UNCHANGED <<gains, stored, requests, running, newest>>

(* save_config: the copy reads the geometry, then the gains, and is then   *)
(* written, all without the lock.                                           *)
copy_config_dict(c) ==
  /\ pc[c] = "save"
  /\ Goto(c, "copy", [job[c] EXCEPT !.copy = Settings(engine, gains)])
  /\ newest' = c
  /\ UNCHANGED <<shared, waiting>>
CopyGains(c) ==
  /\ pc[c] = "copy"
  /\ Goto(c, "write", [job[c] EXCEPT !.copy = Settings(@, gains)])
  /\ UNCHANGED <<shared, waiting, newest>>
AfterSave_quietly(c) == "idle"
AfterSave(c) == IF job[c].changed THEN "request" ELSE "idle"
WriteToStorage(c) ==
  /\ pc[c] = "write"
  /\ stored' = job[c].copy
  /\ newest' = IF newest = c THEN "stored" ELSE IF saved THEN "overtaken" ELSE newest
  /\ Goto(c, AfterSave(c), Idle)
  /\ UNCHANGED <<engine, gains, gain, pending, mutex, requests, running, waiting>>

RequestDeviceConfigurationChange(t) ==
  /\ pc[t] = "request"
  /\ requests' = requests + 1
  /\ Goto(t, "idle", Idle)
  /\ UNCHANGED <<engine, gains, gain, pending, stored, mutex, running, waiting, newest>>

(* UA4FX_PerformDeviceConfigurationChange, called with IO stopped; it saves *)
(* the settings like a setter.                                              *)
PerformDeviceConfigurationChange ==
  /\ pc[Host] = "idle" /\ requests > 0 /\ ~running /\ mutex = free
  /\ engine' = set_config(pending)
  /\ requests' = requests - 1 /\ waiting' = FALSE
  /\ Goto(Host, "save", Idle)
  /\ UNCHANGED <<gains, gain, pending, stored, mutex, running, newest>>
(* UA4FX_AbortDeviceConfigurationChange does nothing: pending stays.        *)
AbortDeviceConfigurationChange ==
  /\ pc[Host] = "idle" /\ requests > 0
  /\ requests' = requests - 1
  /\ waiting' = (waiting /\ (requests > 1 \/ \E t \in Threads : job[t].changed))
  /\ UNCHANGED <<engine, gains, gain, pending, stored, mutex, running, pc, job, newest>>

(* The host: it stops IO for a change and starts none while one waits.      *)
IO == /\ pc[Host] = "idle"
      /\ running \/ requests = 0
      /\ running' = ~running
      /\ UNCHANGED <<engine, gains, gain, pending, stored, mutex, requests, pc, job,
                     waiting, newest>>
StopForChange == running /\ requests > 0 /\ IO

(* The host's process ends at any moment; the storage survives, and the     *)
(* next one calls UA4FX_Initialize before anything else.                    *)
Initialize ==
  /\ engine' = Loaded(stored) /\ gains' = WithGains(DefaultGains, stored)
  /\ gain' = Effective(gains')
  /\ pending' = LeftPending(stored)
  /\ mutex' = free /\ pc' = [c \in Callers |-> "idle"]
  /\ job' = [c \in Callers |-> Idle]
  /\ requests' = 0 /\ running' = FALSE
  /\ waiting' = FALSE /\ newest' = "none"
  /\ UNCHANGED stored

SaveConfig(c) == copy_config_dict(c) \/ CopyGains(c) \/ WriteToStorage(c)
Setter(t) == apply_config_dict(t) \/ RequestDeviceConfigurationChange(t)
Next == \/ \E t \in Threads : Setter(t) \/ \E d \in Requests : SetPropertyData(t, d)
        \/ \E c \in Callers : SaveConfig(c)
        \/ PerformDeviceConfigurationChange \/ AbortDeviceConfigurationChange
        \/ IO \/ Initialize
Spec == Init /\ [][Next]_vars

(* The threads of the host go on, the mutex is handed on, and the host     *)
(* stops IO for a change it was asked for.                                  *)
Fairness == /\ \A t \in Threads : WF_vars(Setter(t))
            /\ \A c \in Callers : WF_vars(SaveConfig(c))
            /\ WF_vars(StopForChange) /\ SF_vars(PerformDeviceConfigurationChange)
FairSpec == Spec /\ Fairness
----------------------------------------------------------------------------
Quiet == \A c \in Callers : pc[c] = "idle"
LegalGeometry(g) ==
  /\ g["framesPerXfer"] \in 1 .. MAXNF
  /\ g["xfersInFlight"] \in 2 .. MAXNB /\ g["xfersInFlightOut"] \in 2 .. MAXNB
  /\ g["outputLeadMs"] \in 1 .. g["framesPerXfer"] * g["xfersInFlightOut"] - 1
LegalGains(g) ==
  /\ g["trim"] \in kTrim_MinDB .. kTrim_MaxDB
  /\ g["vol"] \in kVolume_MinDB .. kVolume_MaxDB /\ g["mute"] \in {0, 1}

TypeOK ==
  /\ DOMAIN engine = GeometryKeys /\ DOMAIN pending = GeometryKeys
  /\ DOMAIN gains = GainKeys /\ LegalGains(gains) /\ gain \in Int
  /\ IsDict(stored)
  /\ mutex \in Threads \cup {free} /\ requests \in Nat
  /\ running \in BOOLEAN /\ waiting \in BOOLEAN
  /\ pc \in [Callers -> {"idle", "apply", "save", "copy", "write", "request"}]
  /\ \A c \in Callers : /\ IsDict(job[c].dict) /\ job[c].changed \in BOOLEAN
                        /\ job[c].level \in Int /\ DOMAIN job[c].copy = Keys
  /\ newest \in Callers \cup {"none", "stored", "overtaken"}

(* Whatever is set, stored by an older version or migrated, the engine's    *)
(* geometry is one the queues can be built with, and the fill lead lies     *)
(* inside the playback queue (USB.h:45-48).                                 *)
EngineGeometryLegal == LegalGeometry(engine)

(* When no setter is inside the lock, the level the IO thread multiplies    *)
(* with belongs to the current trim, volume and mute: of two setters, the   *)
(* later one's level is not overwritten by the earlier one's.               *)
GainFollows == mutex = free => gain = Effective(gains)

(* Copies may overtake each other on their way to the storage.  But if the  *)
(* newest one got there last, all that was set by then is in it: no setter  *)
(* and no geometry change forgets to save, or saves before it applies.      *)
NothingForgotten == Quiet /\ saved => stored = Settings(engine, gains)

(* A geometry a setter got accepted is performed, or the host aborts it,    *)
(* unless the host goes on aborting for ever.                               *)
GeometryTakesEffect ==
  <>[][~AbortDeviceConfigurationChange]_vars => (waiting ~> ~waiting)

(* A restart of the host brings trim, volume, mute and the level back as    *)
(* they were (README.md:132), also one in the middle of a request for a     *)
(* geometry, or before anything was ever saved.  There are two exceptions:  *)
(*  - a caller is between its change and the end of its save: a crash here  *)
(*    loses the change;                                                     *)
(*  - of two saves, the one with the older copy was written last: nothing   *)
(*    orders save_config (UA4FX_Driver.c:236-240), and the storage keeps    *)
(*    the old settings, at rest as well, until somebody saves again.        *)
Unsaved == \E c \in Callers : pc[c] \in {"apply", "save", "copy", "write"}
GainsPersist ==
  [][Initialize => Unsaved \/ overtaken \/ (gains' = gains /\ gain' = gain)]_vars

(* README.md:132: "Settings persist in the HAL's plug-in storage": the same *)
(* of the geometry.                                                         *)
SettingsPersist == [][Initialize /\ Quiet /\ saved => engine' = engine]_vars
=============================================================================
