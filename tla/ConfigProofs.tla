---------------------------- MODULE ConfigProofs ----------------------------
(* Proofs about Config, for every number of setters, every dictionary they  *)
(* set and everything an older version may have stored.  The mutex makes    *)
(* the level of the one setter inside it the current one (Levels); and a    *)
(* caller that changed the settings has yet to copy them (Dirty), so that   *)
(* the newest copy is up to date as soon as nobody is dirty (Saving).       *)
EXTENDS Config, TLAPS

Geometry == [framesPerXfer : Nat, xfersInFlight : Nat, xfersInFlightOut : Nat,
             outputLeadMs : Nat]
Gains == [trim : Int, vol : Int, mute : Int]

Stored ==
  /\ engine \in Geometry /\ LegalGeometry(engine) /\ pending \in Geometry
  /\ gains \in Gains /\ LegalGains(gains) /\ gain \in Int
  /\ IsDict(stored)

GoodJob(j) ==
  /\ DOMAIN j = {"dict", "level", "changed", "copy"}
  /\ IsDict(j.dict) /\ j.changed \in BOOLEAN /\ j.level \in Int
  /\ IsDict(j.copy) /\ DOMAIN j.copy = Keys
Callings ==
  /\ DOMAIN job = Callers /\ \A c \in Callers : GoodJob(job[c])
  /\ pc \in [Callers -> {"idle", "apply", "save", "copy", "write", "request"}]
  /\ requests \in Nat /\ running \in BOOLEAN /\ waiting \in BOOLEAN

Levels ==
  /\ mutex \in Threads \cup {free}
  /\ \A c \in Callers : pc[c] = "apply" <=> mutex = c
  /\ \A c \in Callers : pc[c] = "apply" => job[c].level = Effective(gains)
  /\ mutex = free => gain = Effective(gains)

Dirty == \E c \in Callers : pc[c] \in {"apply", "save"}
Saving ==
  /\ newest \in Callers \cup {"none", "stored", "overtaken"}
  /\ \A c \in Callers : newest = c => pc[c] \in {"copy", "write"}
  /\ newest = "none" => \A c \in Callers : pc[c] \notin {"copy", "write"}
  /\ ~Dirty =>
       /\ newest = "none" => gains = WithGains(DefaultGains, stored)
       /\ newest = "stored" => stored = Settings(engine, gains)
       /\ \A c \in Callers : newest = c =>
            /\ pc[c] = "write" => job[c].copy = Settings(engine, gains)
            /\ pc[c] = "copy" => \A k \in GeometryKeys : job[c].copy[k] = engine[k]

IInv == Stored /\ Callings /\ Levels /\ Saving
----------------------------------------------------------------------------
(* A frame count and a queue depth within their ranges hold two frames.     *)
LEMMA QueueHoldsTwo ==
  ASSUME NEW nf \in 1 .. 8, NEW no \in 2 .. 8
  PROVE  no * nf \in Nat /\ no * nf >= 2
<1>1. CASE nf = 1 BY <1>1
<1>2. CASE nf = 2 BY <1>2
<1>3. CASE nf = 3 BY <1>3
<1>4. CASE nf = 4 BY <1>4
<1>5. CASE nf = 5 BY <1>5
<1>6. CASE nf = 6 BY <1>6
<1>7. CASE nf = 7 BY <1>7
<1>8. CASE nf = 8 BY <1>8
<1> QED BY <1>1, <1>2, <1>3, <1>4, <1>5, <1>6, <1>7, <1>8

(* Whatever four numbers it is given, ua4fx_engine_set_config makes a       *)
(* geometry of them that the queues can be built with.                      *)
LEMMA ClampIsLegal ==
  ASSUME NEW g, g["framesPerXfer"] \in Int, g["xfersInFlight"] \in Int,
         g["xfersInFlightOut"] \in Int, g["outputLeadMs"] \in Int
  PROVE  set_config(g) \in Geometry /\ LegalGeometry(set_config(g))
<1> DEFINE nf == Within(g["framesPerXfer"], 1, 8)
           ni == Within(g["xfersInFlight"], 2, 8)
           no == Within(g["xfersInFlightOut"], 2, 8)
           lead == Within(g["outputLeadMs"], 1, no * nf - 1)
<1>1. nf \in 1 .. 8 /\ ni \in 2 .. 8 /\ no \in 2 .. 8
  BY DEF Within
<1>2. no * nf \in Nat /\ no * nf >= 2
  BY <1>1, QueueHoldsTwo
<1>3. lead \in 1 .. no * nf - 1
  <2> DEFINE top == no * nf - 1
  <2>1. top \in Int /\ 1 <= top
    BY <1>2
  <2> HIDE DEF top
  <2>2. Within(g["outputLeadMs"], 1, top) \in 1 .. top
    BY <2>1 DEF Within
  <2> QED BY <2>2 DEF top
<1>4. set_config(g) = [framesPerXfer |-> nf, xfersInFlight |-> ni, xfersInFlightOut |-> no,
                       outputLeadMs |-> lead]
  BY DEF set_config, MAXNF, MAXNB
<1>5. nf * no = no * nf
  BY <1>1
<1> HIDE DEF nf, ni, no, lead
<1> QED BY <1>1, <1>2, <1>3, <1>4, <1>5 DEF Geometry, LegalGeometry, MAXNF, MAXNB

LEMMA OverlayGeometry ==
  ASSUME NEW g \in Geometry, NEW d, IsDict(d)
  PROVE  \A k \in GeometryKeys : Overlay(g, d)[k] \in Nat
  BY DEF Geometry, GeometryKeys, Overlay, IsDict, Keys

LEMMA ClampedOverlay ==
  ASSUME NEW g \in Geometry, NEW d, IsDict(d)
  PROVE  set_config(Overlay(g, d)) \in Geometry /\ LegalGeometry(set_config(Overlay(g, d)))
  BY OverlayGeometry, ClampIsLegal DEF GeometryKeys

LEMMA LoadedLegal ==
  ASSUME NEW d, IsDict(d)
  PROVE  Loaded(d) \in Geometry /\ LegalGeometry(Loaded(d)) /\ LeftPending(d) \in Geometry
<1>1. Defaults \in Geometry /\ LegalGeometry(Defaults)
  BY DEF Defaults, Geometry, LegalGeometry, MAXNF, MAXNB
<1>2. Wanted(d) \in Geometry
  BY <1>1, ClampedOverlay DEF Wanted
<1>3. Migrated(Wanted(d), d) \in Geometry
  BY <1>1, <1>2 DEF Migrated, Geometry
<1>4. set_config(Migrated(Wanted(d), d)) \in Geometry
      /\ LegalGeometry(set_config(Migrated(Wanted(d), d)))
  BY <1>3, ClampIsLegal DEF Geometry
<1>5. [k \in GeometryKeys |-> 0] \in Geometry
  BY DEF GeometryKeys, Geometry
<1> QED BY <1>1, <1>3, <1>4, <1>5 DEF Loaded, LeftPending

LEMMA GainsLegal ==
  ASSUME NEW g \in Gains, NEW d, IsDict(d)
  PROVE  WithGains(g, d) \in Gains /\ LegalGains(WithGains(g, d))
<1> DEFINE new == Overlay(g, d)
<1>1. new["trim"] \in Int /\ new["vol"] \in Int /\ new["mute"] \in Int
  BY DEF Gains, Overlay, IsDict, Keys, GainKeys, GeometryKeys
<1>2. /\ Within(new["trim"], kTrim_MinDB, kTrim_MaxDB) \in kTrim_MinDB .. kTrim_MaxDB
      /\ Within(new["vol"], kVolume_MinDB, kVolume_MaxDB) \in kVolume_MinDB .. kVolume_MaxDB
  BY <1>1 DEF Within, kTrim_MinDB, kTrim_MaxDB, kVolume_MinDB, kVolume_MaxDB
<1> HIDE DEF new
<1>3. WithGains(g, d) = [trim |-> Within(new["trim"], kTrim_MinDB, kTrim_MaxDB),
                         vol |-> Within(new["vol"], kVolume_MinDB, kVolume_MaxDB),
                         mute |-> IF new["mute"] # 0 THEN 1 ELSE 0]
  BY DEF WithGains, new
<1> QED BY <1>2, <1>3 DEF Gains, LegalGains, kTrim_MinDB, kTrim_MaxDB, kVolume_MinDB,
                          kVolume_MaxDB

LEMMA LevelIsInt ==
  ASSUME NEW g \in Gains
  PROVE  Effective(g) \in Int
  BY DEF Gains, Effective, Silence

LEMMA SettingsIsDict ==
  ASSUME NEW e, NEW g \in Gains, \A k \in GeometryKeys : e[k] \in Nat
  PROVE  IsDict(Settings(e, g)) /\ DOMAIN Settings(e, g) = Keys
  BY DEF IsDict, Settings, Keys, Gains, GeometryKeys, GainKeys

LEMMA GeometryNat ==
  ASSUME NEW e \in Geometry PROVE \A k \in GeometryKeys : e[k] \in Nat
  BY DEF Geometry, GeometryKeys

LEMMA IdleIsGood ==
  GoodJob(Idle) /\ \A b \in BOOLEAN : GoodJob([Idle EXCEPT !.changed = b])
<1> DEFINE start == Settings(Defaults, DefaultGains)
<1>1. IsDict(NoDict) /\ IsDict(start) /\ DOMAIN start = Keys
  BY SettingsIsDict, GeometryNat DEF NoDict, IsDict, Defaults, Geometry, DefaultGains, Gains
<1>2. Idle = [dict |-> NoDict, level |-> 0, changed |-> FALSE, copy |-> start]
  BY DEF Idle
<1> HIDE DEF start
<1> QED BY <1>1, <1>2 DEF GoodJob

----------------------------------------------------------------------------
(* The steps.                                                               *)
LEMMA InitIInv == Init => IInv
<1> SUFFICES ASSUME Init PROVE IInv
  OBVIOUS
<1>1. IsDict(stored) /\ DefaultGains \in Gains /\ Defaults \in Geometry
  BY ConfigAssumption DEF Init, DefaultGains, Gains, Defaults, Geometry
<1>2. gains \in Gains /\ LegalGains(gains) /\ gain = Effective(gains) /\ gain \in Int
  BY <1>1, GainsLegal, LevelIsInt DEF Init, Starting
<1>3. Stored
  BY <1>1, <1>2, LoadedLegal DEF Stored, Init, Starting
<1>5. Callings
  BY IdleIsGood DEF Callings, Init, Starting
<1>6. Levels /\ Saving
  BY <1>2, ConfigAssumption DEF Levels, Saving, Init, Starting, free
<1> QED BY <1>3, <1>5, <1>6 DEF IInv

LEMMA SetStep ==
  ASSUME IInv, NEW t \in Threads, NEW d \in Requests, SetPropertyData(t, d) PROVE IInv'
<1>1. t \in Callers /\ t # free /\ t # "none" /\ t # "stored" /\ t # "overtaken"
  BY ConfigAssumption DEF Callers, free
<1>2. IsDict(d) /\ gains' \in Gains /\ LegalGains(gains') /\ Effective(gains') \in Int
  BY ConfigAssumption, GainsLegal, LevelIsInt DEF SetPropertyData, IInv, Stored
<1>3. Stored'
  BY <1>2 DEF IInv, Stored, SetPropertyData
<1>4. /\ pc' = [pc EXCEPT ![t] = "apply"] /\ pc[t] = "idle"
      /\ job' = [job EXCEPT ![t] = [job[t] EXCEPT !.dict = d, !.level = Effective(gains')]]
      /\ mutex = free /\ mutex' = t
  BY DEF SetPropertyData, Goto, Lock
<1>5. Callings'
  <2>1. GoodJob(job[t])
    BY <1>1 DEF IInv, Callings
  <2>2. GoodJob([job[t] EXCEPT !.dict = d, !.level = Effective(gains')])
    BY <1>2, <2>1 DEF GoodJob
  <2> QED BY <1>1, <1>4, <2>2 DEF IInv, Callings, SetPropertyData
<1>6. Levels'
  <2>1. job'[t].level = Effective(gains')
    BY <1>1, <1>4 DEF IInv, Callings, GoodJob
  <2>2. \A c \in Callers : pc'[c] = "apply" <=> c = t
    BY <1>1, <1>4, ConfigAssumption DEF IInv, Callings, Levels, free
  <2> QED BY <1>1, <1>4, <2>1, <2>2 DEF Levels
<1>7. Saving'
  BY <1>1, <1>4 DEF IInv, Callings, Saving, Dirty, SetPropertyData
<1> QED BY <1>3, <1>5, <1>6, <1>7 DEF IInv

LEMMA ApplyStep ==
  ASSUME IInv, NEW t \in Threads, apply_config_dict(t) PROVE IInv'
<1> DEFINE want == set_config(Overlay(engine, job[t].dict))
<1>1. t \in Callers /\ t # free /\ t # "none" /\ t # "stored" /\ t # "overtaken"
  BY ConfigAssumption DEF Callers, free
<1>2. want \in Geometry /\ job[t].level \in Int
  BY <1>1, ClampedOverlay DEF IInv, Callings, GoodJob, Stored
<1>3. /\ pc[t] = "apply" /\ pc' = [pc EXCEPT ![t] = "save"] /\ gain' = job[t].level
      /\ mutex' = free /\ engine' = engine
      /\ job' = [job EXCEPT ![t] = [Idle EXCEPT !.changed = (want # engine)]]
      /\ pending' \in {pending, want} /\ waiting' \in {waiting, TRUE}
  BY DEF apply_config_dict, Goto, AfterApply, AcceptGeometry
<1>4. Stored'
  BY <1>2, <1>3 DEF IInv, Stored, apply_config_dict
<1>5. Callings'
  <2>1. GoodJob([Idle EXCEPT !.changed = (want # engine)])
    BY IdleIsGood
  <2> HIDE DEF want
  <2> QED BY <1>1, <1>3, <2>1 DEF IInv, Callings, apply_config_dict
<1>6. Levels'
  <2>1. \A c \in Callers : pc'[c] # "apply"
    BY <1>1, <1>3 DEF IInv, Callings, Levels
  <2>2. gain' = Effective(gains')
    BY <1>1, <1>3 DEF IInv, Levels, apply_config_dict
  <2> QED BY <1>1, <1>3, <2>1, <2>2, ConfigAssumption DEF Levels, free
<1>7. Saving'
  BY <1>1, <1>3 DEF IInv, Callings, Saving, Dirty, apply_config_dict
<1> QED BY <1>4, <1>5, <1>6, <1>7 DEF IInv

LEMMA CopyStep ==
  ASSUME IInv, NEW c \in Callers, copy_config_dict(c) PROVE IInv'
<1>1. c # free /\ c # "none" /\ c # "stored" /\ c # "overtaken"
  BY ConfigAssumption DEF free
<1>2. /\ pc[c] = "save" /\ pc' = [pc EXCEPT ![c] = "copy"] /\ newest' = c
      /\ job' = [job EXCEPT ![c] = [job[c] EXCEPT !.copy = Settings(engine, gains)]]
      /\ UNCHANGED <<engine, gains, gain, pending, stored, mutex, requests, running, waiting>>
  BY DEF copy_config_dict, Goto, shared
<1>3. IsDict(Settings(engine, gains)) /\ DOMAIN Settings(engine, gains) = Keys
  BY SettingsIsDict, GeometryNat DEF IInv, Stored
<1>4. Stored'
  BY <1>2 DEF IInv, Stored
<1>5. Callings'
  <2>1. GoodJob([job[c] EXCEPT !.copy = Settings(engine, gains)])
    BY <1>3 DEF IInv, Callings, GoodJob
  <2> QED BY <1>2, <2>1 DEF IInv, Callings
<1>6. Levels'
  BY <1>1, <1>2 DEF IInv, Callings, GoodJob, Levels
<1>7. Saving'
  <2>1. \A k \in GeometryKeys : Settings(engine, gains)[k] = engine[k]
    BY DEF Settings, Keys
  <2> QED BY <1>1, <1>2, <2>1 DEF IInv, Callings, GoodJob, Saving
<1> QED BY <1>4, <1>5, <1>6, <1>7 DEF IInv

LEMMA GainsStep ==
  ASSUME IInv, NEW c \in Callers, CopyGains(c) PROVE IInv'
<1>1. /\ pc[c] = "copy" /\ pc' = [pc EXCEPT ![c] = "write"]
      /\ job' = [job EXCEPT ![c] = [job[c] EXCEPT !.copy = Settings(job[c].copy, gains)]]
      /\ UNCHANGED <<engine, gains, gain, pending, stored, mutex, requests, running, waiting,
                     newest>>
  BY DEF CopyGains, Goto, shared, IInv, Callings, GoodJob
<1>2. \A k \in GeometryKeys : job[c].copy[k] \in Nat
  BY DEF IInv, Callings, GoodJob, IsDict, Keys
<1>3. IsDict(Settings(job[c].copy, gains)) /\ DOMAIN Settings(job[c].copy, gains) = Keys
  BY <1>2, SettingsIsDict DEF IInv, Stored
<1>4. Stored'
  BY <1>1 DEF IInv, Stored
<1>5. Callings'
  <2>1. GoodJob([job[c] EXCEPT !.copy = Settings(job[c].copy, gains)])
    BY <1>3 DEF IInv, Callings, GoodJob
  <2> QED BY <1>1, <2>1 DEF IInv, Callings
<1>6. Levels'
  BY <1>1 DEF IInv, Callings, GoodJob, Levels
<1>7. Saving'
  <2>1. (\A k \in GeometryKeys : job[c].copy[k] = engine[k])
          => Settings(job[c].copy, gains) = Settings(engine, gains)
    BY DEF Settings, Keys
  <2>2. Dirty' <=> Dirty
    BY <1>1 DEF Dirty, IInv, Callings
  <2> QED BY <1>1, <2>1, <2>2, ConfigAssumption DEF IInv, Callings, GoodJob, Saving
<1> QED BY <1>4, <1>5, <1>6, <1>7 DEF IInv

LEMMA WriteStep ==
  ASSUME IInv, NEW c \in Callers, WriteToStorage(c) PROVE IInv'
<1>1. c # "none" /\ c # "stored" /\ c # "overtaken"
  BY ConfigAssumption
<1>2. /\ pc[c] = "write" /\ pc' = [pc EXCEPT ![c] = IF job[c].changed THEN "request" ELSE "idle"]
      /\ job' = [job EXCEPT ![c] = Idle] /\ stored' = job[c].copy
      /\ newest' = IF newest = c THEN "stored" ELSE IF saved THEN "overtaken" ELSE newest
      /\ UNCHANGED <<engine, gains, gain, pending, mutex, requests, running, waiting>>
  BY DEF WriteToStorage, Goto, AfterSave
<1>3. Stored'
  BY <1>2 DEF IInv, Stored, Callings, GoodJob
<1>4. Callings'
  BY <1>2, IdleIsGood DEF IInv, Callings
<1>5. Levels'
  BY <1>2 DEF IInv, Callings, Levels
<1>6. Saving'
  <2>1. Dirty' <=> Dirty
    BY <1>2 DEF Dirty, IInv, Callings
  <2> QED BY <1>1, <1>2, <2>1, ConfigAssumption DEF IInv, Callings, Saving, saved
<1> QED BY <1>3, <1>4, <1>5, <1>6 DEF IInv

LEMMA RequestStep ==
  ASSUME IInv, NEW t \in Threads, RequestDeviceConfigurationChange(t) PROVE IInv'
<1>1. t \in Callers
  BY DEF Callers
<1>2. /\ pc[t] = "request" /\ pc' = [pc EXCEPT ![t] = "idle"] /\ job' = [job EXCEPT ![t] = Idle]
      /\ requests' = requests + 1
      /\ UNCHANGED <<engine, gains, gain, pending, stored, mutex, running, waiting, newest>>
  BY DEF RequestDeviceConfigurationChange, Goto
<1>3. Stored'
  BY <1>2 DEF IInv, Stored
<1>4. Callings'
  BY <1>1, <1>2, IdleIsGood DEF IInv, Callings
<1>5. Levels'
  BY <1>1, <1>2 DEF IInv, Callings, Levels
<1>6. Saving'
  <2>1. Dirty' <=> Dirty
    BY <1>1, <1>2 DEF Dirty, IInv, Callings
  <2> QED BY <1>1, <1>2, <2>1 DEF IInv, Callings, GoodJob, Saving
<1> QED BY <1>3, <1>4, <1>5, <1>6 DEF IInv

LEMMA PerformStep ==
  ASSUME IInv, PerformDeviceConfigurationChange PROVE IInv'
<1>1. Host \in Callers /\ Host # free
  BY ConfigAssumption DEF Callers, free
<1>2. /\ pc[Host] = "idle" /\ pc' = [pc EXCEPT ![Host] = "save"]
      /\ job' = [job EXCEPT ![Host] = Idle]
      /\ engine' = set_config(pending) /\ requests > 0 /\ requests' = requests - 1
      /\ waiting' = FALSE
      /\ UNCHANGED <<gains, gain, pending, stored, mutex, running, newest>>
  BY DEF PerformDeviceConfigurationChange, Goto
<1>3. engine' \in Geometry /\ LegalGeometry(engine')
  BY <1>2, ClampIsLegal DEF IInv, Stored, Geometry
<1>4. Stored'
  BY <1>2, <1>3 DEF IInv, Stored
<1>5. Callings'
  <2>1. requests' \in Nat
    <3>1. requests \in Nat
      BY DEF IInv, Callings
    <3> QED BY <1>2, <3>1
  <2> QED BY <1>1, <1>2, <2>1, IdleIsGood DEF IInv, Callings
<1>6. Levels'
  BY <1>1, <1>2 DEF IInv, Callings, GoodJob, Levels
<1>7. Saving'
  BY <1>1, <1>2 DEF IInv, Callings, Saving, Dirty
<1> QED BY <1>4, <1>5, <1>6, <1>7 DEF IInv

LEMMA HostStep ==
  ASSUME IInv, AbortDeviceConfigurationChange \/ IO PROVE IInv'
<1>1. /\ UNCHANGED <<engine, gains, gain, pending, stored, mutex, pc, job, newest>>
  BY DEF AbortDeviceConfigurationChange, IO
<1>3. requests' \in Nat /\ running' \in BOOLEAN
  <2>1. requests \in Nat /\ running \in BOOLEAN
    BY DEF IInv, Callings
  <2>2. CASE AbortDeviceConfigurationChange
    BY <2>1, <2>2 DEF AbortDeviceConfigurationChange
  <2>3. CASE IO
    <3>1. requests' = requests /\ running' = ~running
      BY <2>3 DEF IO
    <3> QED BY <2>1, <3>1
  <2> QED BY <2>2, <2>3
<1>2. waiting' \in BOOLEAN
  <2>1. CASE AbortDeviceConfigurationChange
    BY <2>1 DEF AbortDeviceConfigurationChange
  <2>2. CASE IO
    BY <2>2 DEF IO, IInv, Callings
  <2> QED BY <2>1, <2>2
<1> QED BY <1>1, <1>2, <1>3 DEF IInv, Stored, Callings, Levels, Saving, Dirty

LEMMA RestartStep ==
  ASSUME IInv, Initialize PROVE IInv'
<1>1. IsDict(stored) /\ DefaultGains \in Gains /\ Defaults \in Geometry
  BY DEF IInv, Stored, DefaultGains, Gains, Defaults, Geometry
<1>2. gains' \in Gains /\ LegalGains(gains') /\ gain' = Effective(gains') /\ gain' \in Int
  BY <1>1, GainsLegal, LevelIsInt DEF Initialize
<1>3. Stored'
  BY <1>1, <1>2, LoadedLegal DEF Stored, Initialize
<1>5. Callings'
  BY IdleIsGood DEF Callings, Initialize
<1>6. Levels' /\ Saving'
  BY <1>2, ConfigAssumption DEF Levels, Saving, Initialize, free
<1> QED BY <1>3, <1>5, <1>6 DEF IInv

LEMMA NextIInv == ASSUME IInv, [Next]_vars PROVE IInv'
<1>1. CASE \E t \in Threads : Setter(t) \/ \E d \in Requests : SetPropertyData(t, d)
  BY <1>1, ApplyStep, RequestStep, SetStep DEF Setter
<1>2. CASE \E c \in Callers : SaveConfig(c)
  BY <1>2, CopyStep, GainsStep, WriteStep DEF SaveConfig
<1>3. CASE PerformDeviceConfigurationChange
  BY <1>3, PerformStep
<1>4. CASE AbortDeviceConfigurationChange \/ IO
  BY <1>4, HostStep
<1>5. CASE Initialize
  BY <1>5, RestartStep
<1>6. CASE UNCHANGED vars
  BY <1>6 DEF IInv, Stored, Callings, Levels, Saving, Dirty, vars, shared
<1> QED BY <1>1, <1>2, <1>3, <1>4, <1>5, <1>6 DEF Next

LEMMA Invariance == Spec => []IInv
<1>1. Init => IInv BY InitIInv
<1>2. IInv /\ [Next]_vars => IInv' BY NextIInv
<1> QED BY <1>1, <1>2, PTL DEF Spec

----------------------------------------------------------------------------
(* Settings and copies keep their types; the gains stay within the ranges   *)
(* the plug-in announces (apply_config_dict clamps them).                   *)
THEOREM TypeCorrect == Spec => []TypeOK
<1>1. IInv => TypeOK
  BY DEF IInv, Stored, Callings, GoodJob, Levels, Saving, TypeOK, Geometry, GeometryKeys, Gains, GainKeys
<1> QED BY <1>1, Invariance, PTL

(* Whatever dictionaries are set, stored or migrated, the engine only ever  *)
(* gets a geometry its queues can be built with.                            *)
THEOREM EngineGeometryLegalTheorem == Spec => []EngineGeometryLegal
<1>1. IInv => EngineGeometryLegal BY DEF IInv, Stored, EngineGeometryLegal
<1> QED BY <1>1, Invariance, PTL

(* Of any number of setters, the last one inside the lock decides the level *)
(* the IO thread multiplies with (apply_gains).                             *)
THEOREM GainFollowsTheorem == Spec => []GainFollows
<1>1. IInv => GainFollows BY DEF IInv, Levels, GainFollows
<1> QED BY <1>1, Invariance, PTL

(* If the newest copy reached the storage last, it is what is set.          *)
THEOREM NothingForgottenTheorem == Spec => []NothingForgotten
<1>1. IInv => NothingForgotten
  BY DEF IInv, Saving, Dirty, NothingForgotten, Quiet, saved
<1> QED BY <1>1, Invariance, PTL

(* Gains that are set are stored as they are, and pass the clamps of        *)
(* UA4FX_Initialize unchanged.                                              *)
LEMMA Restored ==
  ASSUME IInv, stored = Settings(engine, gains)
  PROVE  WithGains(DefaultGains, stored) = gains
<1>1. gains \in Gains /\ LegalGains(gains)
  BY DEF IInv, Stored
<1> DEFINE new == Overlay(DefaultGains, stored)
<1>2. /\ new["trim"] = gains["trim"] /\ new["vol"] = gains["vol"]
      /\ new["mute"] = gains["mute"]
  BY DEF Overlay, DefaultGains, Settings, Keys, GainKeys, GeometryKeys
<1>3. WithGains(DefaultGains, stored) =
        [trim |-> Within(new["trim"], kTrim_MinDB, kTrim_MaxDB),
         vol |-> Within(new["vol"], kVolume_MinDB, kVolume_MaxDB),
         mute |-> IF new["mute"] # 0 THEN 1 ELSE 0]
  BY DEF WithGains
<1> HIDE DEF new
<1>4. /\ gains["trim"] \in kTrim_MinDB .. kTrim_MaxDB
      /\ gains["vol"] \in kVolume_MinDB .. kVolume_MaxDB /\ gains["mute"] \in {0, 1}
  BY <1>1 DEF LegalGains
<1>5. Within(gains["trim"], kTrim_MinDB, kTrim_MaxDB) = gains["trim"]
  BY <1>4 DEF Within, kTrim_MinDB, kTrim_MaxDB
<1>6. Within(gains["vol"], kVolume_MinDB, kVolume_MaxDB) = gains["vol"]
  BY <1>4 DEF Within, kVolume_MinDB, kVolume_MaxDB
<1>7. (IF gains["mute"] # 0 THEN 1 ELSE 0) = gains["mute"]
  BY <1>4
<1>8. WithGains(DefaultGains, stored) =
        [trim |-> gains["trim"], vol |-> gains["vol"], mute |-> gains["mute"]]
  BY <1>2, <1>3, <1>5, <1>6, <1>7
<1> QED BY <1>1, <1>8 DEF Gains

(* Trim, volume, mute and level survive a restart of the host at any moment *)
(* (README.md:132), for any number of setters, unless the restart falls     *)
(* between a change and the end of its save, or the older of two copies was *)
(* written last (UA4FX_Driver.c:236-240).                                   *)
THEOREM GainsPersistTheorem == Spec => GainsPersist
<1>1. ASSUME IInv, Initialize, ~Unsaved, ~overtaken PROVE gains' = gains /\ gain' = gain
  <2>1. \A c \in Callers : pc[c] \notin {"apply", "save", "copy", "write"}
    BY <1>1 DEF Unsaved
  <2>2. ~Dirty /\ newest \in {"none", "stored"}
    BY <1>1, <2>1 DEF IInv, Saving, Dirty, overtaken
  <2>3. WithGains(DefaultGains, stored) = gains
    <3>1. CASE newest = "none"
      BY <1>1, <2>2, <3>1 DEF IInv, Saving
    <3>2. CASE newest = "stored"
      <4>1. stored = Settings(engine, gains)
        BY <1>1, <2>2, <3>2 DEF IInv, Saving
      <4> QED BY <1>1, <4>1, Restored
    <3> QED BY <2>2, <3>1, <3>2
  <2>4. gains' = gains /\ gain' = Effective(gains)
    BY <1>1, <2>3 DEF Initialize
  <2>5. mutex = free
    BY <1>1, <2>1 DEF IInv, Levels, Callers
  <2> QED BY <1>1, <2>4, <2>5 DEF IInv, Levels
<1>2. IInv => [Initialize => Unsaved \/ overtaken \/ (gains' = gains /\ gain' = gain)]_vars
  BY <1>1
<1> QED BY <1>2, Invariance, PTL DEF GainsPersist
=============================================================================
