-------------------------------- MODULE Midi --------------------------------
(* The MIDI bridge daemon (src/midi/ua4fx_midid.c) between CoreMIDI and the *)
(* USB-MIDI interface.  CoreMIDI's thread encodes what clients send; the    *)
(* daemon's run loop attaches, detaches and reads, and touches the state of *)
(* the encoder without a lock.  A cable loops the device's MIDI OUT back    *)
(* into its MIDI IN.  launchd restarts a daemon that died (KeepAlive).      *)
(* The HAL plug-in opens the same device (src/driver/UA4FX_USB.c:722).      *)
EXTENDS Integers, Sequences, SequencesExt

CONSTANTS
  Packets,     \* what clients send: each a sequence of pieces of the MIDI stream
  MaxPackets,  \* bound: how many packets
  MaxPlugs,    \* bound: how often the device is plugged in
  OutEvents,   \* the encoder sends when its buffer holds so many events
  RxEvents,    \* a read completes with at most so many
  HasPlugIn    \* whether the plug-in is installed, or not

Bytes == 0 .. 255
Data == 0 .. \h7F
Channel == \h80 .. \hEF
Need(c) == IF c \in {\hF4, \hF5, \hF6} THEN 0
           ELSE IF c \in {\hF1, \hF3} \/ c \div 16 \in {\hC, \hD} THEN 1 ELSE 2
Realtime(c) == c >= \hF8

(* A piece says something in some bytes, `at` a place of the stream that    *)
(* tells what may follow: the running status, 0 without one, or \hF0 inside *)
(* a system exclusive.  Then the stream is at `next`.                       *)
Clock(x) == Realtime(Head(x.bytes)) /\ Len(x.bytes) = 1 /\ x.says = x.bytes /\ x.next = x.at
Message(x) ==
  LET c == Head(x.bytes) IN
  /\ x.at # \hF0 /\ c \in Channel \cup (\hF1 .. \hF6)
  /\ Len(x.bytes) = Need(c) + 1 /\ x.says = x.bytes /\ \A d \in 2 .. Len(x.bytes) : x.bytes[d] \in Data
  /\ x.next = IF c \in Channel THEN c ELSE 0
Running(x) ==
  /\ x.at \in Channel /\ x.next = x.at /\ x.says = <<x.at>> \o x.bytes
  /\ Len(x.bytes) = Need(x.at) /\ \A d \in DOMAIN x.bytes : x.bytes[d] \in Data
SysexByte(x) ==
  /\ Len(x.bytes) = 1 /\ x.says = x.bytes
  /\ \/ x.at # \hF0 /\ Head(x.bytes) = \hF0 /\ x.next = \hF0
     \/ x.at = \hF0 /\ Head(x.bytes) \in Data /\ x.next = \hF0
     \/ x.at = \hF0 /\ Head(x.bytes) = \hF7 /\ x.next = 0
Piece == [at : {0, \hF0} \cup Channel, bytes : Seq(Bytes), says : Seq(Bytes), next : Bytes]
Follows(p) == \A k \in DOMAIN p : k + 1 \in DOMAIN p => p[k+1].at = p[k].next

(* A packet holds whole pieces, and only a system exclusive is continued in *)
(* the next one.                                                            *)
ASSUME MidiAssumption ==
  /\ \A p \in Packets :
       /\ p \in Seq(Piece) \ {<<>>} /\ p[1].at \in {0, \hF0} /\ Follows(p)
       /\ \A k \in DOMAIN p : Clock(p[k]) \/ Message(p[k]) \/ Running(p[k]) \/ SysexByte(p[k])
  /\ {MaxPackets, MaxPlugs} \subseteq Nat /\ {OutEvents, RxEvents} \subseteq Nat \ {0}
  /\ HasPlugIn \subseteq BOOLEAN

VARIABLES
  plugged, plugs,     \* the service of the device, 0 for none; how many there were
  configured, holder, \* of the device: configuration 1 is set; who has it open
  plugin,             \* of the HAL plug-in: absent, told, opening, has, dropped or failed
  evq,                \* notifications for the daemon's run loop
  opening,            \* what the run loop is in the middle of
  gIf,                \* the service whose MIDI interface is open
  interest,           \* a termination of that service will be told
  read, rx,           \* the outstanding read, and what it brought
  enc,                \* gRunning, gInSysex, gSyx and encode_bytes' locals
  sending,            \* CoreMIDI's thread is between the check and WritePipe
  wire,               \* events on their way back through the cable
  sent, open,         \* of the clients: packets; inside a system exclusive
  cut,                \* history: a message was cut by an attach or a failing write
  owed,               \* history: bytes and clocks still to be heard
  givenUp             \* history: what was given up on the device that is there
deviceVars == <<plugged, plugs, configured, holder, plugin>>
clientVars == <<sent, open>>
loopVars == <<opening, gIf, interest, read, rx>>
vars == <<deviceVars, evq, loopVars, enc, sending, wire, clientVars, cut, owed, givenUp>>

alive == gIf # 0 /\ gIf = plugged
----------------------------------------------------------------------------
(* Coding.  A USB-MIDI event is a code index and three bytes, of which      *)
(* gCin[cin] count.                                                         *)
gCin == <<0, 0, 2, 3, 3, 1, 2, 3, 3, 3, 3, 3, 2, 2, 3, 1>>
Event(cin, b) == [cin |-> cin, b |-> [i \in 1 .. 3 |-> IF i <= Len(b) THEN b[i] ELSE 0]]
Decoded(evs) == FlattenSeq([i \in DOMAIN evs |-> SubSeq(evs[i].b, 1, gCin[evs[i].cin + 1])])

(* Real-time bytes may overtake the others; they are only counted.          *)
Plain(b) == FlattenSeq([i \in DOMAIN b |-> IF Realtime(b[i]) THEN <<>> ELSE <<b[i]>>])
Clocks(b) == FlattenSeq([i \in DOMAIN b |-> IF Realtime(b[i]) THEN <<b[i]>> ELSE <<>>])
Owes(b) == [plain |-> Plain(b), clocks |-> Len(Clocks(b))]

Raw(p) == FlattenSeq([k \in DOMAIN p |-> p[k].bytes])
Says(p) == FlattenSeq([k \in DOMAIN p |-> p[k].says])
Cin(c) == IF c < \hF0 THEN c \div 16 ELSE <<5, 2, 3>>[Need(c) + 1]

Encoder == [bytes |-> <<>>, out |-> <<>>, gRunning |-> 0, gInSysex |-> FALSE, gSyx |-> <<>>]
First == Head(enc.bytes)
Eat(n) == [enc EXCEPT !.bytes = SubSeq(@, n + 1, Len(@))]
Emit(e, event) == [e EXCEPT !.out = Append(@, event)]
Break == [enc EXCEPT !.bytes = <<>>]

(* encode_bytes, one turn of its loop each.                                 *)
EncodeRealtime == Realtime(First) /\ enc' = Emit(Eat(1), Event(\hF, <<First>>))

SysexDone_atEnd(syx) == First = \hF7
SysexDone(syx) == First = \hF7 \/ Len(syx) = 3
SysexCin_always4(syx) == 4
SysexCin(syx) == IF First = \hF7 THEN 4 + Len(syx) ELSE 4
EncodeSysex ==
  /\ ~Realtime(First) /\ enc.gInSysex
  /\ LET syx == Append(enc.gSyx, First)
     IN  enc' = IF SysexDone(syx)
                THEN [Emit(Eat(1), Event(SysexCin(syx), syx)) EXCEPT !.gSyx = <<>>, !.gInSysex = First # \hF7]
                ELSE [Eat(1) EXCEPT !.gSyx = syx]

BeginSysex ==
  /\ ~enc.gInSysex /\ First = \hF0
  /\ enc' = [Eat(1) EXCEPT !.gInSysex = TRUE, !.gSyx = <<First>>]

EncodeStatus ==
  /\ ~enc.gInSysex /\ First \in \h80 .. \hF7 \ {\hF0}
  /\ LET n == Need(First) + 1
     IN  enc' = IF Len(enc.bytes) < n THEN Break
                ELSE [Emit(Eat(n), Event(Cin(First), SubSeq(enc.bytes, 1, n)))
                        EXCEPT !.gRunning = IF First < \hF0 THEN First ELSE @]

EncodeRunningStatus ==
  /\ ~enc.gInSysex /\ First < \h80 /\ enc.gRunning # 0
  /\ LET n == Need(enc.gRunning)
     IN  enc' = IF Len(enc.bytes) < n THEN Break
                ELSE Emit(Eat(n), Event(enc.gRunning \div 16,
                                        <<enc.gRunning>> \o SubSeq(enc.bytes, 1, n)))

SkipData == ~enc.gInSysex /\ First < \h80 /\ enc.gRunning = 0 /\ enc' = Eat(1)

Full == Len(enc.out) >= OutEvents
encode_bytes ==
  /\ enc.bytes # <<>> /\ ~Full /\ ~sending
  /\ \/ EncodeRealtime \/ EncodeSysex \/ BeginSysex
     \/ EncodeStatus \/ EncodeRunningStatus \/ SkipData
  /\ UNCHANGED <<deviceVars, evq, loopVars, sending, wire, clientVars, cut, owed, givenUp>>

(* usb_send: the check of gIf ...                                           *)
Loses == cut' = TRUE /\ owed' = Owes(<<>>)
usb_send ==
  /\ enc.out # <<>> /\ (Full \/ enc.bytes = <<>>) /\ ~sending
  /\ \/ gIf # 0 /\ sending' = TRUE /\ UNCHANGED <<enc, cut, owed>>
     \/ gIf = 0 /\ sending' = FALSE /\ enc' = [enc EXCEPT !.out = <<>>] /\ Loses
  /\ UNCHANGED <<deviceVars, evq, loopVars, wire, clientVars, givenUp>>

(* ... and the use of it.  The call may fail, and does on a device that is  *)
(* gone; then only the first events, if any, are on the wire.               *)
WritePipe ==
  /\ sending /\ sending' = FALSE
  /\ enc' = [enc EXCEPT !.out = <<>>]
  /\ \/ alive /\ wire' = wire \o enc.out /\ UNCHANGED <<cut, owed>>
     \/ alive /\ Loses /\ \E n \in 0 .. Len(enc.out) - 1 : wire' = wire \o SubSeq(enc.out, 1, n)
     \/ ~alive /\ Loses /\ wire' = wire
  /\ UNCHANGED <<deviceVars, evq, loopVars, clientVars, givenUp>>

(* Legal input: inside a system exclusive a client goes on with it.         *)
InTransit == Decoded(rx \o wire)
dest_read(p) ==
  /\ enc.bytes = <<>> /\ enc.out = <<>> /\ sent < MaxPackets
  /\ (p[1].at = \hF0) = open
  /\ enc' = [enc EXCEPT !.bytes = Raw(p)]
  /\ sent' = sent + 1
  /\ open' = (p[Len(p)].next = \hF0) /\ cut' = (cut /\ open)
  /\ LET before == IF cut THEN Owes(InTransit) ELSE owed
     IN  owed' = IF cut' THEN Owes(<<>>)
                 ELSE [plain |-> before.plain \o Plain(Says(p)),
                       clocks |-> before.clocks + Owes(Says(p)).clocks]
  /\ UNCHANGED <<deviceVars, evq, loopVars, sending, wire, givenUp>>
----------------------------------------------------------------------------
(* The user, and the kernel's notifications.                                *)
Note(kind, n) == [kind |-> kind, service |-> n]
Plug ==
  /\ plugged = 0 /\ plugs < MaxPlugs
  /\ plugs' = plugs + 1 /\ plugged' = plugs'
  /\ plugin' = IF plugin = "absent" THEN "absent" ELSE "told"
  /\ evq' = Append(evq, Note("device", plugs'))
  /\ UNCHANGED <<configured, holder, loopVars, enc, sending, wire, clientVars, cut, owed, givenUp>>
Unplug ==
  /\ plugged # 0 /\ plugged' = 0
  /\ configured' = FALSE /\ holder' = "none" /\ wire' = <<>> /\ givenUp' = {}
  /\ plugin' = IF plugin = "absent" THEN "absent" ELSE "told"
  /\ evq' = IF interest /\ gIf = plugged THEN Append(evq, Note("terminated", plugged)) ELSE evq
  /\ UNCHANGED <<plugs, loopVars, enc, sending, clientVars, cut, owed>>

(* Once the device is configured, its interfaces appear.                    *)
Configure(n) == configured' = TRUE
                /\ evq' = IF configured THEN evq ELSE Append(evq, Note("interface", n))

(* device_attach of the plug-in: a device that is busy is given up, and so  *)
(* is one that fails ...                                                    *)
device_attach ==
  /\ plugin = "told" /\ plugged # 0
  /\ \/ holder = "none" /\ holder' = "plugin" /\ plugin' = "opening"
     \/ holder # "none" /\ plugin' = "dropped" /\ UNCHANGED holder
     \/ holder = "none" /\ plugin' = "failed" /\ UNCHANGED holder
  /\ UNCHANGED <<plugged, plugs, configured, evq, loopVars, enc, sending, wire, clientVars,
                 cut, owed, givenUp>>
(* ... to be configured, or to show its descriptors.                        *)
PlugInConfigures ==
  /\ plugin = "opening"
  /\ \/ plugin' = "has" /\ UNCHANGED holder /\ Configure(plugged) /\ UNCHANGED givenUp
     \/ plugin' = "failed" /\ holder' = "none" /\ Configure(plugged) /\ UNCHANGED givenUp
     \/ /\ plugin' = "failed" /\ holder' = "none" /\ UNCHANGED <<configured, evq>>
        /\ givenUp' = givenUp \cup {"attach"}
  /\ UNCHANGED <<plugged, plugs, loopVars, enc, sending, wire, clientVars, cut, owed>>

(* devices_added of the daemon: it configures a device that nobody did, if  *)
(* no call fails: it tries once.                                            *)
Nothing == Note("nothing", 0)
Dispatch(kind) == /\ opening = Nothing /\ evq # <<>> /\ Head(evq).kind = kind
Configurable_never == FALSE
Configurable == ~configured /\ holder = "none"
devices_added ==
  /\ Dispatch("device") /\ evq' = Tail(evq)
  /\ IF Head(evq).service = plugged /\ Configurable
     THEN \/ holder' = "midid" /\ opening' = Head(evq) /\ UNCHANGED givenUp
          \/ givenUp' = givenUp \cup {"attach"} /\ UNCHANGED <<holder, opening>>
     ELSE UNCHANGED <<holder, opening, givenUp>>
  /\ UNCHANGED <<plugged, plugs, configured, plugin, gIf, interest, read, rx, enc, sending,
                 wire, clientVars, cut, owed>>
SetConfiguration ==
  /\ opening.kind = "device" /\ opening' = Nothing
  /\ IF opening.service = plugged
     THEN /\ holder' = "none"
          /\ \/ Configure(plugged) /\ UNCHANGED givenUp
             \/ givenUp' = givenUp \cup {"attach"} /\ UNCHANGED <<configured, evq>>
     ELSE UNCHANGED <<holder, configured, evq, givenUp>>
  /\ UNCHANGED <<plugged, plugs, plugin, gIf, interest, read, rx, enc, sending, wire,
                 clientVars, cut, owed>>

(* attach: ignored while an interface is open; opens a service that is      *)
(* there, or gives it up ...                                                *)
attach ==
  /\ Dispatch("interface") /\ evq' = Tail(evq)
  /\ IF gIf = 0 /\ Head(evq).service = plugged
     THEN \/ opening' = Head(evq) /\ UNCHANGED givenUp
          \/ givenUp' = givenUp \cup {"attach"} /\ UNCHANGED opening
     ELSE UNCHANGED <<opening, givenUp>>
  /\ UNCHANGED <<deviceVars, gIf, interest, read, rx, enc, sending, wire, clientVars, cut, owed>>

(* ... looks for its pipes, registers interest, and starts to read.  Each   *)
(* may fail, and does on a device that is gone by then; only the lack of    *)
(* pipes is looked at, and what fails is not tried again.                   *)
Busy == enc.bytes # <<>> \/ enc.out # <<>>
NoPipes ==
  /\ givenUp' = IF opening.service = plugged THEN givenUp \cup {"attach"} ELSE givenUp
  /\ UNCHANGED <<gIf, interest, read, enc, cut, owed>>
Opens ==
  /\ gIf' = opening.service
  /\ interest' \in {FALSE, gIf' = plugged}
  /\ \/ gIf' = plugged /\ read' = "pending" /\ givenUp' = givenUp \ {"read"}
     \/ read' = "none" /\ givenUp' = IF gIf' = plugged THEN givenUp \cup {"read"} ELSE givenUp
  /\ enc' = [enc EXCEPT !.gRunning = 0, !.gInSysex = FALSE]
  /\ cut' = (Busy \/ open) /\ owed' = Owes(<<>>)
Attached ==
  /\ opening.kind = "interface" /\ opening' = Nothing
  /\ NoPipes \/ Opens
  /\ UNCHANGED <<deviceVars, evq, rx, sending, wire, clientVars>>

detach ==
  /\ Dispatch("terminated") /\ evq' = Tail(evq)
  /\ gIf' = 0 /\ interest' = FALSE /\ read' = "none" /\ rx' = <<>>
  /\ UNCHANGED <<deviceVars, opening, enc, sending, wire, clientVars, cut, owed, givenUp>>

(* Reading.  A read that fails brought nothing; after Aborted, NoDevice and *)
(* NotResponding ("aborted") none follows, and none may be accepted.        *)
ReadSucceeds ==
  /\ read = "pending" /\ alive /\ wire # <<>>
  /\ LET n == IF Len(wire) < RxEvents THEN Len(wire) ELSE RxEvents
     IN  rx' = SubSeq(wire, 1, n) /\ wire' = SubSeq(wire, n + 1, Len(wire))
  /\ read' = "success"
  /\ UNCHANGED <<deviceVars, evq, opening, gIf, interest, enc, sending, clientVars, cut, owed,
                 givenUp>>
ReadFails ==
  /\ read = "pending" /\ read' \in {"error", "aborted"}
  /\ givenUp' = IF alive /\ read' = "aborted" THEN givenUp \cup {"read"} ELSE givenUp
  /\ UNCHANGED <<deviceVars, evq, opening, gIf, interest, rx, enc, sending, wire, clientVars,
                 cut, owed>>
Resubmits_afterSuccess == read = "success"
Resubmits == read # "aborted"
submit_read ==
  \/ alive /\ read' = "pending" /\ UNCHANGED givenUp
  \/ read' = "none" /\ givenUp' = IF alive THEN givenUp \cup {"read"} ELSE givenUp
rx_complete ==
  /\ opening = Nothing /\ read \in {"success", "error", "aborted"}
  /\ owed' = IF cut THEN owed
             ELSE [plain |-> SubSeq(owed.plain, Len(Plain(Decoded(rx))) + 1, Len(owed.plain)),
                   clocks |-> owed.clocks - Owes(Decoded(rx)).clocks]
  /\ rx' = <<>>
  /\ IF Resubmits THEN submit_read ELSE read' = "none" /\ UNCHANGED givenUp
  /\ UNCHANGED <<deviceVars, evq, opening, gIf, interest, enc, sending, wire, clientVars, cut>>

(* WritePipe through an interface that detach closed since the check may    *)
(* end the daemon; launchd starts it again, and main finds what is there.   *)
Restart ==
  /\ sending /\ gIf = 0
  /\ evq' = IF plugged = 0 THEN <<>>
            ELSE <<Note("device", plugged)>>
                 \o (IF configured THEN <<Note("interface", plugged)>> ELSE <<>>)
  /\ holder' = IF holder = "midid" THEN "none" ELSE holder
  /\ opening' = Nothing /\ interest' = FALSE /\ read' = "none" /\ rx' = <<>>
  /\ enc' = Encoder /\ sending' = FALSE /\ givenUp' = {}
  /\ UNCHANGED <<plugged, plugs, configured, plugin, gIf, wire, clientVars, cut, owed>>
----------------------------------------------------------------------------
Init ==
  /\ plugged = 0 /\ plugs = 0 /\ configured = FALSE /\ holder = "none"
  /\ plugin \in {IF p THEN "told" ELSE "absent" : p \in HasPlugIn}
  /\ evq = <<>> /\ opening = Nothing /\ gIf = 0 /\ interest = FALSE
  /\ read = "none" /\ rx = <<>> /\ enc = Encoder /\ sending = FALSE /\ wire = <<>>
  /\ sent = 0 /\ open = FALSE /\ cut = FALSE /\ owed = Owes(<<>>) /\ givenUp = {}

RunLoop == devices_added \/ SetConfiguration \/ attach \/ Attached \/ detach
CoreMidi == encode_bytes \/ usb_send \/ WritePipe
Next == \/ Plug \/ Unplug \/ device_attach \/ PlugInConfigures
        \/ RunLoop \/ ReadSucceeds \/ ReadFails \/ rx_complete
        \/ CoreMidi \/ Restart \/ \E p \in Packets : dest_read(p)
Spec == Init /\ [][Next]_vars

(* The daemon's two threads run, and the plug-in's; a read of what is there *)
(* does not fail for ever.                                                  *)
FairSpec == /\ Spec /\ WF_vars(RunLoop) /\ WF_vars(rx_complete) /\ WF_vars(CoreMidi)
            /\ WF_vars(PlugInConfigures) /\ SF_vars(ReadSucceeds)
----------------------------------------------------------------------------
TypeOK ==
  /\ plugged \in {0, plugs} /\ plugs \in 0 .. MaxPlugs /\ configured \in BOOLEAN
  /\ holder \in {"none", "plugin", "midid"}
  /\ plugin \in {"absent", "told", "opening", "has", "dropped", "failed"}
  /\ \A i \in DOMAIN evq : evq[i].kind \in {"device", "interface", "terminated"}
  /\ opening.kind \in {"nothing", "device", "interface"}
  /\ gIf \in 0 .. plugs /\ interest \in BOOLEAN
  /\ read \in {"none", "pending", "success", "error", "aborted"}
  /\ givenUp \subseteq {"attach", "read"}
  /\ \A e \in Range(rx \o wire \o enc.out) : e.cin \in 0 .. 15 /\ \A i \in 1 .. 3 : e.b[i] \in Bytes
  /\ Len(enc.gSyx) < 3 /\ enc.gRunning \in Bytes
  /\ {sending, open, cut} \subseteq BOOLEAN /\ owed.clocks \in Nat

(* Between two packets, all that clients sent to the attached device was    *)
(* heard, or is on its way back, or waits in gSyx for the rest of its       *)
(* system exclusive: in order, but for real-time messages.  A message that  *)
(* an attach or a failing WritePipe cut may be lost or garbled; the next    *)
(* one is not.                                                              *)
InStep ==
  ~Busy /\ ~cut /\ alive =>
    owed = [plain |-> Plain(InTransit) \o (IF enc.gInSysex THEN enc.gSyx ELSE <<>>),
            clocks |-> Owes(InTransit).clocks]

(* What comes in is heard, or the device goes: after an error a read is     *)
(* started again, and no attach forgets to start one.  What ends the input  *)
(* of a device that is still there is named: a read that ends with Aborted  *)
(* or NotResponding (42), or one that is not accepted (37).  Nothing else   *)
(* does, and nothing ends it later than that read.                          *)
InputFlows == wire # <<>> ~> (wire = <<>> \/ "read" \in givenUp)

(* A device that stays plugged in is attached in the end, with or without   *)
(* the plug-in: also after a crash, and after quick unplugs.  Two things    *)
(* prevent it, and are named: a call that failed on this device while it    *)
(* was opened or configured, which nothing tries again (119-128, 147), and  *)
(* an interface opened without the interest in its termination (130), which *)
(* the daemon keeps for good after an unplug.                               *)
Deaf == gIf # 0 /\ ~interest
Reattaches == plugged # 0 ~> (plugged = 0 \/ gIf = plugged \/ Deaf \/ "attach" \in givenUp)

(* README.md:40: "plug the unit in at any time": the daemon's opening of    *)
(* the device never makes the plug-in give it up.                           *)
PlugInGetsDevice == plugin # "dropped"
=============================================================================
