-------------------------------- MODULE UsbPump --------------------------------
(***************************************************************************)
(* The standing bulk IN request of DwUsbHostDxe (patch 0035): a host       *)
(* channel left armed, harvested by the periodic handler, and read by a    *)
(* class driver that polls; the synchronous path it hands over to; and the *)
(* data toggle, which the device, the channel, the pump and the class      *)
(* driver each keep.  A transfer is a number; it fits the poller's buffer. *)
(***************************************************************************)
EXTENDS Integers, Sequences

CONSTANTS Eps,            \* the bulk IN endpoints that are polled
          MaxErrors,      \* DWC2_PUMP_MAX_ERRORS
          CooldownPolls,  \* DWC2_PUMP_COOLDOWN_POLLS
          MaxTransfers,   \* bound: transfers of an endpoint
          MaxFaults       \* bound: error halts

None == "none"

ASSUME PumpAssumption ==
  MaxErrors \in Nat \ {0} /\ CooldownPolls \in Nat \ {0} /\ None \notin Eps

VARIABLES
  state,     \* Pump->State: "idle", "armed", "ready"
  ep,        \* Pump->DeviceAddress, EpAddress, MaximumPacketLength
  pid,       \* Pump->Pid: the toggle expected next
  ready,     \* the transfer in Pump->Buffer
  errors,    \* Pump->Errors
  cooldown,  \* Pump->Cooldown
  chan,      \* the channel: "off", "active", or halted with "comp", "zlp", "nak", "error"
  cpid,      \* HCTSIZ.PID
  cdata,     \* the transfer the channel put in the buffer
  toggle,    \* DataToggle of the class driver of each endpoint
  classic,   \* the endpoint on the synchronous path, or none
  sent,      \* the device's: transfers sent
  next,      \* the device's: its toggle
  got,       \* history: the transfers delivered, in order
  faults,    \* history: error halts
  broken,    \* history: endpoints with an error halt, or given up for another
  exited     \* DwHcQuiesce

pump == <<state, ep, pid, ready, errors, cooldown>>
wire == <<chan, cpid, cdata>>
dev  == <<sent, next>>
vars == <<pump, wire, dev, toggle, classic, got, faults, broken, exited>>

Init ==
  /\ state = "idle" /\ ep = None /\ pid = 0 /\ ready = 0 /\ errors = 0 /\ cooldown = 0
  /\ chan = "off" /\ cpid = 0 /\ cdata = 0
  /\ toggle = [e \in Eps |-> 0] /\ classic = None
  /\ sent = [e \in Eps |-> 0] /\ next = [e \in Eps |-> 0]
  /\ got = [e \in Eps |-> <<>>] /\ faults = 0 /\ broken = {} /\ exited = FALSE

-----------------------------------------------------------------------------
(* The channel and the device.                                             *)

\* A transfer of one packet more than an even number flips the toggle.
Flip(t, odd) == IF odd THEN 1 - t ELSE t

\* The channel takes data that has the toggle it expects.  It drops other data
\* as a repetition, and the device goes on.
Transfer ==
  /\ chan = "active" /\ sent[ep] < MaxTransfers
  /\ sent' = [sent EXCEPT ![ep] = @ + 1]
  /\ \E odd \in BOOLEAN :
       IF next[ep] = cpid
       THEN /\ chan' = "comp" /\ cdata' = sent'[ep]
            /\ cpid' = Flip(cpid, odd) /\ next' = [next EXCEPT ![ep] = Flip(@, odd)]
       ELSE /\ next' = [next EXCEPT ![ep] = 1 - @] /\ UNCHANGED wire
  /\ UNCHANGED <<pump, toggle, classic, got, faults, broken, exited>>
\* A packet without data, which has a toggle too.
ZeroLength ==
  /\ chan = "active" /\ next[ep] = cpid
  /\ chan' = "zlp" /\ cpid' = 1 - cpid /\ next' = [next EXCEPT ![ep] = 1 - @]
  /\ UNCHANGED <<pump, cdata, sent, toggle, classic, got, faults, broken, exited>>
NakHalt ==
  /\ chan = "active"
  /\ chan' = "nak"
  /\ UNCHANGED <<pump, cpid, cdata, dev, toggle, classic, got, faults, broken, exited>>
\* An error, with or without packets of the transfer taken before it.
ErrorHalt ==
  /\ chan = "active" /\ faults < MaxFaults
  /\ faults' = faults + 1
  /\ chan' = "error"
  /\ \/ next[ep] = cpid /\ cpid' = 1 - cpid /\ next' = [next EXCEPT ![ep] = 1 - @]
     \/ UNCHANGED <<cpid, next>>
  /\ broken' = broken \cup {ep}
  /\ UNCHANGED <<pump, cdata, sent, toggle, classic, got, exited>>

-----------------------------------------------------------------------------
(* The pump, all of it at TPL_NOTIFY.                                      *)

\* Mutant: the toggle is only read with data.
PidAfterData == IF chan = "comp" THEN cpid ELSE pid
\* The toggle of a complete transfer, also of one without data.
PidAfter == IF chan \in {"comp", "zlp"} THEN cpid ELSE pid

\* DwHcPumpHarvest: what a halted channel means.  A transfer is parked; one
\* without data and a NAK rearm; so does an error, until there are too many.
Harvested == [state    |-> IF state # "armed" \/ chan = "active" THEN state
                           ELSE IF chan = "comp" THEN "ready"
                           ELSE IF chan = "error" /\ errors + 1 >= MaxErrors THEN "idle" ELSE "armed",
              pid      |-> IF state = "armed" THEN PidAfter ELSE pid,
              ready    |-> IF state = "armed" /\ chan = "comp" THEN cdata ELSE ready,
              errors   |-> IF state # "armed" THEN errors
                           ELSE CASE chan \in {"comp", "zlp"} -> 0
                                  [] chan = "error" -> IF errors + 1 >= MaxErrors THEN 0 ELSE errors + 1
                                  [] OTHER -> errors,
              cooldown |-> IF state = "armed" /\ chan = "error" /\ errors + 1 >= MaxErrors THEN CooldownPolls ELSE cooldown,
              rearm    |-> state = "armed" /\ (chan \in {"zlp", "nak"} \/ (chan = "error" /\ errors + 1 < MaxErrors))]

\* DwHcPumpArm gives HCTSIZ the pump's PID.
Channel(h) ==
  \/ h.rearm /\ chan' = "active" /\ cpid' = h.pid
  \/ ~h.rearm /\ h.state = "armed" /\ UNCHANGED <<chan, cpid>>
  \/ ~h.rearm /\ h.state # "armed" /\ chan' = "off" /\ UNCHANGED cpid

\* DwHcPeriodicHandler, each millisecond.
Periodic ==
  /\ ~exited /\ state = "armed" /\ chan # "active"
  /\ LET h == Harvested
     IN /\ state' = h.state /\ pid' = h.pid /\ ready' = h.ready
        /\ errors' = h.errors /\ cooldown' = h.cooldown
        /\ Channel(h)
  /\ UNCHANGED <<ep, cdata, dev, toggle, classic, got, faults, broken, exited>>

\* Mutant: what was parked is read again by the next poll.
RearmNot(h) == [h EXCEPT !.rearm = FALSE]
\* A transfer that was delivered leaves the buffer to the next one.
Rearm(h) == IF h.state = "ready" THEN [h EXCEPT !.state = "armed", !.rearm = TRUE] ELSE h

\* A poll of the endpoint the pump serves: harvest, then the transfer that is
\* parked, or a time-out at once, or the synchronous path if the harvest has
\* just stood the pump down.
Serve(e) ==
  /\ state # "idle" /\ ep = e
  /\ LET h == Harvested
         n == Rearm(h)
     IN /\ got' = IF h.state = "ready" THEN [got EXCEPT ![e] = Append(@, h.ready)] ELSE got
        /\ toggle' = IF h.state = "ready" THEN [toggle EXCEPT ![e] = h.pid] ELSE toggle
        /\ classic' = IF h.state = "idle" THEN e ELSE None
        /\ state' = n.state /\ pid' = n.pid /\ ready' = n.ready
        /\ errors' = n.errors /\ cooldown' = n.cooldown
        /\ Channel(n)
  /\ UNCHANGED <<ep, cdata, dev, faults, broken, exited>>

\* A poll of an endpoint while the pump is idle, or serves another: that one
\* is given up, with the transfer and the toggle it may hold.  The pump starts
\* with the caller's toggle.
Engage(e) ==
  /\ state = "idle" /\ cooldown = 0
  /\ ep' = e /\ pid' = toggle[e] /\ errors' = 0
  /\ state' = "armed" /\ chan' = "active" /\ cpid' = toggle[e]
  /\ UNCHANGED <<ready, cooldown, cdata, dev, toggle, classic, got, faults, broken, exited>>
NewcomerWins(e) ==
  /\ state # "idle" /\ ep # e
  /\ broken' = broken \cup {ep}
  /\ ep' = e /\ pid' = toggle[e] /\ errors' = 0 /\ cooldown' = 0 /\ ready' = 0
  /\ state' = "armed" /\ chan' = "active" /\ cpid' = toggle[e]
  /\ UNCHANGED <<cdata, dev, toggle, classic, got, faults, exited>>
\* Mutant: the polls of the time the pump stands down are not counted.
CountDownNot == cooldown
CountDown == IF cooldown > 0 THEN cooldown - 1 ELSE cooldown
\* While the pump stands down the synchronous path is taken; it is, too, as
\* long as there was no memory for the buffer.
StandDown(e) ==
  /\ state = "idle" /\ (cooldown > 0 \/ ep = None)
  /\ cooldown' = CountDown
  /\ classic' = e
  /\ UNCHANGED <<state, ep, pid, ready, errors, wire, dev, toggle, got, faults, broken, exited>>

Poll(e) ==
  /\ ~exited /\ classic = None
  /\ Serve(e) \/ Engage(e) \/ NewcomerWins(e) \/ StandDown(e)

\* The synchronous transfer, with the class driver's toggle, of data, of
\* nothing before the time-out, or of an error.
Classic ==
  /\ classic # None /\ ~exited
  /\ LET e == classic
     IN \/ UNCHANGED <<dev, toggle, got>>
        \/ /\ sent[e] < MaxTransfers
           /\ sent' = [sent EXCEPT ![e] = @ + 1]
           /\ next' = [next EXCEPT ![e] = 1 - @]
           /\ IF next[e] = toggle[e]
              THEN got' = [got EXCEPT ![e] = Append(@, sent'[e])] /\ toggle' = [toggle EXCEPT ![e] = 1 - @]
              ELSE UNCHANGED <<got, toggle>>
  /\ classic' = None
  /\ UNCHANGED <<pump, wire, faults, broken, exited>>

\* DwHcQuiesce: the pump's channel is halted, then the core is reset.
DwHcQuiesce ==
  /\ ~exited
  /\ exited' = TRUE
  /\ state' = "idle" /\ ready' = 0 /\ chan' = "off" /\ classic' = None
  /\ UNCHANGED <<ep, pid, errors, cooldown, cpid, cdata, dev, toggle, got, faults, broken>>

Next ==
  \/ Transfer \/ ZeroLength \/ NakHalt \/ ErrorHalt \/ Periodic
  \/ (\E e \in Eps : Poll(e)) \/ Classic \/ DwHcQuiesce
\* The periodic handler ticks, and an endpoint is polled again and again.
Fairness == WF_vars(Periodic) /\ WF_vars(Classic) /\ \A e \in Eps : WF_vars(Poll(e))
Spec == Init /\ [][Next]_vars /\ Fairness

-----------------------------------------------------------------------------
(* Properties.                                                             *)

\* A class driver gets every transfer at most once and in the order the device
\* sent them, whichever path it comes on; and after DwHcQuiesce the channel
\* masters the bus no more.
DeliveredInOrder ==
  /\ \A e \in Eps : \A i, j \in 1 .. Len(got[e]) : i < j => got[e][i] < got[e][j]
  /\ exited => chan = "off"

\* Until an error halt, or another poller, breaks in, nothing is lost: what was
\* sent was delivered, but for the one transfer in the channel or parked; and
\* the toggle of the request that stands is the device's.
NothingLost ==
  \A e \in Eps \ broken : ~exited =>
    /\ got[e] = [i \in 1 .. Len(got[e]) |-> i]
    /\ sent[e] - Len(got[e]) <= IF ep = e /\ (state = "ready" \/ (state = "armed" /\ chan = "comp")) THEN 1 ELSE 0
    /\ ep = e /\ state = "armed" /\ chan = "active" => cpid = next[e]

\* What makes the two inductive: a channel is on exactly while the pump is
\* armed, what is parked is the last transfer sent, and of an endpoint that is
\* not broken pump, channel or class driver know the device's toggle.
TypeOK ==
  /\ state \in {"idle", "armed", "ready"} /\ ep \in Eps \cup {None}
  /\ pid \in {0, 1} /\ ready \in Nat /\ errors \in Nat /\ cooldown \in Nat
  /\ chan \in {"off", "active", "comp", "zlp", "nak", "error"}
  /\ cpid \in {0, 1} /\ cdata \in Nat
  /\ toggle \in [Eps -> {0, 1}] /\ classic \in Eps \cup {None}
  /\ sent \in [Eps -> Nat] /\ next \in [Eps -> {0, 1}]
  /\ got \in [Eps -> Seq(Nat)] /\ faults \in Nat
  /\ broken \subseteq Eps /\ exited \in BOOLEAN
OnWhileArmed ==
  /\ state = "armed" <=> chan # "off"
  /\ state # "idle" => ep \in Eps
  /\ classic # None => state = "idle"
  /\ exited => state = "idle" /\ classic = None
Parked(e) == ep = e /\ (state = "ready" \/ (state = "armed" /\ chan = "comp"))
LastIsParked ==
  /\ \A e \in Eps : \A i \in 1 .. Len(got[e]) : got[e][i] <= sent[e] /\ (Parked(e) => got[e][i] < sent[e])
  /\ chan = "comp" => cdata = sent[ep]
  /\ state = "ready" => ready = sent[ep]
TogglesAgree(e) ==
  /\ ep = e /\ state = "armed" => chan # "error" /\ cpid = next[e] /\ (chan \in {"active", "nak"} => pid = next[e])
  /\ ep = e /\ state = "ready" => pid = next[e]
  /\ ep # e \/ state = "idle" => toggle[e] = next[e]
InStep ==
  \A e \in Eps \ broken : ~exited =>
    /\ got[e] = [i \in 1 .. Len(got[e]) |-> i]
    /\ sent[e] = Len(got[e]) + IF Parked(e) THEN 1 ELSE 0
    /\ TogglesAgree(e)

IInv == TypeOK /\ OnWhileArmed /\ LastIsParked /\ DeliveredInOrder /\ InStep

\* A pump that stands down, polled on, is armed again.
ComesBack == (cooldown > 0) ~> (state = "armed" \/ exited)

\* Commit message of the patch: "every delivery mirrors HCTSIZ.PID back into the
\* caller's DataToggle, so a handover to the classic path stays coherent".
HandoverCoherent == classic # None => toggle[classic] = next[classic]
=============================================================================
