----------------------------- MODULE UsbPumpProofs -----------------------------
(***************************************************************************)
(* Proofs about the standing bulk IN request for every set of endpoints,   *)
(* every number of transfers and error halts, and every value of the error *)
(* limit and of the cooldown.                                              *)
(***************************************************************************)
EXTENDS UsbPump, TLAPS

Increasing(s) == \A i, j \in 1 .. Len(s) : i < j => s[i] < s[j]

\* A delivery appends to what was delivered.
LEMMA Appended ==
  ASSUME NEW s \in Seq(Nat), NEW x \in Nat
  PROVE  /\ Append(s, x) \in Seq(Nat) /\ Len(Append(s, x)) = Len(s) + 1
         /\ \A i \in 1 .. Len(s) : Append(s, x)[i] = s[i]
         /\ Append(s, x)[Len(s) + 1] = x
<1>1. Append(s, x) \in Seq(Nat) /\ Len(Append(s, x)) = Len(s) + 1
  OBVIOUS
<1>2. Append(s, x)[Len(s) + 1] = x
  OBVIOUS
<1>3. ASSUME NEW i \in 1 .. Len(s) PROVE Append(s, x)[i] = s[i]
  OBVIOUS
<1> QED BY <1>1, <1>2, <1>3

\* A transfer later than all before keeps them in order.
LEMMA AppendInOrder ==
  ASSUME NEW s \in Seq(Nat), NEW x \in Nat, Increasing(s), \A i \in 1 .. Len(s) : s[i] < x
  PROVE  /\ Increasing(Append(s, x))
         /\ \A i \in 1 .. Len(Append(s, x)) : Append(s, x)[i] <= x
<1> DEFINE t == Append(s, x)
<1>1. /\ t \in Seq(Nat) /\ Len(t) = Len(s) + 1 /\ t[Len(s) + 1] = x
      /\ \A i \in 1 .. Len(s) : t[i] = s[i] /\ s[i] \in Nat
  BY Appended
<1> HIDE DEF t
<1>2. \A i \in 1 .. Len(t) : i \in 1 .. Len(s) \/ i = Len(s) + 1
  BY <1>1
<1>3. \A i \in 1 .. Len(t) : t[i] <= x
  <2>1. \A i \in 1 .. Len(s) : t[i] \in Nat /\ t[i] < x
    BY <1>1
  <2>2. t[Len(s) + 1] = x
    BY <1>1
  <2> QED BY <1>2, <2>1, <2>2
<1>4. Increasing(t)
  <2> SUFFICES ASSUME NEW i \in 1 .. Len(t), NEW j \in 1 .. Len(t), i < j PROVE t[i] < t[j]
    BY DEF Increasing
  <2>1. i \in 1 .. Len(s)
    BY <1>1
  <2>2. CASE j \in 1 .. Len(s)
    BY <1>1, <2>1, <2>2 DEF Increasing
  <2>3. CASE j = Len(s) + 1
    BY <1>1, <2>1, <2>3
  <2> QED BY <1>2, <2>2, <2>3
<1> QED BY <1>3, <1>4 DEF t

\* The next number continues the count.
LEMMA AppendCounts ==
  ASSUME NEW s \in Seq(Nat), s = [i \in 1 .. Len(s) |-> i]
  PROVE  Append(s, Len(s) + 1) = [i \in 1 .. Len(Append(s, Len(s) + 1)) |-> i]
<1> DEFINE t == Append(s, Len(s) + 1)
<1>1. /\ t \in Seq(Nat) /\ Len(t) = Len(s) + 1 /\ t[Len(s) + 1] = Len(s) + 1
      /\ \A i \in 1 .. Len(s) : t[i] = s[i] /\ s[i] = i
  BY Appended
<1> HIDE DEF t
<1>2. \A i \in 1 .. Len(t) : t[i] = i
  BY <1>1
<1>3. t = [i \in 1 .. Len(t) |-> t[i]]
  BY <1>1
<1> QED BY <1>2, <1>3 DEF t

\* An endpoint's toggle set anew.
LEMMA ToggleFlipped ==
  ASSUME NEW f \in [Eps -> {0, 1}], NEW e \in Eps, NEW t \in {0, 1}
  PROVE  [f EXCEPT ![e] = t] \in [Eps -> {0, 1}]
  OBVIOUS

-----------------------------------------------------------------------------
\* What DwHcPumpHarvest makes of each halt of the channel.
LEMMA HarvestCases ==
  ASSUME TypeOK, OnWhileArmed, state # "idle"
  PROVE  LET h == Harvested IN
         /\ h.state \in {"idle", "armed", "ready"} /\ h.pid \in {0, 1} /\ h.ready \in Nat
         /\ h.errors \in Nat /\ h.cooldown \in Nat /\ h.rearm \in BOOLEAN
         /\ state = "ready" => h.state = "ready" /\ h.pid = pid /\ h.ready = ready /\ ~h.rearm
         /\ state = "armed" =>
              /\ chan = "active" => h.state = "armed" /\ h.pid = pid /\ h.ready = ready /\ ~h.rearm
              /\ chan = "comp" => h.state = "ready" /\ h.pid = cpid /\ h.ready = cdata /\ ~h.rearm
              /\ chan = "zlp" => h.state = "armed" /\ h.pid = cpid /\ h.ready = ready /\ h.rearm
              /\ chan = "nak" => h.state = "armed" /\ h.pid = pid /\ h.ready = ready /\ h.rearm
              /\ chan = "error" => /\ h.pid = pid /\ h.ready = ready
                                   /\ (h.state = "armed" /\ h.rearm) \/ (h.state = "idle" /\ ~h.rearm)
<1> DEFINE h == Harvested
<1>1. h.state \in {"idle", "armed", "ready"}
  BY DEF Harvested, TypeOK
<1>2. h.pid \in {0, 1} /\ h.ready \in Nat
  BY DEF Harvested, PidAfter, TypeOK
<1>3. h.errors \in Nat
  BY DEF Harvested, TypeOK
<1>4. h.cooldown \in Nat
  BY PumpAssumption DEF Harvested, TypeOK
<1>5. h.rearm \in BOOLEAN
  BY DEF Harvested
<1>6. state = "ready" => h.state = "ready" /\ h.pid = pid /\ h.ready = ready /\ ~h.rearm
  BY DEF Harvested, OnWhileArmed
<1>7. ASSUME state = "armed" PROVE
              /\ chan = "active" => h.state = "armed" /\ h.pid = pid /\ h.ready = ready /\ ~h.rearm
              /\ chan = "comp" => h.state = "ready" /\ h.pid = cpid /\ h.ready = cdata /\ ~h.rearm
              /\ chan = "zlp" => h.state = "armed" /\ h.pid = cpid /\ h.ready = ready /\ h.rearm
              /\ chan = "nak" => h.state = "armed" /\ h.pid = pid /\ h.ready = ready /\ h.rearm
  BY <1>7 DEF Harvested, PidAfter
<1>8. ASSUME state = "armed", chan = "error"
      PROVE  /\ h.pid = pid /\ h.ready = ready
             /\ (h.state = "armed" /\ h.rearm) \/ (h.state = "idle" /\ ~h.rearm)
  <2>1. h.pid = pid /\ h.ready = ready
    BY <1>8 DEF Harvested, PidAfter
  <2>2. CASE errors + 1 >= MaxErrors
    <3>1. ~(errors + 1 < MaxErrors)
      BY <2>2, PumpAssumption DEF TypeOK
    <3> QED BY <1>8, <2>1, <2>2, <3>1 DEF Harvested
  <2>3. CASE ~(errors + 1 >= MaxErrors)
    <3>1. errors + 1 < MaxErrors
      BY <2>3, PumpAssumption DEF TypeOK
    <3> QED BY <1>8, <2>1, <2>3, <3>1 DEF Harvested
  <2> QED BY <2>2, <2>3
<1> QED BY <1>1, <1>2, <1>3, <1>4, <1>5, <1>6, <1>7, <1>8

-----------------------------------------------------------------------------
(* The channel and the device.                                             *)

LEMMA TransferInv == ASSUME IInv, Transfer PROVE IInv'
<1> USE DEF IInv
<1>1. state = "armed" /\ chan = "active" /\ ep \in Eps /\ ~exited /\ ~Parked(ep)
  BY DEF Transfer, OnWhileArmed, Parked, TypeOK
<1>2. PICK odd \in BOOLEAN :
        IF next[ep] = cpid
        THEN /\ chan' = "comp" /\ cdata' = sent'[ep]
             /\ cpid' = Flip(cpid, odd) /\ next' = [next EXCEPT ![ep] = Flip(@, odd)]
        ELSE /\ next' = [next EXCEPT ![ep] = 1 - @] /\ UNCHANGED wire
  BY DEF Transfer
<1>3. /\ UNCHANGED <<pump, toggle, classic, got, faults, broken, exited>>
      /\ sent' = [sent EXCEPT ![ep] = @ + 1]
  BY DEF Transfer
<1>4. /\ sent' \in [Eps -> Nat] /\ sent'[ep] = sent[ep] + 1
      /\ \A e \in Eps : sent[e] \in Nat /\ (e # ep => sent'[e] = sent[e])
  BY <1>1, <1>3 DEF TypeOK
<1>5. TypeOK'
  <2>1. \A t \in {0, 1} : Flip(t, odd) \in {0, 1} /\ 1 - t \in {0, 1}
    BY DEF Flip
  <2>2. cpid' \in {0, 1} /\ cdata' \in Nat /\ chan' \in {"off", "active", "comp", "zlp", "nak", "error"}
    BY <1>1, <1>2, <1>4, <2>1 DEF TypeOK, wire
  <2>3. next' \in [Eps -> {0, 1}]
    <3>1. next \in [Eps -> {0, 1}] /\ Flip(next[ep], odd) \in {0, 1} /\ 1 - next[ep] \in {0, 1}
      BY <1>1, <2>1 DEF TypeOK
    <3>2. next' = [next EXCEPT ![ep] = Flip(next[ep], odd)] \/ next' = [next EXCEPT ![ep] = 1 - next[ep]]
      BY <1>2
    <3> QED BY <1>1, <3>1, <3>2, ToggleFlipped
  <2> QED BY <1>3, <1>4, <2>2, <2>3 DEF TypeOK, pump
<1>6. OnWhileArmed'
  BY <1>1, <1>2, <1>3 DEF OnWhileArmed, pump, wire
<1>7. LastIsParked'
  <2>1. \A e \in Eps : \A i \in 1 .. Len(got[e]) : got[e][i] \in Nat /\ got[e][i] <= sent[e]
    BY DEF LastIsParked, TypeOK
  <2>2. \A e \in Eps : Parked(e)' => e = ep
    BY <1>1, <1>3 DEF Parked, pump
  <2>3. \A e \in Eps : \A i \in 1 .. Len(got[e]) : got[e][i] <= sent'[e] /\ (e = ep => got[e][i] < sent'[e])
    BY <1>4, <2>1
  <2> QED BY <1>1, <1>2, <1>3, <2>2, <2>3 DEF LastIsParked, pump, wire
<1>8. DeliveredInOrder'
  BY <1>1, <1>3 DEF DeliveredInOrder
<1>9. InStep'
  <2> SUFFICES ASSUME NEW e \in Eps \ broken
               PROVE  /\ got[e] = [i \in 1 .. Len(got[e]) |-> i]
                      /\ sent'[e] = Len(got[e]) + IF Parked(e)' THEN 1 ELSE 0
                      /\ TogglesAgree(e)'
    BY <1>3 DEF InStep
  <2>1. /\ got[e] = [i \in 1 .. Len(got[e]) |-> i]
        /\ sent[e] = Len(got[e]) + IF Parked(e) THEN 1 ELSE 0
        /\ TogglesAgree(e)
    BY <1>1 DEF InStep
  <2>2. CASE e = ep
    <3>1. next[e] = cpid /\ sent[e] = Len(got[e]) /\ Len(got[e]) \in Nat
      BY <1>1, <2>1, <2>2 DEF TogglesAgree, TypeOK
    <3>2. chan' = "comp" /\ cpid' = next'[e] /\ Parked(e)' /\ state' = "armed" /\ ep' = ep
      BY <1>1, <1>2, <1>3, <2>2, <3>1 DEF TypeOK, pump, Parked
    <3> QED BY <1>4, <2>1, <2>2, <3>1, <3>2 DEF TogglesAgree
  <2>3. CASE e # ep
    <3>1. next'[e] = next[e] /\ sent'[e] = sent[e] /\ ~Parked(e) /\ ~Parked(e)' /\ ep' = ep /\ toggle' = toggle
      BY <1>2, <1>3, <1>4, <2>3 DEF TypeOK, pump, Parked
    <3> QED BY <2>1, <2>3, <3>1 DEF TogglesAgree
  <2> QED BY <2>2, <2>3
<1> QED BY <1>5, <1>6, <1>7, <1>8, <1>9

LEMMA HaltInv == ASSUME IInv, ZeroLength \/ NakHalt \/ ErrorHalt PROVE IInv'
<1> USE DEF IInv
<1>1. state = "armed" /\ chan = "active" /\ ep \in Eps /\ ~exited
  BY DEF ZeroLength, NakHalt, ErrorHalt, OnWhileArmed, TypeOK
<1>2. /\ UNCHANGED <<pump, cdata, sent, toggle, classic, got, exited>>
      /\ chan' \in {"zlp", "nak", "error"} /\ broken \subseteq broken' /\ broken' \subseteq broken \cup {ep}
      /\ chan' = "error" => ep \in broken'
      /\ faults' \in Nat
      /\ \/ next[ep] = cpid /\ cpid' = 1 - cpid /\ next' = [next EXCEPT ![ep] = 1 - @] /\ chan' # "nak"
         \/ UNCHANGED <<cpid, next>> /\ chan' # "zlp"
  BY DEF ZeroLength, NakHalt, ErrorHalt, TypeOK, dev
<1>3. \A e \in Eps : (Parked(e) <=> Parked(e)') /\ ~Parked(ep)
  BY <1>1, <1>2 DEF Parked, pump
<1>4. TypeOK'
  <2>1. next' \in [Eps -> {0, 1}] /\ cpid' \in {0, 1}
    <3>1. \A t \in {0, 1} : 1 - t \in {0, 1}
      OBVIOUS
    <3> QED BY <1>1, <1>2, <3>1, ToggleFlipped DEF TypeOK
  <2> QED BY <1>1, <1>2, <2>1 DEF TypeOK, pump
<1>5. OnWhileArmed' /\ LastIsParked' /\ DeliveredInOrder'
  BY <1>1, <1>2, <1>3 DEF OnWhileArmed, LastIsParked, DeliveredInOrder, pump
<1>6. InStep'
  <2> SUFFICES ASSUME NEW e \in Eps \ broken'
               PROVE  /\ got[e] = [i \in 1 .. Len(got[e]) |-> i]
                      /\ sent[e] = Len(got[e]) + IF Parked(e)' THEN 1 ELSE 0
                      /\ TogglesAgree(e)'
    BY <1>2 DEF InStep
  <2>1. /\ got[e] = [i \in 1 .. Len(got[e]) |-> i]
        /\ sent[e] = Len(got[e]) + IF Parked(e) THEN 1 ELSE 0
        /\ TogglesAgree(e)
    BY <1>1, <1>2 DEF InStep
  <2>2. TogglesAgree(e)'
    <3>1. CASE e = ep
      BY <1>1, <1>2, <2>1, <3>1 DEF TogglesAgree, TypeOK, pump
    <3>2. CASE e # ep
      BY <1>1, <1>2, <2>1, <3>2 DEF TogglesAgree, TypeOK, pump
    <3> QED BY <3>1, <3>2
  <2> QED BY <1>3, <2>1, <2>2
<1> QED BY <1>4, <1>5, <1>6

-----------------------------------------------------------------------------
(* The pump.                                                               *)

\* A harvest that delivers nothing: a transfer is parked, the channel is armed
\* again with the toggle it left, or the pump stands down.
LEMMA HarvestInv ==
  ASSUME IInv, ~exited, state # "idle",
         state' = Harvested.state, pid' = Harvested.pid, ready' = Harvested.ready,
         errors' = Harvested.errors, cooldown' = Harvested.cooldown, Channel(Harvested),
         UNCHANGED <<ep, cdata, dev, toggle, got, faults, broken, exited>>,
         classic' = None \/ (classic' = ep /\ state' = "idle")
  PROVE  IInv'
<1> DEFINE h == Harvested
<1> USE DEF IInv
<1>1. ep \in Eps /\ ep # None
  BY PumpAssumption DEF OnWhileArmed
<1>2. /\ h.state \in {"idle", "armed", "ready"} /\ h.pid \in {0, 1} /\ h.ready \in Nat
      /\ h.errors \in Nat /\ h.cooldown \in Nat /\ h.rearm \in BOOLEAN
      /\ state = "ready" => h.state = "ready" /\ h.pid = pid /\ h.ready = ready /\ ~h.rearm
      /\ state = "armed" =>
           /\ chan = "active" => h.state = "armed" /\ h.pid = pid /\ h.ready = ready /\ ~h.rearm
           /\ chan = "comp" => h.state = "ready" /\ h.pid = cpid /\ h.ready = cdata /\ ~h.rearm
           /\ chan = "zlp" => h.state = "armed" /\ h.pid = cpid /\ h.ready = ready /\ h.rearm
           /\ chan = "nak" => h.state = "armed" /\ h.pid = pid /\ h.ready = ready /\ h.rearm
           /\ chan = "error" => /\ h.pid = pid /\ h.ready = ready
                                /\ (h.state = "armed" /\ h.rearm) \/ (h.state = "idle" /\ ~h.rearm)
  BY HarvestCases
<1>3. \/ h.rearm /\ chan' = "active" /\ cpid' = h.pid
      \/ ~h.rearm /\ h.state = "armed" /\ UNCHANGED <<chan, cpid>>
      \/ ~h.rearm /\ h.state # "armed" /\ chan' = "off" /\ UNCHANGED cpid
  BY DEF Channel
<1>4. state' = h.state /\ pid' = h.pid /\ ready' = h.ready /\ errors' = h.errors /\ cooldown' = h.cooldown
  OBVIOUS
<1> HIDE DEF h
<1>5. TypeOK'
  BY <1>1, <1>2, <1>3, <1>4 DEF TypeOK, dev
<1>6. (state' = "armed" <=> chan' # "off") /\ (state = "ready" => chan = "off")
  BY <1>2, <1>3, <1>4 DEF OnWhileArmed, TypeOK
<1>7. OnWhileArmed'
  BY <1>1, <1>6 DEF OnWhileArmed
<1>8. \A e \in Eps : Parked(e) <=> Parked(e)'
  BY <1>2, <1>3, <1>4 DEF Parked, OnWhileArmed, TypeOK
<1>9. LastIsParked'
  <2>1. chan' = "comp" => chan = "comp"
    BY <1>2, <1>3, <1>4
  <2>2. state' = "ready" => ready' = sent[ep]
    BY <1>2, <1>4 DEF LastIsParked, OnWhileArmed, TypeOK
  <2> QED BY <1>8, <2>1, <2>2 DEF LastIsParked, dev
<1>10. DeliveredInOrder'
  BY DEF DeliveredInOrder
<1>11. InStep'
  <2> SUFFICES ASSUME NEW e \in Eps \ broken
               PROVE  /\ got[e] = [i \in 1 .. Len(got[e]) |-> i]
                      /\ sent[e] = Len(got[e]) + IF Parked(e)' THEN 1 ELSE 0
                      /\ TogglesAgree(e)'
    BY DEF InStep, dev
  <2>1. /\ got[e] = [i \in 1 .. Len(got[e]) |-> i]
        /\ sent[e] = Len(got[e]) + IF Parked(e) THEN 1 ELSE 0
        /\ TogglesAgree(e)
    BY DEF InStep
  <2>2. TogglesAgree(e)'
    <3>1. CASE e = ep
      BY <1>2, <1>3, <1>4, <2>1, <3>1 DEF TogglesAgree, dev, OnWhileArmed, TypeOK
    <3>2. CASE e # ep
      BY <2>1, <3>2 DEF TogglesAgree, dev
    <3> QED BY <3>1, <3>2
  <2> QED BY <1>8, <2>1, <2>2
<1> QED BY <1>5, <1>7, <1>9, <1>10, <1>11

LEMMA PeriodicInv == ASSUME IInv, Periodic PROVE IInv'
<1>1. classic = None
  BY DEF Periodic, IInv, OnWhileArmed
<1>2. ~exited /\ state # "idle"
  BY DEF Periodic
<1> QED BY <1>1, <1>2, HarvestInv DEF Periodic

\* A poll that finds a transfer: it is the last that was sent, and later than
\* all delivered before.
LEMMA DeliverInv ==
  ASSUME IInv, NEW e \in Eps, ~exited, ep = e, state # "idle", Harvested.state = "ready",
         got' = [got EXCEPT ![e] = Append(@, Harvested.ready)],
         toggle' = [toggle EXCEPT ![e] = Harvested.pid],
         classic' = None, state' = "armed", chan' = "active", cpid' = Harvested.pid,
         pid' = Harvested.pid, ready' = Harvested.ready, errors' = Harvested.errors, cooldown' = Harvested.cooldown,
         UNCHANGED <<ep, cdata, dev, faults, broken, exited>>
  PROVE  IInv'
<1> DEFINE h == Harvested
<1> USE DEF IInv
<1>1. Parked(e) /\ h.pid \in {0, 1} /\ h.ready \in Nat /\ h.errors \in Nat /\ h.cooldown \in Nat
      /\ (state = "ready" => h.pid = pid /\ h.ready = ready)
      /\ (state = "armed" => chan = "comp" /\ h.pid = cpid /\ h.ready = cdata)
  BY HarvestCases DEF Parked, TypeOK, OnWhileArmed
<1>2. /\ got' = [got EXCEPT ![e] = Append(@, h.ready)] /\ toggle' = [toggle EXCEPT ![e] = h.pid]
      /\ cpid' = h.pid /\ pid' = h.pid /\ ready' = h.ready /\ errors' = h.errors /\ cooldown' = h.cooldown
  OBVIOUS
<1> HIDE DEF h
<1>3. h.ready = sent[e] /\ sent[e] \in Nat
  BY <1>1 DEF Parked, LastIsParked, TypeOK
<1>4. got[e] \in Seq(Nat) /\ Append(got[e], h.ready) \in Seq(Nat)
  BY <1>1 DEF TypeOK
<1>5. got'[e] = Append(got[e], sent[e]) /\ \A d \in Eps : d # e => got'[d] = got[d]
  BY <1>2, <1>3 DEF TypeOK
<1>6. TypeOK'
  <2>1. got' \in [Eps -> Seq(Nat)]
    BY <1>2, <1>4 DEF TypeOK
  <2>2. toggle' \in [Eps -> {0, 1}]
    BY <1>1, <1>2, ToggleFlipped DEF TypeOK
  <2> QED BY <1>1, <1>2, <2>1, <2>2 DEF TypeOK, dev
<1>7. OnWhileArmed'
  BY DEF OnWhileArmed
<1>8. Increasing(got[e]) /\ \A i \in 1 .. Len(got[e]) : got[e][i] < sent[e]
  BY <1>1 DEF DeliveredInOrder, Increasing, LastIsParked
<1>9. Increasing(got'[e]) /\ \A i \in 1 .. Len(got'[e]) : got'[e][i] <= sent[e]
  BY <1>3, <1>4, <1>5, <1>8, AppendInOrder
<1>10. \A d \in Eps : ~Parked(d)' /\ (d # e => ~Parked(d))
  BY DEF Parked
<1>11. LastIsParked'
  BY <1>5, <1>9, <1>10 DEF LastIsParked, dev
<1>12. DeliveredInOrder'
  BY <1>5, <1>9 DEF DeliveredInOrder, Increasing
<1>13. InStep'
  <2> SUFFICES ASSUME NEW d \in Eps \ broken
               PROVE  /\ got'[d] = [i \in 1 .. Len(got'[d]) |-> i]
                      /\ sent[d] = Len(got'[d]) + IF Parked(d)' THEN 1 ELSE 0
                      /\ TogglesAgree(d)'
    BY DEF InStep, dev
  <2>1. /\ got[d] = [i \in 1 .. Len(got[d]) |-> i]
        /\ sent[d] = Len(got[d]) + IF Parked(d) THEN 1 ELSE 0
        /\ TogglesAgree(d)
    BY DEF InStep
  <2>2. CASE d = e
    <3>1. sent[e] = Len(got[e]) + 1 /\ Len(got[e]) \in Nat
      BY <1>1, <1>4, <2>1, <2>2
    <3>2. got'[e] = [i \in 1 .. Len(got'[e]) |-> i] /\ Len(got'[e]) = Len(got[e]) + 1
      BY <1>4, <1>5, <2>1, <2>2, <3>1, AppendCounts, Appended
    <3>3. h.pid = next[e]
      BY <1>1, <2>1, <2>2 DEF TogglesAgree, Parked
    <3>4. TogglesAgree(e)'
      BY <1>2, <3>3 DEF TogglesAgree, dev
    <3>5. sent[e] = Len(got'[e]) /\ Len(got'[e]) \in Nat /\ ~Parked(d)' /\ TogglesAgree(d)'
      BY <1>10, <2>2, <3>1, <3>2, <3>4
    <3> QED BY <2>2, <3>2, <3>5
  <2>3. CASE d # e
    <3>1. got'[d] = got[d] /\ toggle'[d] = toggle[d]
      BY <1>2, <1>5, <2>3 DEF TypeOK
    <3>2. TogglesAgree(d)'
      BY <2>1, <2>3, <3>1 DEF TogglesAgree, dev
    <3> QED BY <1>10, <2>1, <2>3, <3>1, <3>2
  <2> QED BY <2>2, <2>3
<1> QED BY <1>6, <1>7, <1>11, <1>12, <1>13

LEMMA ServeInv == ASSUME IInv, NEW e \in Eps, Poll(e), Serve(e) PROVE IInv'
<1> DEFINE h == Harvested
<1>1. /\ ~exited /\ state # "idle" /\ ep = e
      /\ UNCHANGED <<ep, cdata, dev, faults, broken, exited>>
      /\ got' = IF h.state = "ready" THEN [got EXCEPT ![e] = Append(@, h.ready)] ELSE got
      /\ toggle' = IF h.state = "ready" THEN [toggle EXCEPT ![e] = h.pid] ELSE toggle
      /\ classic' = IF h.state = "idle" THEN e ELSE None
      /\ state' = Rearm(h).state /\ pid' = Rearm(h).pid /\ ready' = Rearm(h).ready
      /\ errors' = Rearm(h).errors /\ cooldown' = Rearm(h).cooldown
      /\ Channel(Rearm(h))
  BY DEF Poll, Serve
<1>2. CASE h.state # "ready"
  <2>1. Rearm(h) = h
    BY <1>2 DEF Rearm
  <2> QED BY <1>1, <1>2, <2>1, HarvestInv
<1>3. CASE h.state = "ready"
  <2>1. /\ Rearm(h).state = "armed" /\ Rearm(h).rearm = TRUE /\ Rearm(h).pid = h.pid
        /\ Rearm(h).ready = h.ready /\ Rearm(h).errors = h.errors /\ Rearm(h).cooldown = h.cooldown
    BY <1>3 DEF Rearm, Harvested
  <2>2. chan' = "active" /\ cpid' = h.pid
    BY <1>1, <2>1 DEF Channel
  <2> HIDE DEF h
  <2>3. state' = "armed" /\ pid' = h.pid /\ ready' = h.ready /\ errors' = h.errors /\ cooldown' = h.cooldown
        /\ classic' = None /\ got' = [got EXCEPT ![e] = Append(@, h.ready)] /\ toggle' = [toggle EXCEPT ![e] = h.pid]
    BY <1>1, <1>3, <2>1
  <2> QED BY <1>1, <1>3, <2>2, <2>3, DeliverInv DEF h
<1> QED BY <1>2, <1>3

\* The pump is armed for an endpoint with the class driver's toggle.
LEMMA ArmInv ==
  ASSUME IInv, NEW e \in Eps, Poll(e), Engage(e) \/ NewcomerWins(e)
  PROVE  IInv'
<1> USE DEF IInv
<1>1. /\ ~exited /\ classic = None /\ (state = "idle" \/ ep # e)
      /\ ep' = e /\ pid' = toggle[e] /\ errors' = 0 /\ cooldown' \in Nat /\ ready' \in Nat
      /\ state' = "armed" /\ chan' = "active" /\ cpid' = toggle[e]
      /\ UNCHANGED <<cdata, sent, next, toggle, classic, got, faults, exited>>
      /\ broken' = broken \/ (state # "idle" /\ broken' = broken \cup {ep})
      /\ state # "idle" => ep \in broken'
  BY DEF Poll, Engage, NewcomerWins, TypeOK, dev
<1>2. TypeOK'
  BY <1>1 DEF TypeOK, OnWhileArmed
<1>3. OnWhileArmed'
  BY <1>1 DEF OnWhileArmed
<1>4. \A d \in Eps : ~Parked(d)' /\ (d \notin broken' => ~Parked(d))
  BY <1>1 DEF Parked
<1>5. LastIsParked' /\ DeliveredInOrder'
  BY <1>1, <1>4 DEF LastIsParked, DeliveredInOrder
<1>6. InStep'
  <2> SUFFICES ASSUME NEW d \in Eps \ broken'
               PROVE  /\ got[d] = [i \in 1 .. Len(got[d]) |-> i]
                      /\ sent[d] = Len(got[d]) + IF Parked(d)' THEN 1 ELSE 0
                      /\ TogglesAgree(d)'
    BY <1>1 DEF InStep
  <2>1. /\ got[d] = [i \in 1 .. Len(got[d]) |-> i]
        /\ sent[d] = Len(got[d]) + IF Parked(d) THEN 1 ELSE 0
        /\ TogglesAgree(d)
    BY <1>1 DEF InStep
  <2>2. toggle[d] = next[d]
    BY <1>1, <2>1 DEF TogglesAgree
  <2>3. TogglesAgree(d)'
    BY <1>1, <2>2 DEF TogglesAgree
  <2> QED BY <1>4, <2>1, <2>3
<1> QED BY <1>2, <1>3, <1>5, <1>6

LEMMA StandDownInv == ASSUME IInv, NEW e \in Eps, Poll(e), StandDown(e) PROVE IInv'
<1> USE DEF IInv, StandDown, Poll, wire, dev
<1>1. TypeOK'
  BY DEF TypeOK, CountDown
<1>2. OnWhileArmed' /\ LastIsParked' /\ DeliveredInOrder'
  BY DEF OnWhileArmed, LastIsParked, DeliveredInOrder, Parked
<1>3. InStep'
  BY DEF InStep, TogglesAgree, Parked
<1> QED BY <1>1, <1>2, <1>3

\* The synchronous transfer finds the pump idle: what it delivers is later
\* than all the pump delivered.
LEMMA ClassicInv == ASSUME IInv, Classic PROVE IInv'
<1> DEFINE e == classic
<1> USE DEF IInv
<1>1. /\ e \in Eps /\ ~exited /\ state = "idle" /\ chan = "off" /\ classic' = None
      /\ UNCHANGED <<pump, wire, faults, broken, exited>>
  BY DEF Classic, OnWhileArmed, TypeOK
<1>2. \A d \in Eps : ~Parked(d) /\ ~Parked(d)'
  BY <1>1 DEF Parked, pump
<1>3. CASE UNCHANGED <<dev, toggle, got>>
  <2>1. TypeOK'
    BY <1>1, <1>3 DEF TypeOK, pump, wire, dev
  <2>2. OnWhileArmed' /\ LastIsParked' /\ DeliveredInOrder'
    BY <1>1, <1>2, <1>3 DEF OnWhileArmed, LastIsParked, DeliveredInOrder, pump, wire, dev
  <2>3. InStep'
    BY <1>1, <1>2, <1>3 DEF InStep, TogglesAgree, pump, wire, dev
  <2> QED BY <2>1, <2>2, <2>3
<1>4. CASE /\ sent' = [sent EXCEPT ![e] = @ + 1]
           /\ next' = [next EXCEPT ![e] = 1 - @]
           /\ IF next[e] = toggle[e]
              THEN got' = [got EXCEPT ![e] = Append(@, sent'[e])] /\ toggle' = [toggle EXCEPT ![e] = 1 - @]
              ELSE UNCHANGED <<got, toggle>>
  <2>1. /\ sent' \in [Eps -> Nat] /\ sent[e] \in Nat /\ sent'[e] = sent[e] + 1
        /\ \A d \in Eps : d # e => sent'[d] = sent[d]
    BY <1>1, <1>4 DEF TypeOK
  <2>2. \A d \in Eps : got[d] \in Seq(Nat) /\ \A i \in 1 .. Len(got[d]) : got[d][i] \in Nat /\ got[d][i] <= sent[d]
    BY DEF TypeOK, LastIsParked
  <2>3. \/ got' = got
        \/ got' = [got EXCEPT ![e] = Append(got[e], sent'[e])]
    BY <1>4
  <2>4. /\ next' \in [Eps -> {0, 1}] /\ toggle' \in [Eps -> {0, 1}]
        /\ \A d \in Eps : d # e => next'[d] = next[d] /\ toggle'[d] = toggle[d]
        /\ next[e] = toggle[e] => next'[e] = toggle'[e]
    <3>1. next \in [Eps -> {0, 1}] /\ toggle \in [Eps -> {0, 1}] /\ e \in Eps
      BY <1>1 DEF TypeOK
    <3>2. next' = [next EXCEPT ![e] = 1 - next[e]]
      BY <1>4
    <3>3. \/ toggle' = toggle /\ next[e] # toggle[e]
          \/ toggle' = [toggle EXCEPT ![e] = 1 - toggle[e]]
      BY <1>4
    <3> HIDE DEF e, IInv
    <3>4. \A t \in {0, 1} : 1 - t \in {0, 1}
      OBVIOUS
    <3>5. 1 - next[e] \in {0, 1} /\ 1 - toggle[e] \in {0, 1}
      BY <3>1, <3>4
    <3>6. next' \in [Eps -> {0, 1}] /\ toggle' \in [Eps -> {0, 1}]
      BY <3>1, <3>2, <3>3, <3>5, ToggleFlipped
    <3>7. \A d \in Eps : d # e => next'[d] = next[d] /\ toggle'[d] = toggle[d]
      BY <3>1, <3>2, <3>3
    <3> QED BY <3>1, <3>2, <3>3, <3>6, <3>7
  <2>5. got' \in [Eps -> Seq(Nat)]
    <3>1. Append(got[e], sent'[e]) \in Seq(Nat)
      BY <1>1, <2>1, <2>2
    <3> QED BY <1>1, <2>3, <3>1 DEF TypeOK
  <2>6. TypeOK'
    BY <1>1, <2>1, <2>4, <2>5 DEF TypeOK, pump, wire
  <2>7. OnWhileArmed'
    BY <1>1 DEF OnWhileArmed, pump, wire
  <2>8. \A d \in Eps : got'[d] = got[d] \/ (d = e /\ got'[d] = Append(got[d], sent'[d]))
    BY <1>1, <2>3 DEF TypeOK
  <2>9. \A d \in Eps : Increasing(got'[d]) /\ \A i \in 1 .. Len(got'[d]) : got'[d][i] <= sent'[d]
    <3> SUFFICES ASSUME NEW d \in Eps
                 PROVE  Increasing(got'[d]) /\ \A i \in 1 .. Len(got'[d]) : got'[d][i] <= sent'[d]
      OBVIOUS
    <3>1. Increasing(got[d])
      BY DEF DeliveredInOrder, Increasing
    <3>2. CASE got'[d] = got[d]
      <4>1. sent[d] \in Nat /\ sent'[d] \in Nat /\ (sent'[d] = sent[d] \/ sent'[d] = sent[d] + 1)
        BY <2>1 DEF TypeOK
      <4>2. \A i \in 1 .. Len(got[d]) : got[d][i] \in Nat /\ got[d][i] <= sent[d]
        BY <2>2
      <4> HIDE DEF IInv, e
      <4>3. \A n \in Nat : n <= sent[d] => n <= sent'[d]
        BY <4>1
      <4>4. \A i \in 1 .. Len(got[d]) : got[d][i] <= sent'[d]
        BY <4>2, <4>3
      <4> QED BY <3>1, <3>2, <4>4
    <3>3. CASE d = e /\ got'[d] = Append(got[d], sent'[d])
      <4>1. got[d] \in Seq(Nat) /\ sent'[d] \in Nat /\ \A i \in 1 .. Len(got[d]) : got[d][i] < sent'[d]
        BY <2>1, <2>2, <3>3
      <4> QED BY <3>1, <3>3, <4>1, AppendInOrder
    <3> QED BY <2>8, <3>2, <3>3
  <2>10. LastIsParked' /\ DeliveredInOrder'
    BY <1>1, <1>2, <2>9 DEF LastIsParked, DeliveredInOrder, Increasing, pump, wire
  <2>11. InStep'
    <3> SUFFICES ASSUME NEW d \in Eps \ broken
                 PROVE  /\ got'[d] = [i \in 1 .. Len(got'[d]) |-> i]
                        /\ sent'[d] = Len(got'[d]) + IF Parked(d)' THEN 1 ELSE 0
                        /\ TogglesAgree(d)'
      BY <1>1 DEF InStep
    <3>1. got[d] = [i \in 1 .. Len(got[d]) |-> i] /\ sent[d] = Len(got[d]) /\ toggle[d] = next[d] /\ Len(got[d]) \in Nat
      <4>1. ~exited /\ state = "idle" /\ ~Parked(d) /\ Len(got[d]) \in Nat
        BY <1>1, <1>2, <2>2
      <4>2. /\ got[d] = [i \in 1 .. Len(got[d]) |-> i]
            /\ sent[d] = Len(got[d]) + IF Parked(d) THEN 1 ELSE 0
            /\ TogglesAgree(d)
        BY <4>1 DEF InStep
      <4>3. toggle[d] = next[d]
        BY <4>1, <4>2 DEF TogglesAgree
      <4>4. sent[d] = Len(got[d])
        BY <4>1, <4>2
      <4> QED BY <4>1, <4>2, <4>3, <4>4
    <3>2. TogglesAgree(d)'
      <4>1. toggle'[d] = next'[d] /\ state' = "idle"
        BY <1>1, <2>4, <3>1 DEF pump
      <4> QED BY <4>1 DEF TogglesAgree
    <3>3. ~Parked(d)'
      BY <1>2
    <3>4. CASE d # e
      <4>1. sent'[d] = sent[d] /\ got'[d] = got[d]
        BY <2>1, <2>8, <3>4
      <4> HIDE DEF IInv, e
      <4>2. got'[d] = [i \in 1 .. Len(got'[d]) |-> i] /\ sent'[d] = Len(got'[d]) /\ Len(got'[d]) \in Nat
        BY <3>1, <4>1
      <4> QED BY <3>2, <3>3, <4>2
    <3>5. CASE d = e
      <4>1. got'[d] = Append(got[d], Len(got[d]) + 1)
        BY <1>1, <1>4, <2>1, <3>1, <3>5 DEF TypeOK
      <4>2. got'[d] = [i \in 1 .. Len(got'[d]) |-> i] /\ Len(got'[d]) = Len(got[d]) + 1
        BY <2>2, <3>1, <4>1, AppendCounts, Appended
      <4>3. sent'[d] = Len(got'[d])
        BY <2>1, <3>1, <3>5, <4>2
      <4>4. Len(got'[d]) \in Nat
        BY <3>1, <4>2
      <4> HIDE DEF IInv, e
      <4> QED BY <3>2, <3>3, <4>2, <4>3, <4>4
    <3> QED BY <3>4, <3>5
  <2> QED BY <2>6, <2>7, <2>10, <2>11
<1> QED BY <1>3, <1>4 DEF Classic

LEMMA QuiesceInv == ASSUME IInv, DwHcQuiesce PROVE IInv'
<1> USE DEF IInv, DwHcQuiesce, dev
<1>1. TypeOK'
  BY DEF TypeOK
<1>2. OnWhileArmed' /\ LastIsParked' /\ DeliveredInOrder' /\ InStep'
  BY DEF OnWhileArmed, LastIsParked, DeliveredInOrder, InStep, Parked
<1> QED BY <1>1, <1>2

-----------------------------------------------------------------------------
\* IInv holds through every halt, harvest, poll, handover and reset.
THEOREM PumpInvariant == Spec => []IInv
<1>1. Init => IInv
  <2> SUFFICES ASSUME Init PROVE IInv
    OBVIOUS
  <2>1. TypeOK
    <3>1. 0 \in Nat /\ 0 \in {0, 1} /\ <<>> \in Seq(Nat) /\ None \in Eps \cup {None}
      OBVIOUS
    <3>2. /\ toggle \in [Eps -> {0, 1}] /\ sent \in [Eps -> Nat] /\ next \in [Eps -> {0, 1}]
          /\ got \in [Eps -> Seq(Nat)]
      BY <3>1, Zenon DEF Init
    <3>3. /\ pid \in {0, 1} /\ ready \in Nat /\ errors \in Nat /\ cooldown \in Nat
          /\ cpid \in {0, 1} /\ cdata \in Nat /\ faults \in Nat
      BY <3>1 DEF Init
    <3> QED BY <3>1, <3>2, <3>3, Zenon DEF Init, TypeOK
  <2>2. \A e \in Eps : got[e] = <<>> /\ Len(got[e]) = 0 /\ sent[e] = 0 /\ toggle[e] = next[e] /\ ~Parked(e)
    BY DEF Init, Parked
  <2>3. OnWhileArmed /\ LastIsParked /\ DeliveredInOrder
    BY <2>2, PumpAssumption DEF Init, OnWhileArmed, LastIsParked, DeliveredInOrder
  <2>4. InStep
    BY <2>2, PumpAssumption DEF Init, InStep, TogglesAgree
  <2> QED BY <2>1, <2>3, <2>4 DEF IInv
<1>2. IInv /\ [Next]_vars => IInv'
  <2> SUFFICES ASSUME IInv, [Next]_vars PROVE IInv'
    OBVIOUS
  <2>1. ASSUME NEW e \in Eps, Poll(e) PROVE IInv'
    BY <2>1, ServeInv, ArmInv, StandDownInv DEF Poll
  <2>2. CASE Next
    BY <2>1, <2>2, TransferInv, HaltInv, PeriodicInv, ClassicInv, QuiesceInv DEF Next
  <2>3. CASE UNCHANGED vars
    <3> USE <2>3 DEF vars, pump, wire, dev
    <3>1. TypeOK'
      BY DEF IInv, TypeOK
    <3>2. OnWhileArmed' /\ LastIsParked' /\ DeliveredInOrder' /\ InStep'
      BY DEF IInv, OnWhileArmed, LastIsParked, DeliveredInOrder, InStep, TogglesAgree, Parked
    <3> QED BY <3>1, <3>2 DEF IInv
  <2> QED BY <2>2, <2>3
<1> QED BY <1>1, <1>2, PTL DEF Spec

\* Every transfer is delivered at most once and in order, through handovers
\* between the pump and the synchronous path, errors and rival pollers; and
\* DwHcQuiesce leaves no channel on.
THEOREM OrderedDelivery == Spec => []DeliveredInOrder
  BY PumpInvariant, PTL DEF IInv

\* Until an error halt or a rival breaks in, the pump loses no transfer and
\* asks with the device's toggle, through packets without data and NAKs.
THEOREM LossFree == Spec => []NothingLost
<1>1. IInv => NothingLost
  <2> SUFFICES ASSUME IInv, NEW e \in Eps \ broken, ~exited
               PROVE  /\ got[e] = [i \in 1 .. Len(got[e]) |-> i]
                      /\ sent[e] - Len(got[e]) <=
                           IF ep = e /\ (state = "ready" \/ (state = "armed" /\ chan = "comp")) THEN 1 ELSE 0
                      /\ ep = e /\ state = "armed" /\ chan = "active" => cpid = next[e]
    BY DEF NothingLost
  <2>1. got[e] \in Seq(Nat) /\ Len(got[e]) \in Nat
    BY DEF IInv, TypeOK
  <2>2. /\ got[e] = [i \in 1 .. Len(got[e]) |-> i]
        /\ sent[e] = Len(got[e]) + IF Parked(e) THEN 1 ELSE 0
        /\ TogglesAgree(e)
    BY DEF IInv, InStep
  <2> QED BY <2>1, <2>2 DEF Parked, TogglesAgree
<1> QED BY <1>1, PumpInvariant, PTL
=============================================================================
