----------------------------- MODULE GemSnpProofs -----------------------------
(***************************************************************************)
(* The MAC follows the PHY and the mode data: proved for every set of      *)
(* speeds, addresses and time-outs, and whoever makes which calls, as long *)
(* as no callback has come into an unlocked call since Initialize.         *)
(***************************************************************************)
EXTENDS GemSnp, TLAPS

-----------------------------------------------------------------------------
(* The locals of a level.                                                  *)

\* A call begins with fresh locals.
LEMMA FreshWork ==
  /\ NoWork \in Works
  /\ \A c \in {"status", "transmit"} :
       /\ [NoWork EXCEPT !.call = c] \in Works
       /\ [NoWork EXCEPT !.call = c].reg = BMSR /\ [NoWork EXCEPT !.call = c].read = {}
       /\ [NoWork EXCEPT !.call = c].call = c
<1>1. NoWork \in Works
  BY SnpAssumption DEF NoWork, Works, NetCfgs, BMSR
<1>2. ASSUME NEW c \in {"status", "transmit"}
      PROVE  /\ [NoWork EXCEPT !.call = c] \in Works
             /\ [NoWork EXCEPT !.call = c].reg = BMSR /\ [NoWork EXCEPT !.call = c].read = {}
             /\ [NoWork EXCEPT !.call = c].call = c
  <2>1. [NoWork EXCEPT !.call = c] \in Works
    BY <1>1, <1>2 DEF Works
  <2>2. [NoWork EXCEPT !.call = c].reg = NoWork.reg /\ [NoWork EXCEPT !.call = c].read = NoWork.read
    BY <1>1 DEF Works
  <2>3. [NoWork EXCEPT !.call = c].call = c
    BY <1>1 DEF Works
  <2> QED BY <2>1, <2>2, <2>3 DEF NoWork
<1> QED BY <1>1, <1>2

\* NET_CFG with one of its fields replaced.
LEMMA Replaced ==
  /\ \A n \in NetCfgs, b \in BOOLEAN :
       LET r == [n EXCEPT !.multi = b] IN r \in NetCfgs /\ r.multi = b /\ r.speed = n.speed
  /\ \A n \in NetCfgs, s \in Speeds :
       LET r == [n EXCEPT !.speed = s] IN r \in NetCfgs /\ r.speed = s /\ r.multi = n.multi
BY DEF NetCfgs

\* A level sets its own locals only.
LEMMA OwnWork ==
  ASSUME TypeOK, NEW t \in Levels, NEW w \in Works, work' = [work EXCEPT ![t] = w]
  PROVE  /\ work' \in [Levels -> Works]
         /\ work'[t] = w
         /\ \A u \in Levels : u # t => work'[u] = work[u]
BY DEF TypeOK

\* And its own place.
LEMMA OwnPlace ==
  ASSUME TypeOK, NEW t \in Levels, NEW p, Goto(t, p)
  PROVE  /\ pc'[t] = p
         /\ \A u \in Levels : u # t => pc'[u] = pc[u]
BY DEF TypeOK, Goto

\* A poll that is over leaves its level idle, or polls again from the start.
LEMMA OutcomeWork ==
  ASSUME TypeOK, NEW t \in Levels, NEW up \in BOOLEAN, Outcome(t, up)
  PROVE  /\ work' \in [Levels -> Works]
         /\ pc' \in [Levels -> {"idle", "filters", "down"} \cup InPhy \cup Polling]
         /\ \A u \in Levels : u # t => work'[u] = work[u] /\ pc'[u] = pc[u]
         /\ \/ pc'[t] = "idle"
            \/ /\ pc'[t] = "issue" /\ ~up /\ work[t].call = "transmit"
               /\ work'[t].call = "transmit" /\ work'[t].reg = BMSR /\ work'[t].read = {}
<1>1. ASSUME Goto(t, "idle"), work' = [work EXCEPT ![t] = NoWork]
      PROVE  /\ work' \in [Levels -> Works] /\ pc'[t] = "idle"
             /\ pc' \in [Levels -> {"idle", "filters", "down"} \cup InPhy \cup Polling]
             /\ \A u \in Levels : u # t => work'[u] = work[u] /\ pc'[u] = pc[u]
  BY <1>1, FreshWork, OwnWork, OwnPlace DEF TypeOK, Goto
<1>2. ASSUME Goto(t, "issue"), work' = [work EXCEPT ![t] = [NoWork EXCEPT !.call = "transmit"]]
      PROVE  /\ work' \in [Levels -> Works] /\ pc'[t] = "issue"
             /\ work'[t].call = "transmit" /\ work'[t].reg = BMSR /\ work'[t].read = {}
             /\ pc' \in [Levels -> {"idle", "filters", "down"} \cup InPhy \cup Polling]
             /\ \A u \in Levels : u # t => work'[u] = work[u] /\ pc'[u] = pc[u]
  <2>1. pc' \in [Levels -> {"idle", "filters", "down"} \cup InPhy \cup Polling]
    BY <1>2 DEF TypeOK, Goto, Polling
  <2>2. /\ [NoWork EXCEPT !.call = "transmit"] \in Works
        /\ [NoWork EXCEPT !.call = "transmit"].reg = BMSR /\ [NoWork EXCEPT !.call = "transmit"].read = {}
        /\ [NoWork EXCEPT !.call = "transmit"].call = "transmit"
    BY FreshWork
  <2>3. /\ work' \in [Levels -> Works] /\ work'[t] = [NoWork EXCEPT !.call = "transmit"]
        /\ \A u \in Levels : u # t => work'[u] = work[u]
    BY <1>2, <2>2, OwnWork
  <2>4. pc'[t] = "issue" /\ \A u \in Levels : u # t => pc'[u] = pc[u]
    BY <1>2, OwnPlace
  <2> QED BY <2>1, <2>2, <2>3, <2>4
<1> QED BY <1>1, <1>2 DEF Outcome

-----------------------------------------------------------------------------
(* One lemma an action.                                                    *)

\* Start changes the state only.
LEMMA StartInv ==
  ASSUME IInv, NEW t \in Levels, Start(t)
  PROVE  IInv'
<1> USE DEF IInv, Start, Enter, Intrudes, Renews, Goto, Runs, Locked, mode, mac, phy
<1>1. TypeOK'
  BY SnpAssumption DEF TypeOK, Levels, Works, NoWork, BMSR, NetCfgs, InPhy, Polling, IDR1
<1>i. SUFFICES ASSUME ~disturbed' PROVE OneAtATime' /\ InRegisters' /\ SpeedInStep'
  BY <1>1 DEF InStep
<1>j. OneAtATime /\ InRegisters /\ SpeedInStep
  BY <1>i DEF InStep
<1>2. OneAtATime'
  BY <1>i, <1>j DEF TypeOK, OneAtATime, Levels, InPhy, Polling
<1>3. InRegisters'
  BY <1>i, <1>j DEF TypeOK, OneAtATime, InRegisters, Up, ComingUp, GoingDown, Levels, InPhy, Polling
<1>4. SpeedInStep'
  BY <1>i, <1>j DEF TypeOK, OneAtATime, SpeedInStep, PollInStep, LossInHand, Up, ComingUp, GoingDown, Levels, InPhy, Polling, BMSR, IDR1, NoWork, Works
<1> QED BY <1>1, <1>2, <1>3, <1>4

\* Stop turns the MAC off.
LEMMA StopInv ==
  ASSUME IInv, NEW t \in Levels, Stop(t)
  PROVE  IInv'
<1> USE DEF IInv, Stop, Enter, Intrudes, Renews, Goto, Runs, Locked, mode, mac, phy
<1>1. TypeOK'
  BY SnpAssumption DEF TypeOK, Levels, Works, NoWork, BMSR, NetCfgs, InPhy, Polling, IDR1
<1>i. SUFFICES ASSUME ~disturbed' PROVE OneAtATime' /\ InRegisters' /\ SpeedInStep'
  BY <1>1 DEF InStep
<1>j. OneAtATime /\ InRegisters /\ SpeedInStep
  BY <1>i DEF InStep
<1>2. OneAtATime'
  BY <1>i, <1>j DEF TypeOK, OneAtATime, Levels, InPhy, Polling
<1>3. InRegisters'
  BY <1>i, <1>j DEF TypeOK, OneAtATime, InRegisters, Up, ComingUp, GoingDown, Levels, InPhy, Polling
<1>4. SpeedInStep'
  BY <1>i, <1>j DEF TypeOK, OneAtATime, SpeedInStep, PollInStep, LossInHand, Up, ComingUp, GoingDown, Levels, InPhy, Polling, BMSR, IDR1, NoWork, Works
<1> QED BY <1>1, <1>2, <1>3, <1>4

\* Initialize programs MAC and filters, with nobody else inside.
LEMMA InitializeInv ==
  ASSUME IInv, NEW t \in Levels, Initialize(t)
  PROVE  IInv'
<1> USE DEF IInv, Initialize, GemSetMacAddress, Entry, Enter, Intrudes, Renews, Goto, Runs, Locked, mode, mac, phy
<1>1. TypeOK'
  BY SnpAssumption DEF TypeOK, Levels, Works, NoWork, BMSR, NetCfgs, InPhy, Polling, IDR1
<1>i. SUFFICES ASSUME ~disturbed' PROVE OneAtATime' /\ InRegisters' /\ SpeedInStep'
  BY <1>1 DEF InStep
<1>a. pc'[t] = "phyReset" /\ work'[t].call = "initialize" /\ State' = "Started"
  BY DEF TypeOK, Works
<1>b. \A u \in Levels : u # t => pc'[u] = "idle"
  <2>1. CASE Renews(t, "initialize")
    BY <2>1 DEF TypeOK
  <2>2. CASE ~Renews(t, "initialize")
    <3>1. ~disturbed /\ ~Intrudes(t, "initialize")
      BY <1>i, <2>2
    <3>2. pc["app"] # "down"
      BY <3>1 DEF InStep, OneAtATime, Levels
    <3> QED BY <3>1, <3>2, <1>i DEF TypeOK, InStep, OneAtATime, Levels, InPhy
  <2> QED BY <2>1, <2>2
<1>2. OneAtATime'
  BY <1>a, <1>b DEF OneAtATime, Levels, InPhy, Polling
<1>3. InRegisters'
  <2>1. netCfg'.multi = ("multicast" \in ReceiveFilterSetting')
    OBVIOUS
  <2>2. "unicast" \in ReceiveFilterSetting' => entry' = [on |-> TRUE, addr |-> CurrentAddress']
    OBVIOUS
  <2> QED BY <1>a, <1>b, <2>1, <2>2 DEF InRegisters, Up, ComingUp, GoingDown, Levels
<1>4. SpeedInStep'
  BY <1>a, <1>b DEF SpeedInStep, PollInStep, Up, Polling
<1> QED BY <1>2, <1>3, <1>4

\* Reset goes to the PHY.
LEMMA ResetInv ==
  ASSUME IInv, NEW t \in Levels, Reset(t)
  PROVE  IInv'
<1> USE DEF IInv, Reset, Enter, Intrudes, Renews, Goto, Runs, Locked, mode, mac, phy
<1>1. TypeOK'
  BY SnpAssumption DEF TypeOK, Levels, Works, NoWork, BMSR, NetCfgs, InPhy, Polling, IDR1
<1>i. SUFFICES ASSUME ~disturbed' PROVE OneAtATime' /\ InRegisters' /\ SpeedInStep'
  BY <1>1 DEF InStep
<1>j. OneAtATime /\ InRegisters /\ SpeedInStep
  BY <1>i DEF InStep
<1>2. OneAtATime'
  BY <1>i, <1>j DEF TypeOK, OneAtATime, Levels, InPhy, Polling, Works
<1>3. InRegisters'
  BY <1>i, <1>j DEF TypeOK, OneAtATime, InRegisters, Up, ComingUp, GoingDown, Levels, InPhy, Polling
<1>4. SpeedInStep'
  BY <1>i, <1>j DEF TypeOK, OneAtATime, SpeedInStep, PollInStep, LossInHand, Up, ComingUp, GoingDown, Levels, InPhy, Polling, BMSR, IDR1, NoWork, Works
<1> QED BY <1>1, <1>2, <1>3, <1>4

\* Shutdown resets the MAC before the state changes.
LEMMA ShutdownInv ==
  ASSUME IInv, NEW t \in Levels, Shutdown(t)
  PROVE  IInv'
<1> USE DEF IInv, Shutdown, Enter, Intrudes, Renews, Goto, Runs, Locked, mode, mac, phy
<1>1. TypeOK'
  BY SnpAssumption DEF TypeOK, Levels, Works, NoWork, BMSR, NetCfgs, InPhy, Polling, IDR1
<1>i. SUFFICES ASSUME ~disturbed' PROVE OneAtATime' /\ InRegisters' /\ SpeedInStep'
  BY <1>1 DEF InStep
<1>j. OneAtATime /\ InRegisters /\ SpeedInStep
  BY <1>i DEF InStep
<1>2. OneAtATime'
  BY <1>i, <1>j DEF TypeOK, OneAtATime, Levels, InPhy, Polling
<1>3. InRegisters'
  BY <1>i, <1>j DEF TypeOK, OneAtATime, InRegisters, Up, ComingUp, GoingDown, Levels, InPhy, Polling
<1>4. SpeedInStep'
  BY <1>i, <1>j DEF TypeOK, OneAtATime, SpeedInStep, PollInStep, LossInHand, Up, ComingUp, GoingDown, Levels, InPhy, Polling, BMSR, IDR1, NoWork, Works
<1> QED BY <1>1, <1>2, <1>3, <1>4

\* Then it does.
LEMMA ShutdownDoneInv ==
  ASSUME IInv, NEW t \in Levels, ShutdownDone(t)
  PROVE  IInv'
<1> USE DEF IInv, ShutdownDone, Goto, Runs, Locked, mode, mac, phy
<1>1. TypeOK'
  BY SnpAssumption DEF TypeOK, Levels, Works, NoWork, BMSR, NetCfgs, InPhy, Polling, IDR1
<1>i. SUFFICES ASSUME ~disturbed' PROVE OneAtATime' /\ InRegisters' /\ SpeedInStep'
  BY <1>1 DEF InStep
<1>j. OneAtATime /\ InRegisters /\ SpeedInStep
  BY <1>i DEF InStep
<1>2. OneAtATime'
  BY <1>i, <1>j DEF TypeOK, OneAtATime, Levels, InPhy, Polling
<1>3. InRegisters'
  BY <1>i, <1>j DEF TypeOK, OneAtATime, InRegisters, Up, ComingUp, GoingDown, Levels, InPhy, Polling
<1>4. SpeedInStep'
  BY <1>i, <1>j DEF TypeOK, OneAtATime, SpeedInStep, PollInStep, LossInHand, Up, ComingUp, GoingDown, Levels, InPhy, Polling, BMSR, IDR1, NoWork, Works
<1> QED BY <1>1, <1>2, <1>3, <1>4

\* A poll of the link begins.
LEMMA TransmitInv ==
  ASSUME IInv, NEW t \in Levels, Transmit(t)
  PROVE  IInv'
<1> USE DEF IInv, Transmit, Enter, Intrudes, Renews, Goto, Runs, Locked, mode, mac, phy
<1>1. TypeOK'
  <2>1. work' \in [Levels -> Works]
    BY FreshWork, OwnWork
  <2> QED BY <2>1 DEF TypeOK, Levels, Polling
<1>i. SUFFICES ASSUME ~disturbed' PROVE OneAtATime' /\ InRegisters' /\ SpeedInStep'
  BY <1>1 DEF InStep
<1>j. OneAtATime /\ InRegisters /\ SpeedInStep
  BY <1>i DEF InStep
<1>2. OneAtATime'
  <2>1. work'[t].call = "transmit" /\ \A u \in Levels : u # t => work'[u] = work[u]
    BY FreshWork, OwnWork
  <2> QED BY <1>i, <1>j, <2>1 DEF TypeOK, OneAtATime, Levels, InPhy, Polling
<1>3. InRegisters'
  BY <1>i, <1>j DEF TypeOK, OneAtATime, InRegisters, Up, ComingUp, GoingDown, Levels, InPhy, Polling
<1>4. SpeedInStep'
  BY <1>i, <1>j DEF TypeOK, OneAtATime, SpeedInStep, PollInStep, LossInHand, Up, ComingUp, GoingDown, Levels, InPhy, Polling, BMSR, IDR1, NoWork, Works
<1> QED BY <1>1, <1>2, <1>3, <1>4

\* A poll of the link begins, under the lock.
LEMMA GetStatusInv ==
  ASSUME IInv, NEW t \in Levels, GetStatus(t)
  PROVE  IInv'
<1> USE DEF IInv, GetStatus, Enter, Intrudes, Renews, Goto, Runs, Locked, mode, mac, phy
<1>1. TypeOK'
  <2>1. work' \in [Levels -> Works]
    BY FreshWork, OwnWork
  <2> QED BY <2>1 DEF TypeOK, Levels, Polling
<1>i. SUFFICES ASSUME ~disturbed' PROVE OneAtATime' /\ InRegisters' /\ SpeedInStep'
  BY <1>1 DEF InStep
<1>j. OneAtATime /\ InRegisters /\ SpeedInStep
  BY <1>i DEF InStep
<1>2. OneAtATime'
  <2>1. work'[t].call = "status" /\ \A u \in Levels : u # t => work'[u] = work[u]
    BY FreshWork, OwnWork
  <2> QED BY <1>i, <1>j, <2>1 DEF TypeOK, OneAtATime, Levels, InPhy, Polling
<1>3. InRegisters'
  BY <1>i, <1>j DEF TypeOK, OneAtATime, InRegisters, Up, ComingUp, GoingDown, Levels, InPhy, Polling
<1>4. SpeedInStep'
  BY <1>i, <1>j DEF TypeOK, OneAtATime, SpeedInStep, PollInStep, LossInHand, Up, ComingUp, GoingDown, Levels, InPhy, Polling, BMSR, IDR1, NoWork, Works
<1> QED BY <1>1, <1>2, <1>3, <1>4

\* The address is set in mode data and MAC.
LEMMA StationAddressInv ==
  ASSUME IInv, NEW t \in Levels, NEW addr \in Addrs, StationAddress(t, addr)
  PROVE  IInv'
<1> USE DEF IInv, StationAddress, GemSetMacAddress, Enter, Intrudes, Renews, Goto, Runs, Locked, mode, mac, phy
<1>1. TypeOK'
  BY SnpAssumption DEF TypeOK, Levels, Works, NoWork, BMSR, NetCfgs, InPhy, Polling, IDR1
<1>i. SUFFICES ASSUME ~disturbed' PROVE OneAtATime' /\ InRegisters' /\ SpeedInStep'
  BY <1>1 DEF InStep
<1>j. OneAtATime /\ InRegisters /\ SpeedInStep
  BY <1>i DEF InStep
<1>2. OneAtATime'
  BY <1>i, <1>j DEF TypeOK, OneAtATime, Levels, InPhy, Polling
<1>3. InRegisters'
  BY <1>i, <1>j DEF TypeOK, OneAtATime, InRegisters, Up, ComingUp, GoingDown, Levels, InPhy, Polling
<1>4. SpeedInStep'
  BY <1>i, <1>j DEF TypeOK, OneAtATime, SpeedInStep, PollInStep, LossInHand, Up, ComingUp, GoingDown, Levels, InPhy, Polling, BMSR, IDR1, NoWork, Works
<1> QED BY <1>1, <1>2, <1>3, <1>4

\* NET_CFG is read for a change of the filters.
LEMMA ReceiveFiltersInv ==
  ASSUME IInv, NEW t \in Levels, NEW setting \in SUBSET Filters, ReceiveFilters(t, setting)
  PROVE  IInv'
<1> USE DEF IInv, ReceiveFilters, Enter, Intrudes, Renews, Goto, Runs, Locked, mode, mac, phy
<1>1. TypeOK'
  <2>1. [NoWork EXCEPT !.call = "filters", !.saved = netCfg, !.setting = setting] \in Works
    BY FreshWork DEF Works, TypeOK, NoWork
  <2>2. work' \in [Levels -> Works]
    BY <2>1, OwnWork
  <2> QED BY <2>2 DEF TypeOK, Levels
<1>i. SUFFICES ASSUME ~disturbed' PROVE OneAtATime' /\ InRegisters' /\ SpeedInStep'
  BY <1>1 DEF InStep
<1>j. OneAtATime /\ InRegisters /\ SpeedInStep
  BY <1>i DEF InStep
<1>2. OneAtATime'
  BY <1>i, <1>j DEF TypeOK, OneAtATime, Levels, InPhy, Polling
<1>3. InRegisters'
  BY <1>i, <1>j DEF TypeOK, OneAtATime, InRegisters, Up, ComingUp, GoingDown, Levels, InPhy, Polling
<1>4. SpeedInStep'
  BY <1>i, <1>j DEF TypeOK, OneAtATime, SpeedInStep, PollInStep, LossInHand, Up, ComingUp, GoingDown, Levels, InPhy, Polling, BMSR, IDR1, NoWork, Works
<1> QED BY <1>1, <1>2, <1>3, <1>4

\* And written back; nobody wrote it in between.
LEMMA GemSetReceiveFiltersInv ==
  ASSUME IInv, NEW t \in Levels, GemSetReceiveFilters(t)
  PROVE  IInv'
<1> USE DEF IInv, GemSetReceiveFilters, GemSetMacAddress, Goto, Runs, Locked, mode, mac, phy
<1>a. pc[t] = "filters" /\ pc' = [pc EXCEPT ![t] = "idle"] /\ work' = [work EXCEPT ![t] = NoWork]
  OBVIOUS
<1>b. work[t] \in Works /\ work' \in [Levels -> Works] /\ \A u \in Levels : u # t => work'[u] = work[u]
  BY <1>a, FreshWork, OwnWork DEF TypeOK
<1>c. pc'[t] = "idle" /\ \A u \in Levels : u # t => pc'[u] = pc[u]
  BY <1>a DEF TypeOK
<1>d. netCfg' = [work[t].saved EXCEPT !.multi = "multicast" \in work[t].setting]
  BY <1>a
<1>e. /\ netCfg' \in NetCfgs /\ netCfg'.speed = work[t].saved.speed
      /\ netCfg'.multi = ("multicast" \in work[t].setting)
  <2>1. work[t].saved \in NetCfgs /\ ("multicast" \in work[t].setting) \in BOOLEAN
    BY <1>b DEF Works
  <2>2. PICK b \in BOOLEAN : b = ("multicast" \in work[t].setting)
    BY <2>1
  <2>3. netCfg' = [work[t].saved EXCEPT !.multi = b]
    BY <1>d, <2>2
  <2>4. netCfg' \in NetCfgs /\ netCfg'.speed = work[t].saved.speed /\ netCfg'.multi = b
    <3> HIDE DEF GemSetReceiveFilters
    <3> QED BY <2>1, <2>3, Replaced
  <2> QED BY <2>2, <2>4
<1>1. TypeOK'
  BY <1>a, <1>b, <1>e DEF TypeOK, Levels, Works
<1>i. SUFFICES ASSUME ~disturbed' PROVE OneAtATime' /\ InRegisters' /\ SpeedInStep'
  BY <1>1 DEF InStep
<1>j. OneAtATime /\ InRegisters /\ SpeedInStep
  BY <1>i DEF InStep
<1>o. State = "Initialized" /\ \A u \in Levels : u # t => pc[u] \in {"idle", "down"}
  BY <1>a, <1>j DEF TypeOK, OneAtATime, Levels
<1>f. ~GoingDown => work[t].saved = netCfg
  BY <1>a, <1>j DEF InRegisters
<1>2. OneAtATime'
  BY <1>j, <1>b, <1>c DEF TypeOK, OneAtATime, Levels, InPhy, Polling
<1>3. InRegisters'
  <2>1. "unicast" \in ReceiveFilterSetting' => entry' = [on |-> TRUE, addr |-> CurrentAddress']
    BY <1>a DEF Entry
  <2>2. netCfg'.multi = ("multicast" \in ReceiveFilterSetting')
    BY <1>a, <1>e
  <2>3. faults = 0 => delays
    BY <1>a, <1>j, <1>o DEF InRegisters, Levels
  <2> QED BY <1>c, <1>o, <2>1, <2>2, <2>3 DEF InRegisters, InPhy
<1>4. SpeedInStep'
  <2>1. \A u \in Levels : PollInStep(u)'
    BY <1>b, <1>c, <1>o, <1>j DEF SpeedInStep, PollInStep, Polling
  <2>2. ~LossInHand
    BY <1>a, <1>o DEF LossInHand
  <2>3. Up' => Up /\ ~GoingDown
    BY <1>c, <1>a DEF Up, GoingDown
  <2> QED BY <1>e, <1>f, <1>j, <2>1, <2>2, <2>3 DEF SpeedInStep
<1> QED BY <1>2, <1>3, <1>4

\* The PHY is reset: no link, no delays.
LEMMA PhyResetInv ==
  ASSUME IInv, NEW t \in Levels, NEW fails \in BOOLEAN, PhyReset(t, fails)
  PROVE  IInv'
<1> USE DEF IInv, PhyReset, Fault, Goto, Runs, Locked, mode, mac, phy
<1>1. TypeOK'
  <2>1. work' \in [Levels -> Works]
    BY FreshWork, OwnWork DEF TypeOK
  <2>2. pc' \in [Levels -> {"idle", "filters", "down"} \cup InPhy \cup Polling]
    BY DEF TypeOK, InPhy
  <2>3. faults' \in Nat
    BY DEF TypeOK
  <2> QED BY <2>1, <2>2, <2>3 DEF TypeOK
<1>i. SUFFICES ASSUME ~disturbed' PROVE OneAtATime' /\ InRegisters' /\ SpeedInStep'
  BY <1>1 DEF InStep
<1>j. OneAtATime /\ InRegisters /\ SpeedInStep
  BY <1>i DEF InStep
<1>2. OneAtATime'
  BY <1>i, <1>j DEF TypeOK, OneAtATime, Levels, InPhy, Polling
<1>3. InRegisters'
  BY <1>i, <1>j DEF TypeOK, OneAtATime, InRegisters, Up, ComingUp, GoingDown, Levels, InPhy, Polling
<1>4. SpeedInStep'
  BY <1>i, <1>j DEF TypeOK, OneAtATime, SpeedInStep, PollInStep, LossInHand, Up, ComingUp, GoingDown, Levels, InPhy, Polling, BMSR, IDR1, NoWork, Works
<1> QED BY <1>1, <1>2, <1>3, <1>4

\* Its identifier is read.
LEMMA ReadIdInv ==
  ASSUME IInv, NEW t \in Levels, ReadId(t)
  PROVE  IInv'
<1> USE DEF IInv, ReadId, Goto, Runs, Locked, mode, mac, phy
<1>1. TypeOK'
  BY SnpAssumption DEF TypeOK, Levels, Works, NoWork, BMSR, NetCfgs, InPhy, Polling, IDR1
<1>i. SUFFICES ASSUME ~disturbed' PROVE OneAtATime' /\ InRegisters' /\ SpeedInStep'
  BY <1>1 DEF InStep
<1>j. OneAtATime /\ InRegisters /\ SpeedInStep
  BY <1>i DEF InStep
<1>2. OneAtATime'
  BY <1>i, <1>j DEF TypeOK, OneAtATime, Levels, InPhy, Polling
<1>3. InRegisters'
  BY <1>i, <1>j DEF TypeOK, OneAtATime, InRegisters, Up, ComingUp, GoingDown, Levels, InPhy, Polling
<1>4. SpeedInStep'
  BY <1>i, <1>j DEF TypeOK, OneAtATime, SpeedInStep, PollInStep, LossInHand, Up, ComingUp, GoingDown, Levels, InPhy, Polling, BMSR, IDR1, NoWork, Works
<1> QED BY <1>1, <1>2, <1>3, <1>4

\* What was read is the identifier: nobody used MDIO in between.
LEMMA ConfigRgmiiDelaysInv ==
  ASSUME IInv, NEW t \in Levels, NEW fails \in BOOLEAN, ConfigRgmiiDelays(t, fails)
  PROVE  IInv'
<1> USE DEF IInv, ConfigRgmiiDelays, Fault, Goto, Runs, Locked, mode, mac, phy
<1>1. TypeOK'
  <2>1. work' \in [Levels -> Works]
    BY FreshWork, OwnWork DEF TypeOK
  <2>2. pc' \in [Levels -> {"idle", "filters", "down"} \cup InPhy \cup Polling]
    BY DEF TypeOK, InPhy
  <2>3. faults' \in Nat
    BY DEF TypeOK
  <2> QED BY <2>1, <2>2, <2>3 DEF TypeOK
<1>i. SUFFICES ASSUME ~disturbed' PROVE OneAtATime' /\ InRegisters' /\ SpeedInStep'
  BY <1>1 DEF InStep
<1>j. OneAtATime /\ InRegisters /\ SpeedInStep
  BY <1>i DEF InStep
<1>2. OneAtATime'
  BY <1>i, <1>j DEF TypeOK, OneAtATime, Levels, InPhy, Polling
<1>3. InRegisters'
  <2>1. maint.reg = IDR1 /\ delays' = ~fails
    BY <1>j DEF InRegisters
  <2>2. CASE fails
    <3>1. faults' # 0
      BY <2>2 DEF TypeOK
    <3>2. pc'[t] = "idle" /\ \A u \in Levels : u # t => pc'[u] = pc[u] /\ work'[u] = work[u]
      BY <2>2, FreshWork, OwnWork DEF TypeOK
    <3> QED BY <1>j, <3>1, <3>2 DEF TypeOK, OneAtATime, InRegisters, Up, ComingUp, GoingDown, Levels, InPhy
  <2>3. CASE ~fails
    <3>1. delays' /\ work' = work
      BY <2>1, <2>3
    <3>2. pc'[t] = "autoNegotiate" /\ \A u \in Levels : u # t => pc'[u] = pc[u]
      BY <2>3 DEF TypeOK
    <3> QED BY <1>j, <3>1, <3>2 DEF TypeOK, OneAtATime, InRegisters, Up, ComingUp, GoingDown, Levels, InPhy
  <2> QED BY <2>2, <2>3
<1>4. SpeedInStep'
  BY <1>i, <1>j DEF TypeOK, OneAtATime, SpeedInStep, PollInStep, LossInHand, Up, ComingUp, GoingDown, Levels, InPhy, Polling, BMSR, IDR1, NoWork, Works
<1> QED BY <1>1, <1>2, <1>3, <1>4

\* The PHY is set up, and so is the interface.
LEMMA AutoNegotiateInv ==
  ASSUME IInv, NEW t \in Levels, NEW fails \in BOOLEAN, AutoNegotiate(t, fails)
  PROVE  IInv'
<1> USE DEF IInv, AutoNegotiate, PhyInitDone, Fault, Goto, Runs, Locked, mode, mac, phy
<1>1. TypeOK'
  BY SnpAssumption DEF TypeOK, Levels, Works, NoWork, BMSR, NetCfgs, InPhy, Polling, IDR1
<1>i. SUFFICES ASSUME ~disturbed' PROVE OneAtATime' /\ InRegisters' /\ SpeedInStep'
  BY <1>1 DEF InStep
<1>j. OneAtATime /\ InRegisters /\ SpeedInStep
  BY <1>i DEF InStep
<1>2. OneAtATime'
  BY <1>i, <1>j DEF TypeOK, OneAtATime, Levels, InPhy, Polling
<1>3. InRegisters'
  BY <1>i, <1>j DEF TypeOK, OneAtATime, InRegisters, Up, ComingUp, GoingDown, Levels, InPhy, Polling
<1>4. SpeedInStep'
  BY <1>i, <1>j DEF TypeOK, OneAtATime, SpeedInStep, PollInStep, LossInHand, Up, ComingUp, GoingDown, Levels, InPhy, Polling, BMSR, IDR1, NoWork, Works
<1> QED BY <1>1, <1>2, <1>3, <1>4

\* A register is read into PHY_MAINT.
LEMMA MdioIssueInv ==
  ASSUME IInv, NEW t \in Levels, MdioIssue(t)
  PROVE  IInv'
<1> USE DEF IInv, MdioIssue, Goto, Runs, Locked, mode, mac, phy
<1>1. TypeOK'
  BY SnpAssumption DEF TypeOK, Levels, Works, NoWork, BMSR, NetCfgs, InPhy, Polling, IDR1
<1>i. SUFFICES ASSUME ~disturbed' PROVE OneAtATime' /\ InRegisters' /\ SpeedInStep'
  BY <1>1 DEF InStep
<1>j. OneAtATime /\ InRegisters /\ SpeedInStep
  BY <1>i DEF InStep
<1>2. OneAtATime'
  BY <1>i, <1>j DEF TypeOK, OneAtATime, Levels, InPhy, Polling
<1>3. InRegisters'
  BY <1>i, <1>j DEF TypeOK, OneAtATime, InRegisters, Up, ComingUp, GoingDown, Levels, InPhy, Polling
<1>4. SpeedInStep'
  BY <1>i, <1>j DEF TypeOK, OneAtATime, SpeedInStep, PollInStep, LossInHand, Up, ComingUp, GoingDown, Levels, InPhy, Polling, BMSR, IDR1, NoWork, Works
<1> QED BY <1>1, <1>2, <1>3, <1>4

\* Or not.
LEMMA MdioTimeoutInv ==
  ASSUME IInv, NEW t \in Levels, MdioTimeout(t)
  PROVE  IInv'
<1> USE DEF IInv, MdioTimeout, Fault, Goto, Runs, Locked, mode, mac, phy
<1>a. /\ work' \in [Levels -> Works]
      /\ pc' \in [Levels -> {"idle", "filters", "down"} \cup InPhy \cup Polling]
      /\ \A u \in Levels : u # t => work'[u] = work[u] /\ pc'[u] = pc[u]
      /\ \/ pc'[t] = "idle"
         \/ /\ pc'[t] = "issue" /\ work[t].call = "transmit"
            /\ work'[t].call = "transmit" /\ work'[t].reg = BMSR /\ work'[t].read = {}
  BY OutcomeWork
<1>1. TypeOK'
  BY <1>a DEF TypeOK
<1>i. SUFFICES ASSUME ~disturbed' PROVE OneAtATime' /\ InRegisters' /\ SpeedInStep'
  BY <1>1 DEF InStep
<1>j. OneAtATime /\ InRegisters /\ SpeedInStep
  BY <1>i DEF InStep
<1>2. OneAtATime'
  BY <1>i, <1>j, <1>a DEF TypeOK, OneAtATime, Levels, InPhy, Polling
<1>3. InRegisters'
  BY <1>i, <1>j, <1>a DEF TypeOK, OneAtATime, InRegisters, Up, ComingUp, GoingDown, Levels, InPhy
<1>4. SpeedInStep'
  <2>1. faults' # 0
    BY DEF TypeOK
  <2> QED BY <1>j, <1>a, <2>1 DEF OneAtATime, SpeedInStep, PollInStep, Levels, Polling
<1> QED BY <1>1, <1>2, <1>3, <1>4

\* BMSR says whether there is a link.
LEMMA FetchBmsrInv ==
  ASSUME IInv, NEW t \in Levels, NEW up \in BOOLEAN, FetchBmsr(t, up)
  PROVE  IInv'
<1> USE DEF IInv, FetchBmsr, Goto, Runs, Locked, mode, mac, phy
<1>u. CASE LinkUp # up /\ up
  <2>1. work' = [work EXCEPT ![t].reg = 1] /\ pc' = [pc EXCEPT ![t] = "issue"] /\ LinkUp' = LinkUp /\ ~LinkUp
    <3>1. BMSR + 1 = 1
      BY DEF BMSR
    <3>2. ~LinkUp /\ LinkUp' = LinkUp
      BY <1>u DEF TypeOK
    <3>3. work' = [work EXCEPT ![t].reg = BMSR + 1] /\ pc' = [pc EXCEPT ![t] = "issue"]
      BY <1>u
    <3> QED BY <3>1, <3>2, <3>3
  <2>2. /\ work' \in [Levels -> Works] /\ work'[t].reg = 1 /\ work'[t].read = work[t].read
        /\ work'[t].saved = work[t].saved /\ work'[t].call = work[t].call
        /\ \A u \in Levels : u # t => work'[u] = work[u]
    <3> DEFINE w == [work[t] EXCEPT !.reg = 1]
    <3>1. work[t] \in Works
      BY DEF TypeOK
    <3>2. w \in Works /\ w.reg = 1 /\ w.read = work[t].read /\ w.saved = work[t].saved /\ w.call = work[t].call
      BY <3>1 DEF Works
    <3>3. work' = [work EXCEPT ![t] = w]
      BY <2>1 DEF TypeOK
    <3>4. work' \in [Levels -> Works] /\ work'[t] = w /\ \A u \in Levels : u # t => work'[u] = work[u]
      <4> HIDE DEF w, FetchBmsr
      <4> QED BY <3>2, <3>3, OwnWork
    <3> HIDE DEF w
    <3> QED BY <3>2, <3>4
  <2>3. /\ pc' \in [Levels -> {"idle", "filters", "down"} \cup InPhy \cup Polling] /\ pc'[t] = "issue"
        /\ \A u \in Levels : u # t => pc'[u] = pc[u]
    BY <2>1 DEF TypeOK, Polling
  <2>4. TypeOK'
    BY <2>1, <2>2, <2>3 DEF TypeOK
  <2>i. SUFFICES ASSUME ~disturbed' PROVE OneAtATime' /\ InRegisters' /\ SpeedInStep'
    BY <2>4 DEF InStep
  <2>j. OneAtATime /\ InRegisters /\ SpeedInStep
    BY <2>i DEF InStep
  <2>o. \A u \in Levels : u # t => pc[u] \in {"idle", "down"}
    BY <2>j DEF TypeOK, OneAtATime, Levels
  <2>m. maint.reg = BMSR /\ (up = (maint.val # 0)) /\ work[t].read = {}
    <3>1. pc[t] = "fetch" /\ work[t].reg = BMSR /\ PollInStep(t)
      BY <2>j DEF SpeedInStep
    <3> QED BY <3>1 DEF PollInStep, Polling
  <2>5. OneAtATime'
    BY <2>j, <2>2, <2>3 DEF OneAtATime, Levels, Polling, InPhy
  <2>6. InRegisters'
    BY <2>j, <2>2, <2>3, <2>o DEF InRegisters, Up, ComingUp, GoingDown, Levels, InPhy, Polling
  <2>7. \A u \in Levels : PollInStep(u)'
    <3>1. ~dropped => link = maint.val /\ link # 0
      BY <2>j, <2>m, <1>u DEF SpeedInStep, PollInStep
    <3> QED BY <2>1, <2>2, <2>3, <3>1, <2>m, <2>o DEF PollInStep, Polling, BMSR
  <2> QED BY <2>1, <2>5, <2>6, <2>7 DEF SpeedInStep
<1>d. CASE ~(LinkUp # up /\ up)
  <2>1. LinkUp' = up /\ Outcome(t, up)
    BY <1>d
  <2>a. /\ work' \in [Levels -> Works]
        /\ pc' \in [Levels -> {"idle", "filters", "down"} \cup InPhy \cup Polling]
        /\ \A u \in Levels : u # t => work'[u] = work[u] /\ pc'[u] = pc[u]
        /\ \/ pc'[t] = "idle"
           \/ /\ pc'[t] = "issue" /\ ~up /\ work[t].call = "transmit"
              /\ work'[t].call = "transmit" /\ work'[t].reg = BMSR /\ work'[t].read = {}
    BY <2>1, OutcomeWork
  <2>4. TypeOK'
    BY <2>1, <2>a DEF TypeOK
  <2>i. SUFFICES ASSUME ~disturbed' PROVE OneAtATime' /\ InRegisters' /\ SpeedInStep'
    BY <2>4 DEF InStep
  <2>j. OneAtATime /\ InRegisters /\ SpeedInStep
    BY <2>i DEF InStep
  <2>o. \A u \in Levels : u # t => pc[u] \in {"idle", "down"}
    BY <2>j DEF TypeOK, OneAtATime, Levels
  <2>m. maint.reg = BMSR /\ (up = (maint.val # 0))
    BY <2>j DEF SpeedInStep, PollInStep
  <2>5. OneAtATime'
    BY <2>j, <2>a DEF OneAtATime, Levels, Polling, InPhy
  <2>6. InRegisters'
    BY <2>j, <2>a, <2>o DEF InRegisters, Up, ComingUp, GoingDown, Levels, InPhy, Polling
  <2>7. \A u \in Levels : PollInStep(u)'
    BY <2>a, <2>o DEF PollInStep, Polling, BMSR
  <2>8. ASSUME Up', LinkUp', ~dropped', faults' = 0
        PROVE  netCfg'.speed = link'
    <3>1. up /\ LinkUp /\ maint.val # 0
      BY <1>d, <2>m, <2>1, <2>8 DEF TypeOK
    <3>2. ~LossInHand
      BY <2>o, <3>1 DEF LossInHand
    <3>3. Up
      BY <2>a, <2>8 DEF Up, GoingDown, Levels
    <3> QED BY <2>j, <2>8, <3>1, <3>2, <3>3 DEF SpeedInStep
  <2> QED BY <2>5, <2>6, <2>7, <2>8 DEF SpeedInStep
<1> QED BY <1>u, <1>d

\* The four registers of the negotiation.
LEMMA FetchAbilityInv ==
  ASSUME IInv, NEW t \in Levels, FetchAbility(t)
  PROVE  IInv'
<1> USE DEF IInv, FetchAbility, Goto, Runs, Locked, mode, mac, phy
<1>1. TypeOK'
  BY SnpAssumption DEF TypeOK, Levels, Works, NoWork, BMSR, NetCfgs, InPhy, Polling, IDR1
<1>i. SUFFICES ASSUME ~disturbed' PROVE OneAtATime' /\ InRegisters' /\ SpeedInStep'
  BY <1>1 DEF InStep
<1>j. OneAtATime /\ InRegisters /\ SpeedInStep
  BY <1>i DEF InStep
<1>2. OneAtATime'
  BY <1>i, <1>j DEF TypeOK, OneAtATime, Levels, InPhy, Polling
<1>3. InRegisters'
  BY <1>i, <1>j DEF TypeOK, OneAtATime, InRegisters, Up, ComingUp, GoingDown, Levels, InPhy, Polling
<1>4. SpeedInStep'
  <2>o. \A u \in Levels : u # t => pc[u] \in {"idle", "down"}
    BY <1>j DEF TypeOK, OneAtATime, Levels
  <2>1. /\ work'[t].reg = (IF work[t].reg = 4 THEN 4 ELSE work[t].reg + 1)
        /\ work'[t].read = work[t].read \cup {maint.val}
        /\ \A u \in Levels : u # t => work'[u] = work[u]
    BY <1>j DEF TypeOK, Works, SpeedInStep, PollInStep
  <2>2. /\ pc'[t] = (IF work[t].reg = 4 THEN "readCfg" ELSE "issue")
        /\ \A u \in Levels : u # t => pc'[u] = pc[u]
    BY DEF TypeOK
  <2>3. work[t].reg \in 1 .. 4 /\ work[t].reg # BMSR
    BY DEF Abilities, BMSR
  <2>4. ~dropped => link = maint.val /\ link # 0 /\ work[t].read \subseteq {link}
    BY <1>j, <2>3 DEF SpeedInStep, PollInStep, Polling
  <2>5. PollInStep(t)'
    <3>1. work'[t].reg \in 1 .. 4 /\ work'[t].reg # BMSR /\ work'[t].read # {}
      <4>1. work'[t].reg \in 1 .. 4
        BY <2>1, <2>3
      <4>2. maint.val \in work'[t].read
        BY <2>1
      <4>3. work'[t].read # {}
        BY <4>2
      <4>4. work'[t].reg # BMSR
        BY <4>1 DEF BMSR
      <4> QED BY <4>1, <4>3, <4>4
    <3>2. ~dropped => link # 0 /\ work'[t].read \subseteq {link}
      BY <2>1, <2>4
    <3>3. pc'[t] \in {"readCfg", "issue"} /\ (pc'[t] = "readCfg" => work'[t].reg = 4)
      BY <2>1, <2>2
    <3> QED BY <3>1, <3>2, <3>3 DEF PollInStep
  <2>6. \A u \in Levels : u # t => PollInStep(u)'
    BY <1>j, <2>o, <2>2 DEF SpeedInStep, PollInStep, Polling
  <2>7. ~LossInHand
    BY <2>o, <2>3 DEF LossInHand
  <2>8. Up' => Up
    BY <2>2 DEF Up, ComingUp, GoingDown, Levels
  <2> QED BY <1>j, <2>5, <2>6, <2>7, <2>8 DEF SpeedInStep
<1> QED BY <1>1, <1>2, <1>3, <1>4

\* NET_CFG is read for a change of the speed.
LEMMA ReadNetCfgInv ==
  ASSUME IInv, NEW t \in Levels, ReadNetCfg(t)
  PROVE  IInv'
<1> USE DEF IInv, ReadNetCfg, Goto, Runs, Locked, mode, mac, phy
<1>1. TypeOK'
  BY SnpAssumption DEF TypeOK, Levels, Works, NoWork, BMSR, NetCfgs, InPhy, Polling, IDR1
<1>i. SUFFICES ASSUME ~disturbed' PROVE OneAtATime' /\ InRegisters' /\ SpeedInStep'
  BY <1>1 DEF InStep
<1>j. OneAtATime /\ InRegisters /\ SpeedInStep
  BY <1>i DEF InStep
<1>2. OneAtATime'
  BY <1>i, <1>j DEF TypeOK, OneAtATime, Levels, InPhy, Polling
<1>3. InRegisters'
  BY <1>i, <1>j DEF TypeOK, OneAtATime, InRegisters, Up, ComingUp, GoingDown, Levels, InPhy, Polling
<1>4. SpeedInStep'
  BY <1>i, <1>j DEF TypeOK, OneAtATime, SpeedInStep, PollInStep, LossInHand, Up, ComingUp, GoingDown, Levels, InPhy, Polling, BMSR, IDR1, NoWork, Works
<1> QED BY <1>1, <1>2, <1>3, <1>4

\* And written back, with the speed of the link.
LEMMA UpdateLinkSpeedInv ==
  ASSUME IInv, NEW t \in Levels, NEW speed \in Speeds, UpdateLinkSpeed(t, speed)
  PROVE  IInv'
<1> USE DEF IInv, UpdateLinkSpeed, Goto, Runs, Locked, mode, mac, phy
<1>a. /\ work' \in [Levels -> Works] /\ pc'[t] = "idle"
      /\ pc' \in [Levels -> {"idle", "filters", "down"} \cup InPhy \cup Polling]
      /\ \A u \in Levels : u # t => work'[u] = work[u] /\ pc'[u] = pc[u]
  BY OutcomeWork
<1>s. work[t] \in Works /\ work[t].saved \in NetCfgs
  BY DEF TypeOK, Works
<1>n. netCfg' \in NetCfgs /\ netCfg'.speed = speed /\ netCfg'.multi = work[t].saved.multi
  BY <1>s, Replaced
<1>1. TypeOK'
  BY <1>a, <1>n DEF TypeOK
<1>i. SUFFICES ASSUME ~disturbed' PROVE OneAtATime' /\ InRegisters' /\ SpeedInStep'
  BY <1>1 DEF InStep
<1>j. OneAtATime /\ InRegisters /\ SpeedInStep
  BY <1>i DEF InStep
<1>o. State = "Initialized" /\ \A u \in Levels : u # t => pc[u] \in {"idle", "down"}
  BY <1>j DEF TypeOK, OneAtATime, Levels, Polling
<1>f. ~GoingDown => work[t].saved = netCfg
  BY <1>j DEF InRegisters
<1>l. ~dropped => speed = link
  <2> HAVE ~dropped
  <2>1. work[t].reg = 4 /\ work[t].read # {}
    BY <1>j DEF SpeedInStep, PollInStep
  <2>2. link # 0 /\ work[t].read \subseteq {link}
    BY <1>j, <2>1 DEF SpeedInStep, PollInStep, Polling, BMSR
  <2>3. work[t].read = {link} /\ link \in Speeds
    BY <2>1, <2>2 DEF TypeOK
  <2> QED BY <2>3 DEF Negotiated
<1>2. OneAtATime'
  BY <1>j, <1>a DEF OneAtATime, Levels, Polling, InPhy
<1>3. InRegisters'
  <2>1. Up' => netCfg'.multi = ("multicast" \in ReceiveFilterSetting')
    <3>1. Up' => Up /\ ~GoingDown
      BY <1>a DEF Up, GoingDown
    <3> QED BY <1>f, <1>j, <1>n, <3>1 DEF InRegisters
  <2> QED BY <1>j, <1>a, <1>o, <2>1 DEF InRegisters, ComingUp, GoingDown, InPhy
<1>4. SpeedInStep'
  <2>1. \A u \in Levels : PollInStep(u)'
    BY <1>a, <1>o DEF PollInStep, Polling
  <2> QED BY <2>1, <1>n, <1>l DEF SpeedInStep
<1> QED BY <1>2, <1>3, <1>4

\* The wire: a loss is latched.
LEMMA LinkLostInv ==
  ASSUME IInv, LinkLost
  PROVE  IInv'
<1> USE DEF IInv, LinkLost, Goto, Runs, Locked, mode, mac, phy
<1>1. TypeOK'
  BY SnpAssumption DEF TypeOK, Levels, Works, NoWork, BMSR, NetCfgs, InPhy, Polling, IDR1
<1>i. SUFFICES ASSUME ~disturbed' PROVE OneAtATime' /\ InRegisters' /\ SpeedInStep'
  BY <1>1 DEF InStep
<1>j. OneAtATime /\ InRegisters /\ SpeedInStep
  BY <1>i DEF InStep
<1>2. OneAtATime'
  BY <1>i, <1>j DEF TypeOK, OneAtATime, Levels, InPhy, Polling
<1>3. InRegisters'
  BY <1>i, <1>j DEF TypeOK, OneAtATime, InRegisters, Up, ComingUp, GoingDown, Levels, InPhy, Polling
<1>4. SpeedInStep'
  BY <1>i, <1>j DEF TypeOK, OneAtATime, SpeedInStep, PollInStep, LossInHand, Up, ComingUp, GoingDown, Levels, InPhy, Polling, BMSR, IDR1, NoWork, Works
<1> QED BY <1>1, <1>2, <1>3, <1>4

\* The wire: a link is found while no PHY is being set up.
LEMMA LinkFoundInv ==
  ASSUME IInv, NEW speed \in Speeds, LinkFound(speed)
  PROVE  IInv'
<1> USE DEF IInv, LinkFound, Goto, Runs, Locked, mode, mac, phy
<1>1. TypeOK'
  BY SnpAssumption DEF TypeOK, Levels, Works, NoWork, BMSR, NetCfgs, InPhy, Polling, IDR1
<1>i. SUFFICES ASSUME ~disturbed' PROVE OneAtATime' /\ InRegisters' /\ SpeedInStep'
  BY <1>1 DEF InStep
<1>j. OneAtATime /\ InRegisters /\ SpeedInStep
  BY <1>i DEF InStep
<1>2. OneAtATime'
  BY <1>i, <1>j DEF TypeOK, OneAtATime, Levels, InPhy, Polling
<1>3. InRegisters'
  BY <1>i, <1>j DEF TypeOK, OneAtATime, InRegisters, Up, ComingUp, GoingDown, Levels, InPhy, Polling
<1>4. SpeedInStep'
  <2>1. netCfg.speed # 0 /\ link = 0
    BY SnpAssumption DEF TypeOK, NetCfgs
  <2>2. \A t \in Levels : PollInStep(t)'
    BY <1>j, <2>1 DEF SpeedInStep, PollInStep, Polling
  <2>3. LossInHand' = LossInHand /\ Up' = Up
    BY DEF LossInHand, Up, GoingDown
  <2> QED BY <1>j, <2>1, <2>2, <2>3 DEF SpeedInStep
<1> QED BY <1>1, <1>2, <1>3, <1>4

-----------------------------------------------------------------------------
(* The theorems.                                                           *)

LEMMA InitInv == Init => IInv
<1> SUFFICES ASSUME Init PROVE IInv
  OBVIOUS
<1> USE DEF Init
<1>1. work = [t \in Levels |-> NoWork] /\ NoWork \in Works
  BY FreshWork
<1>2. TypeOK
  <2>1. netCfg \in NetCfgs
    BY SnpAssumption DEF NetCfgs
  <2>2. maint \in [reg : 0 .. 5, val : Speeds \cup {0}]
    BY DEF BMSR
  <2>3. pc \in [Levels -> {"idle", "filters", "down"} \cup InPhy \cup Polling] /\ work \in [Levels -> Works]
    BY <1>1
  <2> QED BY <2>1, <2>2, <2>3 DEF TypeOK, Filters
<1>3. OneAtATime /\ InRegisters /\ SpeedInStep
  BY DEF OneAtATime, InRegisters, SpeedInStep, PollInStep, Up, ComingUp, GoingDown, Levels, InPhy, Polling
<1> QED BY <1>2, <1>3 DEF IInv, InStep

LEMMA StutterInv ==
  ASSUME IInv, UNCHANGED vars
  PROVE  IInv'
<1> USE DEF vars, mode, mac, phy
<1>1. TypeOK'
  BY DEF IInv, TypeOK
<1>i. SUFFICES ASSUME ~disturbed' PROVE OneAtATime' /\ InRegisters' /\ SpeedInStep'
  BY <1>1 DEF IInv, InStep
<1>j. OneAtATime /\ InRegisters /\ SpeedInStep
  BY <1>i DEF IInv, InStep
<1>2. OneAtATime'
  BY <1>j DEF OneAtATime
<1>3. InRegisters'
  BY <1>j DEF InRegisters, Up, ComingUp, GoingDown
<1>4. SpeedInStep'
  BY <1>j DEF SpeedInStep, PollInStep, LossInHand, Up, GoingDown
<1> QED BY <1>2, <1>3, <1>4

LEMMA NextInv ==
  ASSUME IInv, [Next]_vars
  PROVE  IInv'
<1>1. ASSUME NEW t \in Levels, Running(t) PROVE IInv'
  BY <1>1, ReadIdInv, PhyResetInv, ConfigRgmiiDelaysInv, AutoNegotiateInv, GemSetReceiveFiltersInv,
     ShutdownDoneInv, MdioIssueInv, MdioTimeoutInv, FetchAbilityInv, ReadNetCfgInv, FetchBmsrInv,
     UpdateLinkSpeedInv DEF Running
<1>2. ASSUME NEW t \in Levels, Call(t) PROVE IInv'
  BY <1>2, StartInv, StopInv, InitializeInv, ResetInv, ShutdownInv, TransmitInv, GetStatusInv,
     StationAddressInv, ReceiveFiltersInv DEF Call
<1>3. ASSUME LinkLost PROVE IInv'
  BY <1>3, LinkLostInv
<1>4. ASSUME NEW speed \in Speeds, LinkFound(speed) PROVE IInv'
  BY <1>4, LinkFoundInv
<1> QED BY <1>1, <1>2, <1>3, <1>4, StutterInv DEF Next

\* However the link comes and goes, whichever MDIO transaction times out and
\* whoever calls: until a callback's call comes into one that holds no lock, the
\* two levels' places and locals are in step with the registers, and they are so
\* again once an Initialize has begun with nobody else inside.
THEOREM SnpInvariant ==
  Spec => []IInv
<1>1. IInv /\ [Next]_vars => IInv'
  BY NextInv
<1> QED BY InitInv, <1>1, PTL DEF Spec

\* GemUpdateLinkSpeed leaves the MAC at the speed of the link GetStatus
\* believes in, for any speeds a link may come back with between two reads,
\* where no callback has come into an unlocked call and no MDIO timed out.
THEOREM SpeedFollows ==
  Spec => []SpeedMatches
<1>1. IInv => SpeedMatches
  BY DEF IInv, InStep, SpeedMatches, SpeedInStep, Quiet, Up, GoingDown, LossInHand, Levels
<1> QED BY <1>1, SnpInvariant, PTL

\* An interface that is up has the filters of its mode data in the MAC and
\* the RGMII delays in the PHY, after any sequence of Initialize, Reset,
\* ReceiveFilters, StationAddress and Shutdown in which no callback has come
\* into an unlocked call since Initialize.
THEOREM RegistersProgrammed ==
  Spec => []Programmed
<1>1. IInv => Programmed
  BY DEF IInv, InStep, Programmed, InRegisters, Quiet, Up, GoingDown, Levels
<1> QED BY <1>1, SnpInvariant, PTL

=============================================================================
