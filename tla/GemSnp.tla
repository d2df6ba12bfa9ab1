-------------------------------- MODULE GemSnp --------------------------------
(***************************************************************************)
(* The SNP state machine of Rp1GemDxe (Snp.c) and its PHY (Phy.c), called  *)
(* from two levels: a client at TPL_APPLICATION and one at TPL_CALLBACK,   *)
(* such as MNP's timers, which preempts it and runs to completion.  The    *)
(* MDIO registers are shared, and so is NET_CFG; the SNP lock is taken by  *)
(* GetStatus only (in what is modelled here), so that the other calls of   *)
(* the application can be disturbed.  The rings are in GemTx and GemRx.    *)
(***************************************************************************)
EXTENDS Integers

CONSTANTS Speeds,    \* speeds a link can negotiate, with 10 and 1000
          Addrs,     \* station addresses
          Zero,      \* the address 00:00:00:00:00:00
          AppCalls,  \* calls made at TPL_APPLICATION, which callbacks preempt
          CbCalls,   \* calls made at TPL_CALLBACK, GetStatus included
          MaxFaults  \* bound: MDIO transactions that time out

ASSUME SnpAssumption ==
  /\ Speeds \subseteq Nat \ {0} /\ {10, 1000} \subseteq Speeds
  /\ Zero \notin Addrs
  /\ AppCalls \cup CbCalls \subseteq {"start", "stop", "initialize", "shutdown", "reset",
                                     "filters", "station", "status", "transmit"}
  /\ MaxFaults \in Nat

VARIABLES
  State, MediaPresent, LinkUp,
  ReceiveFilterSetting, CurrentAddress,
  netCfg,     \* the MAC's NET_CFG: speed, and whether multicast is received
  entry,      \* the MAC's specific address register: on or off, and for which
  enabled,    \* RX_EN and TX_EN
  link,       \* the speed the PHY negotiated, 0 while there is no link
  dropped,    \* BMSR.LINK_STATUS is latched low: the link was lost since the last read
  delays,     \* the PHY's RGMII delays are configured
  maint,      \* PHY_MAINT: the register last read, and what it held
  pc,         \* where each level is
  work,       \* each level's locals
  faults,     \* history: MDIO transactions that timed out
  disturbed   \* history: since Initialize a callback's call began inside an unlocked one

mode  == <<State, MediaPresent, LinkUp, ReceiveFilterSetting, CurrentAddress>>
mac   == <<netCfg, entry, enabled>>
phy   == <<link, dropped, delays>>
vars  == <<mode, mac, phy, maint, pc, work, faults, disturbed>>

-----------------------------------------------------------------------------
Levels  == {"app", "cb"}
Filters == {"unicast", "multicast"}

\* The order Rp1GemPhyUpdateConfig and Rp1GemPhyGetConfig read registers in.
BMSR == 0
Abilities == 1 .. 4     \* GBCR, GBSR, ANAR, ANLPAR
IDR1 == 5

\* A callback preempts the application; GetStatus holds the lock, at
\* TPL_CALLBACK, so no callback starts inside it.
Runs(t)  == t = "cb" \/ pc["cb"] = "idle"
\* Mutant: GetStatus polls the link before it takes the lock.
LockedNot == FALSE
Locked   == pc["app"] # "idle" /\ work["app"].call = "status"
\* No other call of the application has a lock to rely on.  A Shutdown about to
\* end tolerates all but another lifecycle call.
Intrudes(t, call) ==
  /\ t = "cb" /\ pc["app"] # "idle" /\ work["app"].call # "status"
  /\ pc["app"] = "down" => call \in {"start", "stop", "initialize", "shutdown"}
\* Initialize programs everything anew.
Renews(t, call) == call = "initialize" /\ \A u \in Levels \ {t} : pc[u] = "idle"
Enter(t, call) ==
  /\ pc[t] = "idle"
  /\ Runs(t)
  /\ call \in (IF t = "app" THEN AppCalls ELSE CbCalls)
  /\ t = "cb" => ~Locked
  /\ disturbed' = ((disturbed \/ Intrudes(t, call)) /\ ~Renews(t, call))

Goto(t, where) == pc' = [pc EXCEPT ![t] = where]
Fault(fails) ==
  /\ fails => faults < MaxFaults
  /\ faults' = IF fails THEN faults + 1 ELSE faults

NoWork == [call |-> "none", reg |-> BMSR, read |-> {}, setting |-> {}, saved |-> [speed |-> 10, multi |-> FALSE]]

Init ==
  /\ State = "Stopped" /\ MediaPresent = FALSE /\ LinkUp = FALSE
  /\ ReceiveFilterSetting = {"unicast"}
  /\ CurrentAddress \in Addrs
  /\ netCfg = [speed |-> 10, multi |-> FALSE]
  /\ entry = [on |-> FALSE, addr |-> Zero]
  /\ enabled = FALSE
  /\ link \in Speeds \cup {0}
  /\ dropped = FALSE /\ delays = FALSE
  /\ maint = [reg |-> BMSR, val |-> 0]
  /\ pc = [t \in Levels |-> "idle"]
  /\ work = [t \in Levels |-> NoWork]
  /\ faults = 0 /\ disturbed = FALSE

-----------------------------------------------------------------------------
(* Calls that touch no MDIO register.                                      *)

Start(t) ==
  /\ Enter(t, "start")
  /\ State = "Stopped"
  /\ State' = "Started"
  /\ UNCHANGED <<MediaPresent, LinkUp, ReceiveFilterSetting, CurrentAddress, mac, phy, maint, pc, work, faults>>

Stop(t) ==
  /\ Enter(t, "stop")
  /\ State = "Started"
  /\ enabled' = FALSE
  /\ State' = "Stopped"
  /\ UNCHANGED <<MediaPresent, LinkUp, ReceiveFilterSetting, CurrentAddress, netCfg, entry, phy, maint, pc, work, faults>>

\* GemSetMacAddress writes the bottom register, then the top one, which
\* turns the entry on.
GemSetMacAddress(addr) == entry' = [on |-> TRUE, addr |-> addr]

Entry(setting) == IF "unicast" \in setting THEN CurrentAddress ELSE Zero

\* ReceiveFilters reads NET_CFG, and later writes it with the filter bits
\* replaced.
ReceiveFilters(t, setting) ==
  /\ Enter(t, "filters")
  /\ State = "Initialized"
  /\ work' = [work EXCEPT ![t] = [NoWork EXCEPT !.call = "filters", !.saved = netCfg, !.setting = setting]]
  /\ Goto(t, "filters")
  /\ UNCHANGED <<mode, mac, phy, maint, faults>>

\* With unicast off zeroes are written to both address registers.
GemSetReceiveFilters(t) ==
  /\ pc[t] = "filters" /\ Runs(t)
  /\ netCfg' = [work[t].saved EXCEPT !.multi = "multicast" \in work[t].setting]
  /\ GemSetMacAddress(Entry(work[t].setting))
  /\ ReceiveFilterSetting' = work[t].setting
  /\ Goto(t, "idle")
  /\ work' = [work EXCEPT ![t] = NoWork]
  /\ UNCHANGED <<State, MediaPresent, LinkUp, CurrentAddress, enabled, phy, maint, faults, disturbed>>

StationAddress(t, addr) ==
  /\ Enter(t, "station")
  /\ State = "Initialized"
  /\ CurrentAddress' = addr
  /\ GemSetMacAddress(addr)
  /\ UNCHANGED <<State, MediaPresent, LinkUp, ReceiveFilterSetting, netCfg, enabled, phy, maint, pc, work, faults>>

-----------------------------------------------------------------------------
(* Initialize, Reset and Shutdown.                                         *)

\* Mutant: the receive filters set before are not programmed again.
InitializeNoFilters(t) ==
  /\ Enter(t, "initialize")
  /\ State = "Started"
  /\ netCfg' = [speed |-> 1000, multi |-> FALSE]
  /\ GemSetMacAddress(CurrentAddress)
  /\ enabled' = FALSE
  /\ Goto(t, "phyReset")
  /\ work' = [work EXCEPT ![t].call = "initialize"]
  /\ UNCHANGED <<mode, phy, maint, faults>>

\* GemMacReset and GemMacConfigure: gigabit until the link says otherwise.
Initialize(t) ==
  /\ Enter(t, "initialize")
  /\ State = "Started"
  /\ netCfg' = [speed |-> 1000, multi |-> "multicast" \in ReceiveFilterSetting]
  /\ GemSetMacAddress(Entry(ReceiveFilterSetting))
  /\ enabled' = FALSE
  /\ Goto(t, "phyReset")
  /\ work' = [work EXCEPT ![t].call = "initialize"]
  /\ UNCHANGED <<mode, phy, maint, faults>>

Reset(t) ==
  /\ Enter(t, "reset")
  /\ State = "Initialized"
  /\ Goto(t, "phyReset")
  /\ work' = [work EXCEPT ![t].call = "reset"]
  /\ UNCHANGED <<mode, mac, phy, maint, faults>>

\* Rp1GemPhyInit: detection pulses the reset line, which drops the link and
\* the delays.
PhyReset(t, fails) ==
  /\ pc[t] = "phyReset" /\ Runs(t)
  /\ Fault(fails)
  /\ LinkUp' = FALSE
  /\ link' = 0 /\ dropped' = TRUE /\ delays' = FALSE
  /\ Goto(t, IF fails THEN "idle" ELSE "readId")
  /\ work' = IF fails THEN [work EXCEPT ![t] = NoWork] ELSE work
  /\ UNCHANGED <<State, MediaPresent, ReceiveFilterSetting, CurrentAddress, mac, maint, disturbed>>

ReadId(t) ==
  /\ pc[t] = "readId" /\ Runs(t)
  /\ maint' = [reg |-> IDR1, val |-> 0]
  /\ Goto(t, "rgmii")
  /\ UNCHANGED <<mode, mac, phy, work, faults, disturbed>>

\* The delays are configured if the identifier read is that of this PHY.
ConfigRgmiiDelays(t, fails) ==
  /\ pc[t] = "rgmii" /\ Runs(t)
  /\ Fault(fails)
  /\ delays' = (~fails /\ maint.reg = IDR1)
  /\ Goto(t, IF fails THEN "idle" ELSE "autoNegotiate")
  /\ work' = IF fails THEN [work EXCEPT ![t] = NoWork] ELSE work
  /\ UNCHANGED <<mode, mac, link, dropped, maint, disturbed>>

\* The caller's turn: an Initialize that did not fail is up.  A Reset
\* leaves the state, and the receiver and transmitter, as they are.
PhyInitDone(t) ==
  /\ MediaPresent' = FALSE
  /\ IF work[t].call = "initialize"
       THEN enabled' = TRUE /\ State' = "Initialized"
       ELSE UNCHANGED <<enabled, State>>

AutoNegotiate(t, fails) ==
  /\ pc[t] = "autoNegotiate" /\ Runs(t)
  /\ Fault(fails)
  /\ IF fails THEN UNCHANGED <<MediaPresent, enabled, State>> ELSE PhyInitDone(t)
  /\ Goto(t, "idle")
  /\ work' = [work EXCEPT ![t] = NoWork]
  /\ UNCHANGED <<LinkUp, ReceiveFilterSetting, CurrentAddress, netCfg, entry, phy, maint, disturbed>>

\* GemMacDisableTxRx and GemMacReset come before the state changes.
Shutdown(t) ==
  /\ Enter(t, "shutdown")
  /\ State = "Initialized"
  /\ enabled' = FALSE
  /\ netCfg' = [speed |-> 10, multi |-> FALSE]
  /\ Goto(t, "down")
  /\ work' = [work EXCEPT ![t].call = "shutdown"]
  /\ UNCHANGED <<mode, entry, phy, maint, faults>>

ShutdownDone(t) ==
  /\ pc[t] = "down" /\ Runs(t)
  /\ MediaPresent' = FALSE
  /\ State' = "Started"
  /\ Goto(t, "idle")
  /\ work' = [work EXCEPT ![t] = NoWork]
  /\ UNCHANGED <<LinkUp, ReceiveFilterSetting, CurrentAddress, mac, phy, maint, faults, disturbed>>

-----------------------------------------------------------------------------
(* Rp1GemPhyUpdateConfig, called by GetStatus under the lock, and by       *)
(* Transmit without it while there is no media.                            *)

GetStatus(t) ==
  /\ Enter(t, "status")
  /\ State = "Initialized"
  /\ work' = [work EXCEPT ![t] = [NoWork EXCEPT !.call = "status"]]
  /\ Goto(t, "issue")
  /\ UNCHANGED <<mode, mac, phy, maint, faults>>

Transmit(t) ==
  /\ Enter(t, "transmit")
  /\ State = "Initialized"
  /\ ~MediaPresent
  /\ work' = [work EXCEPT ![t] = [NoWork EXCEPT !.call = "transmit"]]
  /\ Goto(t, "issue")
  /\ UNCHANGED <<mode, mac, phy, maint, faults>>

\* GemMdioRead: the transaction.  Reading BMSR clears its latch.
MdioIssue(t) ==
  /\ pc[t] = "issue" /\ Runs(t)
  /\ maint' = [reg |-> work[t].reg,
               val |-> IF work[t].reg = BMSR /\ dropped THEN 0 ELSE link]
  /\ dropped' = (dropped /\ work[t].reg # BMSR)
  /\ Goto(t, "fetch")
  /\ UNCHANGED <<mode, mac, link, delays, work, faults, disturbed>>

\* Mutant: GetStatus refreshes the PHY and forgets MediaPresent.
OutcomeForgotten(t, up) ==
  /\ MediaPresent' = (MediaPresent /\ up)
  /\ Goto(t, "idle")
  /\ work' = [work EXCEPT ![t] = NoWork]

\* What the caller makes of the outcome: GetStatus takes it as it is;
\* Transmit tries again, or runs out of retries and changes nothing.
Outcome(t, up) ==
  \/ /\ MediaPresent' = IF work[t].call = "status" THEN up ELSE (up \/ MediaPresent)
     /\ Goto(t, "idle")
     /\ work' = [work EXCEPT ![t] = NoWork]
  \/ /\ ~up /\ work[t].call = "transmit"
     /\ Goto(t, "issue")
     /\ work' = [work EXCEPT ![t] = [NoWork EXCEPT !.call = "transmit"]]
     /\ UNCHANGED MediaPresent

MdioTimeout(t) ==
  /\ pc[t] = "fetch" /\ Runs(t)
  /\ Fault(TRUE)
  /\ Outcome(t, FALSE)
  /\ UNCHANGED <<State, LinkUp, ReceiveFilterSetting, CurrentAddress, mac, phy, maint, disturbed>>

\* Mutant: only a link that comes up is recorded.
FetchBmsrUpOnly(t, up) ==
  /\ pc[t] = "fetch" /\ Runs(t)
  /\ work[t].reg = BMSR
  /\ maint.reg = BMSR => up = (maint.val # 0)
  /\ IF ~LinkUp /\ up
       THEN /\ work' = [work EXCEPT ![t].reg = BMSR + 1]
            /\ Goto(t, "issue")
            /\ UNCHANGED MediaPresent
       ELSE Outcome(t, up)
  /\ UNCHANGED <<State, LinkUp, ReceiveFilterSetting, CurrentAddress, mac, phy, maint, faults, disturbed>>

\* BMSR comes back.  Another level's transaction may have replaced it: then
\* any bits do.  No change of the link ends the call.
FetchBmsr(t, up) ==
  /\ pc[t] = "fetch" /\ Runs(t)
  /\ work[t].reg = BMSR
  /\ maint.reg = BMSR => up = (maint.val # 0)
  /\ IF LinkUp # up /\ up
       THEN /\ work' = [work EXCEPT ![t].reg = BMSR + 1]
            /\ Goto(t, "issue")
            /\ UNCHANGED <<LinkUp, MediaPresent>>
       ELSE /\ LinkUp' = up
            /\ Outcome(t, up)
  /\ UNCHANGED <<State, ReceiveFilterSetting, CurrentAddress, mac, phy, maint, faults, disturbed>>

\* Rp1GemPhyGetConfig, register by register.
FetchAbility(t) ==
  /\ pc[t] = "fetch" /\ Runs(t)
  /\ work[t].reg \in Abilities
  /\ work' = [work EXCEPT ![t].reg = IF @ = 4 THEN @ ELSE @ + 1,
                          ![t].read = @ \cup {IF maint.reg = work[t].reg THEN maint.val ELSE 0}]
  /\ Goto(t, IF work[t].reg = 4 THEN "readCfg" ELSE "issue")
  /\ UNCHANGED <<mode, mac, phy, maint, faults, disturbed>>

\* Registers that agree give the negotiated speed, others any speed.
Negotiated(t) == IF \E s \in Speeds : work[t].read = {s} THEN work[t].read ELSE Speeds

\* GemUpdateLinkSpeed reads NET_CFG, and writes it with the speed replaced.
ReadNetCfg(t) ==
  /\ pc[t] = "readCfg" /\ Runs(t)
  /\ work' = [work EXCEPT ![t].saved = netCfg]
  /\ Goto(t, "writeCfg")
  /\ UNCHANGED <<mode, mac, phy, maint, faults, disturbed>>

UpdateLinkSpeed(t, speed) ==
  /\ pc[t] = "writeCfg" /\ Runs(t)
  /\ speed \in Negotiated(t)
  /\ netCfg' = [work[t].saved EXCEPT !.speed = speed]
  /\ LinkUp' = TRUE
  /\ Outcome(t, TRUE)
  /\ UNCHANGED <<State, ReceiveFilterSetting, CurrentAddress, entry, enabled, phy, maint, faults, disturbed>>

-----------------------------------------------------------------------------
(* The wire.  A PHY in reset negotiates again once autonegotiation runs.   *)

LinkLost ==
  /\ link # 0
  /\ link' = 0 /\ dropped' = TRUE
  /\ UNCHANGED <<mode, mac, delays, maint, pc, work, faults, disturbed>>

LinkFound(speed) ==
  /\ link = 0
  /\ \A t \in Levels : pc[t] \notin {"readId", "rgmii", "autoNegotiate"}
  /\ link' = speed
  /\ UNCHANGED <<mode, mac, dropped, delays, maint, pc, work, faults, disturbed>>

-----------------------------------------------------------------------------
Running(t) ==
  \/ ReadId(t) \/ \E fails \in BOOLEAN : PhyReset(t, fails) \/ ConfigRgmiiDelays(t, fails) \/ AutoNegotiate(t, fails)
  \/ GemSetReceiveFilters(t) \/ ShutdownDone(t)
  \/ MdioIssue(t) \/ MdioTimeout(t) \/ FetchAbility(t) \/ ReadNetCfg(t)
  \/ \E up \in BOOLEAN : FetchBmsr(t, up)
  \/ \E speed \in Speeds : UpdateLinkSpeed(t, speed)

Call(t) ==
  \/ Start(t) \/ Stop(t) \/ Initialize(t) \/ Reset(t) \/ Shutdown(t) \/ Transmit(t) \/ GetStatus(t)
  \/ \E addr \in Addrs : StationAddress(t, addr)
  \/ \E setting \in SUBSET Filters : ReceiveFilters(t, setting)

Next ==
  \/ \E t \in Levels : Running(t) \/ Call(t)
  \/ LinkLost \/ \E speed \in Speeds : LinkFound(speed)

\* The code in progress runs on, and MNP keeps polling.
Fairness ==
  /\ \A t \in Levels : WF_vars(Running(t))
  /\ SF_vars(GetStatus("cb"))

Spec == Init /\ [][Next]_vars
FairSpec == Spec /\ Fairness

-----------------------------------------------------------------------------
(* Properties.                                                             *)

\* Nobody is inside, and nobody came into another's unlocked call since the
\* interface was last initialized: Transmit's poll of the link, in particular,
\* at TPL_APPLICATION.
Quiet == State = "Initialized" /\ ~disturbed /\ \A t \in Levels : pc[t] = "idle"

\* While the driver believes in the link, and the PHY has not latched a loss
\* since, the MAC runs at the speed the PHY negotiated: what a link that
\* comes and goes between any two register reads leaves behind is noticed.
SpeedMatches == Quiet /\ LinkUp /\ ~dropped /\ faults = 0 => netCfg.speed = link

\* An interface that is up filters as the mode data say, whatever was set or
\* reset while it was down, and has its PHY's clock delays configured, without
\* which nothing is received.
Programmed ==
  Quiet =>
    /\ netCfg.multi = ("multicast" \in ReceiveFilterSetting)
    /\ "unicast" \in ReceiveFilterSetting => entry = [on |-> TRUE, addr |-> CurrentAddress]
    /\ faults = 0 => delays

\* What makes them inductive.  Undisturbed, only a Shutdown about to end is
\* interrupted.
InPhy   == {"phyReset", "readId", "rgmii", "autoNegotiate"}
Polling == {"issue", "fetch", "readCfg", "writeCfg"}
NetCfgs == [speed : Speeds, multi : BOOLEAN]
Works   == [call : {"none", "initialize", "reset", "shutdown", "status", "transmit", "filters"},
            reg : 0 .. 4, read : SUBSET (Speeds \cup {0}), setting : SUBSET Filters, saved : NetCfgs]
GoingDown  == \E t \in Levels : pc[t] = "down"
ComingUp   == State = "Started" /\ \E t \in Levels : pc[t] \in InPhy
Up         == State = "Initialized" /\ ~GoingDown
TypeOK ==
  /\ State \in {"Stopped", "Started", "Initialized"}
  /\ LinkUp \in BOOLEAN /\ dropped \in BOOLEAN /\ delays \in BOOLEAN
  /\ ReceiveFilterSetting \in SUBSET Filters
  /\ netCfg \in NetCfgs /\ link \in Speeds \cup {0}
  /\ maint \in [reg : 0 .. 5, val : Speeds \cup {0}]
  /\ pc \in [Levels -> {"idle", "filters", "down"} \cup InPhy \cup Polling]
  /\ work \in [Levels -> Works]
  /\ faults \in Nat /\ disturbed \in BOOLEAN
OneAtATime ==
  /\ pc["app"] \notin {"idle", "down"} => pc["cb"] = "idle"
  /\ pc["app"] = "down" => pc["cb"] # "down"
  /\ \A t \in Levels :
       /\ pc[t] \in Polling \cup {"filters", "down"} => State = "Initialized"
       /\ pc[t] \in Polling => work[t].call \in {"status", "transmit"}
       /\ pc[t] \in InPhy => <<work[t].call, State>> \in {<<"initialize", "Started">>, <<"reset", "Initialized">>}
\* What is programmed, and what was read of it to be written back.
InRegisters ==
  /\ State = "Initialized" \/ ComingUp => ("unicast" \in ReceiveFilterSetting => entry = [on |-> TRUE, addr |-> CurrentAddress])
  /\ Up \/ ComingUp => netCfg.multi = ("multicast" \in ReceiveFilterSetting)
  /\ ~GoingDown => \A t \in Levels : pc[t] \in {"filters", "writeCfg"} => work[t].saved = netCfg
  /\ \A t \in Levels : pc[t] = "rgmii" => maint.reg = IDR1
  /\ faults = 0 => \A t \in Levels : pc[t] = "autoNegotiate" => delays
  /\ faults = 0 /\ State = "Initialized" =>
       delays \/ \E t \in Levels : pc[t] \in {"phyReset", "readId", "rgmii"}
\* What a poll has read is the link's, unless the link was lost since; and a
\* loss that BMSR has given away is in the poll's hands.
LossInHand == \E t \in Levels : pc[t] = "fetch" /\ work[t].reg = BMSR /\ maint.val = 0
PollInStep(t) ==
  /\ pc[t] \in {"readId", "rgmii", "autoNegotiate"} => ~LinkUp
  /\ pc[t] = "fetch" => maint.reg = work[t].reg
  /\ pc[t] = "fetch" /\ (work[t].reg # BMSR \/ maint.val # 0) /\ ~dropped => link = maint.val
  /\ pc[t] \in Polling /\ work[t].reg # BMSR /\ ~dropped => link # 0 /\ work[t].read \subseteq {link}
  /\ pc[t] \in Polling /\ work[t].reg = BMSR => work[t].read = {}
  /\ pc[t] \in {"readCfg", "writeCfg"} => work[t].reg = 4 /\ work[t].read # {}
SpeedInStep ==
  /\ \A t \in Levels : PollInStep(t)
  /\ Up /\ LinkUp /\ ~dropped /\ faults = 0 /\ ~LossInHand => netCfg.speed = link
InStep == OneAtATime /\ InRegisters /\ SpeedInStep
IInv   == TypeOK /\ (~disturbed => InStep)

\* A link that stays is found, and used at its speed, unless a time-out or an
\* intrusion was in the way.
LinkSettles ==
  \A s \in Speeds :
    <>[](State = "Initialized" /\ link = s /\ faults = 0 /\ ~disturbed /\ pc["app"] = "idle")
      => <>[](MediaPresent /\ netCfg.speed = s)
=============================================================================
