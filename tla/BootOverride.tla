----------------------------- MODULE BootOverride -----------------------------
(***************************************************************************)
(* The boot override exchange of RpiRedfishSyncDxe across boots: the BMC   *)
(* holds a request, the firmware of one boot consumes it (BootNext and a   *)
(* cold reset), the BDS of the next boot launches it.  The operator acts   *)
(* on the BMC at any moment, power can be cut, HTTP requests and variable  *)
(* writes can fail.  A request stands for the target it names: the code    *)
(* never compares the targets of two requests.                             *)
(***************************************************************************)
EXTENDS Naturals

CONSTANTS MaxRequests,  \* bound: requests the operator makes
          MaxFaults     \* bound: power cuts, failed variable writes, lost answers

ASSUME BootAssumption == MaxRequests \in Nat /\ MaxFaults \in Nat

VARIABLES
  bmc,          \* the request staged on the BMC, 0 when it is "Disabled"
  bootNext,     \* NV variable BootNext: the request it was staged for, 0 when absent
  mark,         \* NV variable RpiSyncContinuousApplied exists
  phase,        \* where this boot is: see TypeOK
  cached,       \* BootNext as BdsEntry cached it
  pc,           \* where RpiRedfishSync is
  seen,         \* the request in the ComputerSystem payload being handled
  mSyncDone, mSettled, mReadyToBoot,
  asked, kind,  \* history: how many requests were made, and their kind
  taken,        \* history: Once requests whose clear the BMC confirmed
  staged,       \* history: requests BootNext was written for
  launches,     \* history: how often each request's target was launched
  faults        \* history: faults so far

nvVars   == <<bootNext, mark>>
latches  == <<mSyncDone, mSettled, mReadyToBoot>>
askVars  == <<asked, kind>>
history  == <<taken, staged, launches, faults>>
vars     == <<bmc, nvVars, phase, cached, pc, seen, latches, askVars, history>>

-----------------------------------------------------------------------------
Requests == 1 .. MaxRequests
Once(r)       == r \in Requests /\ kind[r] = "Once"
Continuous(r) == r \in Requests /\ kind[r] = "Continuous"

\* A fault (here: fails) is only possible while the bound allows one.
Fault(fails) ==
  /\ fails => faults < MaxFaults
  /\ faults' = IF fails THEN faults + 1 ELSE faults

Init ==
  /\ bmc = 0
  /\ bootNext = 0 /\ mark = FALSE
  /\ phase = "off"
  /\ cached = 0
  /\ pc = "idle"
  /\ seen = 0
  /\ mSyncDone = FALSE /\ mSettled = FALSE /\ mReadyToBoot = FALSE
  /\ asked = 0 /\ kind = [r \in Requests |-> "none"]
  /\ taken = {} /\ staged = {}
  /\ launches = [r \in Requests |-> 0]
  /\ faults = 0

-----------------------------------------------------------------------------
(* The operator, through the BMC.                                          *)

Stage(k) ==
  /\ asked < MaxRequests
  /\ asked' = asked + 1
  /\ kind' = [kind EXCEPT ![asked'] = k]
  /\ bmc' = asked'
  /\ UNCHANGED <<nvVars, phase, cached, pc, seen, latches, history>>

OperatorClear ==
  /\ bmc # 0
  /\ bmc' = 0
  /\ UNCHANGED <<nvVars, phase, cached, pc, seen, latches, askVars, history>>

-----------------------------------------------------------------------------
(* The boot itself (BDS and PlatformBm.c).  A callback of the sync runs at *)
(* TPL_CALLBACK: BDS, at TPL_APPLICATION, waits for it.                    *)

\* BdsEntry caches BootNext before any platform hook runs.
BdsEntry ==
  /\ phase = "off"
  /\ phase' = "hold"
  /\ cached' = bootNext
  /\ mSyncDone' = FALSE /\ mSettled' = FALSE /\ mReadyToBoot' = FALSE
  /\ UNCHANGED <<bmc, nvVars, pc, seen, askVars, history>>

\* WaitForRedfishSyncSettled: until the settled signal, or 200 polls.
WaitForRedfishSyncSettled(expired) ==
  /\ phase = "hold" /\ pc = "idle"
  /\ mSettled \/ expired
  /\ phase' = "select"
  /\ UNCHANGED <<bmc, nvVars, cached, pc, seen, latches, askVars, history>>

\* BDS deletes BootNext before it boots the option it cached; booting an
\* option signals ReadyToBoot, which runs OnReadyToBoot.
OnReadyToBoot ==
  /\ phase = "select" /\ pc = "idle"
  /\ phase' = "ready"
  /\ mReadyToBoot' = TRUE
  /\ bootNext' = IF cached # 0 THEN 0 ELSE bootNext
  /\ UNCHANGED <<bmc, mark, cached, pc, seen, mSyncDone, mSettled, askVars, history>>

\* The launched option is the cached one, or the default.
Launch ==
  /\ phase = "ready" /\ pc = "idle"
  /\ phase' = "os"
  /\ launches' = IF Once(cached) THEN [launches EXCEPT ![cached] = @ + 1] ELSE launches
  /\ UNCHANGED <<bmc, nvVars, cached, pc, seen, latches, askVars, taken, staged, faults>>

\* The operating system resets the machine.
OsReset ==
  /\ phase = "os"
  /\ phase' = "off"
  /\ UNCHANGED <<bmc, nvVars, cached, pc, seen, latches, askVars, history>>

PowerCut ==
  /\ phase # "off"
  /\ Fault(TRUE)
  /\ phase' = "off"
  /\ pc' = "idle"
  /\ UNCHANGED <<bmc, nvVars, cached, seen, latches, askVars, taken, staged, launches>>

-----------------------------------------------------------------------------
(* RpiRedfishSyncDxe.                                                      *)

\* Discovery can hand the handler a service more than once per boot, and as
\* late as ExitBootServices.
RpiRedfishConfigHandlerInit ==
  /\ phase \in {"hold", "select", "ready"}
  /\ pc = "idle"
  /\ ~mSyncDone
  /\ mSyncDone' = TRUE
  /\ pc' = "read"
  /\ UNCHANGED <<bmc, nvVars, phase, cached, seen, mSettled, mReadyToBoot, askVars, history>>

\* The boot goes on without the override.  Mutant: past ReadyToBoot too.
NotHandledLate(answers) == ~answers \/ seen' = 0
NotHandled(answers) == ~answers \/ mReadyToBoot \/ seen' = 0

\* The breadcrumb of a Continuous request.  Mutant: never found.
AlreadyAppliedNever(r) == FALSE
AlreadyApplied(r) == Continuous(r) /\ mark

\* RpiRedfishSync down to the GET of the system, and the checks that open
\* HandleBootOverride.  Any request can fail for as long as the BMC is down.
HandleBootOverride(answers) ==
  /\ pc = "read"
  /\ seen' = bmc
  /\ pc' = IF NotHandled(answers) THEN "settle"
           ELSE IF AlreadyApplied(seen') THEN "standAside"
           ELSE "find"
  /\ UNCHANGED <<bmc, nvVars, phase, cached, latches, askVars, history>>

\* The breadcrumb is deleted; the status of the deletion is not looked at.
StandAside(fails) ==
  /\ pc = "standAside"
  /\ Fault(fails)
  /\ mark' = (fails /\ mark)
  /\ pc' = "settle"
  /\ UNCHANGED <<bmc, bootNext, phase, cached, seen, latches, askVars, taken, staged, launches>>

\* Two scans of the boot options, with devices connected in between.
FindBootOverrideOption(found) ==
  /\ pc = "find"
  /\ pc' = IF ~found THEN "settle" ELSE IF Continuous(seen) THEN "mark" ELSE "ack"
  /\ UNCHANGED <<bmc, nvVars, phase, cached, seen, latches, askVars, history>>

WriteMark(fails) ==
  /\ pc = "mark"
  /\ Fault(fails)
  /\ mark' = (~fails \/ mark)
  /\ pc' = IF fails THEN "settle" ELSE "apply"
  /\ UNCHANGED <<bmc, bootNext, phase, cached, seen, latches, askVars, taken, staged, launches>>

\* Mutant: applied although the BMC did not confirm.
AfterAckAnyway(answered) == "apply"
AfterAck(answered) == IF answered THEN "apply" ELSE "settle"

\* PATCH BootSourceOverrideEnabled = "Disabled": it disables whatever is
\* staged by now.  Either the request or its answer may be lost.
Acknowledge(arrives, answered) ==
  /\ pc = "ack"
  /\ answered => arrives
  /\ Fault(arrives /\ ~answered)
  /\ bmc' = IF arrives THEN 0 ELSE bmc
  /\ taken' = IF answered THEN taken \cup {seen} ELSE taken
  /\ pc' = AfterAck(answered)
  /\ UNCHANGED <<nvVars, phase, cached, seen, latches, askVars, staged, launches>>

\* Mutant: the reset comes first.
ApplyResetFirst(fails) ==
  /\ pc = "apply"
  /\ Fault(fails)
  /\ phase' = "off"
  /\ pc' = "idle"
  /\ UNCHANGED <<bmc, nvVars, cached, seen, latches, askVars, taken, staged, launches>>

\* BootNext, then a cold reset; without BootNext no reset.
ApplyMatchedOption(fails) ==
  /\ pc = "apply"
  /\ Fault(fails)
  /\ bootNext' = IF fails THEN bootNext ELSE seen
  /\ staged' = IF fails THEN staged ELSE staged \cup {seen}
  /\ phase' = IF fails THEN phase ELSE "off"
  /\ pc' = IF fails THEN "settle" ELSE "idle"
  /\ UNCHANGED <<bmc, mark, cached, seen, latches, askVars, taken, launches>>

SignalSyncSettled ==
  /\ pc = "settle"
  /\ mSettled' = TRUE
  /\ pc' = "idle"
  /\ UNCHANGED <<bmc, nvVars, phase, cached, seen, mSyncDone, mReadyToBoot, askVars, history>>

-----------------------------------------------------------------------------
Operator == (\E k \in {"Once", "Continuous"} : Stage(k)) \/ OperatorClear

Sync ==
  \/ \E answers \in BOOLEAN : HandleBootOverride(answers)
  \/ \E found \in BOOLEAN : FindBootOverrideOption(found)
  \/ \E arrives, answered \in BOOLEAN : Acknowledge(arrives, answered)
  \/ \E fails \in BOOLEAN : StandAside(fails) \/ WriteMark(fails) \/ ApplyMatchedOption(fails)
  \/ SignalSyncSettled

Boot ==
  \/ BdsEntry
  \/ \E expired \in BOOLEAN : WaitForRedfishSyncSettled(expired)
  \/ OnReadyToBoot
  \/ Launch

Next ==
  \/ Operator
  \/ Boot
  \/ OsReset
  \/ PowerCut
  \/ RpiRedfishConfigHandlerInit
  \/ Sync

\* A powered machine runs: a started exchange ends (every HTTP request has a
\* timeout), and BDS goes on when no callback is running.
Fairness == WF_vars(Sync) /\ WF_vars(Boot)

Spec == Init /\ [][Next]_vars
FairSpec == Spec /\ Fairness

-----------------------------------------------------------------------------
(* Properties.                                                             *)

TypeOK ==
  /\ bmc \in 0 .. MaxRequests /\ bootNext \in 0 .. MaxRequests
  /\ mark \in BOOLEAN
  /\ phase \in {"off", "hold", "select", "ready", "os"}
  /\ cached \in 0 .. MaxRequests /\ seen \in 0 .. MaxRequests
  /\ pc \in {"idle", "read", "standAside", "find", "mark", "ack", "apply", "settle"}
  /\ mSyncDone \in BOOLEAN /\ mSettled \in BOOLEAN /\ mReadyToBoot \in BOOLEAN
  /\ asked \in 0 .. MaxRequests
  /\ kind \in [Requests -> {"none", "Once", "Continuous"}]
  /\ taken \subseteq Requests /\ staged \subseteq Requests
  /\ launches \in [Requests -> Nat]
  /\ faults \in 0 .. MaxFaults

\* A Once request is launched at most once, whatever fails and whenever the
\* power is cut: "it stays genuinely one-shot".
OnceAtMostOnce == \A r \in Requests : Once(r) => launches[r] <= 1

\* What makes it inductive: BootNext is what this boot cached until it is
\* deleted, a request is known to one of BMC, exchange and boot at a time
\* (to two while the exchange has read it but not taken it), and none of
\* them knows a request that was launched.
Handling == pc \notin {"idle", "read", "settle"}
ReadyToBootLatched ==
  /\ phase \in {"hold", "select"} => bootNext = cached
  /\ phase \in {"ready", "os"} => bootNext = 0 /\ mReadyToBoot
  /\ mReadyToBoot => phase \in {"ready", "os", "off"}
  /\ phase \in {"off", "os"} => pc = "idle"
  /\ phase = "ready" => ~Handling
Booting(r)  == bootNext = r \/ (phase = "ready" /\ cached = r)
Holding(r)  == Handling /\ seen = r
HeldOnce ==
  \A r \in Requests : Once(r) =>
    /\ Booting(r) => bmc # r /\ ~Holding(r)
    /\ Holding(r) => pc \notin {"mark", "standAside"} /\ (pc = "apply" => bmc # r)
    /\ launches[r] > 0 => bmc # r /\ ~Booting(r) /\ ~Holding(r)
KnownRequests ==
  /\ bmc <= asked /\ bootNext <= asked /\ cached <= asked /\ seen <= asked
  /\ Handling => seen # 0
  /\ \A r \in Requests : r > asked => launches[r] = 0 /\ kind[r] = "none"

IInv == TypeOK /\ OnceAtMostOnce /\ ReadyToBootLatched /\ HeldOnce /\ KnownRequests

\* Without a fault, a Once request the BMC was told is taken is launched, on
\* its way to be launched, or overtaken by a later request.
TakenIsLaunched ==
  faults = 0 =>
    \A r \in taken :
      \/ launches[r] = 1
      \/ pc = "apply" /\ seen = r
      \/ r \in {bootNext, cached}
      \/ \E s \in staged : s > r

\* What makes it inductive: the BMC holds the latest request or none, so what
\* the exchange reads is later than what BootNext already names; only a Once
\* request is acknowledged; and a request taken is in one place at a time.
LatestRead ==
  /\ bmc # 0 => bmc = asked
  /\ \A r \in Requests : r <= asked => kind[r] # "none"
  /\ Handling /\ Once(bootNext) => seen > bootNext
  /\ pc = "ack" => Once(seen)
Pending(r) ==
  \/ launches[r] = 1
  \/ pc = "apply" /\ seen = r
  \/ bootNext = r
  \/ phase = "ready" /\ cached = r
  \/ \E s \in staged : s > r
TakenIsPending == \A r \in taken : Once(r) /\ (faults = 0 => Pending(r))

\* Past ReadyToBoot the sync neither resets the machine nor takes a request:
\* the override stays staged for the next boot.
NoResetUnderLoader ==
  [][mReadyToBoot /\ pc # "idle" /\ ~PowerCut =>
       /\ phase' = phase /\ nvVars' = nvVars
       /\ bmc' = 0 => bmc = 0 \/ OperatorClear]_vars

\* No staged request, of either kind, and no dead BMC keeps the machine from
\* reaching an operating system again and again.
AlwaysBoots == []<>(phase = "os")
=============================================================================
