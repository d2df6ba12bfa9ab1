---------------------------- MODULE PlatformProofs ----------------------------
(***************************************************************************)
(* Proofs about two drivers that follow the BMC, and the pins under them:  *)
(* the boot override exchange, for every number of requests and every      *)
(* number of faults; the fan loop, for every temperature reading, every    *)
(* content of the FanPolicy variable and every level the BMC can serve;    *)
(* the pin libraries, for every content of the registers.                  *)
(***************************************************************************)
EXTENDS BootOverride, ActiveCooler, MCLibraries, TLAPS

-----------------------------------------------------------------------------
(* The boot override exchange.                                             *)

\* A new request is known to the BMC alone.
LEMMA StageInv == ASSUME IInv, NEW k \in {"Once", "Continuous"}, Stage(k) PROVE IInv'
<1> USE DEF IInv, Stage, nvVars, latches, history
<1>1. TypeOK'
  BY BootAssumption DEF TypeOK, Requests, KnownRequests, Handling
<1>2. OnceAtMostOnce'
  BY DEF OnceAtMostOnce, HeldOnce, TypeOK, ReadyToBootLatched, Booting, Holding, Handling, Once, Requests, KnownRequests
<1>3. ReadyToBootLatched'
  BY DEF ReadyToBootLatched, TypeOK, Handling
<1>4. HeldOnce'
  BY DEF HeldOnce, TypeOK, ReadyToBootLatched, Booting, Holding, Handling, Once, Continuous, Requests, KnownRequests
<1>5. KnownRequests'
  BY BootAssumption DEF KnownRequests, TypeOK, Requests, Once, Handling
<1> QED BY <1>1, <1>2, <1>3, <1>4, <1>5

LEMMA OperatorClearInv == ASSUME IInv, OperatorClear PROVE IInv'
<1> USE DEF IInv, OperatorClear, nvVars, latches, askVars, history
<1>1. TypeOK'
  BY BootAssumption DEF TypeOK, Requests, KnownRequests, Handling
<1>2. OnceAtMostOnce'
  BY DEF OnceAtMostOnce, HeldOnce, TypeOK, ReadyToBootLatched, Booting, Holding, Handling, Once, Requests, KnownRequests
<1>3. ReadyToBootLatched'
  BY DEF ReadyToBootLatched, TypeOK, Handling
<1>4. HeldOnce'
  BY DEF HeldOnce, TypeOK, ReadyToBootLatched, Booting, Holding, Handling, Once, Continuous, Requests, KnownRequests
<1>5. KnownRequests'
  BY BootAssumption DEF KnownRequests, TypeOK, Requests, Once, Handling
<1> QED BY <1>1, <1>2, <1>3, <1>4, <1>5

\* BdsEntry copies BootNext.
LEMMA BdsEntryInv == ASSUME IInv, BdsEntry PROVE IInv'
<1> USE DEF IInv, BdsEntry, nvVars, askVars, history
<1>1. TypeOK'
  BY BootAssumption DEF TypeOK, Requests, KnownRequests, Handling
<1>2. OnceAtMostOnce'
  BY DEF OnceAtMostOnce, HeldOnce, TypeOK, ReadyToBootLatched, Booting, Holding, Handling, Once, Requests, KnownRequests
<1>3. ReadyToBootLatched'
  BY DEF ReadyToBootLatched, TypeOK, Handling
<1>4. HeldOnce'
  BY DEF HeldOnce, TypeOK, ReadyToBootLatched, Booting, Holding, Handling, Once, Continuous, Requests, KnownRequests
<1>5. KnownRequests'
  BY BootAssumption DEF KnownRequests, TypeOK, Requests, Once, Handling
<1> QED BY <1>1, <1>2, <1>3, <1>4, <1>5

LEMMA WaitForRedfishSyncSettledInv == ASSUME IInv, NEW expired \in BOOLEAN, WaitForRedfishSyncSettled(expired) PROVE IInv'
<1> USE DEF IInv, WaitForRedfishSyncSettled, nvVars, latches, askVars, history
<1>1. TypeOK'
  BY BootAssumption DEF TypeOK, Requests, KnownRequests, Handling
<1>2. OnceAtMostOnce'
  BY DEF OnceAtMostOnce, HeldOnce, TypeOK, ReadyToBootLatched, Booting, Holding, Handling, Once, Requests, KnownRequests
<1>3. ReadyToBootLatched'
  BY DEF ReadyToBootLatched, TypeOK, Handling
<1>4. HeldOnce'
  BY DEF HeldOnce, TypeOK, ReadyToBootLatched, Booting, Holding, Handling, Once, Continuous, Requests, KnownRequests
<1>5. KnownRequests'
  BY BootAssumption DEF KnownRequests, TypeOK, Requests, Once, Handling
<1> QED BY <1>1, <1>2, <1>3, <1>4, <1>5

\* BootNext is deleted, the cached option remains.
LEMMA OnReadyToBootInv == ASSUME IInv, OnReadyToBoot PROVE IInv'
<1> USE DEF IInv, OnReadyToBoot, askVars, history
<1>1. TypeOK'
  BY BootAssumption DEF TypeOK, Requests, KnownRequests, Handling
<1>2. OnceAtMostOnce'
  BY DEF OnceAtMostOnce, HeldOnce, TypeOK, ReadyToBootLatched, Booting, Holding, Handling, Once, Requests, KnownRequests
<1>3. ReadyToBootLatched'
  BY DEF ReadyToBootLatched, TypeOK, Handling
<1>4. HeldOnce'
  BY DEF HeldOnce, TypeOK, ReadyToBootLatched, Booting, Holding, Handling, Once, Continuous, Requests, KnownRequests
<1>5. KnownRequests'
  BY BootAssumption DEF KnownRequests, TypeOK, Requests, Once, Handling
<1> QED BY <1>1, <1>2, <1>3, <1>4, <1>5

\* The launched request is known to nobody any more.
LEMMA LaunchInv == ASSUME IInv, Launch PROVE IInv'
<1> USE DEF IInv, Launch, nvVars, latches, askVars
<1>1. TypeOK'
  <2>1. launches' \in [Requests -> Nat]
    <3>1. CASE Once(cached)
      BY <3>1 DEF TypeOK, Once
    <3>2. CASE ~Once(cached)
      BY <3>2 DEF TypeOK
    <3> QED BY <3>1, <3>2
  <2> QED BY <2>1 DEF TypeOK
<1>2. OnceAtMostOnce'
  BY DEF OnceAtMostOnce, HeldOnce, TypeOK, ReadyToBootLatched, Booting, Holding, Handling, Once, Requests, KnownRequests
<1>3. ReadyToBootLatched'
  BY DEF ReadyToBootLatched, TypeOK, Handling
<1>4. HeldOnce'
  BY DEF HeldOnce, TypeOK, ReadyToBootLatched, Booting, Holding, Handling, Once, Continuous, Requests, KnownRequests
<1>5. KnownRequests'
  BY BootAssumption DEF KnownRequests, TypeOK, Requests, Once, Handling
<1> QED BY <1>1, <1>2, <1>3, <1>4, <1>5

LEMMA OsResetInv == ASSUME IInv, OsReset PROVE IInv'
<1> USE DEF IInv, OsReset, nvVars, latches, askVars, history
<1>1. TypeOK'
  BY BootAssumption DEF TypeOK, Requests, KnownRequests, Handling
<1>2. OnceAtMostOnce'
  BY DEF OnceAtMostOnce, HeldOnce, TypeOK, ReadyToBootLatched, Booting, Holding, Handling, Once, Requests, KnownRequests
<1>3. ReadyToBootLatched'
  BY DEF ReadyToBootLatched, TypeOK, Handling
<1>4. HeldOnce'
  BY DEF HeldOnce, TypeOK, ReadyToBootLatched, Booting, Holding, Handling, Once, Continuous, Requests, KnownRequests
<1>5. KnownRequests'
  BY BootAssumption DEF KnownRequests, TypeOK, Requests, Once, Handling
<1> QED BY <1>1, <1>2, <1>3, <1>4, <1>5

LEMMA PowerCutInv == ASSUME IInv, PowerCut PROVE IInv'
<1> USE DEF IInv, PowerCut, Fault, nvVars, latches, askVars
<1>1. TypeOK'
  BY BootAssumption DEF TypeOK, Requests, KnownRequests, Handling
<1>2. OnceAtMostOnce'
  BY DEF OnceAtMostOnce, HeldOnce, TypeOK, ReadyToBootLatched, Booting, Holding, Handling, Once, Requests, KnownRequests
<1>3. ReadyToBootLatched'
  BY DEF ReadyToBootLatched, TypeOK, Handling
<1>4. HeldOnce'
  BY DEF HeldOnce, TypeOK, ReadyToBootLatched, Booting, Holding, Handling, Once, Continuous, Requests, KnownRequests
<1>5. KnownRequests'
  BY BootAssumption DEF KnownRequests, TypeOK, Requests, Once, Handling
<1> QED BY <1>1, <1>2, <1>3, <1>4, <1>5

LEMMA RpiRedfishConfigHandlerInitInv == ASSUME IInv, RpiRedfishConfigHandlerInit PROVE IInv'
<1> USE DEF IInv, RpiRedfishConfigHandlerInit, nvVars, askVars, history
<1>1. TypeOK'
  BY BootAssumption DEF TypeOK, Requests, KnownRequests, Handling
<1>2. OnceAtMostOnce'
  BY DEF OnceAtMostOnce, HeldOnce, TypeOK, ReadyToBootLatched, Booting, Holding, Handling, Once, Requests, KnownRequests
<1>3. ReadyToBootLatched'
  BY DEF ReadyToBootLatched, TypeOK, Handling
<1>4. HeldOnce'
  BY DEF HeldOnce, TypeOK, ReadyToBootLatched, Booting, Holding, Handling, Once, Continuous, Requests, KnownRequests
<1>5. KnownRequests'
  BY BootAssumption DEF KnownRequests, TypeOK, Requests, Once, Handling
<1> QED BY <1>1, <1>2, <1>3, <1>4, <1>5

\* The exchange learns the request the BMC holds.
LEMMA HandleBootOverrideInv == ASSUME IInv, NEW answers \in BOOLEAN, HandleBootOverride(answers) PROVE IInv'
<1> USE DEF IInv, HandleBootOverride, NotHandled, AlreadyApplied, nvVars, latches, askVars, history
<1>1. TypeOK'
  BY BootAssumption DEF TypeOK, Requests, KnownRequests, Handling
<1>2. OnceAtMostOnce'
  BY DEF OnceAtMostOnce, HeldOnce, TypeOK, ReadyToBootLatched, Booting, Holding, Handling, Once, Requests, KnownRequests
<1>3. ReadyToBootLatched'
  BY DEF ReadyToBootLatched, TypeOK, Handling
<1>4. HeldOnce'
  BY DEF HeldOnce, TypeOK, ReadyToBootLatched, Booting, Holding, Handling, Once, Continuous, Requests, KnownRequests
<1>5. KnownRequests'
  BY BootAssumption DEF KnownRequests, TypeOK, Requests, Once, Handling
<1> QED BY <1>1, <1>2, <1>3, <1>4, <1>5

LEMMA StandAsideInv == ASSUME IInv, NEW fails \in BOOLEAN, StandAside(fails) PROVE IInv'
<1> USE DEF IInv, StandAside, Fault, latches, askVars
<1>1. TypeOK'
  BY BootAssumption DEF TypeOK, Requests, KnownRequests, Handling
<1>2. OnceAtMostOnce'
  BY DEF OnceAtMostOnce, HeldOnce, TypeOK, ReadyToBootLatched, Booting, Holding, Handling, Once, Requests, KnownRequests
<1>3. ReadyToBootLatched'
  BY DEF ReadyToBootLatched, TypeOK, Handling
<1>4. HeldOnce'
  BY DEF HeldOnce, TypeOK, ReadyToBootLatched, Booting, Holding, Handling, Once, Continuous, Requests, KnownRequests
<1>5. KnownRequests'
  BY BootAssumption DEF KnownRequests, TypeOK, Requests, Once, Handling
<1> QED BY <1>1, <1>2, <1>3, <1>4, <1>5

LEMMA FindBootOverrideOptionInv == ASSUME IInv, NEW found \in BOOLEAN, FindBootOverrideOption(found) PROVE IInv'
<1> USE DEF IInv, FindBootOverrideOption, nvVars, latches, askVars, history
<1>1. TypeOK'
  BY BootAssumption DEF TypeOK, Requests, KnownRequests, Handling
<1>2. OnceAtMostOnce'
  BY DEF OnceAtMostOnce, HeldOnce, TypeOK, ReadyToBootLatched, Booting, Holding, Handling, Once, Requests, KnownRequests
<1>3. ReadyToBootLatched'
  BY DEF ReadyToBootLatched, TypeOK, Handling
<1>4. HeldOnce'
  BY DEF HeldOnce, TypeOK, ReadyToBootLatched, Booting, Holding, Handling, Once, Continuous, Requests, KnownRequests
<1>5. KnownRequests'
  BY BootAssumption DEF KnownRequests, TypeOK, Requests, Once, Handling
<1> QED BY <1>1, <1>2, <1>3, <1>4, <1>5

LEMMA WriteMarkInv == ASSUME IInv, NEW fails \in BOOLEAN, WriteMark(fails) PROVE IInv'
<1> USE DEF IInv, WriteMark, Fault, latches, askVars
<1>1. TypeOK'
  BY BootAssumption DEF TypeOK, Requests, KnownRequests, Handling
<1>2. OnceAtMostOnce'
  BY DEF OnceAtMostOnce, HeldOnce, TypeOK, ReadyToBootLatched, Booting, Holding, Handling, Once, Requests, KnownRequests
<1>3. ReadyToBootLatched'
  BY DEF ReadyToBootLatched, TypeOK, Handling
<1>4. HeldOnce'
  BY DEF HeldOnce, TypeOK, ReadyToBootLatched, Booting, Holding, Handling, Once, Continuous, Requests, KnownRequests
<1>5. KnownRequests'
  BY BootAssumption DEF KnownRequests, TypeOK, Requests, Once, Handling
<1> QED BY <1>1, <1>2, <1>3, <1>4, <1>5

\* The BMC forgets the request, the exchange keeps it.
LEMMA AcknowledgeInv == ASSUME IInv, NEW arrives \in BOOLEAN, NEW answered \in BOOLEAN, Acknowledge(arrives, answered) PROVE IInv'
<1> USE DEF IInv, Acknowledge, AfterAck, Fault, nvVars, latches, askVars
<1>1. TypeOK'
  BY BootAssumption DEF TypeOK, Requests, KnownRequests, Handling
<1>2. OnceAtMostOnce'
  BY DEF OnceAtMostOnce, HeldOnce, TypeOK, ReadyToBootLatched, Booting, Holding, Handling, Once, Requests, KnownRequests
<1>3. ReadyToBootLatched'
  BY DEF ReadyToBootLatched, TypeOK, Handling
<1>4. HeldOnce'
  BY DEF HeldOnce, TypeOK, ReadyToBootLatched, Booting, Holding, Handling, Once, Continuous, Requests, KnownRequests
<1>5. KnownRequests'
  BY BootAssumption DEF KnownRequests, TypeOK, Requests, Once, Handling
<1> QED BY <1>1, <1>2, <1>3, <1>4, <1>5

\* The request moves from the exchange to BootNext.
LEMMA ApplyMatchedOptionInv == ASSUME IInv, NEW fails \in BOOLEAN, ApplyMatchedOption(fails) PROVE IInv'
<1> USE DEF IInv, ApplyMatchedOption, Fault, latches, askVars
<1>1. TypeOK'
  BY BootAssumption DEF TypeOK, Requests, KnownRequests, Handling
<1>2. OnceAtMostOnce'
  BY DEF OnceAtMostOnce, HeldOnce, TypeOK, ReadyToBootLatched, Booting, Holding, Handling, Once, Requests, KnownRequests
<1>3. ReadyToBootLatched'
  BY DEF ReadyToBootLatched, TypeOK, Handling
<1>4. HeldOnce'
  BY DEF HeldOnce, TypeOK, ReadyToBootLatched, Booting, Holding, Handling, Once, Continuous, Requests, KnownRequests
<1>5. KnownRequests'
  BY BootAssumption DEF KnownRequests, TypeOK, Requests, Once, Handling
<1> QED BY <1>1, <1>2, <1>3, <1>4, <1>5

LEMMA SignalSyncSettledInv == ASSUME IInv, SignalSyncSettled PROVE IInv'
<1> USE DEF IInv, SignalSyncSettled, nvVars, askVars, history
<1>1. TypeOK'
  BY BootAssumption DEF TypeOK, Requests, KnownRequests, Handling
<1>2. OnceAtMostOnce'
  BY DEF OnceAtMostOnce, HeldOnce, TypeOK, ReadyToBootLatched, Booting, Holding, Handling, Once, Requests, KnownRequests
<1>3. ReadyToBootLatched'
  BY DEF ReadyToBootLatched, TypeOK, Handling
<1>4. HeldOnce'
  BY DEF HeldOnce, TypeOK, ReadyToBootLatched, Booting, Holding, Handling, Once, Continuous, Requests, KnownRequests
<1>5. KnownRequests'
  BY BootAssumption DEF KnownRequests, TypeOK, Requests, Once, Handling
<1> QED BY <1>1, <1>2, <1>3, <1>4, <1>5

-----------------------------------------------------------------------------
\* IInv is an invariant of the exchange, across boots, faults and power cuts.
THEOREM ExchangeInvariant == Spec => []IInv
<1>1. Init => IInv
  <2> SUFFICES ASSUME Init PROVE IInv
    OBVIOUS
  <2>1. asked = 0 /\ bmc = 0 /\ bootNext = 0 /\ cached = 0 /\ seen = 0 /\ faults = 0
        /\ \A r \in Requests : launches[r] = 0 /\ kind[r] = "none"
    BY DEF Init
  <2>2. launches \in [Requests -> Nat] /\ kind \in [Requests -> {"none", "Once", "Continuous"}]
    BY DEF Init
  <2>3. 0 \in 0 .. MaxRequests /\ 0 \in 0 .. MaxFaults
    BY BootAssumption
  <2>4. TypeOK
    BY <2>1, <2>2, <2>3, Zenon DEF Init, TypeOK
  <2>5. OnceAtMostOnce /\ KnownRequests
    BY <2>1 DEF Init, OnceAtMostOnce, KnownRequests, Handling
  <2>6. ReadyToBootLatched /\ HeldOnce
    BY <2>1 DEF Init, ReadyToBootLatched, HeldOnce, Once, Handling
  <2> QED BY <2>4, <2>5, <2>6 DEF IInv
<1>2. IInv /\ [Next]_vars => IInv'
  <2> SUFFICES ASSUME IInv, [Next]_vars PROVE IInv'
    OBVIOUS
  <2>1. CASE Operator
    BY <2>1, StageInv, OperatorClearInv DEF Operator
  <2>2. CASE Boot
    BY <2>2, BdsEntryInv, WaitForRedfishSyncSettledInv, OnReadyToBootInv, LaunchInv DEF Boot
  <2>3. CASE OsReset \/ PowerCut \/ RpiRedfishConfigHandlerInit
    BY <2>3, OsResetInv, PowerCutInv, RpiRedfishConfigHandlerInitInv
  <2>4. CASE Sync
    BY <2>4, HandleBootOverrideInv, StandAsideInv, FindBootOverrideOptionInv, WriteMarkInv,
       AcknowledgeInv, ApplyMatchedOptionInv, SignalSyncSettledInv DEF Sync
  <2>5. CASE UNCHANGED vars
    BY <2>5
    DEF vars, nvVars, latches, askVars, history, IInv, TypeOK, OnceAtMostOnce,
        ReadyToBootLatched, HeldOnce, KnownRequests, Booting, Holding, Handling, Once
  <2> QED BY <2>1, <2>2, <2>3, <2>4, <2>5 DEF Next
<1> QED BY <1>1, <1>2, PTL DEF Spec

\* The variables keep their types.
THEOREM TypeCorrect == Spec => []TypeOK
  BY ExchangeInvariant, PTL DEF IInv

\* A Once request is launched at most once, for any number of requests,
\* faults and boots.
THEOREM GenuinelyOneShot == Spec => []OnceAtMostOnce
  BY ExchangeInvariant, PTL DEF IInv

\* Past ReadyToBoot the exchange neither resets the machine nor writes a
\* variable nor takes a request.
THEOREM LoaderIsLeftAlone == Spec => NoResetUnderLoader
<1> DEFINE Step == mReadyToBoot /\ pc # "idle" /\ ~PowerCut =>
                     /\ phase' = phase /\ nvVars' = nvVars
                     /\ bmc' = 0 => bmc = 0 \/ OperatorClear
<1>1. IInv /\ [Next]_vars => Step
  <2> SUFFICES ASSUME IInv, [Next]_vars, mReadyToBoot, pc # "idle", ~PowerCut
               PROVE  /\ phase' = phase /\ nvVars' = nvVars
                      /\ bmc' = 0 => bmc = 0 \/ OperatorClear
    OBVIOUS
  <2>1. phase = "ready" /\ ~Handling
    BY DEF IInv, TypeOK, ReadyToBootLatched
  <2>2. pc \in {"read", "settle"}
    BY <2>1 DEF Handling, IInv, TypeOK
  <2>3. CASE Operator
    BY <2>3 DEF Operator, Stage, OperatorClear, nvVars, IInv, TypeOK
  <2>4. CASE Boot \/ OsReset
    BY <2>1, <2>2, <2>4 DEF Boot, BdsEntry, WaitForRedfishSyncSettled, OnReadyToBoot, Launch, OsReset
  <2>5. CASE RpiRedfishConfigHandlerInit
    BY <2>2, <2>5 DEF RpiRedfishConfigHandlerInit
  <2>6. CASE Sync
    BY <2>2, <2>6 DEF Sync, HandleBootOverride, NotHandled, AlreadyApplied, FindBootOverrideOption, Acknowledge, AfterAck,
       StandAside, WriteMark, ApplyMatchedOption, SignalSyncSettled, nvVars
  <2>7. CASE UNCHANGED vars
    BY <2>7 DEF vars, nvVars
  <2> QED BY <2>3, <2>4, <2>5, <2>6, <2>7 DEF Next
<1> QED BY <1>1, ExchangeInvariant, PTL DEF Spec, NoResetUnderLoader

-----------------------------------------------------------------------------
\* The BMC's request is the latest, and what the exchange handles is later
\* than what BootNext names.
LEMMA LatestReadStep == ASSUME IInv, LatestRead, [Next]_vars PROVE LatestRead'
<1> USE DEF IInv, LatestRead, nvVars, latches, askVars, history
<1>1. ASSUME NEW k \in {"Once", "Continuous"}, Stage(k) PROVE LatestRead'
  BY <1>1 DEF Stage, TypeOK, KnownRequests, Handling, Once, Requests
<1>2. CASE OperatorClear \/ OsReset
  BY <1>2 DEF OperatorClear, OsReset, Handling, Once
<1>3. CASE Boot
  BY <1>3 DEF Boot, BdsEntry, WaitForRedfishSyncSettled, OnReadyToBoot, Launch, Handling, Once,
     TypeOK, ReadyToBootLatched, Requests
<1>4. CASE PowerCut \/ RpiRedfishConfigHandlerInit
  BY <1>4 DEF PowerCut, RpiRedfishConfigHandlerInit, Handling, Once
<1>5. CASE Sync
  <2>1. ASSUME NEW answers \in BOOLEAN, HandleBootOverride(answers) PROVE LatestRead'
    <3>1. CASE pc' = "settle"
      BY <2>1, <3>1 DEF HandleBootOverride, Handling, Once
    <3>2. CASE pc' # "settle"
      <4>1. bmc # 0 /\ seen' = asked /\ bootNext' = bootNext /\ bootNext <= asked /\ kind' = kind
            /\ pc' \in {"standAside", "find"} /\ UNCHANGED <<bmc, asked>>
        BY <2>1, <3>2 DEF HandleBootOverride, NotHandled, KnownRequests
      <4>2. Once(bootNext) => bootNext # bmc
        BY DEF HeldOnce, Booting, Once
      <4>3. bootNext \in Nat /\ asked \in Nat
        BY BootAssumption DEF TypeOK
      <4>4. Once(bootNext)' => seen' > bootNext'
        BY <4>1, <4>2, <4>3 DEF Once
      <4> QED BY <4>1, <4>4
    <3> QED BY <3>1, <3>2
  <2>2. ASSUME NEW found \in BOOLEAN, FindBootOverrideOption(found) PROVE LatestRead'
    <3>1. seen \in Requests /\ seen <= asked
      BY <2>2 DEF FindBootOverrideOption, KnownRequests, Handling, TypeOK, Requests
    <3>2. Once(seen) \/ Continuous(seen)
      BY <3>1 DEF Once, Continuous, TypeOK
    <3> QED BY <2>2, <3>2 DEF FindBootOverrideOption, Handling, Once, Continuous
  <2>3. ASSUME NEW arrives \in BOOLEAN, NEW answered \in BOOLEAN, Acknowledge(arrives, answered)
        PROVE  LatestRead'
    BY <2>3 DEF Acknowledge, AfterAck, Handling, Once
  <2>4. ASSUME NEW fails \in BOOLEAN, StandAside(fails) \/ WriteMark(fails) \/ ApplyMatchedOption(fails)
        PROVE  LatestRead'
    BY <2>4 DEF StandAside, WriteMark, ApplyMatchedOption, Handling, Once
  <2>5. CASE SignalSyncSettled
    BY <2>5 DEF SignalSyncSettled, Handling, Once
  <2> QED BY <1>5, <2>1, <2>2, <2>3, <2>4, <2>5 DEF Sync
<1>6. CASE UNCHANGED vars
  BY <1>6 DEF vars, Handling, Once
<1> QED BY <1>1, <1>2, <1>3, <1>4, <1>5, <1>6 DEF Next, Operator

\* A request taken moves from the exchange to BootNext to the cached option
\* and is launched, or gives way to a later one.
LEMMA TakenStep == ASSUME IInv, LatestRead, TakenIsPending, [Next]_vars PROVE TakenIsPending'
<1> USE DEF nvVars, latches, askVars, history
<1>1. TypeOK /\ \A r \in taken : Once(r) /\ r \in Nat /\ launches[r] \in Nat
  BY DEF IInv, TypeOK, TakenIsPending, Once, Requests
<1>2. ASSUME NEW k \in {"Once", "Continuous"}, Stage(k) PROVE TakenIsPending'
  <2>1. \A r \in taken : r # asked'
    BY <1>1, <1>2 DEF Stage, IInv, KnownRequests, Once, TypeOK
  <2> QED BY <1>1, <1>2, <2>1 DEF Stage, TakenIsPending, Pending, Once, TypeOK, Requests
<1>3. CASE OperatorClear \/ OsReset \/ RpiRedfishConfigHandlerInit \/ SignalSyncSettled
  BY <1>3 DEF OperatorClear, OsReset, RpiRedfishConfigHandlerInit, SignalSyncSettled, TakenIsPending, Pending, Once
<1>4. CASE BdsEntry \/ \E expired \in BOOLEAN : WaitForRedfishSyncSettled(expired)
  BY <1>4 DEF BdsEntry, WaitForRedfishSyncSettled, TakenIsPending, Pending, Once
<1>5. CASE OnReadyToBoot
  BY <1>5 DEF OnReadyToBoot, TakenIsPending, Pending, Once, IInv, ReadyToBootLatched
<1>6. CASE Launch
  <2> SUFFICES ASSUME NEW r \in taken PROVE Once(r)' /\ (faults' = 0 => Pending(r)')
    BY <1>6 DEF Launch, TakenIsPending
  <2>1. Once(r) /\ Once(r)'
    BY <1>1, <1>6 DEF Launch, Once
  <2>2. faults = 0 => Pending(r)
    BY DEF TakenIsPending
  <2>3. CASE cached = r
    <3>1. launches[r] = 0
      BY <1>1, <1>6, <2>1, <2>3 DEF Launch, IInv, HeldOnce, Booting, Once
    <3>2. launches'[r] = 1
      BY <1>1, <1>6, <2>1, <2>3, <3>1 DEF Launch, TypeOK, Once
    <3> QED BY <2>1, <3>2 DEF Pending
  <2>4. CASE cached # r
    <3>1. launches'[r] = launches[r]
      BY <1>1, <1>6, <2>1, <2>4 DEF Launch, TypeOK, Once
    <3> QED BY <1>6, <2>1, <2>2, <2>4, <3>1 DEF Launch, Pending
  <2> QED BY <2>3, <2>4
<1>7. CASE PowerCut
  BY <1>1, <1>7 DEF PowerCut, Fault, TypeOK, TakenIsPending, Once
<1>8. ASSUME NEW answers \in BOOLEAN, HandleBootOverride(answers) PROVE TakenIsPending'
  BY <1>8 DEF HandleBootOverride, TakenIsPending, Pending, Once
<1>9. ASSUME NEW found \in BOOLEAN, FindBootOverrideOption(found) PROVE TakenIsPending'
  BY <1>9 DEF FindBootOverrideOption, TakenIsPending, Pending, Once
<1>10. ASSUME NEW arrives \in BOOLEAN, NEW answered \in BOOLEAN, Acknowledge(arrives, answered)
       PROVE  TakenIsPending'
  <2>1. pc = "ack" /\ Once(seen) /\ faults' >= faults /\ faults \in Nat /\ faults' \in Nat
    BY <1>1, <1>10 DEF Acknowledge, Fault, LatestRead, TypeOK
  <2>2. taken' \subseteq taken \cup {seen} /\ (seen \in taken' \ taken => pc' = "apply")
        /\ UNCHANGED <<kind, seen, launches, bootNext, phase, cached, staged>>
    BY <1>10 DEF Acknowledge, AfterAck
  <2>3. ASSUME NEW r \in taken PROVE Once(r)' /\ (faults' = 0 => Pending(r)')
    BY <2>1, <2>2, <2>3 DEF TakenIsPending, Pending, Once
  <2> QED BY <2>1, <2>2, <2>3 DEF TakenIsPending, Pending, Once
<1>11. ASSUME NEW fails \in BOOLEAN, StandAside(fails) \/ WriteMark(fails) PROVE TakenIsPending'
  <2>1. faults' = 0 => faults = 0
    BY <1>1, <1>11 DEF StandAside, WriteMark, Fault, TypeOK
  <2> QED BY <1>11, <2>1 DEF StandAside, WriteMark, TakenIsPending, Pending, Once
<1>12. ASSUME NEW fails \in BOOLEAN, ApplyMatchedOption(fails) PROVE TakenIsPending'
  <2> SUFFICES ASSUME NEW r \in taken PROVE Once(r)' /\ (faults' = 0 => Pending(r)')
    BY <1>12 DEF ApplyMatchedOption, TakenIsPending
  <2>1. Once(r) /\ Once(r)' /\ r \in Nat /\ seen \in Nat /\ seen # 0
    BY <1>1, <1>12 DEF ApplyMatchedOption, Once, IInv, TypeOK, KnownRequests, Handling
  <2>2. CASE fails
    BY <1>1, <1>12, <2>1, <2>2 DEF ApplyMatchedOption, Fault, TypeOK
  <2>3. CASE ~fails
    <3>1. bootNext' = seen /\ staged' = staged \cup {seen} /\ launches' = launches /\ faults' = faults
          /\ pc = "apply" /\ phase \notin {"ready"}
      BY <1>12, <2>3 DEF ApplyMatchedOption, Fault, IInv, ReadyToBootLatched, Handling
    <3>2. bootNext = r => seen > r
      BY <2>1, <3>1 DEF LatestRead, Handling
    <3>3. faults = 0 => Pending(r)
      BY DEF TakenIsPending
    <3> QED BY <2>1, <3>1, <3>2, <3>3 DEF Pending
  <2> QED BY <2>2, <2>3
<1>13. CASE UNCHANGED vars
  BY <1>13 DEF vars, TakenIsPending, Pending, Once
<1> QED BY <1>2, <1>3, <1>4, <1>5, <1>6, <1>7, <1>8, <1>9, <1>10, <1>11, <1>12, <1>13
        DEF Next, Operator, Boot, Sync

\* Without a fault no request is lost on its way: a Once request the BMC was
\* told is taken is launched, about to be, or overtaken by a later request.
THEOREM NoRequestLost == Spec => []TakenIsLaunched
<1>1. Init => LatestRead /\ TakenIsPending
  BY BootAssumption DEF Init, LatestRead, TakenIsPending, Handling, Requests
<1>2. IInv /\ LatestRead /\ TakenIsPending /\ [Next]_vars => (LatestRead /\ TakenIsPending)'
  BY LatestReadStep, TakenStep
<1>3. TakenIsPending => TakenIsLaunched
  BY DEF TakenIsPending, Pending, TakenIsLaunched
<1> QED BY <1>1, <1>2, <1>3, ExchangeInvariant, PTL DEF Spec

-----------------------------------------------------------------------------
(* The fan loop.                                                           *)

Vars == PolicyVars \cup {NoVar}

\* The trips of a usable policy are integers and ascend.
LEMMA TripsAscend ==
  ASSUME NEW v \in Vars
  PROVE  /\ \A l \in 1 .. 4 : TripMilliC(ReadPolicy(v), l) \in Int
         /\ \A l, k \in 1 .. 4 :
              l < k => TripMilliC(ReadPolicy(v), l) < TripMilliC(ReadPolicy(v), k)
<1> DEFINE p == ReadPolicy(v)
<1>1. CASE p.Mode # CUSTOM
  BY <1>1 DEF TripMilliC, mFanLevels
<1>2. CASE p.Mode = CUSTOM
  <2>1. v \in PolicyVars /\ v.Mode = CUSTOM /\ Ascending(v.TripC)
    <3>1. ~(v = NoVar \/ v.Mode > CUSTOM \/ (v.Mode = CUSTOM /\ ~Ascending(v.TripC)))
      BY <1>2 DEF ReadPolicy, Sanitized, AUTO, CUSTOM
    <3>2. v \in PolicyVars /\ v.Mode \in 0 .. 255 /\ v.FixedLevel \in 0 .. 255
      BY <3>1, CoolerAssumption DEF Vars
    <3>3. p.Mode = v.Mode
      BY <3>1, <3>2, CoolerAssumption DEF ReadPolicy, Sanitized
    <3> QED BY <1>2, <3>1, <3>2, <3>3
  <2>2. v.TripC \in [1 .. 4 -> 0 .. 255]
    BY <2>1, CoolerAssumption DEF ByteTuples
  <2>3. p.TripC = v.TripC
    BY <2>1, CoolerAssumption DEF ReadPolicy, Sanitized, CUSTOM
  <2>4. \A l \in 1 .. 4 : TripMilliC(p, l) = v.TripC[l] * 1000 /\ v.TripC[l] \in Int
    BY <1>2, <2>2, <2>3 DEF TripMilliC
  <2>5. \A l, k \in 1 .. 4 : l < k => v.TripC[l] < v.TripC[k]
    <3>1. v.TripC[1] < v.TripC[2] /\ v.TripC[2] < v.TripC[3] /\ v.TripC[3] < v.TripC[4]
      BY <2>1 DEF Ascending
    <3>2. v.TripC[1] \in Int /\ v.TripC[2] \in Int /\ v.TripC[3] \in Int /\ v.TripC[4] \in Int
      BY <2>2
    <3>3. \A l \in 1 .. 4 : l = 1 \/ l = 2 \/ l = 3 \/ l = 4
      OBVIOUS
    <3> QED BY <3>1, <3>2, <3>3
  <2> HIDE DEF p
  <2>6. \A l, k \in 1 .. 4 : l < k => TripMilliC(p, l) < TripMilliC(p, k)
    BY <2>4, <2>5
  <2> QED BY <2>4, <2>6 DEF p
<1> QED BY <1>1, <1>2

\* A FIXED policy pins a level that exists.
LEMMA FixedLevelExists ==
  ASSUME NEW v \in Vars
  PROVE  ReadPolicy(v).FixedLevel \in Levels
  BY CoolerAssumption DEF Vars, ReadPolicy, Sanitized, Levels, LevelMax, LevelSafe

\* Demand is the highest level whose trip has been reached.
LEMMA DemandIsHighest ==
  /\ Demand \in Levels
  /\ Demand > 0 => AvsReadMilliCelsius >= TripMilliC(mPolicy, Demand)
  /\ \A l \in 1 .. LevelMax : AvsReadMilliCelsius >= TripMilliC(mPolicy, l) => l <= Demand
<1> DEFINE reached == {l \in 1 .. LevelMax : AvsReadMilliCelsius >= TripMilliC(mPolicy, l)}
           Top(l) == \A k \in reached : k <= l
<1>1. CASE reached = {}
  BY <1>1 DEF Demand, Levels, LevelMax
<1>2. CASE reached # {}
  <2>1. \E l \in reached : Top(l)
    <3>1. reached \subseteq 1 .. 4
      BY DEF LevelMax
    <3> HIDE DEF reached
    <3>2. CASE 4 \in reached
      BY <3>1, <3>2
    <3>3. CASE 4 \notin reached /\ 3 \in reached
      BY <3>1, <3>3
    <3>4. CASE 4 \notin reached /\ 3 \notin reached /\ 2 \in reached
      BY <3>1, <3>4
    <3>5. CASE 4 \notin reached /\ 3 \notin reached /\ 2 \notin reached
      <4>1. PICK l \in reached : TRUE
        BY <1>2
      <4>2. l = 1 /\ \A k \in reached : k = 1
        BY <3>1, <3>5, <4>1
      <4> QED BY <4>1, <4>2
    <3> QED BY <3>2, <3>3, <3>4, <3>5
  <2>2. Demand = CHOOSE l \in reached : Top(l)
    BY <1>2 DEF Demand
  <2>3. Demand \in reached /\ Top(Demand)
    BY <2>1, <2>2
  <2> QED BY <2>3 DEF Levels, LevelMax
<1> QED BY <1>1, <1>2

\* The loop returns a level, never below Demand, at most one down.
LEMMA LoopBounds ==
  ASSUME CoolerTypeOK
  PROVE  /\ LoopLevel \in Levels
         /\ LoopLevel >= Demand /\ LoopLevel >= mLevel - 1
         /\ LoopLevel > mLevel => LoopLevel = Demand
         /\ LoopLevel < mLevel =>
              mLevel \in 1 .. LevelMax /\ AvsReadMilliCelsius < TripMilliC(mPolicy, mLevel) - HystMilliC
<1>1. Demand \in Levels /\ mLevel \in -1 .. LevelMax
  BY DemandIsHighest DEF CoolerTypeOK
<1>2. AvsReadMilliCelsius \in Int /\ policyVar \in Vars
  BY CoolerAssumption DEF CoolerTypeOK, AvsReadMilliCelsius, Vars
<1>3. mLevel \in 1 .. LevelMax => TripMilliC(mPolicy, mLevel) \in Int
  BY <1>2, TripsAscend DEF mPolicy, LevelMax
<1> QED BY <1>1, <1>2, <1>3 DEF LoopLevel, Levels, LevelMax, HystMilliC

-----------------------------------------------------------------------------
LEMMA TickInv == ASSUME CoolerIInv, FanPollTick PROVE CoolerIInv'
<1> USE DEF CoolerIInv
<1>1. policyVar \in Vars /\ mOverride \in -1 .. LevelMax /\ mLevel \in -1 .. LevelMax
  BY DEF CoolerTypeOK, Vars
<1>2. TickLevel \in Levels
  BY <1>1, LoopBounds, FixedLevelExists DEF TickLevel, mPolicy, Levels, LevelMax, LevelSafe
<1>3. Looping => TickLevel = LoopLevel
  BY <1>1 DEF Looping, TickLevel, LevelMax
<1>4. CoolerTypeOK' /\ LeftWhenCool'
  <2>1. CASE Looping /\ mLevel' < mLevel
    <3>1. left' = [level |-> mLevel, milliC |-> AvsReadMilliCelsius, policy |-> policyVar]
      BY <2>1 DEF FanPollTick
    <3>2. mLevel \in 1 .. LevelMax
          /\ AvsReadMilliCelsius < TripMilliC(ReadPolicy(policyVar), mLevel) - HystMilliC
      BY <1>3, <2>1, LoopBounds DEF FanPollTick, mPolicy
    <3>3. AvsReadMilliCelsius \in Int
      BY CoolerAssumption DEF CoolerTypeOK, AvsReadMilliCelsius
    <3>4. CoolerTypeOK'
      BY <1>1, <1>2, <3>1, <3>2, <3>3 DEF CoolerTypeOK, FanPollTick, Vars, Levels, LevelMax
    <3>5. LeftWhenCool'
      BY <3>1, <3>2 DEF LeftWhenCool
    <3> QED BY <3>4, <3>5
  <2>2. CASE ~(Looping /\ mLevel' < mLevel)
    <3>1. left' = left
      BY <2>2 DEF FanPollTick
    <3>2. CoolerTypeOK'
      BY <1>1, <1>2, <3>1 DEF CoolerTypeOK, FanPollTick, Levels, LevelMax
    <3>3. LeftWhenCool'
      BY <3>1 DEF LeftWhenCool
    <3> QED BY <3>2, <3>3
  <2> QED BY <2>1, <2>2
<1>5. CommandedOnceUp' /\ OverrideHolds' /\ AirflowForOs'
  BY <1>1, <1>2
  DEF CommandedOnceUp, OverrideHolds, AirflowForOs, FanPollTick, TickLevel, Levels, LevelMax
<1> QED BY <1>4, <1>5

\* A step that leaves the commanded state alone.
LEMMA SurroundingsInv ==
  ASSUME CoolerIInv, CoolerTypeOK',
         UNCHANGED <<mRp1Base, mLevel, mOverride, polling, left>>, rp1 => rp1'
  PROVE  CoolerIInv'
  BY DEF CoolerIInv, CommandedOnceUp, OverrideHolds, AirflowForOs, LeftWhenCool

LEMMA OverrideInv ==
  ASSUME CoolerIInv, NEW served \in SUBSET Int, PollFanOverride(served)
  PROVE  CoolerIInv'
<1> USE DEF CoolerIInv
<1>1. left' = left /\ polling /\ polling' /\ mRp1Base' = mRp1Base /\ rp1' = rp1
      /\ policyVar' = policyVar /\ raw' = raw /\ valid' = valid
  <2>1. polling /\ (FanClearOverride \/ \E level \in Int : FanSetOverride(level))
    BY DEF PollFanOverride
  <2>2. CASE FanClearOverride
    BY <2>1, <2>2 DEF FanClearOverride
  <2>3. ASSUME NEW level \in Int, FanSetOverride(level)
        PROVE  UNCHANGED <<rp1, mRp1Base, policyVar, raw, valid, polling, left>>
    BY <2>3 DEF FanSetOverride
  <2> QED BY <2>1, <2>2, <2>3
<1>2. CASE FanClearOverride
  BY <1>1, <1>2
  DEF FanClearOverride, CoolerTypeOK, CommandedOnceUp, OverrideHolds, AirflowForOs, LeftWhenCool,
      LevelMax
<1>3. ASSUME NEW level \in served \cap 0 .. 255, FanSetOverride(level) PROVE CoolerIInv'
  BY <1>1, <1>3
  DEF FanSetOverride, CoolerTypeOK, CommandedOnceUp, OverrideHolds, AirflowForOs, LeftWhenCool,
      LevelMax
<1> QED BY <1>2, <1>3 DEF PollFanOverride

LEMMA ExitInv == ASSUME CoolerIInv, FanOnExitBootServices PROVE CoolerIInv'
<1>1. left' = left /\ mLevel' \in -1 .. LevelMax /\ rp1' = rp1 /\ mRp1Base' = mRp1Base
      /\ mOverride' = mOverride /\ polling' = FALSE
  BY DEF CoolerIInv, FanOnExitBootServices, Floor, CoolerTypeOK, LevelMax
<1>2. CoolerTypeOK'
  BY <1>1 DEF CoolerIInv, FanOnExitBootServices, Floor, CoolerTypeOK
<1>3. LeftWhenCool'
  BY <1>1 DEF CoolerIInv, LeftWhenCool
<1>4. CommandedOnceUp' /\ OverrideHolds' /\ AirflowForOs'
  BY <1>1 DEF CoolerIInv, FanOnExitBootServices, Floor, CoolerTypeOK, CommandedOnceUp, OverrideHolds, AirflowForOs,
              LevelMax
<1> QED BY <1>2, <1>3, <1>4 DEF CoolerIInv

\* CoolerIInv is an invariant of the fan driver.
THEOREM CoolerInvariant == CoolerSpec => []CoolerIInv
<1>1. CoolerInit => CoolerIInv
  <2> SUFFICES ASSUME CoolerInit PROVE CoolerIInv
    OBVIOUS
  <2>1. left.level = 0 /\ left \in [level : Levels, milliC : Int, policy : PolicyVars \cup {NoVar}]
    BY DEF CoolerInit, Levels, LevelMax
  <2>2. CoolerTypeOK
    <3>1. mLevel \in -1 .. LevelMax /\ mOverride \in -1 .. LevelMax
      BY DEF CoolerInit, LevelMax
    <3> QED BY <2>1, <3>1, Zenon DEF CoolerInit, CoolerTypeOK
  <2>3. CommandedOnceUp /\ OverrideHolds /\ AirflowForOs /\ LeftWhenCool
    <3>1. mRp1Base = FALSE /\ polling = TRUE /\ mLevel = -1
      BY Zenon DEF CoolerInit
    <3>2. ~(mLevel >= 0) /\ ~(left.level > 0)
      BY <2>1, <3>1
    <3> QED BY <3>1, <3>2, Zenon DEF CommandedOnceUp, OverrideHolds, AirflowForOs, LeftWhenCool
  <2> QED BY <2>2, <2>3 DEF CoolerIInv
<1>2. CoolerIInv /\ [CoolerNext]_coolerVars => CoolerIInv'
  <2> SUFFICES ASSUME CoolerIInv, [CoolerNext]_coolerVars PROVE CoolerIInv'
    OBVIOUS
  <2>1. CASE FanPollTick
    BY <2>1, TickInv
  <2>2. ASSUME NEW level \in BmcLevels, PollFanOverride({level}) PROVE CoolerIInv'
    BY <2>2, OverrideInv, CoolerAssumption
  <2>3. CASE PollFanOverride({})
    BY <2>3, OverrideInv
  <2>4. CASE FanOnExitBootServices
    BY <2>4, ExitInv
  <2>5. CASE ConnectRp1
    BY <2>5, SurroundingsInv DEF ConnectRp1, CoolerIInv, CoolerTypeOK
  <2>6. ASSUME NEW r \in RawReadings, NEW v \in BOOLEAN, Sensor(r, v) PROVE CoolerIInv'
    BY <2>6, SurroundingsInv DEF Sensor, CoolerIInv, CoolerTypeOK
  <2>7. ASSUME NEW p \in PolicyVars \cup {NoVar}, WritePolicy(p) PROVE CoolerIInv'
    BY <2>7, SurroundingsInv DEF WritePolicy, CoolerIInv, CoolerTypeOK
  <2>8. CASE UNCHANGED coolerVars
    BY <2>8, SurroundingsInv DEF coolerVars, CoolerIInv, CoolerTypeOK
  <2> QED BY <2>1, <2>2, <2>3, <2>4, <2>5, <2>6, <2>7, <2>8 DEF CoolerNext
<1> QED BY <1>1, <1>2, PTL DEF CoolerSpec

\* The driver's variables keep their types.
THEOREM CoolerTypeCorrect == CoolerSpec => []CoolerTypeOK
  BY CoolerInvariant, PTL DEF CoolerIInv

\* While a level is pinned, it is the level that runs.
THEOREM PinnedRuns == CoolerSpec => []OverrideHolds
  BY CoolerInvariant, PTL DEF CoolerIInv

\* An operating system that drives no fan inherits airflow, whatever level or
\* override was in force at ExitBootServices.
THEOREM AirflowLeftOn == CoolerSpec => []AirflowForOs
  BY CoolerInvariant, PTL DEF CoolerIInv

\* The loop cools enough at every temperature, under every policy.
THEOREM LoopCoolsEnough == CoolerSpec => CoolsEnough
<1> DEFINE Step == FanPollTick /\ Looping =>
       /\ \A l \in 1 .. LevelMax : AvsReadMilliCelsius >= TripMilliC(mPolicy, l) => mLevel' >= l
       /\ mLevel' >= mLevel - 1
       /\ mLevel' > mLevel /\ mLevel' > 0 => AvsReadMilliCelsius >= TripMilliC(mPolicy, mLevel')
<1>1. CoolerIInv => Step
  <2> SUFFICES ASSUME CoolerIInv, FanPollTick, Looping PROVE Step
    OBVIOUS
  <2>1. CoolerTypeOK /\ mOverride \in -1 .. LevelMax /\ mLevel \in -1 .. LevelMax
    BY DEF CoolerIInv, CoolerTypeOK
  <2>2. mLevel' = LoopLevel
    BY <2>1 DEF FanPollTick, Looping, TickLevel, LevelMax
  <2>3. LoopLevel \in Levels /\ Demand \in Levels /\ LoopLevel >= Demand /\ LoopLevel >= mLevel - 1
        /\ (LoopLevel > mLevel => LoopLevel = Demand)
    BY <2>1, LoopBounds, DemandIsHighest
  <2>4. \A l \in 1 .. LevelMax : AvsReadMilliCelsius >= TripMilliC(mPolicy, l) => mLevel' >= l
    BY <2>2, <2>3, DemandIsHighest DEF Levels, LevelMax
  <2>5. mLevel' > mLevel /\ mLevel' > 0 => AvsReadMilliCelsius >= TripMilliC(mPolicy, mLevel')
    BY <2>2, <2>3, DemandIsHighest
  <2> QED BY <2>2, <2>3, <2>4, <2>5
<1>2. CoolerIInv => [Step]_coolerVars
  BY <1>1
<1> QED BY CoolerInvariant, <1>2, PTL DEF CoolsEnough

\* The loop never chatters, at any temperature, under any policy.
THEOREM LoopDoesNotChatter == CoolerSpec => NoChatter
<1> DEFINE Step == FanPollTick /\ Looping /\ left.policy = policyVar /\ left.level > 0
                   /\ mLevel < left.level /\ mLevel' >= left.level =>
                     AvsReadMilliCelsius > left.milliC + HystMilliC
<1>1. CoolerIInv => Step
  <2> SUFFICES ASSUME CoolerIInv, FanPollTick, Looping, left.policy = policyVar, left.level > 0,
                      mLevel < left.level, mLevel' >= left.level
               PROVE  AvsReadMilliCelsius > left.milliC + HystMilliC
    OBVIOUS
  <2> DEFINE Trip(l) == TripMilliC(mPolicy, l)
  <2>1. /\ CoolerTypeOK /\ LeftWhenCool /\ mOverride \in -1 .. LevelMax /\ mLevel \in -1 .. LevelMax
        /\ left.level \in 1 .. 4 /\ left.milliC \in Int /\ policyVar \in Vars
    BY DEF CoolerIInv, CoolerTypeOK, Levels, LevelMax, Vars
  <2>2. mLevel' = LoopLevel
    BY <2>1 DEF FanPollTick, Looping, TickLevel, LevelMax
  <2>3. LoopLevel = Demand /\ Demand \in 1 .. 4 /\ Demand >= left.level
    BY <2>1, <2>2, LoopBounds, DemandIsHighest DEF Levels, LevelMax
  <2>4. AvsReadMilliCelsius >= Trip(Demand) /\ AvsReadMilliCelsius \in Int
    BY <2>1, <2>3, DemandIsHighest, CoolerAssumption DEF CoolerTypeOK, AvsReadMilliCelsius
  <2>5. Trip(Demand) \in Int /\ Trip(left.level) \in Int
    BY <2>1, <2>3, TripsAscend DEF mPolicy
  <2>6. Trip(Demand) >= Trip(left.level)
    <3>1. CASE Demand = left.level
      BY <2>5, <3>1
    <3>2. CASE left.level < Demand
      <4>1. Trip(left.level) < Trip(Demand)
        BY <2>1, <2>3, <3>2, TripsAscend DEF mPolicy
      <4> QED BY <2>5, <4>1
    <3> QED BY <2>1, <2>3, <3>1, <3>2
  <2>7. left.milliC < Trip(left.level) - HystMilliC
    BY <2>1 DEF LeftWhenCool, mPolicy
  <2> HIDE DEF Trip
  <2> QED BY <2>1, <2>4, <2>5, <2>6, <2>7 DEF HystMilliC
<1>2. CoolerIInv => [Step]_coolerVars
  BY <1>1
<1> QED BY CoolerInvariant, <1>2, PTL DEF NoChatter

-----------------------------------------------------------------------------
(* The pin libraries.  A fact about a pin is read from an area of bits; no *)
(* two facts share a bit; a call changes the areas of its facts only.      *)

\* The calls the libraries take: functions of a field's width, pulls, levels
\* and directions, on pins that exist.
LegalCall(op, x, v) ==
  \/ op = "function" /\ x \in BcmPins /\ v \in 0 .. 15
  \/ op = "function" /\ x \in Rp1s /\ v \in 0 .. 31
  \/ op = "pull" /\ x \in BcmPins \cup Rp1s /\ v \in 0 .. 2
  \/ op = "data" /\ x \in BankPins \cup Rp1s /\ v \in BOOLEAN
  \/ op = "direction" /\ x \in BankPins \cup Rp1s /\ v \in {"input", "output"}

\* The bits that a fact is read from.
FieldArea(field, width) == IF Unused(field) THEN {} ELSE Bits(field[1], field[2] .. field[2] + width - 1)
Area(x, what) ==
  LET t == x[1]  p == x[2]
      south == t = "RP1"
  IN CASE what = "function" /\ south   -> Bits(Rp1Ctrl(p), 0 .. 4)
       [] what = "overrides" /\ south  -> Bits(Rp1Ctrl(p), 12 .. 15)
       [] what = "pull" /\ south       -> Bits(Rp1Pad(p), 2 .. 3)
       [] what = "enables" /\ south    -> Bits(Rp1Pad(p), 6 .. 7)
       [] what = "data" /\ south       -> {Rio(p, "OUT")}
       [] what = "direction" /\ south  -> {Rio(p, "OE")}
       [] what = "input" /\ south      -> {Rio(p, "IN")}
       [] what = "function" /\ ~south  -> FieldArea(PinField(t, p, "mux", 4), 4)
       [] what = "pull" /\ ~south      -> FieldArea(PinField(t, p, "ctl", 2), 2)
       [] what = "data" /\ ~south      -> {<<BankReg(t, p, "DATA"), p>>}
       [] what = "direction" /\ ~south -> {<<BankReg(t, p, "IODIR"), p>>}
Same(on, new, area) == \A b \in area : b \in on <=> b \in new

\* A number is made of its digits.
LEMMA NumberIs ==
  ASSUME NEW on, NEW reg, NEW first \in Int, NEW n \in {2, 4, 5}, NEW v \in 0 .. 2^n - 1,
         \A i \in 0 .. n - 1 : <<reg, first + i>> \in on <=> i \in Digits(v, n)
  PROVE  Number(on, reg, first, n) = v
<1> DEFINE D(i) == i < n /\ <<reg, first + i>> \in on
           digit(i) == IF D(i) THEN 2^i ELSE 0
<1>2. \A i \in n .. 4 : ~D(i)
  OBVIOUS
<1>3. Number(on, reg, first, n) = digit(0) + digit(1) + digit(2) + digit(3) + digit(4)
  BY DEF Number
<1>4. /\ D(0) <=> v % 2 = 1
      /\ D(1) <=> (v \div 2) % 2 = 1
      /\ n > 2 => (D(2) <=> (v \div 4) % 2 = 1)
      /\ n > 2 => (D(3) <=> (v \div 8) % 2 = 1)
      /\ n > 4 => (D(4) <=> (v \div 16) % 2 = 1)
      /\ n = 2 => ~D(2) /\ ~D(3)
      /\ n < 5 => ~D(4)
  <2>1. D(0) <=> (v \div 2^0) % 2 = 1
    <3>1. (<<reg, first + 0>> \in on <=> 0 \in Digits(v, n))
      OBVIOUS
    <3>2. (0 \in Digits(v, n) <=> (v \div 2^0) % 2 = 1)
      BY DEF Digits
    <3> QED BY <3>1, <3>2
  <2>2. D(1) <=> (v \div 2^1) % 2 = 1
    <3>1. (<<reg, first + 1>> \in on <=> 1 \in Digits(v, n))
      OBVIOUS
    <3>2. (1 \in Digits(v, n) <=> (v \div 2^1) % 2 = 1)
      BY DEF Digits
    <3> QED BY <3>1, <3>2
  <2>3. n > 2 => (D(2) <=> (v \div 2^2) % 2 = 1)
    <3>1. n > 2 => (<<reg, first + 2>> \in on <=> 2 \in Digits(v, n))
      OBVIOUS
    <3>2. n > 2 => (2 \in Digits(v, n) <=> (v \div 2^2) % 2 = 1)
      BY DEF Digits
    <3> QED BY <3>1, <3>2
  <2>4. n > 2 => (D(3) <=> (v \div 2^3) % 2 = 1)
    <3>1. n > 2 => (<<reg, first + 3>> \in on <=> 3 \in Digits(v, n))
      OBVIOUS
    <3>2. n > 2 => (3 \in Digits(v, n) <=> (v \div 2^3) % 2 = 1)
      BY DEF Digits
    <3> QED BY <3>1, <3>2
  <2>5. n > 4 => (D(4) <=> (v \div 2^4) % 2 = 1)
    <3>1. n > 4 => (<<reg, first + 4>> \in on <=> 4 \in Digits(v, n))
      OBVIOUS
    <3>2. n > 4 => (4 \in Digits(v, n) <=> (v \div 2^4) % 2 = 1)
      BY DEF Digits
    <3> QED BY <3>1, <3>2
  <2>6. (n = 2 => ~D(2) /\ ~D(3)) /\ (n < 5 => ~D(4))
    BY <1>2
  <2> HIDE DEF D
  <2>7. v \in Nat
    OBVIOUS
  <2> QED BY <2>1, <2>2, <2>3, <2>4, <2>5, <2>6, <2>7
<1> HIDE DEF D
<1>5. v \in 0 .. 31 /\ (n = 2 => v < 4) /\ (n = 4 => v < 16)
  <2>1. CASE n = 2
    BY <2>1
  <2>2. CASE n = 4
    BY <2>2
  <2>3. CASE n = 5
    BY <2>3
  <2> QED BY <2>1, <2>2, <2>3
<1>6. v = (v % 2) + 2 * ((v \div 2) % 2) + 4 * ((v \div 4) % 2) + 8 * ((v \div 8) % 2) + 16 * ((v \div 16) % 2)
  BY <1>5
<1>7. digit(0) = v % 2 /\ digit(1) = 2 * ((v \div 2) % 2)
  BY <1>4, <1>5
<1>8. digit(2) = 4 * ((v \div 4) % 2) /\ digit(3) = 8 * ((v \div 8) % 2)
  BY <1>4, <1>5
<1>9. digit(4) = 16 * ((v \div 16) % 2)
  BY <1>4, <1>5
<1> QED BY <1>3, <1>6, <1>7, <1>8, <1>9

LEMMA NumberSame ==
  ASSUME NEW on, NEW new, NEW reg, NEW first \in Int, NEW n \in Nat,
         Same(on, new, Bits(reg, first .. first + n - 1))
  PROVE  Number(on, reg, first, n) = Number(new, reg, first, n)
<1>1. \A i \in 0 .. 4 : i < n /\ <<reg, first + i>> \in on <=> i < n /\ <<reg, first + i>> \in new
  BY DEF Same, Bits
<1>2. \A i \in 0 .. 4 : (IF i < n /\ <<reg, first + i>> \in on THEN 2^i ELSE 0)
                        = (IF i < n /\ <<reg, first + i>> \in new THEN 2^i ELSE 0)
  BY <1>1
<1> QED BY <1>2 DEF Number

\* The numbers read of an RP1 pin.
LEMMA NumbersSame ==
  ASSUME NEW on, NEW new, NEW reg
  PROVE  /\ Same(on, new, Bits(reg, 0 .. 4)) => Number(on, reg, 0, 5) = Number(new, reg, 0, 5)
         /\ Same(on, new, Bits(reg, 12 .. 15)) => Number(on, reg, 12, 4) = Number(new, reg, 12, 4)
         /\ Same(on, new, Bits(reg, 2 .. 3)) => Number(on, reg, 2, 2) = Number(new, reg, 2, 2)
         /\ Same(on, new, Bits(reg, 6 .. 7)) => Number(on, reg, 6, 2) = Number(new, reg, 6, 2)
<1>1. ASSUME Same(on, new, Bits(reg, 0 .. 4))
      PROVE  Number(on, reg, 0, 5) = Number(new, reg, 0, 5)
  <2>1. \A i \in 0 .. 4 : i < 5 /\ <<reg, 0 + i>> \in on <=> i < 5 /\ <<reg, 0 + i>> \in new
    BY <1>1 DEF Same, Bits
  <2> QED BY <2>1 DEF Number
<1>2. ASSUME Same(on, new, Bits(reg, 12 .. 15))
      PROVE  Number(on, reg, 12, 4) = Number(new, reg, 12, 4)
  <2>1. \A i \in 0 .. 4 : i < 4 /\ <<reg, 12 + i>> \in on <=> i < 4 /\ <<reg, 12 + i>> \in new
    BY <1>2 DEF Same, Bits
  <2> QED BY <2>1 DEF Number
<1>3. ASSUME Same(on, new, Bits(reg, 2 .. 3))
      PROVE  Number(on, reg, 2, 2) = Number(new, reg, 2, 2)
  <2>1. \A i \in 0 .. 4 : i < 2 /\ <<reg, 2 + i>> \in on <=> i < 2 /\ <<reg, 2 + i>> \in new
    BY <1>3 DEF Same, Bits
  <2> QED BY <2>1 DEF Number
<1>4. ASSUME Same(on, new, Bits(reg, 6 .. 7))
      PROVE  Number(on, reg, 6, 2) = Number(new, reg, 6, 2)
  <2>1. \A i \in 0 .. 4 : i < 2 /\ <<reg, 6 + i>> \in on <=> i < 2 /\ <<reg, 6 + i>> \in new
    BY <1>4 DEF Same, Bits
  <2> QED BY <2>1 DEF Number
<1> QED BY <1>1, <1>2, <1>3, <1>4

LEMMA FieldSame ==
  ASSUME NEW on, NEW new, NEW field, NEW width \in Nat, NEW default, field[2] \in Int,
         Same(on, new, FieldArea(field, width))
  PROVE  GetField(new, field, width, default) = GetField(on, field, width, default)
<1>1. CASE Unused(field)
  BY <1>1 DEF GetField
<1>2. CASE ~Unused(field)
  <2>1. FieldArea(field, width) = Bits(field[1], field[2] .. field[2] + width - 1)
    BY <1>2 DEF FieldArea
  <2> QED BY <1>2, <2>1, NumberSame DEF GetField
<1> QED BY <1>1, <1>2

\* The field of a pin is one of its controller's table.
LEMMA FieldOfRow ==
  ASSUME NEW t \in {"GIO", "GIO_AON"}, NEW p \in 0 .. 46, NEW which \in {"mux", "ctl"}, NEW width \in Nat
  PROVE  \/ PinField(t, p, which, width) = <<<<t, which, UNUSED>>, 0>>
         \/ \E r \in Controllers[t].table :
              /\ p \in r.first .. r.last
              /\ PinField(t, p, which, width) = <<<<t, which, r[which][1]>>, r[which][2] + width * (p - r.first)>>
<1> DEFINE rows == {r \in Controllers[t].table : p \in r.first .. r.last}
           row  == CHOOSE r \in rows : TRUE
<1>1. CASE rows = {}
  BY <1>1 DEF PinField
<1>2. CASE rows # {}
  <2>1. row \in rows
    BY <1>2
  <2>2. PinField(t, p, which, width) = <<<<t, which, row[which][1]>>, row[which][2] + width * (p - row.first)>>
    BY <1>2 DEF PinField
  <2> HIDE DEF row
  <2> QED BY <2>1, <2>2
<1> QED BY <1>1, <1>2

LEMMA FieldOfPin ==
  ASSUME NEW t \in {"GIO", "GIO_AON"}, NEW p \in 0 .. 46, NEW which \in {"mux", "ctl"}, NEW width \in Nat
  PROVE  PinField(t, p, which, width)[2] \in Int
<1>1. CASE PinField(t, p, which, width) = <<<<t, which, UNUSED>>, 0>>
  BY <1>1
<1>2. ASSUME NEW r \in Controllers[t].table
      PROVE  r.mux[2] \in Int /\ r.ctl[2] \in Int /\ r.first \in Int
  <2>1. CASE t = "GIO"
    BY <1>2, <2>1 DEF Controllers, Bcm2712PinctrlGioRegisters, Row
  <2>2. CASE t = "GIO_AON"
    BY <1>2, <2>2 DEF Controllers, Bcm2712PinctrlGioAonRegisters, Row
  <2> QED BY <2>1, <2>2
<1>3. ASSUME NEW r \in Controllers[t].table,
             PinField(t, p, which, width) = <<<<t, which, r[which][1]>>, r[which][2] + width * (p - r.first)>>
      PROVE  PinField(t, p, which, width)[2] \in Int
  <2>1. r[which][2] \in Int /\ r.first \in Int
    BY <1>2
  <2>2. PICK off \in Int : off = width * (p - r.first)
    BY <2>1
  <2>3. PICK first \in Int : first = r[which][2]
    BY <2>1
  <2>4. PinField(t, p, which, width) = <<<<t, which, r[which][1]>>, first + off>>
    BY <1>3, <2>2, <2>3
  <2> QED BY <2>4
<1>4. \/ PinField(t, p, which, width) = <<<<t, which, UNUSED>>, 0>>
      \/ \E r \in Controllers[t].table :
           PinField(t, p, which, width) = <<<<t, which, r[which][1]>>, r[which][2] + width * (p - r.first)>>
  BY FieldOfRow
<1> QED BY <1>1, <1>3, <1>4, Zenon

\* A fact is read from its area.
LEMMA SeenInArea ==
  ASSUME NEW on, NEW new, NEW f \in Facts, Same(on, new, Area(f[1], f[2]))
  PROVE  Seen(new, f[1], f[2]) = Seen(on, f[1], f[2])
<1> DEFINE x == f[1]
           what == f[2]
           t == f[1][1]
           p == f[1][2]
<1>1. CASE t = "RP1"
  <2>1. what \in {"function", "overrides", "pull", "enables", "data", "direction", "input"}
    BY DEF Facts
  <2>2. CASE what = "function"
    <3>1. Same(on, new, Bits(Rp1Ctrl(p), 0 .. 4))
      BY <1>1, <2>2 DEF Area
    <3>2. Number(on, Rp1Ctrl(p), 0, 5) = Number(new, Rp1Ctrl(p), 0, 5)
      BY <3>1, NumbersSame
    <3> QED BY <1>1, <2>2, <3>2 DEF Seen
  <2>3. CASE what = "overrides"
    <3>1. Same(on, new, Bits(Rp1Ctrl(p), 12 .. 15))
      BY <1>1, <2>3 DEF Area
    <3>2. Number(on, Rp1Ctrl(p), 12, 4) = Number(new, Rp1Ctrl(p), 12, 4)
      BY <3>1, NumbersSame
    <3> QED BY <1>1, <2>3, <3>2 DEF Seen
  <2>4. CASE what = "pull"
    <3>1. Same(on, new, Bits(Rp1Pad(p), 2 .. 3))
      BY <1>1, <2>4 DEF Area
    <3>2. Number(on, Rp1Pad(p), 2, 2) = Number(new, Rp1Pad(p), 2, 2)
      BY <3>1, NumbersSame
    <3> QED BY <1>1, <2>4, <3>2 DEF Seen, PULL_DOWN
  <2>5. CASE what = "enables"
    <3>1. Same(on, new, Bits(Rp1Pad(p), 6 .. 7))
      BY <1>1, <2>5 DEF Area
    <3>2. Number(on, Rp1Pad(p), 6, 2) = Number(new, Rp1Pad(p), 6, 2)
      BY <3>1, NumbersSame
    <3> QED BY <1>1, <2>5, <3>2 DEF Seen, IN_ENABLE
  <2>6. CASE what = "data"
    <3>1. Rio(p, "OUT") \in on <=> Rio(p, "OUT") \in new
      BY <1>1, <2>6 DEF Area, Same
    <3>2. (Rio(p, "OUT") \in on) = (Rio(p, "OUT") \in new)
      BY <3>1
    <3> QED BY <1>1, <2>6, <3>2 DEF Seen
  <2>7. CASE what = "direction"
    <3>1. Rio(p, "OE") \in on <=> Rio(p, "OE") \in new
      BY <1>1, <2>7 DEF Area, Same
    <3> QED BY <1>1, <2>7, <3>1 DEF Seen
  <2>8. CASE what = "input"
    <3>1. Rio(p, "IN") \in on <=> Rio(p, "IN") \in new
      BY <1>1, <2>8 DEF Area, Same
    <3>2. (Rio(p, "IN") \in on) = (Rio(p, "IN") \in new)
      BY <3>1
    <3> QED BY <1>1, <2>8, <3>2 DEF Seen, Rp1GpioRead
  <2> QED BY <2>1, <2>2, <2>3, <2>4, <2>5, <2>6, <2>7, <2>8
<1>2. CASE t # "RP1"
  <2>0. t \in {"GIO", "GIO_AON"} /\ p \in 0 .. 46
    BY <1>2 DEF Facts, Rp1s, BcmPins, BankPins
  <2>1. what \in {"function", "pull", "data", "direction"}
    BY <1>2 DEF Facts, Rp1s
  <2>2. CASE what = "function"
    <3> DEFINE field == PinField(t, p, "mux", 4)
    <3>1. Area(x, what) = FieldArea(field, 4)
      BY <1>2, <2>2 DEF Area
    <3>2. Seen(on, x, what) = GetField(on, field, 4, 9) /\ Seen(new, x, what) = GetField(new, field, 4, 9)
      BY <1>2, <2>2 DEF Seen, GpioGetFunction
    <3>3. field[2] \in Int
      BY <2>0, FieldOfPin
    <3> QED BY <3>1, <3>2, <3>3, FieldSame
  <2>3. CASE what = "pull"
    <3> DEFINE field == PinField(t, p, "ctl", 2)
    <3>1. Area(x, what) = FieldArea(field, 2)
      BY <1>2, <2>3 DEF Area
    <3>2. Seen(on, x, what) = GetField(on, field, 2, 0) /\ Seen(new, x, what) = GetField(new, field, 2, 0)
      BY <1>2, <2>3 DEF Seen, GpioGetPull
    <3>3. field[2] \in Int
      BY <2>0, FieldOfPin
    <3> QED BY <3>1, <3>2, <3>3, FieldSame
  <2>4. CASE what = "data"
    <3> DEFINE b == <<BankReg(t, p, "DATA"), p>>
    <3>1. b \in on <=> b \in new
      BY <1>2, <2>4 DEF Area, Same
    <3>2. (b \in on) = (b \in new)
      BY <3>1
    <3> QED BY <1>2, <2>4, <3>2 DEF Seen, GpioRead
  <2>5. CASE what = "direction"
    <3> DEFINE b == <<BankReg(t, p, "IODIR"), p>>
    <3>1. b \in on <=> b \in new
      BY <1>2, <2>5 DEF Area, Same
    <3> QED BY <1>2, <2>5, <3>1 DEF Seen, GpioGetDirection
  <2> QED BY <2>1, <2>2, <2>3, <2>4, <2>5
<1> QED BY <1>1, <1>2

\* The rows of the two tables, as numbers: first and last pin, then register and
\* bit of either field.
GioRow(a, z, m, n, c, d) ==
  \/ a = 1  /\ z = 4  /\ m = 0  /\ n = 0  /\ c = 16 /\ d = 10
  \/ a = 10 /\ z = 13 /\ m = 0  /\ n = 16 /\ c = 16 /\ d = 18
  \/ a = 14 /\ z = 15 /\ m = 4  /\ n = 0  /\ c = 16 /\ d = 26
  \/ a = 18 /\ z = 23 /\ m = 4  /\ n = 8  /\ c = 20 /\ d = 0
  \/ a = 24 /\ z = 31 /\ m = 8  /\ n = 0  /\ c = 20 /\ d = 12
  \/ a = 32 /\ z = 32 /\ m = 12 /\ n = 0  /\ c = 20 /\ d = 28
  \/ a = 33 /\ z = 35 /\ m = 12 /\ n = 4  /\ c = 24 /\ d = 0
  \/ a = 36 /\ z = 46 /\ m = -1 /\ n = 0  /\ c = 24 /\ d = 6
AonRow(a, z, m, n, c, d) ==
  \/ a = 0  /\ z = 5  /\ m = 12 /\ n = 0  /\ c = 20 /\ d = 18
  \/ a = 6  /\ z = 6  /\ m = 12 /\ n = 24 /\ c = 24 /\ d = 0
  \/ a = 8  /\ z = 8  /\ m = 12 /\ n = 28 /\ c = 24 /\ d = 2
  \/ a = 9  /\ z = 9  /\ m = 16 /\ n = 0  /\ c = 24 /\ d = 4
  \/ a = 12 /\ z = 14 /\ m = 16 /\ n = 4  /\ c = 24 /\ d = 6
  \/ a = 32 /\ z = 35 /\ m = 0  /\ n = 0  /\ c = -1 /\ d = 0
  \/ a = 36 /\ z = 36 /\ m = 4  /\ n = 0  /\ c = -1 /\ d = 0
  \/ a = 37 /\ z = 37 /\ m = 8  /\ n = 0  /\ c = -1 /\ d = 0
LEMMA RowNumbers ==
  ASSUME NEW t \in {"GIO", "GIO_AON"}, NEW u \in Controllers[t].table
  PROVE  /\ u.first \in Int /\ u.last \in Int /\ u.mux[1] \in Int /\ u.mux[2] \in Int /\ u.ctl[1] \in Int /\ u.ctl[2] \in Int
         /\ t = "GIO" => GioRow(u.first, u.last, u.mux[1], u.mux[2], u.ctl[1], u.ctl[2])
         /\ t = "GIO_AON" => AonRow(u.first, u.last, u.mux[1], u.mux[2], u.ctl[1], u.ctl[2])
<1>1. CASE t = "GIO"
  <2>1. /\ u.first \in Int /\ u.last \in Int /\ u.mux[1] \in Int /\ u.mux[2] \in Int /\ u.ctl[1] \in Int /\ u.ctl[2] \in Int
        /\ GioRow(u.first, u.last, u.mux[1], u.mux[2], u.ctl[1], u.ctl[2])
    BY <1>1 DEF Controllers, Bcm2712PinctrlGioRegisters, Row, GioRow, UNUSED
  <2> QED BY <1>1, <2>1
<1>2. CASE t = "GIO_AON"
  <2>1. /\ u.first \in Int /\ u.last \in Int /\ u.mux[1] \in Int /\ u.mux[2] \in Int /\ u.ctl[1] \in Int /\ u.ctl[2] \in Int
        /\ AonRow(u.first, u.last, u.mux[1], u.mux[2], u.ctl[1], u.ctl[2])
    BY <1>2 DEF Controllers, Bcm2712PinctrlGioAonRegisters, Row, AonRow, UNUSED
  <2> QED BY <1>2, <2>1
<1> QED BY <1>1, <1>2

\* No two pins share a bit of a table's register.
LEMMA RowsApart ==
  ASSUME NEW t \in {"GIO", "GIO_AON"}, NEW r \in Controllers[t].table, NEW s \in Controllers[t].table,
         NEW p \in r.first .. r.last, NEW q \in s.first .. s.last, p < q
  PROVE  /\ r.mux[1] # UNUSED /\ r.mux[1] = s.mux[1] =>
              \/ r.mux[2] + 4 * (p - r.first) + 4 <= s.mux[2] + 4 * (q - s.first)
              \/ s.mux[2] + 4 * (q - s.first) + 4 <= r.mux[2] + 4 * (p - r.first)
         /\ r.ctl[1] # UNUSED /\ r.ctl[1] = s.ctl[1] =>
              \/ r.ctl[2] + 2 * (p - r.first) + 2 <= s.ctl[2] + 2 * (q - s.first)
              \/ s.ctl[2] + 2 * (q - s.first) + 2 <= r.ctl[2] + 2 * (p - r.first)
<1>1. PICK a, z, m, n, c, d \in Int :
        /\ r.first = a /\ r.last = z /\ r.mux[1] = m /\ r.mux[2] = n /\ r.ctl[1] = c /\ r.ctl[2] = d
        /\ t = "GIO" => GioRow(a, z, m, n, c, d)
        /\ t = "GIO_AON" => AonRow(a, z, m, n, c, d)
  BY RowNumbers
<1>2. PICK e, y, k, l, g, h \in Int :
        /\ s.first = e /\ s.last = y /\ s.mux[1] = k /\ s.mux[2] = l /\ s.ctl[1] = g /\ s.ctl[2] = h
        /\ t = "GIO" => GioRow(e, y, k, l, g, h)
        /\ t = "GIO_AON" => AonRow(e, y, k, l, g, h)
  BY RowNumbers
<1>3. p \in Int /\ q \in Int /\ a <= p /\ p <= z /\ e <= q /\ q <= y /\ p < q
  BY <1>1, <1>2
<1>4. m # -1 /\ m = k => n + 4 * (p - a) + 4 <= l + 4 * (q - e) \/ l + 4 * (q - e) + 4 <= n + 4 * (p - a)
  <2>1. CASE t = "GIO"
    BY <1>1, <1>2, <1>3, <2>1 DEF GioRow
  <2>2. CASE t = "GIO_AON"
    BY <1>1, <1>2, <1>3, <2>2 DEF AonRow
  <2> QED BY <2>1, <2>2
<1>5. c # -1 /\ c = g => d + 2 * (p - a) + 2 <= h + 2 * (q - e) \/ h + 2 * (q - e) + 2 <= d + 2 * (p - a)
  <2>1. CASE t = "GIO"
    BY <1>1, <1>2, <1>3, <2>1 DEF GioRow
  <2>2. CASE t = "GIO_AON"
    BY <1>1, <1>2, <1>3, <2>2 DEF AonRow
  <2> QED BY <2>1, <2>2
<1> QED BY <1>1, <1>2, <1>4, <1>5 DEF UNUSED

\* Where the bits of a field are.
InRow(b, t, p, which, width) ==
  \E r \in Controllers[t].table :
    /\ p \in r.first .. r.last /\ r[which][1] # UNUSED
    /\ b[1] = <<t, which, r[which][1]>>
    /\ b[2] \in r[which][2] + width * (p - r.first) .. r[which][2] + width * (p - r.first) + width - 1
LEMMA FieldBits ==
  ASSUME NEW t \in {"GIO", "GIO_AON"}, NEW p \in 0 .. 46, NEW which \in {"mux", "ctl"}, NEW width \in {2, 4},
         NEW b \in FieldArea(PinField(t, p, which, width), width)
  PROVE  InRow(b, t, p, which, width)
<1> DEFINE field == PinField(t, p, which, width)
<1>1. ~Unused(field) /\ b \in Bits(field[1], field[2] .. field[2] + width - 1)
  BY DEF FieldArea
<1>2. b[1] = field[1] /\ b[2] \in field[2] .. field[2] + width - 1
  BY <1>1 DEF Bits
<1>3. field[1][3] # UNUSED
  BY <1>1 DEF Unused
<1> HIDE DEF field
<1>4. field # <<<<t, which, UNUSED>>, 0>>
  BY <1>3
<1>8. \/ field = <<<<t, which, UNUSED>>, 0>>
      \/ \E r \in Controllers[t].table :
           /\ p \in r.first .. r.last
           /\ field = <<<<t, which, r[which][1]>>, r[which][2] + width * (p - r.first)>>
  <2>1. width \in Nat
    OBVIOUS
  <2> QED BY <2>1, FieldOfRow, Zenon DEF field
<1>5. PICK r \in Controllers[t].table :
        /\ p \in r.first .. r.last
        /\ field = <<<<t, which, r[which][1]>>, r[which][2] + width * (p - r.first)>>
  BY <1>4, <1>8, Zenon
<1>6. r[which][1] # UNUSED
  BY <1>3, <1>5
<1>7. field[1] = <<t, which, r[which][1]>> /\ field[2] = r[which][2] + width * (p - r.first)
  BY <1>5
<1> QED BY <1>2, <1>5, <1>6, <1>7 DEF InRow

LEMMA FieldsInOrder ==
  ASSUME NEW t \in {"GIO", "GIO_AON"}, NEW p \in 0 .. 46, NEW q \in 0 .. 46, p < q,
         NEW which \in {"mux", "ctl"}, NEW width \in {2, 4}, width = 4 <=> which = "mux",
         NEW b \in FieldArea(PinField(t, p, which, width), width), b \in FieldArea(PinField(t, q, which, width), width)
  PROVE  FALSE
<1>0. InRow(b, t, p, which, width) /\ InRow(b, t, q, which, width)
  BY FieldBits, Zenon
<1>1. width = IF which = "mux" THEN 4 ELSE 2
  OBVIOUS
<1>2. PICK r \in Controllers[t].table :
        /\ p \in r.first .. r.last /\ r[which][1] # UNUSED
        /\ b[1] = <<t, which, r[which][1]>>
        /\ b[2] \in r[which][2] + width * (p - r.first) .. r[which][2] + width * (p - r.first) + width - 1
  BY <1>0 DEF InRow
<1>3. PICK s \in Controllers[t].table :
        /\ q \in s.first .. s.last /\ s[which][1] # UNUSED
        /\ b[1] = <<t, which, s[which][1]>>
        /\ b[2] \in s[which][2] + width * (q - s.first) .. s[which][2] + width * (q - s.first) + width - 1
  BY <1>0 DEF InRow
<1>4. r[which][1] = s[which][1]
  BY <1>2, <1>3
<1>5. /\ r.first \in Int /\ r.mux[2] \in Int /\ r.ctl[2] \in Int /\ s.first \in Int /\ s.mux[2] \in Int /\ s.ctl[2] \in Int
  BY RowNumbers
<1>6. CASE which = "mux"
  <2>1. PICK m \in Int, n \in Int : m = r.mux[2] + 4 * (p - r.first) /\ n = s.mux[2] + 4 * (q - s.first)
    BY <1>5
  <2>2. m + 4 <= n \/ n + 4 <= m
    BY <1>2, <1>3, <1>4, <1>6, <2>1, RowsApart
  <2>3. b[2] \in m .. m + 4 - 1 /\ b[2] \in n .. n + 4 - 1
    BY <1>1, <1>2, <1>3, <1>6, <2>1
  <2> QED BY <2>2, <2>3
<1>7. CASE which = "ctl"
  <2>1. PICK m \in Int, n \in Int : m = r.ctl[2] + 2 * (p - r.first) /\ n = s.ctl[2] + 2 * (q - s.first)
    BY <1>5
  <2>2. m + 2 <= n \/ n + 2 <= m
    BY <1>2, <1>3, <1>4, <1>7, <2>1, RowsApart
  <2>3. b[2] \in m .. m + 2 - 1 /\ b[2] \in n .. n + 2 - 1
    BY <1>1, <1>2, <1>3, <1>7, <2>1
  <2> QED BY <2>2, <2>3
<1> QED BY <1>6, <1>7

\* No two facts are read from the same bit.
LEMMA AreasApart ==
  ASSUME NEW f \in Facts, NEW g \in Facts, NEW b \in Area(f[1], f[2]), b \in Area(g[1], g[2])
  PROVE  f = g
<1> DEFINE t == f[1][1]
           p == f[1][2]
           u == g[1][1]
           q == g[1][2]
<1>1. ASSUME NEW h \in Facts, h[1][1] = "RP1", b \in Area(h[1], h[2])
      PROVE  /\ h[1] = <<"RP1", h[1][2]>> /\ h[1][2] \in 0 .. 53
             /\ \/ /\ h[2] = "function" /\ b[1][1] = "CTRL" /\ b[1][2] = Rp1GpioLocatePin(h[1][2]) /\ b[2] \in 0 .. 4
                \/ /\ h[2] = "overrides" /\ b[1][1] = "CTRL" /\ b[1][2] = Rp1GpioLocatePin(h[1][2]) /\ b[2] \in 12 .. 15
                \/ /\ h[2] = "pull" /\ b[1][1] = "PADS" /\ b[1][2] = Rp1GpioLocatePin(h[1][2]) /\ b[2] \in 2 .. 3
                \/ /\ h[2] = "enables" /\ b[1][1] = "PADS" /\ b[1][2] = Rp1GpioLocatePin(h[1][2]) /\ b[2] \in 6 .. 7
                \/ /\ h[2] = "data" /\ b[1][1] = "OUT" /\ <<b[1][2], b[2]>> = Rp1GpioLocatePin(h[1][2])
                \/ /\ h[2] = "direction" /\ b[1][1] = "OE" /\ <<b[1][2], b[2]>> = Rp1GpioLocatePin(h[1][2])
                \/ /\ h[2] = "input" /\ b[1][1] = "IN" /\ <<b[1][2], b[2]>> = Rp1GpioLocatePin(h[1][2])
  <2>1. h[1] = <<"RP1", h[1][2]>> /\ h[1][2] \in 0 .. 53
    BY <1>1 DEF Facts, Rp1s, Rp1Pins, BcmPins, BankPins
  <2>2. h[2] \in {"function", "overrides", "pull", "enables", "data", "direction", "input"}
    BY <1>1 DEF Facts
  <2>3. CASE h[2] \in {"function", "overrides"}
    BY <1>1, <2>1, <2>3 DEF Area, Bits, Rp1Ctrl
  <2>4. CASE h[2] \in {"pull", "enables"}
    BY <1>1, <2>1, <2>4 DEF Area, Bits, Rp1Pad
  <2>5. CASE h[2] \in {"data", "direction", "input"}
    <3>1. \A reg : Rio(h[1][2], reg)[1][1] = reg /\ <<Rio(h[1][2], reg)[1][2], Rio(h[1][2], reg)[2]>> = Rp1GpioLocatePin(h[1][2])
      BY DEF Rio, Rp1GpioLocatePin
    <3> QED BY <1>1, <2>1, <2>5, <3>1 DEF Area
  <2> QED BY <2>2, <2>3, <2>4, <2>5
<1>2. ASSUME NEW h \in Facts, h[1][1] # "RP1", b \in Area(h[1], h[2])
      PROVE  /\ h[1] = <<h[1][1], h[1][2]>> /\ h[1][1] \in {"GIO", "GIO_AON"} /\ h[1][2] \in 0 .. 46
             /\ b[1][1] = h[1][1]
             /\ \/ h[2] = "function" /\ b[1][2] = "mux" /\ b \in FieldArea(PinField(h[1][1], h[1][2], "mux", 4), 4)
                \/ h[2] = "pull" /\ b[1][2] = "ctl" /\ b \in FieldArea(PinField(h[1][1], h[1][2], "ctl", 2), 2)
                \/ h[2] = "data" /\ b[1][2] = "DATA" /\ b[2] = h[1][2]
                \/ h[2] = "direction" /\ b[1][2] = "IODIR" /\ b[2] = h[1][2]
  <2>1. h[1] = <<h[1][1], h[1][2]>> /\ h[1][1] \in {"GIO", "GIO_AON"} /\ h[1][2] \in 0 .. 46
    BY <1>2 DEF Facts, Rp1s, BcmPins, BankPins
  <2>2. h[2] \in {"function", "pull", "data", "direction"}
    BY <1>2 DEF Facts, Rp1s
  <2>3. CASE h[2] = "function"
    <3>1. b \in FieldArea(PinField(h[1][1], h[1][2], "mux", 4), 4)
      BY <1>2, <2>3 DEF Area
    <3>2. b[1][1] = h[1][1] /\ b[1][2] = "mux"
      <4>1. 4 \in {2, 4} /\ "mux" \in {"mux", "ctl"}
        OBVIOUS
      <4>2. InRow(b, h[1][1], h[1][2], "mux", 4)
        BY <2>1, <3>1, <4>1, FieldBits, Zenon
      <4>3. \E r \in Controllers[h[1][1]].table : b[1] = <<h[1][1], "mux", r["mux"][1]>>
        BY <4>2 DEF InRow
      <4> QED BY <4>3
    <3> QED BY <2>1, <2>3, <3>1, <3>2
  <2>4. CASE h[2] = "pull"
    <3>1. b \in FieldArea(PinField(h[1][1], h[1][2], "ctl", 2), 2)
      BY <1>2, <2>4 DEF Area
    <3>2. b[1][1] = h[1][1] /\ b[1][2] = "ctl"
      <4>1. 2 \in {2, 4} /\ "ctl" \in {"mux", "ctl"}
        OBVIOUS
      <4>2. InRow(b, h[1][1], h[1][2], "ctl", 2)
        BY <2>1, <3>1, <4>1, FieldBits, Zenon
      <4>3. \E r \in Controllers[h[1][1]].table : b[1] = <<h[1][1], "ctl", r["ctl"][1]>>
        BY <4>2 DEF InRow
      <4> QED BY <4>3
    <3> QED BY <2>1, <2>4, <3>1, <3>2
  <2>5. CASE h[2] \in {"data", "direction"}
    BY <1>2, <2>1, <2>5 DEF Area, BankReg
  <2> QED BY <2>2, <2>3, <2>4, <2>5
<1>3. \A m, n \in 0 .. 53 : Rp1GpioLocatePin(m) = Rp1GpioLocatePin(n) => m = n
  BY DEF Rp1GpioLocatePin
<1>4. f = <<f[1], f[2]>> /\ g = <<g[1], g[2]>>
  BY DEF Facts
<1>5. f[1][1] = "RP1" <=> g[1][1] = "RP1"
  BY <1>1, <1>2
<1>6. CASE f[1][1] = "RP1"
  <2>1. f[2] = g[2]
    BY <1>1, <1>5, <1>6
  <2>2. Rp1GpioLocatePin(p) = Rp1GpioLocatePin(q)
    BY <1>1, <1>5, <1>6, <2>1
  <2>3. p \in 0 .. 53 /\ q \in 0 .. 53 /\ f[1] = <<"RP1", p>> /\ g[1] = <<"RP1", q>>
    BY <1>1, <1>5, <1>6
  <2> QED BY <1>3, <1>4, <2>1, <2>2, <2>3
<1>7. CASE f[1][1] # "RP1"
  <2>1. f[2] = g[2] /\ t = u
    BY <1>2, <1>5, <1>7
  <2>2. p = q
    <3>1. t \in {"GIO", "GIO_AON"} /\ p \in 0 .. 46 /\ q \in 0 .. 46
      BY <1>2, <1>5, <1>7
    <3>2. CASE f[2] = "function"
      <4>1. b \in FieldArea(PinField(t, p, "mux", 4), 4) /\ b \in FieldArea(PinField(t, q, "mux", 4), 4)
        BY <1>2, <1>5, <1>7, <2>1, <3>2
      <4>2. "mux" \in {"mux", "ctl"} /\ 4 \in {2, 4} /\ (4 = 4 <=> "mux" = "mux")
        OBVIOUS
      <4> HIDE DEF t, p, q
      <4>3. ~(p < q) /\ ~(q < p)
        BY <3>1, <4>1, <4>2, FieldsInOrder, Zenon
      <4> QED BY <3>1, <4>3
    <3>3. CASE f[2] = "pull"
      <4>1. b \in FieldArea(PinField(t, p, "ctl", 2), 2) /\ b \in FieldArea(PinField(t, q, "ctl", 2), 2)
        BY <1>2, <1>5, <1>7, <2>1, <3>3
      <4>2. "ctl" \in {"mux", "ctl"} /\ 2 \in {2, 4} /\ (2 = 4 <=> "ctl" = "mux")
        OBVIOUS
      <4> HIDE DEF t, p, q
      <4>3. ~(p < q) /\ ~(q < p)
        BY <3>1, <4>1, <4>2, FieldsInOrder, Zenon
      <4> QED BY <3>1, <4>3
    <3>4. CASE f[2] \in {"data", "direction"}
      BY <1>2, <1>5, <1>7, <2>1, <3>4
    <3> QED BY <1>2, <1>7, <3>2, <3>3, <3>4
  <2>3. f[1] = <<t, p>> /\ g[1] = <<u, q>>
    BY <1>2, <1>5, <1>7
  <2> QED BY <1>4, <2>1, <2>2, <2>3
<1> QED BY <1>6, <1>7

\* Only the bits of an area may change.
Only(on, new, area) == \A b : b \notin area => (b \in on <=> b \in new)

\* Setting a field changes the bits of the field and makes it the value.
LEMMA FieldSet ==
  ASSUME NEW on, NEW field, NEW width \in {2, 4}, NEW v \in 0 .. 2^width - 1, field[2] \in Int
  PROVE  /\ Only(on, SetField(on, field, width, v), FieldArea(field, width))
         /\ ~Unused(field) => \A default : GetField(SetField(on, field, width, v), field, width, default) = v
<1> DEFINE new == SetField(on, field, width, v)
<1>1. CASE Unused(field)
  BY <1>1 DEF SetField, Only
<1>2. CASE ~Unused(field)
  <2> DEFINE all == Bits(field[1], field[2] .. field[2] + width - 1)
             ones == Bits(field[1], {field[2] + d : d \in Digits(v, width)})
  <2>1. new = (on \ all) \cup ones
    BY <1>2 DEF SetField
  <2> HIDE DEF new
  <2>2. ones \subseteq all
    BY DEF Bits, Digits
  <2>3. FieldArea(field, width) = all
    BY <1>2 DEF FieldArea
  <2>4. \A i \in 0 .. width - 1 : <<field[1], field[2] + i>> \in new <=> i \in Digits(v, width)
    <3>1. ASSUME NEW i \in 0 .. width - 1
          PROVE  <<field[1], field[2] + i>> \in all /\ (<<field[1], field[2] + i>> \in ones <=> i \in Digits(v, width))
      <4>1. <<field[1], field[2] + i>> \in all
        BY <3>1 DEF Bits
      <4>2. ASSUME NEW d \in Digits(v, width), <<field[1], field[2] + i>> = <<field[1], field[2] + d>>
            PROVE  i \in Digits(v, width)
        <5>1. d \in Int /\ i = d
          BY <3>1, <4>2 DEF Digits
        <5> QED BY <4>2, <5>1
      <4> QED BY <4>1, <4>2 DEF Bits
    <3> QED BY <2>1, <3>1
  <2>5. width \in {2, 4, 5}
    OBVIOUS
  <2>6. Number(new, field[1], field[2], width) = v
    BY <2>4, <2>5, NumberIs, Zenon
  <2> HIDE DEF all, ones
  <2> QED BY <1>2, <2>1, <2>2, <2>3, <2>6 DEF GetField, Only, new
<1> QED BY <1>1, <1>2

\* Selecting a function of an RP1 pin.
FunctionTaken(on, new, p, v) ==
  /\ Only(on, new, Bits(Rp1Ctrl(p), 0 .. 4) \cup Bits(Rp1Ctrl(p), 12 .. 15) \cup Bits(Rp1Pad(p), 6 .. 7))
  /\ Number(new, Rp1Ctrl(p), 0, 5) = v /\ Number(new, Rp1Ctrl(p), 12, 4) = 0
  /\ Number(new, Rp1Pad(p), IN_ENABLE, 2) = 1
LEMMA FunctionSet ==
  ASSUME NEW on, NEW p, NEW v \in 0 .. 31
  PROVE  FunctionTaken(on, Rp1GpioSetFunction(on, p, v), p, v)
<1> DEFINE new == Rp1GpioSetFunction(on, p, v)
           c == Rp1Ctrl(p)
           d == Rp1Pad(p)
<1>1. c # d
  BY DEF Rp1Ctrl, Rp1Pad
<1>2. new = (((on \cup {<<d, 6>>}) \ {<<d, 7>>}) \ Bits(c, (0 .. 4) \cup (12 .. 15))) \cup Bits(c, Digits(v, 5))
  BY DEF Rp1GpioSetFunction, IN_ENABLE, OUT_DISABLE
<1> HIDE DEF new, c, d
<1>3. Digits(v, 5) \subseteq 0 .. 4
  BY DEF Digits
<1>4. \A i \in 0 .. 4 : <<c, i>> \in new <=> i \in Digits(v, 5)
  BY <1>1, <1>2 DEF Bits
<1>5. \A i \in 12 .. 15 : <<c, i>> \notin new
  BY <1>1, <1>2, <1>3 DEF Bits
<1>6. <<d, 6>> \in new /\ <<d, 7>> \notin new
  BY <1>1, <1>2 DEF Bits
<1>7. Only(on, new, Bits(c, 0 .. 4) \cup Bits(c, 12 .. 15) \cup Bits(d, 6 .. 7))
  BY <1>2, <1>3 DEF Bits, Only
<1>8. Number(new, c, 0, 5) = v
  <2>1. 0 \in Int /\ 5 \in {2, 4, 5} /\ v \in 0 .. 2^5 - 1
    OBVIOUS
  <2>2. \A i \in 0 .. 5 - 1 : <<c, 0 + i>> \in new <=> i \in Digits(v, 5)
    BY <1>4
  <2> QED BY <2>1, <2>2, NumberIs, Zenon
<1>9. Number(new, c, 12, 4) = 0
  <2>1. 12 \in Int /\ 4 \in {2, 4, 5} /\ 0 \in 0 .. 2^4 - 1
    OBVIOUS
  <2>2. \A i \in 0 .. 4 - 1 : <<c, 12 + i>> \in new <=> i \in Digits(0, 4)
    <3>1. 0 \notin Digits(0, 4) /\ 1 \notin Digits(0, 4)
      BY DEF Digits
    <3>2. 2 \notin Digits(0, 4) /\ 3 \notin Digits(0, 4)
      BY DEF Digits
    <3> QED BY <1>5, <3>1, <3>2
  <2> QED BY <2>1, <2>2, NumberIs, Zenon
<1>10. Number(new, d, 6, 2) = 1
  <2>1. 6 \in Int /\ 2 \in {2, 4, 5} /\ 1 \in 0 .. 2^2 - 1
    OBVIOUS
  <2>2. \A i \in 0 .. 2 - 1 : <<d, 6 + i>> \in new <=> i \in Digits(1, 2)
    <3>1. 0 \in Digits(1, 2) /\ 1 \notin Digits(1, 2)
      BY DEF Digits
    <3> QED BY <1>6, <3>1
  <2> QED BY <2>1, <2>2, NumberIs, Zenon
<1> QED BY <1>7, <1>8, <1>9, <1>10 DEF FunctionTaken, new, c, d, IN_ENABLE

\* Selecting a pull of an RP1 pin.
PullName(v) == CASE v = 0 -> "none" [] v = 1 -> "down" [] v = 2 -> "up"
PullTaken(on, new, p, v) == Only(on, new, Bits(Rp1Pad(p), 2 .. 3)) /\ Number(new, Rp1Pad(p), PULL_DOWN, 2) = v
LEMMA PullSet ==
  ASSUME NEW on, NEW p, NEW v \in 0 .. 2
  PROVE  PullTaken(on, Rp1GpioSetPull(on, p, PullName(v)), p, v)
<1> DEFINE new == Rp1GpioSetPull(on, p, PullName(v))
           d == Rp1Pad(p)
           ones == CASE v = 0 -> {} [] v = 1 -> {2} [] v = 2 -> {3}
<1>1. new = (on \ Bits(d, {2, 3})) \cup Bits(d, ones)
  <2>1. CASE v = 0
    BY <2>1 DEF Rp1GpioSetPull, PullName, PULL_DOWN, PULL_UP
  <2>2. CASE v = 1
    BY <2>2 DEF Rp1GpioSetPull, PullName, PULL_DOWN, PULL_UP
  <2>3. CASE v = 2
    BY <2>3 DEF Rp1GpioSetPull, PullName, PULL_DOWN, PULL_UP
  <2> QED BY <2>1, <2>2, <2>3
<1>2. (2 \in ones <=> v = 1) /\ (3 \in ones <=> v = 2) /\ ones \subseteq {2, 3}
  OBVIOUS
<1> HIDE DEF new, d, ones
<1>3. (<<d, 2>> \in new <=> v = 1) /\ (<<d, 3>> \in new <=> v = 2)
  BY <1>1, <1>2 DEF Bits
<1>4. Only(on, new, Bits(d, 2 .. 3))
  BY <1>1, <1>2 DEF Bits, Only
<1>5. Number(new, d, 2, 2) = v
  <2>1. 2 \in Int /\ 2 \in {2, 4, 5} /\ v \in 0 .. 2^2 - 1
    OBVIOUS
  <2>2. \A i \in 0 .. 2 - 1 : <<d, 2 + i>> \in new <=> i \in Digits(v, 2)
    <3>1. (0 \in Digits(v, 2) <=> v = 1) /\ (1 \in Digits(v, 2) <=> v = 2)
      BY DEF Digits
    <3> QED BY <1>3, <3>1
  <2> QED BY <2>1, <2>2, NumberIs, Zenon
<1> QED BY <1>4, <1>5 DEF PullTaken, new, d, PULL_DOWN

\* A call changes no bit but those of the facts it is to establish, and
\* establishes them.
CallReaches(on, made) ==
  /\ \A b : (\A s \in made.sets : b \notin Area(s[1], s[2])) => (b \in on <=> b \in made.on)
  /\ \A s \in made.sets : <<s[1], s[2]>> \in Facts /\ Seen(made.on, s[1], s[2]) = s[3]

LEMMA Rp1Call ==
  ASSUME NEW on, NEW op, NEW x, NEW v, LegalCall(op, x, v), x \in Rp1s
  PROVE  CallReaches(on, PinCall(on, op, x, v))
<1> DEFINE p == x[2]
           made == PinCall(on, op, x, v)
           new == made.on
<1>1. x[1] = "RP1" /\ x = <<"RP1", p>> /\ p \in Rp1Pins
  BY DEF Rp1s
<1>2. x \notin BcmPins /\ x \notin BankPins
  BY <1>1 DEF BcmPins, BankPins
<1>3. \A w \in {"function", "overrides", "pull", "enables", "data", "direction"} : <<x, w>> \in Facts
  BY DEF Facts
<1>4. /\ Area(x, "function") = Bits(Rp1Ctrl(p), 0 .. 4) /\ Area(x, "overrides") = Bits(Rp1Ctrl(p), 12 .. 15)
      /\ Area(x, "pull") = Bits(Rp1Pad(p), 2 .. 3) /\ Area(x, "enables") = Bits(Rp1Pad(p), 6 .. 7)
      /\ Area(x, "data") = {Rio(p, "OUT")} /\ Area(x, "direction") = {Rio(p, "OE")}
  BY <1>1 DEF Area
<1>5. \A y : /\ Seen(y, x, "function") = Number(y, Rp1Ctrl(p), 0, 5)
             /\ Seen(y, x, "overrides") = Number(y, Rp1Ctrl(p), 12, 4)
             /\ Seen(y, x, "pull") = Number(y, Rp1Pad(p), PULL_DOWN, 2)
             /\ Seen(y, x, "enables") = Number(y, Rp1Pad(p), IN_ENABLE, 2)
             /\ Seen(y, x, "data") = (Rio(p, "OUT") \in y)
             /\ Seen(y, x, "direction") = IF Rio(p, "OE") \in y THEN "output" ELSE "input"
  BY <1>1 DEF Seen
<1>6. CASE op = "function"
  <2>1. v \in 0 .. 31
    BY <1>2, <1>6 DEF LegalCall
  <2>2. made = [on |-> Rp1GpioSetFunction(on, p, v),
                sets |-> {<<x, "function", v>>, <<x, "overrides", 0>>, <<x, "enables", 1>>}]
    BY <1>1, <1>6 DEF PinCall
  <2>3. new = Rp1GpioSetFunction(on, p, v)
        /\ made.sets = {<<x, "function", v>>, <<x, "overrides", 0>>, <<x, "enables", 1>>}
    BY <2>2
  <2> HIDE DEF made, p
  <2>4. FunctionTaken(on, new, p, v)
    BY <2>1, <2>3, FunctionSet
  <2>5. \A s \in made.sets : <<s[1], s[2]>> \in Facts /\ Seen(new, s[1], s[2]) = s[3]
    BY <1>3, <1>5, <2>3, <2>4 DEF FunctionTaken
  <2>6. \A b : (\A s \in made.sets : b \notin Area(s[1], s[2])) => (b \in on <=> b \in new)
    BY <1>4, <2>3, <2>4 DEF FunctionTaken, Only
  <2> QED BY <2>5, <2>6 DEF CallReaches, made
<1>7. CASE op = "pull"
  <2>1. v \in 0 .. 2
    BY <1>7 DEF LegalCall
  <2>2. made = [on |-> Rp1GpioSetPull(on, p, PullName(v)), sets |-> {<<x, "pull", v>>}]
    BY <1>1, <1>7 DEF PinCall, PullName
  <2>3. new = Rp1GpioSetPull(on, p, PullName(v))
    BY <2>2
  <2>4. made.sets = {<<x, "pull", v>>}
    BY <2>2
  <2> HIDE DEF made, p
  <2>5. PullTaken(on, new, p, v)
    BY <2>1, <2>3, PullSet
  <2>6. \A s \in made.sets : <<s[1], s[2]>> \in Facts /\ Seen(new, s[1], s[2]) = s[3]
    BY <1>3, <1>5, <2>4, <2>5 DEF PullTaken
  <2>7. \A b : (\A s \in made.sets : b \notin Area(s[1], s[2])) => (b \in on <=> b \in new)
    BY <1>4, <2>4, <2>5 DEF PullTaken, Only
  <2> QED BY <2>6, <2>7 DEF CallReaches, made
<1>8. CASE op = "data"
  <2>1. v \in BOOLEAN
    BY <1>8 DEF LegalCall
  <2>2. made = [on |-> Rp1GpioWrite(on, p, v), sets |-> {<<x, "data", v>>}]
    BY <1>1, <1>8 DEF PinCall
  <2>3. new = Flip(on, Rio(p, "OUT"), v) /\ made.sets = {<<x, "data", v>>}
    BY <2>2 DEF Rp1GpioWrite
  <2> HIDE DEF made, p
  <2>4. /\ \A b : b # Rio(p, "OUT") => (b \in on <=> b \in new)
        /\ Rio(p, "OUT") \in new <=> v
    BY <2>1, <2>3 DEF Flip
  <2>5. (Rio(p, "OUT") \in new) = v
    BY <2>1, <2>4
  <2>6. \A s \in made.sets : <<s[1], s[2]>> \in Facts /\ Seen(new, s[1], s[2]) = s[3]
    BY <1>3, <1>5, <2>3, <2>5
  <2>7. \A b : (\A s \in made.sets : b \notin Area(s[1], s[2])) => (b \in on <=> b \in new)
    BY <1>4, <2>3, <2>4
  <2> QED BY <2>6, <2>7 DEF CallReaches, made
<1>9. CASE op = "direction"
  <2> DEFINE mid == Flip(on, Rio(p, "OE"), v = "output")
  <2>1. v \in {"input", "output"}
    BY <1>9 DEF LegalCall
  <2>2. made = [on |-> Rp1GpioSetDirection(on, p, v = "output"),
                sets |-> {<<x, "direction", v>>}
                           \cup {<<x, "function", 5>>, <<x, "overrides", 0>>, <<x, "enables", 1>>}]
    BY <1>1, <1>9 DEF PinCall, FUNC_RIO
  <2>3. /\ new = Rp1GpioSetFunction(mid, p, 5)
        /\ made.sets = {<<x, "direction", v>>, <<x, "function", 5>>, <<x, "overrides", 0>>, <<x, "enables", 1>>}
    BY <2>2 DEF Rp1GpioSetDirection, FUNC_RIO
  <2>4. /\ \A b : b # Rio(p, "OE") => (b \in on <=> b \in mid)
        /\ Rio(p, "OE") \in mid <=> v = "output"
    BY <2>1 DEF Flip
  <2> HIDE DEF made, p, mid
  <2>5. FunctionTaken(mid, new, p, 5)
    <3>1. 5 \in 0 .. 31
      OBVIOUS
    <3> QED BY <2>3, <3>1, FunctionSet
  <2>6. Rio(p, "OE") \in new <=> v = "output"
    <3>1. Rio(p, "OE") \notin Bits(Rp1Ctrl(p), 0 .. 4) \cup Bits(Rp1Ctrl(p), 12 .. 15) \cup Bits(Rp1Pad(p), 6 .. 7)
      BY DEF Rio, Bits, Rp1Ctrl, Rp1Pad
    <3> QED BY <2>4, <2>5, <3>1 DEF FunctionTaken, Only
  <2>7. \A s \in made.sets : <<s[1], s[2]>> \in Facts /\ Seen(new, s[1], s[2]) = s[3]
    BY <1>3, <1>5, <2>1, <2>3, <2>5, <2>6 DEF FunctionTaken
  <2>8. \A b : (\A s \in made.sets : b \notin Area(s[1], s[2])) => (b \in on <=> b \in new)
    BY <1>4, <2>3, <2>4, <2>5 DEF FunctionTaken, Only
  <2> QED BY <2>7, <2>8 DEF CallReaches, made
<1> QED BY <1>6, <1>7, <1>8, <1>9 DEF LegalCall

LEMMA BcmCall ==
  ASSUME NEW on, NEW op, NEW x, NEW v, LegalCall(op, x, v), x \notin Rp1s
  PROVE  CallReaches(on, PinCall(on, op, x, v))
<1> DEFINE t == x[1]
           p == x[2]
           made == PinCall(on, op, x, v)
           new == made.on
           mux == PinField(t, p, "mux", 4)
           ctl == PinField(t, p, "ctl", 2)
           data == <<BankReg(t, p, "DATA"), p>>
           dir == <<BankReg(t, p, "IODIR"), p>>
<1>1. x \in BcmPins
  BY DEF LegalCall, BankPins
<1>2. t \in {"GIO", "GIO_AON"} /\ p \in 0 .. 46 /\ t # "RP1"
  BY <1>1 DEF BcmPins
<1>3. mux[2] \in Int /\ ctl[2] \in Int
  <2>1. "mux" \in {"mux", "ctl"} /\ "ctl" \in {"mux", "ctl"} /\ 4 \in Nat /\ 2 \in Nat
    OBVIOUS
  <2> QED BY <1>2, <2>1, FieldOfPin, Zenon
<1>4. Area(x, "function") = FieldArea(mux, 4) /\ Area(x, "pull") = FieldArea(ctl, 2)
      /\ Area(x, "data") = {data} /\ Area(x, "direction") = {dir}
  BY <1>2 DEF Area
<1>5. \A y : /\ Seen(y, x, "function") = GetField(y, mux, 4, 9) /\ Seen(y, x, "pull") = GetField(y, ctl, 2, 0)
             /\ Seen(y, x, "data") = (data \in y)
             /\ Seen(y, x, "direction") = IF dir \in y THEN "input" ELSE "output"
  BY <1>2 DEF Seen, GpioGetFunction, GpioGetPull, GpioRead, GpioGetDirection
<1>6. <<x, "function">> \in Facts /\ <<x, "pull">> \in Facts
  BY <1>1 DEF Facts
<1>7. CASE op = "function"
  <2>1. v \in 0 .. 2^4 - 1
    BY <1>7 DEF LegalCall
  <2>2. made = [on |-> GpioSetFunction(on, t, p, v), sets |-> IF Unused(mux) THEN {} ELSE {<<x, "function", v>>}]
    BY <1>2, <1>7 DEF PinCall
  <2>3. new = SetField(on, mux, 4, v) /\ made.sets = IF Unused(mux) THEN {} ELSE {<<x, "function", v>>}
    BY <2>2 DEF GpioSetFunction
  <2> HIDE DEF made, mux, p, t
  <2>4. 4 \in {2, 4}
    OBVIOUS
  <2>5. /\ Only(on, new, FieldArea(mux, 4))
        /\ ~Unused(mux) => \A default : GetField(new, mux, 4, default) = v
    <3> DEFINE set == SetField(on, mux, 4, v)
    <3>1. /\ Only(on, set, FieldArea(mux, 4))
          /\ ~Unused(mux) => \A default : GetField(set, mux, 4, default) = v
      BY <1>3, <2>1, <2>4, FieldSet
    <3> QED BY <2>3, <3>1
  <2>6. \A s \in made.sets : <<s[1], s[2]>> \in Facts /\ Seen(new, s[1], s[2]) = s[3]
    BY <1>5, <1>6, <2>3, <2>5
  <2>7. \A b : (\A s \in made.sets : b \notin Area(s[1], s[2])) => (b \in on <=> b \in new)
    <3>1. CASE Unused(mux)
      <4>1. FieldArea(mux, 4) = {}
        BY <3>1 DEF FieldArea
      <4> QED BY <2>5, <4>1 DEF Only
    <3>2. CASE ~Unused(mux)
      <4>1. made.sets = {<<x, op, v>>}
        BY <1>7, <2>3, <3>2
      <4> QED BY <1>4, <1>7, <2>5, <4>1 DEF Only
    <3> QED BY <3>1, <3>2
  <2> QED BY <2>6, <2>7 DEF CallReaches, made
<1>8. CASE op = "pull"
  <2>1. v \in 0 .. 2 /\ v \in 0 .. 2^2 - 1
    BY <1>8 DEF LegalCall
  <2>2. made = [on |-> GpioSetPull(on, t, p, v), sets |-> IF Unused(ctl) THEN {} ELSE {<<x, "pull", v>>}]
    BY <1>2, <1>8 DEF PinCall
  <2>3. new = SetField(on, ctl, 2, v) /\ made.sets = IF Unused(ctl) THEN {} ELSE {<<x, "pull", v>>}
    BY <2>1, <2>2 DEF GpioSetPull
  <2> HIDE DEF made, ctl, p, t
  <2>4. 2 \in {2, 4}
    OBVIOUS
  <2>5. /\ Only(on, new, FieldArea(ctl, 2))
        /\ ~Unused(ctl) => \A default : GetField(new, ctl, 2, default) = v
    <3> DEFINE set == SetField(on, ctl, 2, v)
    <3>1. /\ Only(on, set, FieldArea(ctl, 2))
          /\ ~Unused(ctl) => \A default : GetField(set, ctl, 2, default) = v
      BY <1>3, <2>1, <2>4, FieldSet
    <3> QED BY <2>3, <3>1
  <2>6. \A s \in made.sets : <<s[1], s[2]>> \in Facts /\ Seen(new, s[1], s[2]) = s[3]
    BY <1>5, <1>6, <2>3, <2>5
  <2>7. \A b : (\A s \in made.sets : b \notin Area(s[1], s[2])) => (b \in on <=> b \in new)
    <3>1. CASE Unused(ctl)
      <4>1. FieldArea(ctl, 2) = {}
        BY <3>1 DEF FieldArea
      <4> QED BY <2>5, <4>1 DEF Only
    <3>2. CASE ~Unused(ctl)
      <4>1. made.sets = {<<x, op, v>>}
        BY <1>8, <2>3, <3>2
      <4> QED BY <1>4, <1>8, <2>5, <4>1 DEF Only
    <3> QED BY <3>1, <3>2
  <2> QED BY <2>6, <2>7 DEF CallReaches, made
<1>9. CASE op = "data"
  <2>1. v \in BOOLEAN /\ <<x, "data">> \in Facts
    BY <1>9 DEF LegalCall, Facts
  <2>2. made = [on |-> GpioWrite(on, t, p, v), sets |-> {<<x, "data", v>>}]
    BY <1>2, <1>9 DEF PinCall
  <2>3. new = Flip(on, data, v) /\ made.sets = {<<x, "data", v>>}
    BY <2>2 DEF GpioWrite
  <2> HIDE DEF made, data, p, t
  <2>4. /\ \A b : b # data => (b \in on <=> b \in new)
        /\ data \in new <=> v
    BY <2>1, <2>3 DEF Flip
  <2>5. (data \in new) = v
    BY <2>1, <2>4
  <2>6. \A s \in made.sets : <<s[1], s[2]>> \in Facts /\ Seen(new, s[1], s[2]) = s[3]
    BY <1>5, <2>1, <2>3, <2>5
  <2>7. \A b : (\A s \in made.sets : b \notin Area(s[1], s[2])) => (b \in on <=> b \in new)
    BY <1>4, <2>3, <2>4
  <2> QED BY <2>6, <2>7 DEF CallReaches, made
<1>10. CASE op = "direction"
  <2>1. v \in {"input", "output"} /\ <<x, "direction">> \in Facts
    BY <1>10 DEF LegalCall, Facts
  <2>2. made = [on |-> GpioSetDirection(on, t, p, v), sets |-> {<<x, "direction", v>>}]
    BY <1>2, <1>10 DEF PinCall
  <2>3. new = Flip(on, dir, v = "input") /\ made.sets = {<<x, "direction", v>>}
    BY <2>2 DEF GpioSetDirection
  <2> HIDE DEF made, dir, p, t
  <2>4. /\ \A b : b # dir => (b \in on <=> b \in new)
        /\ dir \in new <=> v = "input"
    BY <2>1, <2>3 DEF Flip
  <2>5. \A s \in made.sets : <<s[1], s[2]>> \in Facts /\ Seen(new, s[1], s[2]) = s[3]
    BY <1>5, <2>1, <2>3, <2>4
  <2>6. \A b : (\A s \in made.sets : b \notin Area(s[1], s[2])) => (b \in on <=> b \in new)
    BY <1>4, <2>3, <2>4
  <2> QED BY <2>5, <2>6 DEF CallReaches, made
<1> QED BY <1>7, <1>8, <1>9, <1>10 DEF LegalCall

\* For every content of the registers: a legal call of Bcm2712GpioLib or
\* Rp1GpioLib does to its pin what it says, and nothing else to any pin of
\* either chip.
THEOREM PinCallsExact ==
  ASSUME NEW on, NEW op, NEW x, NEW v, LegalCall(op, x, v)
  PROVE  PinCallExact(on, op, x, v)
<1> DEFINE made == PinCall(on, op, x, v)
<1>1. CallReaches(on, made)
  BY Rp1Call, BcmCall
<1> HIDE DEF made
<1>2. ASSUME NEW f \in Facts, \A s \in made.sets : <<s[1], s[2]>> # f
      PROVE  Seen(made.on, f[1], f[2]) = Seen(on, f[1], f[2])
  <2>1. ASSUME NEW b \in Area(f[1], f[2])
        PROVE  b \in on <=> b \in made.on
    <3>1. ASSUME NEW s \in made.sets
          PROVE  b \notin Area(s[1], s[2])
      <4>1. <<s[1], s[2]>> \in Facts /\ <<s[1], s[2]>> # f
        BY <1>1, <1>2 DEF CallReaches
      <4>2. b \notin Area(<<s[1], s[2]>>[1], <<s[1], s[2]>>[2])
        BY <2>1, <4>1, AreasApart
      <4> QED BY <4>2
    <3> QED BY <1>1, <3>1 DEF CallReaches
  <2>2. Same(on, made.on, Area(f[1], f[2]))
    BY <2>1 DEF Same
  <2> QED BY <2>2, SeenInArea
<1>3. \A s \in made.sets : <<s[1], s[2]>> \in Facts /\ Seen(made.on, s[1], s[2]) = s[3]
  BY <1>1 DEF CallReaches
<1> QED BY <1>2, <1>3 DEF PinCallExact, made

\* Every call of the pin libraries, on every pin of either chip, changes what it
\* says of its pin and leaves every other fact of every pin as it was.
THEOREM PinsNeverMixed == LibSpec => []PinsApart
<1>1. LibInit => PinsApart
  <2>1. ASSUME LibInit, subject.what = "pin"
        PROVE  LegalCall(subject.op, subject.pin, subject.v)
    <3>1. ~TextCases
      <4>1. ASSUME NEW text, NEW values, subject = [what |-> "text", text |-> text, values |-> values]
            PROVE  FALSE
        BY <2>1, <4>1
      <4> QED BY <4>1, Zenon DEF TextCases
    <3>2. ~ReplaceCases
      <4>1. ASSUME NEW image, NEW part, NEW name, NEW data,
                   subject = [what |-> "replace", image |-> image, part |-> part, name |-> name, data |-> data]
            PROVE  FALSE
        BY <2>1, <4>1
      <4> QED BY <4>1, Zenon DEF ReplaceCases
    <3>3. ~PatchCases
      <4>1. ASSUME NEW image, NEW values, subject = [what |-> "patch", image |-> image, values |-> values]
            PROVE  FALSE
        BY <2>1, <4>1
      <4> QED BY <4>1 DEF PatchCases
    <3>4. PinCases
      BY <2>1, <3>1, <3>2, <3>3 DEF LibInit
    <3>5. PICK op \in {"function", "pull", "data", "direction"}, on \in {{}, AllOn} :
            \E v \in PinValues(op), x \in Rp1s \cup (IF op \in {"data", "direction"} THEN BankPins ELSE BcmPins) :
              subject = [what |-> "pin", on |-> on, op |-> op, pin |-> x, v |-> v]
      BY <3>4 DEF PinCases
    <3>6. PICK v \in PinValues(op), x \in Rp1s \cup (IF op \in {"data", "direction"} THEN BankPins ELSE BcmPins) :
            subject = [what |-> "pin", on |-> on, op |-> op, pin |-> x, v |-> v]
      BY <3>5
    <3>7. subject.op = op /\ subject.pin = x /\ subject.v = v
      BY <3>6
    <3> QED BY <3>5, <3>6, <3>7 DEF LegalCall, PinValues
  <2> QED BY <2>1, PinCallsExact DEF PinsApart
<1>2. PinsApart /\ [LibNext]_libVars => PinsApart'
  <2>1. [LibNext]_libVars => UNCHANGED subject
    BY DEF LibNext, libVars
  <2> QED BY <2>1 DEF PinsApart
<1> QED BY <1>1, <1>2, PTL DEF LibSpec
=============================================================================
