----------------------------- MODULE ActiveCooler -----------------------------
(***************************************************************************)
(* ActiveCoolerDxe: the fan loop, ticking once a second at TPL_CALLBACK,   *)
(* against a changing temperature, a FanPolicy variable rewritten by Setup *)
(* or the BMC, and the override RpiRedfishSyncDxe stages (PollFanOverride, *)
(* also at TPL_CALLBACK, so it and a tick never interleave).               *)
(***************************************************************************)
EXTENDS Integers

CONSTANTS RawReadings,  \* values of AVS_RO_TEMP_STATUS[9:0] the sensor can show
          PolicyVars,   \* contents the FanPolicy variable can have
          NoVar,        \* the variable is missing or has the wrong size
          BmcLevels     \* integers the BMC can serve as FanOverrideLevel

ByteTuples == [1 .. 4 -> 0 .. 255]

ASSUME CoolerAssumption ==
  /\ RawReadings \subseteq 0 .. 1023
  /\ NoVar \notin PolicyVars
  /\ PolicyVars \subseteq [Mode : 0 .. 255, FixedLevel : 0 .. 255, TripC : ByteTuples]
  /\ BmcLevels \subseteq Int

VARIABLES
  rp1,        \* RP1_BUS_PROTOCOL is installed
  mRp1Base,   \* the driver has found it and set the PWM up (# 0)
  mLevel,     \* the commanded level, -1 until the first command
  mOverride,  \* the pinned level, -1 for none
  policyVar,  \* the FanPolicy variable
  raw, valid, \* the AVS register: the reading and its validity bits
  polling,    \* mPollTimer runs
  left        \* history: the last level the loop stepped down from, and how

coolerVars == <<rp1, mRp1Base, mLevel, mOverride, policyVar, raw, valid, polling, left>>

-----------------------------------------------------------------------------
AUTO == 0
FIXED == 1
CUSTOM == 2
LevelMax  == 4
LevelSafe == 2
HystMilliC == 5000
Levels == 0 .. LevelMax

mFanLevels == [l \in 1 .. 4 |-> IF l = 1 THEN 50000 ELSE IF l = 2 THEN 60000
                                ELSE IF l = 3 THEN 67500 ELSE 75000]

AvsReadMilliCelsius == 450000 - 550 * raw

Ascending(t) ==
  /\ t[1] >= 30 /\ t[4] <= 90
  /\ t[1] < t[2] /\ t[2] < t[3] /\ t[3] < t[4]

\* A FixedLevel that does not exist.
Sanitized(level) == IF level > LevelMax THEN LevelSafe ELSE level

\* Any variable that cannot be used means AUTO.
ReadPolicy(var) ==
  IF \/ var = NoVar
     \/ var.Mode > CUSTOM
     \/ var.Mode = CUSTOM /\ ~Ascending(var.TripC)
  THEN [Mode |-> AUTO, FixedLevel |-> LevelSafe, TripC |-> [l \in 1 .. 4 |-> 0]]
  ELSE [var EXCEPT !.FixedLevel = Sanitized(@)]

mPolicy == ReadPolicy(policyVar)

TripMilliC(policy, l) ==
  IF policy.Mode # CUSTOM THEN mFanLevels[l] ELSE policy.TripC[l] * 1000

\* The highest level whose trip the temperature has reached.
Demand ==
  LET reached == {l \in 1 .. LevelMax : AvsReadMilliCelsius >= TripMilliC(mPolicy, l)}
  IN  IF reached = {} THEN 0 ELSE CHOOSE l \in reached : \A k \in reached : k <= l

\* Mutants: up by single steps, no hysteresis, never down.
LoopLevelSlow == IF mLevel < Demand THEN mLevel + 1 ELSE IF mLevel = Demand THEN mLevel ELSE mLevel - 1
LoopLevelNoBand == IF mLevel <= Demand THEN Demand ELSE mLevel - 1
LoopLevelStuck == IF mLevel <= Demand THEN Demand ELSE mLevel

\* Up at once; down one level, and only below the hysteresis band.
LoopLevel ==
  IF mLevel <= Demand THEN Demand
  ELSE IF AvsReadMilliCelsius >= TripMilliC(mPolicy, mLevel) - HystMilliC THEN mLevel
  ELSE mLevel - 1

\* Override, then FIXED, then an invalid sensor, then the loop.
Looping == mOverride < 0 /\ mPolicy.Mode # FIXED /\ valid

TickLevel ==
  IF mOverride >= 0 THEN mOverride
  ELSE IF mPolicy.Mode = FIXED THEN mPolicy.FixedLevel
  ELSE IF ~valid THEN IF mLevel < LevelSafe THEN LevelSafe ELSE mLevel
  ELSE LoopLevel

CoolerInit ==
  /\ rp1 = FALSE /\ mRp1Base = FALSE
  /\ mLevel = -1 /\ mOverride = -1
  /\ policyVar \in PolicyVars \cup {NoVar}
  /\ raw \in RawReadings /\ valid \in BOOLEAN
  /\ polling = TRUE
  /\ left = [level |-> 0, milliC |-> 0, policy |-> NoVar]

-----------------------------------------------------------------------------
(* The driver.                                                             *)

\* The timer idles until the RP1 has been connected.
FanPollTick ==
  /\ polling
  /\ rp1
  /\ mRp1Base' = TRUE
  /\ mLevel' = TickLevel
  /\ left' = IF Looping /\ mLevel' < mLevel
             THEN [level |-> mLevel, milliC |-> AvsReadMilliCelsius, policy |-> policyVar]
             ELSE left
  /\ UNCHANGED <<rp1, mOverride, policyVar, raw, valid, polling>>

\* Mutant: the override waits for the next tick.
SetOverrideLater(level) ==
  /\ level <= LevelMax
  /\ mOverride' = level
  /\ UNCHANGED <<rp1, mRp1Base, mLevel, policyVar, raw, valid, polling, left>>

\* EFI_INVALID_PARAMETER leaves an earlier override in place.
FanSetOverride(level) ==
  /\ level <= LevelMax
  /\ mOverride' = level
  /\ mLevel' = IF mRp1Base THEN level ELSE mLevel
  /\ UNCHANGED <<rp1, mRp1Base, policyVar, raw, valid, polling, left>>

FanClearOverride ==
  /\ mOverride' = -1
  /\ UNCHANGED <<rp1, mRp1Base, mLevel, policyVar, raw, valid, polling, left>>

\* PollFanOverride: served is a set with the integer found, or the empty set.
PollFanOverride(served) ==
  /\ polling
  /\ IF served \cap 0 .. 255 = {} THEN FanClearOverride
     ELSE \E level \in served \cap 0 .. 255 : FanSetOverride(level)

\* Mutant: no airflow is left behind.
FloorMissing == mLevel
Floor == IF mRp1Base /\ mLevel < 1 THEN 1 ELSE mLevel

FanOnExitBootServices ==
  /\ polling
  /\ polling' = FALSE
  /\ mLevel' = Floor
  /\ UNCHANGED <<rp1, mRp1Base, mOverride, policyVar, raw, valid, left>>

-----------------------------------------------------------------------------
(* The surroundings.                                                       *)

ConnectRp1 ==
  /\ polling /\ ~rp1
  /\ rp1' = TRUE
  /\ UNCHANGED <<mRp1Base, mLevel, mOverride, policyVar, raw, valid, polling, left>>

Sensor(r, v) ==
  /\ polling
  /\ raw' = r /\ valid' = v
  /\ UNCHANGED <<rp1, mRp1Base, mLevel, mOverride, policyVar, polling, left>>

WritePolicy(p) ==
  /\ polling
  /\ policyVar' = p
  /\ UNCHANGED <<rp1, mRp1Base, mLevel, mOverride, raw, valid, polling, left>>

-----------------------------------------------------------------------------
CoolerNext ==
  \/ FanPollTick
  \/ \E level \in BmcLevels : PollFanOverride({level})
  \/ PollFanOverride({})
  \/ FanOnExitBootServices
  \/ ConnectRp1
  \/ \E r \in RawReadings, v \in BOOLEAN : Sensor(r, v)
  \/ \E p \in PolicyVars \cup {NoVar} : WritePolicy(p)

\* The timer is periodic.
CoolerSpec == CoolerInit /\ [][CoolerNext]_coolerVars
CoolerFairSpec == CoolerSpec /\ WF_coolerVars(FanPollTick)

-----------------------------------------------------------------------------
(* Properties.                                                             *)

CoolerTypeOK ==
  /\ rp1 \in BOOLEAN /\ mRp1Base \in BOOLEAN /\ valid \in BOOLEAN /\ polling \in BOOLEAN
  /\ mLevel \in -1 .. LevelMax /\ mOverride \in -1 .. LevelMax
  /\ policyVar \in PolicyVars \cup {NoVar}
  /\ raw \in RawReadings
  /\ left \in [level : Levels, milliC : Int, policy : PolicyVars \cup {NoVar}]

\* Once the fan is up it runs at the level the BMC pinned, from the moment
\* it is pinned; only ExitBootServices may raise it from 0 to 1.
OverrideHolds ==
  mRp1Base /\ mOverride >= 0 =>
    mLevel = mOverride \/ (~polling /\ mOverride = 0 /\ mLevel = 1)

\* No tick of the loop leaves the fan below a level whose trip has been
\* reached, nor lowers it by more than one level, nor raises it further than
\* the temperature asks.
CoolsEnough ==
  [][FanPollTick /\ Looping =>
       /\ \A l \in 1 .. LevelMax : AvsReadMilliCelsius >= TripMilliC(mPolicy, l) => mLevel' >= l
       /\ mLevel' >= mLevel - 1
       /\ mLevel' > mLevel /\ mLevel' > 0 => AvsReadMilliCelsius >= TripMilliC(mPolicy, mLevel')]_coolerVars

\* The fan does not chatter: under one policy, the loop returns to a level
\* it stepped down from only after the board has warmed by the hysteresis.
NoChatter ==
  [][FanPollTick /\ Looping /\ left.policy = policyVar /\ left.level > 0
     /\ mLevel < left.level /\ mLevel' >= left.level =>
       AvsReadMilliCelsius > left.milliC + HystMilliC]_coolerVars

\* An OS that drives no fan inherits airflow.
AirflowForOs == ~polling /\ mRp1Base => mLevel >= 1

\* What makes the properties above inductive: a level is commanded exactly
\* when the PWM is set up, and the last step down was below its band.
CommandedOnceUp == (mRp1Base <=> mLevel >= 0) /\ (mRp1Base => rp1)
LeftWhenCool ==
  left.level > 0 => left.milliC < TripMilliC(ReadPolicy(left.policy), left.level) - HystMilliC

CoolerIInv == CoolerTypeOK /\ CommandedOnceUp /\ OverrideHolds /\ AirflowForOs /\ LeftWhenCool

\* While conditions stay put, the loop settles at a level the temperature
\* still justifies: the fan of a cold board is eventually off.
Justified == mLevel >= Demand /\ (mLevel > Demand => AvsReadMilliCelsius >= TripMilliC(mPolicy, mLevel) - HystMilliC)
SettlesDown ==
  \A r \in RawReadings : \A p \in PolicyVars \cup {NoVar} :
    <>[](polling /\ rp1 /\ Looping /\ raw = r /\ policyVar = p) => <>[]Justified
=============================================================================
