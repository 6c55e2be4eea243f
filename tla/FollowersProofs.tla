--------------------------- MODULE FollowersProofs ---------------------------
(* Proofs about Followers for all trajectories, views, inputs and parameters  *)
(* its assumptions allow: the control state is left only for its reason, and  *)
(* every command is one the vehicle may be given.                             *)
(*                                                                            *)
(* The geometry of a road is folded point by point, which the provers cannot  *)
(* follow: GeometryAssumption says that it yields numbers, and TLC evaluates  *)
(* it for every road and view of the instance.                                *)
EXTENDS Followers, SequenceTheorems, WellFoundedInduction, TLAPS

-----------------------------------------------------------------------------
(* Clamps, rate limits and least elements.                                    *)

LEMMA ClampInside ==
    ASSUME NEW n \in Int, NEW lo \in Int, NEW hi \in Int, lo <= hi
    PROVE  ClampInt(n, lo, hi) \in Int /\ lo <= ClampInt(n, lo, hi) /\ ClampInt(n, lo, hi) <= hi
BY DEF ClampInt

(* Clamped numbers are numbers, even when the limits are crossed.             *)
LEMMA ClampIsInt ==
    ASSUME NEW n \in Int, NEW lo \in Int, NEW hi \in Int
    PROVE  ClampInt(n, lo, hi) \in Int
BY DEF ClampInt

(* Moving from prev towards a target never leaves the interval both are in.   *)
LEMMA DiffLimitBetween ==
    ASSUME NEW x \in Int, NEW prev \in Int, NEW up \in Nat, NEW down \in Nat,
           NEW lo \in Int, NEW hi \in Int,
           lo <= x, x <= hi, lo <= prev, prev <= hi
    PROVE  LET y == ClampInt(x, prev - down, prev + up)
           IN  y \in Int /\ lo <= y /\ y <= hi
BY DEF ClampInt

(* applyDiffLimitFilter with rates of the right signs.                        *)
LEMMA DiffLimitInside ==
    ASSUME NEW x \in Int, NEW prev \in Int, NEW dt \in Nat,
           NEW up \in Int, NEW down \in Int, up >= 0, down <= 0,
           NEW lo \in Int, NEW hi \in Int,
           lo <= x, x <= hi, lo <= prev, prev <= hi
    PROVE  LET y == applyDiffLimitFilter(x, prev, dt, up, down)
           IN  y \in Int /\ lo <= y /\ y <= hi
<1>1. PICK a : a = up * dt
  OBVIOUS
<1>2. PICK b : b = (-down) * dt
  OBVIOUS
<1>3. a \in Nat
  BY <1>1
<1>4. b \in Nat /\ down * dt = -b
  BY <1>2
<1>5. prev + down * dt = prev - b
  BY <1>4
<1>6. applyDiffLimitFilter(x, prev, dt, up, down) = ClampInt(x, prev - b, prev + a)
  BY <1>1, <1>5 DEF applyDiffLimitFilter
<1>7. b \in Nat
  BY <1>4
<1>8. LET y == ClampInt(x, prev - b, prev + a) IN y \in Int /\ lo <= y /\ y <= hi
  BY <1>3, <1>7, DiffLimitBetween
<1> QED BY <1>6, <1>8

(* ... and any rates at all give a number.                                    *)
LEMMA DiffLimitIsInt ==
    ASSUME NEW x \in Int, NEW prev \in Int, NEW dt \in Int, NEW up \in Int, NEW down \in Int
    PROVE  applyDiffLimitFilter(x, prev, dt, up, down) \in Int
<1>1. prev + down * dt \in Int /\ prev + up * dt \in Int
  OBVIOUS
<1> QED BY <1>1, ClampIsInt DEF applyDiffLimitFilter

LEMMA AbsIsNat ==
    ASSUME NEW n \in Int
    PROVE  AbsInt(n) \in Nat
BY DEF AbsInt

(* A set of natural numbers that is not empty has a least element.            *)
LEMMA LeastExists ==
    ASSUME NEW S, S \subseteq Nat, S # {}
    PROVE  Min(S) \in S /\ \A y \in S : Min(S) <= y
<1>1. \E x \in S : \A y \in S : ~(<<y, x>> \in OpToRel(<, Nat))
  BY NatLessThanWellFounded, WFMin
<1>2. PICK x \in S : \A y \in S : ~(<<y, x>> \in OpToRel(<, Nat))
  BY <1>1
<1>3. \A y \in S : ~(y < x)
  BY <1>2 DEF OpToRel
<1>4. \A y \in S : x <= y
  BY <1>3
<1> QED BY <1>4 DEF Min

-----------------------------------------------------------------------------
(* The control state is left only for its reason.                             *)

(* The inductive invariant: a convergence is reported only by a cycle that    *)
(* solved and published its own solution, and with both controllers the       *)
(* longitudinal one was told exactly that.                                    *)
SyncInv ==
    /\ lonState \in ControlState
    /\ latPrev = latOut
    /\ latConverged => latSolved = "ok"
    /\ part = "both" => lonSync = latConverged

LEMMA NextStateIsState ==
    ASSUME lonState \in ControlState, NEW c, NEW in
    PROVE  NextControlState(c, in) \in ControlState
BY DEF NextControlState, ControlState

(* changeControlState enters STOPPED only by the condition of a vehicle that  *)
(* has not been running.                                                      *)
LEMMA StopsNotRunning ==
    ASSUME lonState \in ControlState, lonState # "STOPPED", NEW c, NEW in,
           NextControlState(c, in) = "STOPPED"
    PROVE  isNotRunning(c, in)
<1>1. StoppedCondition(c, in)
  BY DEF NextControlState, ControlState
<1>2. P.stoppedTime \in Nat
  BY LonAssumption DEF LonAssumption, LonParamsOK
<1> QED BY <1>1, <1>2 DEF StoppedCondition, RunAge

LEMMA EmergencyEnds ==
    ASSUME lonState = "EMERGENCY", NEW c, NEW in, in.under
    PROVE  NextControlState(c, in) \in {"EMERGENCY", "STOPPED"}
BY DEF NextControlState, isUnderControl

LEMMA DepartsOnSync ==
    ASSUME P.keepStopped, lonState = "STOPPED", NEW c, NEW in, in.v = 0,
           NextControlState(c, in) = "DRIVE"
    PROVE  lonSync
BY DEF NextControlState, KeepStopped, CurrentKeep

(* A run of the longitudinal controller leaves its state as it may.           *)
LEMMA LonRunChanges ==
    ASSUME P.keepStopped, SyncInv, NEW in, LonRun(in), seen' = Seen(in)
    PROVE  /\ lonState' \in ControlState
           /\ StoppedOnlyStanding
           /\ EmergencyHeld
           /\ lonState = "STOPPED" /\ lonState' = "DRIVE" /\ seen'.stand => lonSync
<1>1. CASE LonFar(in)
  <2>1. lonState' = "EMERGENCY" \/ lonState' = lonState
    BY <1>1 DEF LonFar
  <2> QED BY <2>1 DEF SyncInv, ControlState, StoppedOnlyStanding, EmergencyHeld
<1>2. CASE LonNear(in)
  <2>1. PICK c : c = ControlData[in.view][setTrajectory(in)]
    OBVIOUS
  <2>2. lonState' = NextControlState(c, in) /\ ~isFar(in)
    BY <1>2, <2>1 DEF LonNear, LonDecide, LonMove, UpdateControlState
  <2>3. /\ seen'.near /\ seen'.running = ~isNotRunning(c, in)
        /\ seen'.under = in.under /\ seen'.stand = (in.v = 0)
    BY <2>1, <2>2 DEF Seen
  <2>4. StoppedOnlyStanding
    BY <2>2, <2>3, StopsNotRunning DEF SyncInv, StoppedOnlyStanding
  <2>5. EmergencyHeld
    BY <2>2, <2>3, EmergencyEnds DEF EmergencyHeld
  <2>6. ASSUME lonState = "STOPPED", lonState' = "DRIVE", seen'.stand PROVE lonSync
    <3>1. in.v = 0 /\ NextControlState(c, in) = "DRIVE"
      BY <2>2, <2>3, <2>6
    <3> QED BY <2>6, <3>1, DepartsOnSync, Zenon
  <2> QED BY <2>2, <2>4, <2>5, <2>6, NextStateIsState DEF SyncInv
<1> QED BY <1>1, <1>2 DEF LonRun

(* A run of the lateral controller reports only what it solved.               *)
LEMMA LatRunReports ==
    ASSUME NEW in, LatRun(in)
    PROVE  latPrev' = latOut' /\ (latConverged' => latSolved' = "ok")
BY DEF LatRun, LatPublish

LEMMA NextChanges ==
    ASSUME P.keepStopped, SyncInv, [Next]_folVars
    PROVE  SyncInv' /\ StoppedOnlyStanding /\ EmergencyHeld /\ DepartsSteered
<1>1. ASSUME NEW in \in BothInputs, Cycle(in)
      PROVE  SyncInv' /\ StoppedOnlyStanding /\ EmergencyHeld /\ DepartsSteered
  <2>1. LatRun(in) /\ LonRun(in) /\ seen' = Seen(in) /\ lonSync' = latConverged'
        /\ part = "both" /\ part' = part
    BY <1>1 DEF Cycle
  <2>2. SyncInv'
    BY <2>1, LonRunChanges, LatRunReports DEF SyncInv
  <2>3. DepartsSteered
    BY <2>1, LonRunChanges DEF DepartsSteered, SyncInv
  <2> QED BY <2>1, <2>2, <2>3, LonRunChanges
<1>2. ASSUME NEW in \in LonInputs, LonCycle(in)
      PROVE  SyncInv' /\ StoppedOnlyStanding /\ EmergencyHeld /\ DepartsSteered
  <2>1. LonRun(in) /\ seen' = Seen(in) /\ part = "lon" /\ part' = part /\ UNCHANGED latVars
    BY <1>2 DEF LonCycle
  <2>2. SyncInv'
    BY <2>1, LonRunChanges DEF SyncInv, latVars
  <2> QED BY <2>1, <2>2, LonRunChanges DEF DepartsSteered
<1>3. ASSUME NEW in \in LatInputs, LatCycle(in)
      PROVE  SyncInv' /\ StoppedOnlyStanding /\ EmergencyHeld /\ DepartsSteered
  <2>1. LatRun(in) /\ part = "lat" /\ part' = part /\ lonState' = lonState
    BY <1>3 DEF LatCycle, lonVars
  <2> QED BY <2>1, LatRunReports
          DEF SyncInv, StoppedOnlyStanding, EmergencyHeld, DepartsSteered
<1>4. CASE UNCHANGED folVars
  BY <1>4 DEF SyncInv, StoppedOnlyStanding, EmergencyHeld, DepartsSteered, folVars, lonVars, latVars
<1> QED BY <1>1, <1>2, <1>3, <1>4 DEF Next

(* STOPPED is entered only standing, an emergency under control ends only in  *)
(* STOPPED, and from a standstill the vehicle departs only on a convergence   *)
(* of the cycle before (with the shipped enable_keep_stopped_until_steer_     *)
(* convergence), for all trajectories, inputs and limits.                     *)
THEOREM StateAlwaysChangesForItsReason ==
    ASSUME P.keepStopped
    PROVE  Spec => StateChanges
<1>1. Init => SyncInv
  BY DEF Init, LonInit, LatInit, SyncInv, ControlState
<1>2. SyncInv /\ [Next]_folVars => SyncInv'
  BY NextChanges
<1>3. SyncInv /\ [Next]_folVars => [StoppedOnlyStanding /\ EmergencyHeld /\ DepartsSteered]_folVars
  BY NextChanges
<1> QED BY <1>1, <1>2, <1>3, PTL DEF Spec, StateChanges

-----------------------------------------------------------------------------
(* The accelerations of the longitudinal controller.                          *)

(* The emergency acceleration inside the limits, and the least ramp towards   *)
(* it in one cycle.                                                           *)
EmgTarget == ClampInt(P.emgAcc, P.minAcc, P.maxAcc)
EmgStep == AbsInt(P.emgJerk) * (P.period \div 2)

InLimits(acc) == acc \in Int /\ P.minAcc <= acc /\ acc <= P.maxAcc
InSlope(acc) == acc \in Int /\ P.minAcc - P.slope <= acc /\ acc <= P.maxAcc + P.slope

(* Where the raw acceleration may be after k emergency cycles in a row.       *)
RampBound(k) == MaxInt(EmgTarget, P.maxAcc - k * EmgStep)

(* The inductive invariant of the longitudinal controller: the raw command is *)
(* inside the limits, the published one inside them widened by the slope, so  *)
(* that the two rate limits cannot carry either of them out.                  *)
LonInv ==
    /\ lonState \in ControlState /\ lonTraj \in 0..Len(Roads) /\ lonShift \in {-1, 1}
    /\ lonRaw \in Motion /\ InLimits(lonRaw.acc)
    /\ lonCmd \in Motion /\ InSlope(lonCmd.acc)
    /\ lonKeep \in {"none", "keep", "go"} /\ lonRunAge \in Nat
    /\ lonPid \in {"reset", "running", "wound"}
    /\ lonSmooth \in [strong : Int, weakAge : Int]
    /\ lonEmg \in 0..EmgCap
    /\ lonRaw.acc <= RampBound(lonEmg)

(* An input of a cycle of the longitudinal controller.                        *)
LonInput(in) ==
    /\ in.traj \in 1..Len(Roads) /\ in.view \in DOMAIN Views
    /\ in.elapsed \in Nat /\ {in.valid, in.under} \subseteq BOOLEAN
    /\ {in.v, in.acc, in.predVel, in.pid, in.slope} \subseteq Int

(* What the geometry of a road yields when it is not far.                     *)
Geometry(c) ==
    /\ c.pts \in Seq([x : Int, yaw : Int, v : Int, a : Int])
    /\ {c.targetVel, c.targetAcc, c.nearestVel, c.stopDist} \subseteq Int

LEMMA Params ==
    /\ P.period \in Nat \ {0} /\ P.delay \in Nat /\ P.stoppedTime \in Nat
    /\ P.integrateTime \in Nat /\ P.weakTime \in Nat /\ P.slope \in Nat
    /\ P.maxAcc \in Nat /\ P.maxJerk \in Nat /\ P.maxAccDiff \in Nat
    /\ P.minAcc \in Int /\ P.minJerk \in Int /\ P.minPid \in Int /\ P.maxPid \in Int
    /\ P.brakeKeepAcc \in Int /\ P.minStrong \in Int /\ P.maxStrong \in Int
    /\ P.weak \in Int /\ P.weakStop \in Int /\ P.strongStop \in Int
    /\ P.stoppedVelCmd \in Int /\ P.stoppedAcc \in Int
    /\ P.emgVel \in Int /\ P.emgAcc \in Int /\ P.emgJerk \in Int
    /\ P.minAcc <= 0 /\ P.minJerk <= 0
    /\ P.minAcc <= P.stoppedAcc /\ P.stoppedAcc <= P.maxAcc
    /\ EmgCap \in Nat /\ Len(Roads) \in Nat /\ DOMAIN Roads = 1..Len(Roads)
BY LonAssumption DEF LonAssumption, LonParamsOK

(* The limits of the acceleration enclose an interval.                        *)
LEMMA AccLimits ==
    P.minAcc \in Int /\ P.maxAcc \in Int /\ P.minAcc <= P.maxAcc
<1>1. P.minAcc \in Int /\ P.minAcc <= 0 /\ P.maxAcc \in Nat
  BY Params, Zenon
<1>2. PICK lo \in Int, hi \in Nat : lo = P.minAcc /\ hi = P.maxAcc
  BY <1>1, Zenon
<1>3. lo <= 0
  BY <1>1, <1>2, Zenon
<1>4. lo <= hi
  BY <1>3
<1> QED BY <1>2, <1>4

LEMMA HalfOfNat ==
    ASSUME NEW n \in Nat
    PROVE  n \div 2 \in Nat /\ n \div 2 <= n
OBVIOUS

(* getDt never hands a filter less than half a period.                        *)
LEMMA DtInside ==
    ASSUME NEW in, in.elapsed \in Nat
    PROVE  getDt(in) \in Nat /\ getDt(in) >= P.period \div 2 /\ P.period \div 2 \in Nat
<1>1. PICK p \in Nat : p = P.period
  BY Params
<1>2. PICK h \in Nat : h = p \div 2
  BY HalfOfNat
<1>3. h <= p /\ h <= 2 * p /\ 2 * p \in Nat
  BY <1>2, HalfOfNat
<1>4. getDt(in) = IF lonStarted THEN ClampInt(in.elapsed, h, 2 * p) ELSE p
  BY <1>1, <1>2 DEF getDt
<1>5. getDt(in) \in Nat /\ getDt(in) >= h
  BY <1>3, <1>4 DEF ClampInt
<1> QED BY <1>1, <1>2, <1>5

LEMMA EmgNumbers ==
    /\ InLimits(EmgTarget)
    /\ AbsInt(P.emgJerk) \in Nat /\ P.period \div 2 \in Nat /\ EmgStep \in Nat
<1>1. P.minAcc <= P.maxAcc
  BY AccLimits
<1>2. InLimits(EmgTarget)
  <2>1. PICK lo \in Int : lo = P.minAcc
    BY Params
  <2>2. PICK hi \in Int : hi = P.maxAcc
    BY Params
  <2>3. PICK x \in Int : x = P.emgAcc
    BY Params
  <2>4. ClampInt(x, lo, hi) \in Int /\ lo <= ClampInt(x, lo, hi) /\ ClampInt(x, lo, hi) <= hi
    BY <1>1, <2>1, <2>2, ClampInside
  <2> QED BY <2>1, <2>2, <2>3, <2>4 DEF EmgTarget, InLimits
<1>3. AbsInt(P.emgJerk) \in Nat /\ P.period \div 2 \in Nat
  BY Params, AbsIsNat, HalfOfNat
<1>4. EmgStep \in Nat
  BY <1>3 DEF EmgStep
<1> QED BY <1>2, <1>3, <1>4

LEMMA RampArithmetic ==
    ASSUME NEW k \in Nat, NEW j \in Nat, NEW h \in Nat, NEW dt \in Nat, dt >= h
    PROVE  j * h <= j * dt /\ (k + 1) * (j * h) = k * (j * h) + j * h /\ k * (j * h) \in Nat
<1>1. PICK e \in Nat : dt = h + e
  <2>1. dt - h \in Nat /\ dt = h + (dt - h)
    OBVIOUS
  <2> QED BY <2>1
<1>2. j * dt = j * h + j * e /\ j * e \in Nat /\ j * h \in Nat
  BY <1>1
<1>3. j * h <= j * dt
  BY <1>2
<1>4. PICK w \in Nat : w = j * h
  BY <1>2
<1>5. (k + 1) * w = k * w + w /\ k * w \in Nat
  OBVIOUS
<1> QED BY <1>3, <1>4, <1>5

(* One emergency command: inside the limits, and a step down the ramp.        *)
LEMMA EmergencyStep ==
    ASSUME NEW prev \in Int, InLimits(prev), NEW k \in Nat, prev <= RampBound(k),
           NEW dt \in Nat, dt >= P.period \div 2
    PROVE  LET y == applyDiffLimitFilter(EmgTarget, prev, dt,
                                         AbsInt(P.emgJerk), -AbsInt(P.emgJerk))
           IN  InLimits(y) /\ y <= RampBound(k) /\ y <= RampBound(k + 1)
<1> DEFINE y == applyDiffLimitFilter(EmgTarget, prev, dt, AbsInt(P.emgJerk), -AbsInt(P.emgJerk))
<1>1. PICK j \in Nat : j = AbsInt(P.emgJerk)
  BY EmgNumbers
<1>2. PICK h \in Nat : h = P.period \div 2
  BY EmgNumbers
<1>3. PICK e \in Int : e = EmgTarget
  BY EmgNumbers DEF InLimits
<1>4. P.minAcc \in Int /\ P.maxAcc \in Int
  BY Params
<1>5. PICK w \in Nat : w = j * dt
  OBVIOUS
<1>6. PICK s \in Nat : s = j * h
  OBVIOUS
<1>7. s <= w /\ (k + 1) * s = k * s + s /\ k * s \in Nat
  BY <1>2, <1>5, <1>6, RampArithmetic
<1>8. PICK r \in Nat : r = k * s
  BY <1>7
<1>9. EmgStep = s
  BY <1>1, <1>2, <1>6 DEF EmgStep
<1>10. RampBound(k) = MaxInt(e, P.maxAcc - r) /\ RampBound(k + 1) = MaxInt(e, P.maxAcc - (r + s))
  BY <1>3, <1>7, <1>8, <1>9 DEF RampBound
<1>11. (-j) * dt = -w
  BY <1>5
<1>12. y = ClampInt(e, prev - w, prev + w)
  BY <1>1, <1>3, <1>5, <1>11 DEF applyDiffLimitFilter
<1>13. P.minAcc <= e /\ e <= P.maxAcc /\ P.minAcc <= prev /\ prev <= P.maxAcc
  BY <1>3, EmgNumbers DEF InLimits
<1>14. prev <= MaxInt(e, P.maxAcc - r)
  BY <1>10
<1> HIDE DEF y
<1>15. y \in Int /\ P.minAcc <= y /\ y <= P.maxAcc
  BY <1>4, <1>12, <1>13 DEF ClampInt
<1>16. y <= MaxInt(e, P.maxAcc - r) /\ y <= MaxInt(e, P.maxAcc - (r + s))
  BY <1>4, <1>7, <1>12, <1>13, <1>14 DEF ClampInt, MaxInt
<1>17. InLimits(y) /\ y <= RampBound(k) /\ y <= RampBound(k + 1)
  BY <1>10, <1>15, <1>16 DEF InLimits
<1> QED BY <1>17 DEF y

(* What the state machine hands on is a number, whatever the state.           *)
LEMMA FeedbackIsInt ==
    ASSUME NEW c, Geometry(c), NEW in, LonInput(in)
    PROVE  applyVelocityFeedback(c, in) \in Int
<1>1. /\ c.targetVel \in Int /\ c.targetAcc \in Int /\ in.v \in Int /\ in.pid \in Int
      /\ P.minPid \in Int /\ P.maxPid \in Int
  BY Params DEF Geometry, LonInput
<1>2. PICK speed \in Nat : speed = AbsInt(in.v)
  BY <1>1, AbsIsNat
<1>3. PICK want \in Nat \ {0} : want = MaxInt(AbsInt(c.targetVel), 1)
  BY <1>1 DEF AbsInt, MaxInt
<1>4. PICK a \in Int : a = c.targetAcc
  BY <1>1
<1>5. a \div 2 \in Int /\ 2 * a \in Int
  OBVIOUS
<1>6. PICK q \in Int : q = a * speed
  OBVIOUS
<1>7. q \div want \in Int
  OBVIOUS
<1>8. ClampInt(in.pid, P.minPid, P.maxPid) \in Int
  BY <1>1, ClampIsInt
<1>9. applyVelocityFeedback(c, in)
        = (IF 2 * speed <= want THEN a \div 2
           ELSE IF speed >= 2 * want THEN 2 * a ELSE q \div want)
          + ClampInt(in.pid, P.minPid, P.maxPid)
  BY <1>2, <1>3, <1>4, <1>6 DEF applyVelocityFeedback
<1> QED BY <1>5, <1>7, <1>8, <1>9

LEMMA ElementOf ==
    ASSUME NEW S, NEW s \in Seq(S), NEW i \in 1..Len(s)
    PROVE  s[i] \in S
OBVIOUS

LEMMA BrakeIsInt ==
    ASSUME NEW pts, pts \in Seq([x : Int, yaw : Int, v : Int, a : Int]), NEW acc \in Int, NEW idx
    PROVE  keepBrakeBeforeStop(pts, acc, idx) \in Int
<1> DEFINE stop == searchZeroVelocityIndex(pts)
           run  == {i \in 1..stop : \A j \in i..(stop - 1) : pts[j].a <= pts[j + 1].a}
           from == Min(run)
           hold == MaxInt(P.brakeKeepAcc, pts[from].a)
<1>1. Len(pts) \in Nat /\ DOMAIN pts = 1..Len(pts)
  OBVIOUS
<1>2. stop = 0 \/ stop \in 1..Len(pts)
  <2>1. PICK zero : zero = {i \in DOMAIN pts : pts[i].v = 0}
    OBVIOUS
  <2>2. ASSUME zero # {} PROVE Min(zero) \in zero
    <3>1. zero \subseteq Nat
      BY <1>1, <2>1
    <3> QED BY <2>2, <3>1, LeastExists
  <2>3. stop = IF zero = {} THEN 0 ELSE Min(zero)
    BY <2>1 DEF searchZeroVelocityIndex, NoIdx
  <2> QED BY <1>1, <2>1, <2>2, <2>3
<1>3. ASSUME stop # 0 PROVE hold \in Int
  <2>1. stop \in 1..Len(pts) /\ stop \in Nat /\ stop \in Int
    BY <1>1, <1>2, <1>3
  <2> HIDE DEF stop
  <2>2. stop \in run
    BY <2>1
  <2>3. run \subseteq Nat
    OBVIOUS
  <2>4. from \in run
    BY <2>2, <2>3, LeastExists
  <2>5. from \in 1..Len(pts)
    BY <1>1, <2>1, <2>4
  <2> HIDE DEF from
  <2>6. pts[from] \in [x : Int, yaw : Int, v : Int, a : Int]
    BY <2>5, ElementOf
  <2>7. pts[from].a \in Int
    BY <2>6
  <2> QED BY <2>7, Params DEF MaxInt
<1> HIDE DEF hold
<1>4. keepBrakeBeforeStop(pts, acc, idx)
        = IF P.brakeKeeping /\ stop # NoIdx /\ idx >= from /\ acc > hold THEN hold ELSE acc
  BY DEF keepBrakeBeforeStop, hold
<1> QED BY <1>3, <1>4 DEF NoIdx

LEMMA SmoothIsTyped ==
    ASSUME LonInv, NEW c, Geometry(c), NEW in, LonInput(in), NEW to
    PROVE  SmoothAfterUpdate(c, in, to) \in [strong : Int, weakAge : Int]
<1>1. CASE ~StartsSmoothStop(to)
  <2>1. lonSmooth.weakAge + in.elapsed \in Int /\ P.weakTime \in Int
    <3>1. lonSmooth \in [strong : Int, weakAge : Int] /\ in.elapsed \in Int
      BY DEF LonInv, LonInput
    <3>2. P.weakTime \in Nat
      BY Params, Zenon
    <3> QED BY <3>1, <3>2
  <2>2. MinInt(lonSmooth.weakAge + in.elapsed, P.weakTime) \in Int
    BY <2>1 DEF MinInt
  <2> QED BY <1>1, <2>2 DEF SmoothAfterUpdate, LonInv
<1>2. CASE StartsSmoothStop(to)
  <2>1. PICK u \in Int : u = in.predVel + in.v
    BY DEF LonInput
  <2>2. PICK q \in Int : q = (u * P.delay) \div 2
    <3>1. PICK d \in Nat : d = P.delay
      BY Params
    <3>2. PICK w \in Int : w = u * d
      OBVIOUS
    <3>3. w \div 2 \in Int
      OBVIOUS
    <3> QED BY <3>1, <3>2, <3>3
  <2>3. PICK d \in Int : d = c.stopDist - q
    BY DEF Geometry
  <2>4. PICK v \in Int : v = in.predVel
    BY DEF LonInput
  <2>5. SmoothAfterUpdate(c, in, to) = SmoothStopInit(v, d)
    BY <1>2, <2>1, <2>2, <2>3, <2>4 DEF SmoothAfterUpdate
  <2>6. CASE d <= 0
    BY <2>5, <2>6, Params DEF SmoothStopInit
  <2>7. CASE ~(d <= 0)
    <3>1. PICK e \in Nat \ {0} : e = 2 * d
      BY <2>7
    <3>2. PICK s \in Int : s = v * v
      OBVIOUS
    <3>3. -(s \div e) \in Int
      OBVIOUS
    <3>4. ClampInt(-(s \div e), P.minStrong, P.maxStrong) \in Int
      BY <3>3, Params, ClampIsInt
    <3>5. SmoothStopInit(v, d) = [strong |-> ClampInt(-(s \div e), P.minStrong, P.maxStrong),
                                  weakAge |-> 0]
      BY <2>7, <3>1, <3>2 DEF SmoothStopInit
    <3> QED BY <2>5, <3>4, <3>5
  <2> QED BY <2>6, <2>7
<1> QED BY <1>1, <1>2

LEMMA SmoothAccIsInt ==
    ASSUME NEW smooth \in [strong : Int, weakAge : Int], NEW d \in Int, NEW v, NEW acc, NEW tts
    PROVE  SmoothStopAcc(smooth, d, v, acc, tts) \in Int
BY Params DEF SmoothStopAcc

(* The command of DRIVE and STOPPING stays inside the limits.                 *)
LEMMA LimitedInside ==
    ASSUME LonInv, NEW acc \in Int, NEW dt \in Nat
    PROVE  InLimits(LimitedAcc(acc, dt))
<1>1. PICK lo \in Int : lo = P.minAcc
  BY Params
<1>2. PICK hi \in Int : hi = P.maxAcc
  BY Params
<1>3. lo <= hi
  BY <1>1, <1>2, AccLimits
<1>4. PICK x \in Int : x = ClampInt(acc, lo, hi) /\ lo <= x /\ x <= hi
  BY <1>3, ClampInside
<1>5. PICK prev \in Int : prev = lonRaw.acc /\ lo <= prev /\ prev <= hi
  BY <1>1, <1>2 DEF LonInv, InLimits
<1>6. P.maxJerk \in Int /\ P.minJerk \in Int /\ P.maxJerk >= 0 /\ P.minJerk <= 0
  <2>1. P.maxJerk \in Nat /\ P.minJerk \in Int /\ P.minJerk <= 0
    BY Params
  <2> QED BY <2>1
<1>7. LET y == applyDiffLimitFilter(x, prev, dt, P.maxJerk, P.minJerk)
      IN  y \in Int /\ lo <= y /\ y <= hi
  BY <1>4, <1>5, <1>6, DiffLimitInside
<1> QED BY <1>1, <1>2, <1>4, <1>5, <1>7 DEF LimitedAcc, InLimits

(* The emergency command of both callers.                                     *)
LEMMA EmergencyCommand ==
    ASSUME LonInv, NEW in, LonInput(in)
    PROVE  LET y == calcEmergencyCtrlCmd(getDt(in))
           IN  /\ y \in Motion /\ InLimits(y.acc)
               /\ y.acc <= RampBound(MinInt(lonEmg + 1, EmgCap))
<1>1. PICK dt \in Nat : dt = getDt(in) /\ dt >= P.period \div 2
  BY DtInside DEF LonInput
<1>2. /\ lonRaw.acc \in Int /\ InLimits(lonRaw.acc) /\ lonRaw.vel \in Int
      /\ lonEmg \in 0..EmgCap /\ lonRaw.acc <= RampBound(lonEmg)
  BY DEF LonInv, Motion
<1>3. lonEmg \in Nat /\ EmgCap \in Nat
  BY <1>2, Params
<1> DEFINE y == calcEmergencyCtrlCmd(dt)
           acc == applyDiffLimitFilter(EmgTarget, lonRaw.acc, dt, AbsInt(P.emgJerk), -AbsInt(P.emgJerk))
           vel == applyDiffLimitFilter(P.emgVel, lonRaw.vel, dt, AbsInt(P.emgAcc), -AbsInt(P.emgAcc))
<1>4. InLimits(acc) /\ acc <= RampBound(lonEmg) /\ acc <= RampBound(lonEmg + 1)
  BY <1>1, <1>2, <1>3, EmergencyStep
<1>5. vel \in Int
  <2>1. PICK a \in Nat : a = AbsInt(P.emgAcc)
    BY Params, AbsIsNat
  <2>2. a \in Int /\ -a \in Int /\ dt \in Int /\ P.emgVel \in Int
    BY Params
  <2> QED BY <1>2, <2>1, <2>2, DiffLimitIsInt
<1>6. y = [vel |-> vel, acc |-> acc]
  BY DEF calcEmergencyCtrlCmd, EmgTarget
<1>7. MinInt(lonEmg + 1, EmgCap) \in {lonEmg, lonEmg + 1}
  BY <1>2, <1>3 DEF MinInt
<1> HIDE DEF vel, acc
<1>8. y \in Motion /\ y.acc = acc
  BY <1>4, <1>5, <1>6 DEF Motion, InLimits
<1> QED BY <1>1, <1>4, <1>7, <1>8

(* The raw command of every state.                                            *)
LEMMA RawIsInside ==
    ASSUME LonInv, NEW c, Geometry(c), NEW in, LonInput(in), NEW to \in ControlState
    PROVE  LET y == RawCommand(c, in, to)
           IN  /\ y \in Motion /\ InLimits(y.acc)
               /\ to = "EMERGENCY" => y.acc <= RampBound(MinInt(lonEmg + 1, EmgCap))
<1>1. PICK dt \in Nat : dt = getDt(in)
  BY DtInside DEF LonInput
<1>2. CASE to = "STOPPED"
  <2>1. RawCommand(c, in, to) = [vel |-> 0, acc |-> 0]
    BY <1>2 DEF RawCommand
  <2>2. P.minAcc <= 0 /\ 0 <= P.maxAcc
    BY Params
  <2> QED BY <1>2, <2>1, <2>2 DEF Motion, InLimits
<1>3. CASE to = "EMERGENCY"
  <2>1. RawCommand(c, in, to) = calcEmergencyCtrlCmd(getDt(in))
    BY <1>3 DEF RawCommand
  <2> QED BY <2>1, EmergencyCommand
<1>4. CASE to = "DRIVE"
  <2>1. PICK acc \in Int :
          acc = keepBrakeBeforeStop(c.pts, applyVelocityFeedback(c, in), c.targetIdx)
    BY FeedbackIsInt, BrakeIsInt DEF Geometry
  <2>2. RawCommand(c, in, to) = [vel |-> c.targetVel, acc |-> LimitedAcc(acc, dt)]
    BY <1>1, <1>4, <2>1 DEF RawCommand
  <2>3. InLimits(LimitedAcc(acc, dt)) /\ c.targetVel \in Int
    BY LimitedInside DEF Geometry
  <2> QED BY <1>4, <2>2, <2>3 DEF Motion, InLimits
<1>5. CASE to = "STOPPING"
  <2>1. SmoothAfterUpdate(c, in, to) \in [strong : Int, weakAge : Int] /\ c.stopDist \in Int
    BY SmoothIsTyped DEF Geometry
  <2>2. PICK acc \in Int :
          acc = SmoothStopAcc(SmoothAfterUpdate(c, in, to), c.stopDist, in.v, in.acc, in.tts)
    BY <2>1, SmoothAccIsInt
  <2>3. RawCommand(c, in, to) = [vel |-> P.stoppedVelCmd, acc |-> LimitedAcc(acc, dt)]
    BY <1>1, <1>5, <2>2 DEF RawCommand
  <2>4. InLimits(LimitedAcc(acc, dt)) /\ P.stoppedVelCmd \in Int
    BY LimitedInside, Params
  <2> QED BY <1>5, <2>3, <2>4 DEF Motion, InLimits
<1> QED BY <1>2, <1>3, <1>4, <1>5 DEF ControlState

LEMMA ShiftIsSign ==
    ASSUME LonInv, NEW c, Geometry(c)
    PROVE  getCurrentShift(c) \in {-1, 1}
<1>1. c.targetVel \in Int /\ lonShift \in {-1, 1}
  BY DEF Geometry, LonInv
<1> QED BY <1>1 DEF getCurrentShift, SignInt

(* The published command: slope and the last rate limit included.             *)
LEMMA FinalIsInside ==
    ASSUME LonInv, NEW c, Geometry(c), NEW in, LonInput(in), NEW to \in ControlState
    PROVE  FinalCommand(c, in, to) \in Motion /\ InSlope(FinalCommand(c, in, to).acc)
<1>1. PICK dt \in Nat : dt = getDt(in)
  BY DtInside DEF LonInput
<1>2. PICK lo \in Int : lo = P.minAcc /\ lo <= 0
  BY Params
<1>3. PICK hi \in Nat : hi = P.maxAcc
  BY Params
<1>4. PICK sl \in Nat : sl = P.slope
  BY Params
<1>5. PICK raw \in Motion : raw = RawCommand(c, in, to) /\ lo <= raw.acc /\ raw.acc <= hi
  BY <1>2, <1>3, RawIsInside DEF InLimits
<1>6. raw.acc \in Int /\ raw.vel \in Int
  BY DEF Motion
<1>7. PICK k \in {-1, 1} : k = getCurrentShift(c)
  BY ShiftIsSign
<1>8. PICK s \in Int : s = ClampInt(in.slope, -sl, sl) /\ -sl <= s /\ s <= sl
  <2>1. PICK x \in Int : x = in.slope
    BY DEF LonInput
  <2>2. PICK n \in Int : n = -sl /\ n <= sl
    OBVIOUS
  <2>3. ClampInt(x, n, sl) \in Int /\ n <= ClampInt(x, n, sl) /\ ClampInt(x, n, sl) <= sl
    BY <2>2, ClampInside
  <2> QED BY <2>1, <2>2, <2>3
<1>9. PICK a \in Int : a = applySlopeCompensation(raw.acc, in, k) /\ lo - sl <= a /\ a <= hi + sl
  <2>1. applySlopeCompensation(raw.acc, in, k) = raw.acc + k * s
    BY <1>4, <1>8 DEF applySlopeCompensation
  <2>2. k * s \in Int /\ -sl <= k * s /\ k * s <= sl
    BY <1>7, <1>8
  <2> QED BY <1>5, <1>6, <2>1, <2>2
<1>10. P.stoppedAcc \in Int /\ lo <= P.stoppedAcc /\ P.stoppedAcc <= hi
  BY <1>2, <1>3, Params
<1>11. PICK want \in Int : want = (IF to = "STOPPED" THEN P.stoppedAcc ELSE a)
                          /\ lo - sl <= want /\ want <= hi + sl
  BY <1>9, <1>10
<1>12. PICK prev \in Int :
         prev = (IF to = "DRIVE" /\ lonState = "STOPPING" THEN MaxInt(0, lonRaw.acc) ELSE lonCmd.acc)
         /\ lo - sl <= prev /\ prev <= hi + sl
  <2>1. /\ lonRaw.acc \in Int /\ lo <= lonRaw.acc /\ lonRaw.acc <= hi
        /\ lonCmd.acc \in Int /\ lo - sl <= lonCmd.acc /\ lonCmd.acc <= hi + sl
    BY <1>2, <1>3, <1>4 DEF LonInv, InLimits, InSlope
  <2> QED BY <1>2, <1>3, <1>4, <2>1 DEF MaxInt
<1>13. PICK r \in Nat : r = P.maxAccDiff
  BY Params
<1>14. r \in Int /\ -r \in Int /\ r >= 0 /\ -r <= 0 /\ lo - sl \in Int /\ hi + sl \in Int
  OBVIOUS
<1>15. LET y == applyDiffLimitFilter(want, prev, dt, r, -r)
       IN  y \in Int /\ lo - sl <= y /\ y <= hi + sl
  BY <1>11, <1>12, <1>14, DiffLimitInside
<1>16. FinalCommand(c, in, to)
         = [vel |-> IF to = "STOPPED" THEN P.stoppedVelCmd ELSE raw.vel,
            acc |-> applyDiffLimitFilter(want, prev, dt, r, -r)]
  BY <1>1, <1>5, <1>7, <1>9, <1>11, <1>12, <1>13 DEF FinalCommand
<1>17. P.stoppedVelCmd \in Int
  BY Params
<1> QED BY <1>2, <1>3, <1>4, <1>6, <1>15, <1>16, <1>17 DEF Motion, InSlope

LEMMA TakenRoad ==
    ASSUME LonInv, NEW in, LonInput(in)
    PROVE  /\ setTrajectory(in) \in 0..Len(Roads)
           /\ ~isFar(in) => Geometry(ControlData[in.view][setTrajectory(in)])
<1>1. PICK t \in 0..Len(Roads) : t = setTrajectory(in)
  <2>1. in.traj \in 0..Len(Roads)
    <3>1. PICK n \in Nat : n = Len(Roads)
      BY Params
    <3>2. in.traj \in 1..n
      BY <3>1 DEF LonInput
    <3> QED BY <3>1, <3>2
  <2>2. lonTraj \in 0..Len(Roads)
    BY DEF LonInv
  <2> QED BY <2>1, <2>2 DEF setTrajectory
<1>2. ASSUME ~isFar(in) PROVE Geometry(ControlData[in.view][t])
  <2>1. t # 0 /\ ~ControlData[in.view][t].far
    BY <1>1, <1>2 DEF isFar
  <2>2. t \in DOMAIN Roads /\ in.view \in DOMAIN Views
    BY <2>1, Params DEF LonInput
  <2> QED BY <2>1, <2>2, GeometryAssumption DEF Geometry
<1> QED BY <1>1, <1>2

LEMMA RunAgeIsNat ==
    ASSUME LonInv, NEW in, LonInput(in)
    PROVE  MinInt(lonRunAge + in.elapsed, P.stoppedTime + 1) \in Nat
<1>1. lonRunAge \in Nat /\ in.elapsed \in Nat /\ P.stoppedTime \in Nat
  BY Params DEF LonInv, LonInput
<1> QED BY <1>1 DEF MinInt

LEMMA EmergencyCounts ==
    ASSUME LonInv
    PROVE  MinInt(lonEmg + 1, EmgCap) \in 0..EmgCap /\ 0 \in 0..EmgCap
<1>1. EmgCap \in Nat
  BY Params
<1>2. lonEmg \in 0..EmgCap /\ lonEmg \in Nat
  BY <1>1 DEF LonInv
<1> QED BY <1>1, <1>2 DEF MinInt

LEMMA RestIsBelow ==
    ASSUME NEW acc, InLimits(acc)
    PROVE  acc <= RampBound(0)
<1>1. EmgStep \in Nat /\ P.maxAcc \in Nat /\ EmgTarget \in Int
  BY EmgNumbers, Params DEF InLimits
<1>2. PICK w \in Nat : w = EmgStep
  BY <1>1
<1>3. 0 * w = 0
  OBVIOUS
<1>4. RampBound(0) = MaxInt(EmgTarget, P.maxAcc)
  BY <1>1, <1>2, <1>3 DEF RampBound
<1> QED BY <1>1, <1>4 DEF InLimits, MaxInt

LEMMA FarKeeps ==
    ASSUME LonInv, NEW in, LonInput(in), LonFar(in)
    PROVE  LonInv'
<1>1. PICK y \in Motion : /\ y = calcEmergencyCtrlCmd(getDt(in)) /\ InLimits(y.acc)
                          /\ y.acc <= RampBound(MinInt(lonEmg + 1, EmgCap))
  BY EmergencyCommand
<1>2. lonRaw' = y /\ lonCmd' = y /\ lonEmg' = MinInt(lonEmg + 1, EmgCap)
  BY <1>1 DEF LonFar
<1>3. lonState' \in ControlState /\ lonShift' \in {-1, 1} /\ lonKeep' \in {"none", "keep", "go"}
      /\ lonPid' \in {"reset", "running", "wound"}
  BY DEF LonFar, LonInv, ControlState
<1>4. lonTraj' \in 0..Len(Roads) /\ lonRunAge' \in Nat
  BY TakenRoad, RunAgeIsNat DEF LonFar
<1>5. lonSmooth' \in [strong : Int, weakAge : Int]
  <2>1. lonSmooth \in [strong : Int, weakAge : Int] /\ in.elapsed \in Int
    BY DEF LonInv, LonInput
  <2>2. P.weakTime \in Int
    BY Params
  <2>3. MinInt(lonSmooth.weakAge + in.elapsed, P.weakTime) \in Int
    BY <2>1, <2>2 DEF MinInt
  <2> QED BY <2>1, <2>3 DEF LonFar
<1>6. InSlope(y.acc)
  <2>1. P.slope \in Nat /\ P.minAcc \in Int /\ P.maxAcc \in Int
    BY Params
  <2> QED BY <1>1, <2>1 DEF InSlope, InLimits
<1>7. lonEmg' \in 0..EmgCap
  BY <1>2, EmergencyCounts
<1>8. InLimits(lonRaw.acc)' /\ InSlope(lonCmd.acc)'
  BY <1>1, <1>2, <1>6 DEF InLimits, InSlope
<1>9. (lonRaw.acc <= RampBound(lonEmg))'
  BY <1>1, <1>2 DEF RampBound, EmgTarget, EmgStep
<1> QED BY <1>1, <1>2, <1>3, <1>4, <1>5, <1>7, <1>8, <1>9 DEF LonInv

LEMMA NearKeeps ==
    ASSUME LonInv, NEW in, LonInput(in), LonNear(in)
    PROVE  LonInv'
<1>1. PICK c : c = ControlData[in.view][setTrajectory(in)]
  OBVIOUS
<1>2. PICK to : to = NextControlState(c, in)
  OBVIOUS
<1>3. Geometry(c) /\ LonMove(c, in, to)
  BY <1>1, <1>2, TakenRoad DEF LonNear, LonDecide
<1>4. to \in ControlState /\ lonState' = to
  BY <1>2, <1>3, NextStateIsState DEF LonMove, UpdateControlState, LonInv
<1>5. PICK raw \in Motion : /\ raw = RawCommand(c, in, to) /\ InLimits(raw.acc)
                            /\ to = "EMERGENCY" => raw.acc <= RampBound(MinInt(lonEmg + 1, EmgCap))
  BY <1>3, <1>4, RawIsInside
<1>6. PICK cmd \in Motion : cmd = FinalCommand(c, in, to) /\ InSlope(cmd.acc)
  BY <1>3, <1>4, FinalIsInside
<1>7. lonRaw' = raw /\ lonCmd' = cmd
  BY <1>3, <1>5, <1>6 DEF LonMove
<1>8. lonTraj' \in 0..Len(Roads) /\ lonShift' \in {-1, 1}
  BY <1>3, TakenRoad, ShiftIsSign DEF LonMove
<1>9. lonKeep' \in {"none", "keep", "go"} /\ lonPid' \in {"reset", "running", "wound"}
  BY <1>3 DEF LonMove, UpdateControlState, NextKeep, NextPid, LonInv
<1>10. lonRunAge' \in Nat
  BY <1>3, RunAgeIsNat DEF LonMove, UpdateControlState, RunAge
<1>11. lonSmooth' \in [strong : Int, weakAge : Int]
  <2>1. SmoothAfterUpdate(c, in, to) \in [strong : Int, weakAge : Int]
    BY <1>3, SmoothIsTyped
  <2> QED BY <1>3, <2>1 DEF LonMove
<1>12. lonEmg' = IF to = "EMERGENCY" THEN MinInt(lonEmg + 1, EmgCap) ELSE 0
  BY <1>3 DEF LonMove
<1>13. lonEmg' \in 0..EmgCap
  BY <1>12, EmergencyCounts
<1>14. raw.acc <= RampBound(lonEmg')
  BY <1>5, <1>12, RestIsBelow
<1>15. InLimits(lonRaw.acc)' /\ InSlope(lonCmd.acc)'
  BY <1>5, <1>6, <1>7 DEF InLimits, InSlope
<1>16. (lonRaw.acc <= RampBound(lonEmg))'
  BY <1>7, <1>14 DEF RampBound, EmgTarget, EmgStep
<1> QED BY <1>4, <1>7, <1>8, <1>9, <1>10, <1>11, <1>13, <1>15, <1>16 DEF LonInv

LEMMA LonRunKeeps ==
    ASSUME LonInv, NEW in, LonInput(in), LonRun(in)
    PROVE  LonInv'
BY FarKeeps, NearKeeps DEF LonRun

LEMMA LonStarts == LonInit => LonInv
<1> SUFFICES ASSUME LonInit PROVE LonInv
  OBVIOUS
<1>1. P.minAcc \in Int /\ P.minAcc <= 0 /\ P.maxAcc \in Nat /\ P.slope \in Nat
      /\ EmgCap \in Nat /\ Len(Roads) \in Nat
  BY Params
<1>2. InLimits(0) /\ InSlope(0)
  BY <1>1 DEF InLimits, InSlope
<1>3. 0 <= RampBound(0)
  BY <1>2, RestIsBelow
<1> QED BY <1>1, <1>2, <1>3 DEF LonInit, LonInv, ControlState, Motion

-----------------------------------------------------------------------------
(* The command history.                                                       *)

(* Ages of successive calls at least `least' apart, saturated past the delay: *)
(* the entry that n newer ones follow is at least n gaps old.                 *)
Spaced(ages, least, since) ==
    /\ ages \in Seq(Nat)
    /\ \A i \in 1..Len(ages) :
         ages[i] >= MinInt((Len(ages) - i + since) * least, P.delay + 1)

HistoryInv(least) ==
    /\ Spaced(lonCmds, least, 0)
    /\ Len(lonCmds) <= P.delay \div least + 2

LEMMA DelayNumbers == P.delay \in Nat /\ P.delay + 1 \in Nat
<1>1. P.delay \in Nat
  BY Params
<1> QED BY <1>1

LEMMA GapsGrow ==
    ASSUME NEW k \in Nat, NEW least \in Nat, NEW e \in Nat, e >= least, NEW age \in Nat,
           NEW top \in Nat, age >= MinInt(k * least, top)
    PROVE  /\ MinInt(age + e, top) \in Nat
           /\ MinInt(age + e, top) >= MinInt((k + 1) * least, top)
           /\ MinInt(age + e, top) >= MinInt(k * least, top)
<1>1. PICK w \in Nat : w = k * least
  OBVIOUS
<1>2. (k + 1) * least = w + least
  BY <1>1
<1> QED BY <1>1, <1>2 DEF MinInt

LEMMA AgedSpaced ==
    ASSUME NEW least \in Nat, Spaced(lonCmds, least, 0), NEW in, in.elapsed \in Nat,
           in.elapsed >= least
    PROVE  /\ Spaced(Aged(in), least, 0) /\ Spaced(Aged(in), least, 1)
           /\ Len(Aged(in)) = Len(lonCmds)
<1> DEFINE new(i) == MinInt(lonCmds[i] + in.elapsed, P.delay + 1)
<1>1. lonCmds \in Seq(Nat) /\ Len(lonCmds) \in Nat /\ DOMAIN lonCmds = 1..Len(lonCmds)
  BY DEF Spaced
<1>2. PICK n \in Nat : n = Len(lonCmds)
  BY <1>1
<1>3. PICK top \in Nat : top = P.delay + 1
  BY DelayNumbers
<1>4. ASSUME NEW i \in 1..n
      PROVE  /\ new(i) \in Nat
             /\ new(i) >= MinInt((n - i + 0) * least, top)
             /\ new(i) >= MinInt((n - i + 1) * least, top)
  <2>1. PICK k \in Nat : k = n - i
    OBVIOUS
  <2>2. PICK age \in Nat : age = lonCmds[i]
    BY <1>1, <1>2, ElementOf
  <2>3. age >= MinInt((k + 0) * least, top)
    BY <1>2, <1>3, <2>1, <2>2 DEF Spaced
  <2>4. k + 0 = k
    OBVIOUS
  <2>5. age >= MinInt(k * least, top)
    BY <2>3, <2>4
  <2>6. /\ MinInt(age + in.elapsed, top) \in Nat
        /\ MinInt(age + in.elapsed, top) >= MinInt((k + 1) * least, top)
        /\ MinInt(age + in.elapsed, top) >= MinInt(k * least, top)
    BY <2>5, GapsGrow
  <2> QED BY <1>3, <2>1, <2>2, <2>4, <2>6
<1>5. Aged(in) = [i \in 1..n |-> new(i)]
  BY <1>1, <1>2 DEF Aged
<1> HIDE DEF new
<1>6. Aged(in) \in Seq(Nat) /\ Len(Aged(in)) = n
  BY <1>4, <1>5
<1>7. \A i \in 1..n : Aged(in)[i] = new(i)
  BY <1>5
<1> QED BY <1>2, <1>3, <1>4, <1>6, <1>7 DEF Spaced

(* The new command follows all the others by one gap.                         *)
LEMMA AppendSpaced ==
    ASSUME NEW least \in Nat, NEW ages, Spaced(ages, least, 1)
    PROVE  Spaced(Append(ages, 0), least, 0) /\ Len(Append(ages, 0)) = Len(ages) + 1
<1>1. PICK n \in Nat : n = Len(ages) /\ ages \in Seq(Nat)
  BY DEF Spaced
<1>2. PICK top \in Nat : top = P.delay + 1
  BY DelayNumbers
<1>3. Append(ages, 0) \in Seq(Nat) /\ Len(Append(ages, 0)) = n + 1
  BY <1>1
<1>4. ASSUME NEW i \in 1..n + 1
      PROVE  Append(ages, 0)[i] >= MinInt((n + 1 - i + 0) * least, top)
  <2>1. CASE i = n + 1
    <3>1. Append(ages, 0)[i] = 0 /\ n + 1 - i + 0 = 0
      BY <1>1, <2>1
    <3>2. 0 * least = 0 /\ MinInt(0, top) = 0
      BY DEF MinInt
    <3>3. (n + 1 - i + 0) * least = 0
      BY <3>1, <3>2
    <3>4. MinInt((n + 1 - i + 0) * least, top) = 0
      BY <3>2, <3>3, Zenon
    <3>5. 0 >= 0
      OBVIOUS
    <3> QED BY <3>1, <3>4, <3>5, Zenon
  <2>2. CASE i \in 1..n
    <3>1. Append(ages, 0)[i] = ages[i] /\ n + 1 - i + 0 = n - i + 1
      BY <1>1, <2>2
    <3>2. ages[i] >= MinInt((n - i + 1) * least, top)
      BY <1>1, <1>2, <2>2 DEF Spaced
    <3> QED BY <3>1, <3>2
  <2>3. i = n + 1 \/ i \in 1..n
    OBVIOUS
  <2> QED BY <2>1, <2>2, <2>3
<1> QED BY <1>1, <1>2, <1>3, <1>4 DEF Spaced

LEMMA TailSpaced ==
    ASSUME NEW least \in Nat, NEW ages, Spaced(ages, least, 0), Len(ages) > 2
    PROVE  Spaced(Tail(ages), least, 0) /\ Len(Tail(ages)) = Len(ages) - 1
<1>1. PICK n \in Nat : n = Len(ages) /\ ages \in Seq(Nat)
  BY DEF Spaced
<1>2. Tail(ages) \in Seq(Nat) /\ Len(Tail(ages)) = n - 1
  BY <1>1
<1>3. ASSUME NEW i \in 1..n - 1
      PROVE  Tail(ages)[i] >= MinInt((n - 1 - i + 0) * least, P.delay + 1)
  <2>1. Tail(ages)[i] = ages[i + 1] /\ i + 1 \in 1..n /\ n - 1 - i + 0 = n - (i + 1) + 0
    BY <1>1
  <2>2. ages[i + 1] >= MinInt((n - (i + 1) + 0) * least, P.delay + 1)
    BY <1>1, <2>1 DEF Spaced
  <2> QED BY <2>1, <2>2
<1> QED BY <1>1, <1>2, <1>3 DEF Spaced

(* More gaps than fit into the delay are longer than the delay.               *)
LEMMA GapsPastDelay ==
    ASSUME NEW d \in Nat, NEW least \in Nat \ {0}
    PROVE  d \div least \in Nat /\ (d \div least + 1) * least > d
<1>1. PICK q \in Nat : q = d \div least
  OBVIOUS
<1>2. q * least <= d /\ d < q * least + least
  BY <1>1
<1>3. (q + 1) * least = q * least + least
  OBVIOUS
<1> QED BY <1>1, <1>2, <1>3

(* storeAccelCmd: the second oldest of too many entries is past the delay.    *)
LEMMA StoreBounded ==
    ASSUME NEW least \in Nat \ {0}, NEW ages, Spaced(ages, least, 1), NEW to,
           Len(ages) <= P.delay \div least + 2
    PROVE  /\ Spaced(storeAccelCmd(ages, to), least, 0)
           /\ Len(storeAccelCmd(ages, to)) <= P.delay \div least + 2
<1>1. PICK d \in Nat : d = P.delay
  BY Params
<1>2. PICK q \in Nat : q = d \div least /\ (q + 1) * least > d
  BY GapsPastDelay
<1>3. CASE to # "DRIVE"
  <2>1. storeAccelCmd(ages, to) = <<>>
    BY <1>3 DEF storeAccelCmd
  <2> QED BY <1>1, <1>2, <2>1 DEF Spaced
<1>4. CASE to = "DRIVE"
  <2>1. PICK pushed : pushed = Append(ages, 0)
    OBVIOUS
  <2>2. Spaced(pushed, least, 0) /\ Len(pushed) = Len(ages) + 1 /\ Len(ages) \in Nat
    <3>1. ages \in Seq(Nat)
      BY DEF Spaced
    <3> QED BY <2>1, <3>1, AppendSpaced
  <2>3. storeAccelCmd(ages, to) = IF Len(pushed) > 2 /\ pushed[2] > P.delay
                                  THEN Tail(pushed) ELSE pushed
    BY <1>4, <2>1 DEF storeAccelCmd
  <2>4. CASE Len(pushed) > 2 /\ pushed[2] > P.delay
    BY <1>1, <1>2, <2>2, <2>3, <2>4, TailSpaced
  <2>5. CASE ~(Len(pushed) > 2 /\ pushed[2] > P.delay)
    <3>1. ASSUME Len(pushed) = q + 3 PROVE FALSE
      <4>1. pushed[2] >= MinInt((Len(pushed) - 2 + 0) * least, P.delay + 1) /\ pushed \in Seq(Nat)
        BY <2>2, <3>1 DEF Spaced
      <4>2. Len(pushed) - 2 + 0 = q + 1
        BY <3>1
      <4>3. pushed[2] \in Nat
        BY <3>1, <4>1, ElementOf
      <4>4. PICK w \in Nat : w = (q + 1) * least
        OBVIOUS
      <4>5. pushed[2] >= MinInt(w, d + 1) /\ w > d
        BY <1>1, <1>2, <4>1, <4>2, <4>4
      <4>6. pushed[2] > d
        BY <4>3, <4>5 DEF MinInt
      <4> QED BY <1>1, <2>5, <3>1, <4>6
    <3> QED BY <1>1, <1>2, <2>2, <2>3, <2>5, <3>1
  <2> QED BY <2>4, <2>5
<1> QED BY <1>3, <1>4

LEMMA LonRunStores ==
    ASSUME NEW least \in Nat \ {0}, HistoryInv(least), NEW in, in.elapsed \in Nat,
           in.elapsed >= least, LonRun(in)
    PROVE  HistoryInv(least)'
<1>1. /\ Spaced(Aged(in), least, 0) /\ Spaced(Aged(in), least, 1)
      /\ Len(Aged(in)) <= P.delay \div least + 2
  BY AgedSpaced DEF HistoryInv
<1>2. CASE LonFar(in)
  <2>1. lonCmds' = Aged(in)
    BY <1>2 DEF LonFar
  <2> QED BY <1>1, <2>1 DEF HistoryInv, Spaced
<1>3. CASE LonNear(in)
  <2>1. PICK to : lonCmds' = storeAccelCmd(Aged(in), to)
    BY <1>3 DEF LonNear, LonDecide, LonMove
  <2>2. Spaced(lonCmds', least, 0) /\ Len(lonCmds') <= P.delay \div least + 2
    BY <1>1, <2>1, StoreBounded
  <2> QED BY <2>2 DEF HistoryInv, Spaced
<1> QED BY <1>2, <1>3 DEF LonRun

-----------------------------------------------------------------------------
(* The lateral controller.                                                    *)

LatSolvedSet == {"ok", "position", "yaw", "matrix", "qp", "nan"}

(* The inductive invariant of the published angle: the pole and the zero of   *)
(* the degenerate filter cancel from its reset state on, so what it lets      *)
(* through is what went in.                                                   *)
LatInv ==
    /\ latTraj \in 0..Len(Roads) /\ latSolved \in LatSolvedSet
    /\ latOut \in Int /\ latPrev = latOut /\ AbsInt(latOut) <= L.steerLim
    /\ latFilter \in [u1 : Int, u2 : Int, y1 : Int, y2 : Int]
    /\ latFilter.y1 = latFilter.u1 /\ latFilter.y2 = latFilter.u2

(* Stamps of the buffered trajectories differ: the one that n newer ones      *)
(* follow is at least n older than the newest.                                *)
Aging(buffer) ==
    /\ buffer \in Seq([rel : Nat, goal : Int])
    /\ \A i \in 1..Len(buffer) : buffer[i].rel >= Len(buffer) - i

BufferInv ==
    /\ Aging(latBuffer)
    /\ ~latFirst => latBuffer = <<>>
    /\ Len(latBuffer) <= L.newTrajWindow

(* An input of a cycle of the lateral controller.                             *)
LatInput(in) ==
    /\ in.traj \in 1..Len(Roads) /\ in.view \in DOMAIN Views
    /\ in.advance \in Nat /\ {in.u, in.steer} \subseteq Int
    /\ in.under \in BOOLEAN
    /\ in.mpc \in {"ok", "matrix", "qp", "nan"}

LEMMA LatParams ==
    L.steerLim \in Nat \ {0} /\ L.newTrajWindow \in Nat \ {0} /\ L.firstTrajWindow \in Nat \ {0}
BY LatAssumption DEF LatAssumption

LEMMA StatusIsNamed ==
    ASSUME NEW in, LatInput(in)
    PROVE  MpcStatus(in) \in LatSolvedSet
<1>1. in.view \in DOMAIN Views /\ in.traj \in DOMAIN Roads
  BY Params DEF LatInput
<1>2. LatData[in.view][in.traj].status = getData(Roads[in.traj], Views[in.view])
  BY <1>1 DEF LatData
<1>3. getData(Roads[in.traj], Views[in.view]) \in {"position", "yaw", "ok"}
  BY DEF getData, PoseStatus
<1>4. MpcStatus(in) \in {"position", "yaw", "ok"} \cup {in.mpc}
  BY <1>2, <1>3 DEF MpcStatus
<1>5. in.mpc \in {"ok", "matrix", "qp", "nan"}
  BY DEF LatInput
<1> QED BY <1>4, <1>5 DEF LatSolvedSet

LEMMA SaturateInside ==
    ASSUME NEW u \in Int
    PROVE  Saturate(u) \in Int /\ AbsInt(Saturate(u)) <= L.steerLim
<1>1. PICK lim \in Nat : lim = L.steerLim
  BY LatParams
<1>2. PICK n \in Int : n = -lim /\ n <= lim
  OBVIOUS
<1>3. ClampInt(u, n, lim) \in Int /\ n <= ClampInt(u, n, lim) /\ ClampInt(u, n, lim) <= lim
  BY <1>2, ClampInside
<1>4. PICK y \in Int : y = ClampInt(u, n, lim) /\ -lim <= y /\ y <= lim
  BY <1>2, <1>3
<1>5. Saturate(u) = y
  BY <1>1, <1>2, <1>4 DEF Saturate
<1>6. AbsInt(y) <= lim
  BY <1>4 DEF AbsInt
<1> QED BY <1>1, <1>5, <1>6

LEMMA FilterPasses ==
    ASSUME LatInv, NEW s \in Int
    PROVE  FilterOut(latFilter, s) = s
<1>1. PICK f : f = latFilter
  OBVIOUS
<1>2. f.u1 \in Int /\ f.u2 \in Int /\ f.y1 = f.u1 /\ f.y2 = f.u2
  BY <1>1 DEF LatInv
<1>3. PICK a \in Int : a = f.u1 /\ a = f.y1
  BY <1>2
<1>4. PICK b \in Int : b = f.u2 /\ b = f.y2
  BY <1>2
<1>5. b + 2 * a + s - b - 2 * a = s
  OBVIOUS
<1> QED BY <1>1, <1>3, <1>4, <1>5 DEF FilterOut

LEMMA LatRunKeeps ==
    ASSUME LatInv, NEW in, LatInput(in), AbsInt(in.steer) <= L.steerLim, LatRun(in)
    PROVE  LatInv'
<1>1. in.u \in Int /\ in.steer \in Int /\ in.traj \in 0..Len(Roads)
  <2>1. Len(Roads) \in Nat
    BY Params
  <2>2. in.traj \in 1..Len(Roads) /\ {in.u, in.steer} \subseteq Int
    BY DEF LatInput
  <2> QED BY <2>1, <2>2
<1>2. PICK s \in Int : s = Saturate(in.u) /\ AbsInt(s) <= L.steerLim
  BY <1>1, SaturateInside
<1>3. Solution(in) = s
  BY <1>2, FilterPasses DEF Solution
<1>4. latTraj' \in 0..Len(Roads) /\ latSolved' \in LatSolvedSet
  BY <1>1, StatusIsNamed DEF LatRun, LatReceive, LatSolve
<1>5. latOut' \in {latOut, s, in.steer} /\ latPrev' = latOut'
  BY <1>3 DEF LatRun, LatPublish, LatCommand, PreviousAngle, LatInv
<1>6. latOut' \in Int /\ AbsInt(latOut') <= L.steerLim
  BY <1>1, <1>2, <1>5 DEF LatInv
<1>7. /\ latFilter' \in [u1 : Int, u2 : Int, y1 : Int, y2 : Int]
      /\ latFilter'.y1 = latFilter'.u1 /\ latFilter'.y2 = latFilter'.u2
  <2>1. latFilter' = latFilter \/ latFilter' = FilterNext(latFilter, s)
    BY <1>2 DEF LatRun, LatSolve
  <2>2. FilterNext(latFilter, s) = [u1 |-> s, u2 |-> latFilter.u1, y1 |-> s, y2 |-> latFilter.y1]
    BY FilterPasses DEF FilterNext
  <2> QED BY <2>1, <2>2 DEF LatInv
<1> QED BY <1>4, <1>5, <1>6, <1>7 DEF LatInv, AbsInt

LEMMA GoalIsInt ==
    ASSUME NEW in, LatInput(in), LatIsReady(in)
    PROVE  Goal(in) \in Int
<1>1. PICK road : road = Roads[in.traj]
  OBVIOUS
<1>2. Roads \in Seq(Seq([x : Int, yaw : Int, v : Int, a : Int])) /\ in.traj \in 1..Len(Roads)
  BY LonAssumption DEF LonAssumption, LatInput
<1>3. road \in Seq([x : Int, yaw : Int, v : Int, a : Int])
  BY <1>1, <1>2, ElementOf
<1>4. Len(road) \in Nat /\ Len(road) >= 3
  BY <1>1, <1>3 DEF LatIsReady
<1>5. Len(road) \in 1..Len(road)
  BY <1>4
<1>6. road[Len(road)] \in [x : Int, yaw : Int, v : Int, a : Int]
  BY <1>3, <1>5, ElementOf
<1>7. road[Len(road)].x \in Int
  BY <1>6
<1> QED BY <1>1, <1>7 DEF Goal, Last

(* A function on 1..n is a sequence.                                          *)
LEMMA FunctionIsSeq ==
    ASSUME NEW S, NEW n \in Nat, NEW f \in [1..n -> S]
    PROVE  f \in Seq(S) /\ Len(f) = n
OBVIOUS

(* A newer trajectory ages all the buffered ones by its advance.              *)
LEMMA PushedAges ==
    ASSUME NEW buffer, Aging(buffer), NEW advance \in Nat \ {0}, NEW goal \in Int
    PROVE  LET aged == [i \in DOMAIN buffer |-> [buffer[i] EXCEPT !.rel = @ + advance]]
               all  == Append(aged, [rel |-> 0, goal |-> goal])
           IN  Aging(all) /\ Len(all) = Len(buffer) + 1 /\ all[Len(buffer) + 1].rel = 0
<1> DEFINE aged == [i \in DOMAIN buffer |-> [buffer[i] EXCEPT !.rel = @ + advance]]
           all  == Append(aged, [rel |-> 0, goal |-> goal])
<1>1. PICK n \in Nat : n = Len(buffer)
  BY DEF Aging
<1>2. buffer \in Seq([rel : Nat, goal : Int]) /\ DOMAIN buffer = 1..n
  BY <1>1 DEF Aging
<1>3. ASSUME NEW i \in 1..n
      PROVE  /\ [buffer[i] EXCEPT !.rel = @ + advance] \in [rel : Nat, goal : Int]
             /\ [buffer[i] EXCEPT !.rel = @ + advance].rel >= n - i + 1
  <2>1. buffer[i] \in [rel : Nat, goal : Int]
    BY <1>1, <1>2, ElementOf
  <2>2. buffer[i].rel >= n - i
    BY <1>1 DEF Aging
  <2> QED BY <2>1, <2>2
<1>4. PICK old : old = aged
  OBVIOUS
<1>5. old \in Seq([rel : Nat, goal : Int]) /\ Len(old) = n
      /\ \A i \in 1..n : old[i].rel >= n - i + 1
  <2> DEFINE older(i) == [buffer[i] EXCEPT !.rel = @ + advance]
  <2>1. old = [i \in 1..n |-> older(i)]
    BY <1>2, <1>4, Zenon
  <2>2. \A i \in 1..n : older(i) \in [rel : Nat, goal : Int] /\ older(i).rel >= n - i + 1
    BY <1>3, Zenon
  <2> HIDE DEF older
  <2>3. old \in [1..n -> [rel : Nat, goal : Int]] /\ \A i \in 1..n : old[i] = older(i)
    BY <2>1, <2>2, Zenon
  <2> DEFINE E == [rel : Nat, goal : Int]
  <2>4. old \in Seq(E) /\ Len(old) = n
    <3>1. old \in [1..n -> E]
      BY <2>3, Zenon
    <3> HIDE DEF E
    <3> QED BY <3>1, FunctionIsSeq
  <2>5. \A i \in 1..n : old[i].rel >= n - i + 1
    BY <2>2, <2>3, Zenon
  <2> QED BY <2>4, <2>5, Zenon
<1>6. PICK new \in [rel : Nat, goal : Int] : new = [rel |-> 0, goal |-> goal] /\ new.rel = 0
  <2> DEFINE newest == [rel |-> 0, goal |-> goal]
  <2>1. newest \in [rel : Nat, goal : Int] /\ newest.rel = 0
    OBVIOUS
  <2> QED BY <2>1, Zenon
<1>7. PICK full : full = Append(old, new)
  OBVIOUS
<1>8. full \in Seq([rel : Nat, goal : Int]) /\ Len(full) = n + 1 /\ full[n + 1] = new
      /\ \A i \in 1..n : full[i] = old[i]
  BY <1>5, <1>7
<1>9. \A i \in 1..n + 1 : full[i].rel >= n + 1 - i
  BY <1>5, <1>6, <1>8
<1>10. Aging(full) /\ Len(full) = Len(buffer) + 1 /\ full[Len(buffer) + 1].rel = 0
  BY <1>1, <1>6, <1>8, <1>9 DEF Aging
<1>11. full = all
  BY <1>4, <1>6, <1>7
<1> QED BY <1>10, <1>11

(* The elements of a middle part of a sequence.                               *)
LEMMA MiddleOf ==
    ASSUME NEW S, NEW s \in Seq(S), NEW m \in Nat, NEW n \in Nat,
           1 <= m, m <= n, n = Len(s)
    PROVE  /\ SubSeq(s, m, n) \in Seq(S) /\ Len(SubSeq(s, m, n)) = n - m + 1
           /\ \A j \in 1..n - m + 1 : SubSeq(s, m, n)[j] = s[m + j - 1]
<1>1. \A i \in m..n : s[i] \in S
  BY ElementOf
<1> QED BY <1>1, SubSeqProperties

(* Trimming the front to a window leaves at most one entry per unit of it.    *)
LEMMA TrimmedFits ==
    ASSUME NEW all, Aging(all), NEW n \in Nat \ {0}, n = Len(all), all[n].rel = 0,
           NEW window \in Nat \ {0}
    PROVE  LET keep == {i \in DOMAIN all : ~shouldPopFront(all[i].rel, window)}
               kept == SubSeq(all, Min(keep), Len(all))
           IN  Aging(kept) /\ Len(kept) <= window /\ Len(kept) <= n
<1> DEFINE keep == {i \in DOMAIN all : ~shouldPopFront(all[i].rel, window)}
<1>1. all \in Seq([rel : Nat, goal : Int]) /\ DOMAIN all = 1..n
  BY DEF Aging
<1>2. n \in keep
  BY <1>1 DEF shouldPopFront
<1>3. keep \subseteq Nat
  BY <1>1
<1>4. Min(keep) \in keep
  BY <1>2, <1>3, LeastExists
<1>5. PICK m \in 1..n : m = Min(keep) /\ ~shouldPopFront(all[m].rel, window)
  BY <1>1, <1>4
<1>6. all[m].rel < window /\ all[m].rel \in Nat
  <2>1. all[m] \in [rel : Nat, goal : Int]
    BY <1>1, ElementOf
  <2>2. all[m].rel \in Nat
    BY <2>1
  <2> QED BY <1>5, <2>2 DEF shouldPopFront
<1>7. all[m].rel >= n - m
  BY DEF Aging
<1>8. n - m < window
  BY <1>6, <1>7
<1>9. PICK kept : kept = SubSeq(all, m, n)
  OBVIOUS
<1>10. m \in Nat /\ m >= 1 /\ m <= n
  OBVIOUS
<1>11. kept \in Seq([rel : Nat, goal : Int]) /\ Len(kept) = n - m + 1
       /\ \A j \in 1..n - m + 1 : kept[j] = all[m + j - 1]
  <2> DEFINE E == [rel : Nat, goal : Int]
  <2>1. all \in Seq(E)
    BY <1>1
  <2>2. /\ SubSeq(all, m, n) \in Seq(E) /\ Len(SubSeq(all, m, n)) = n - m + 1
        /\ \A j \in 1..n - m + 1 : SubSeq(all, m, n)[j] = all[m + j - 1]
    <3> HIDE DEF E
    <3> QED BY <1>10, <2>1, MiddleOf
  <2> QED BY <1>9, <2>2, Zenon
<1>12. \A j \in 1..n - m + 1 : kept[j].rel >= n - m + 1 - j
  <2> SUFFICES ASSUME NEW j \in 1..n - m + 1 PROVE kept[j].rel >= n - m + 1 - j
    OBVIOUS
  <2>1. PICK i \in 1..n : i = m + j - 1
    BY <1>10
  <2>2. all[i].rel >= n - i
    BY DEF Aging
  <2>3. kept[j] = all[i]
    BY <1>11, <2>1
  <2> QED BY <1>10, <2>1, <2>2, <2>3
<1>13. Aging(kept)
  BY <1>11, <1>12 DEF Aging
<1>14. Len(kept) <= window /\ Len(kept) <= n
  BY <1>8, <1>10, <1>11
<1> QED BY <1>5, <1>9, <1>13, <1>14

LEMMA PushKeeps ==
    ASSUME BufferInv, NEW in, LatInput(in), LatRun(in)
    PROVE  BufferInv'
<1>1. latFirst' = TRUE /\ latBuffer' = PushTrajectory(in) /\ LatIsReady(in)
  BY DEF LatRun, LatReceive
<1>2. PICK goal \in Int : goal = Goal(in)
  BY <1>1, GoalIsInt
<1>3. PICK buffer : buffer = latBuffer
  OBVIOUS
<1>4. Aging(buffer) /\ (~latFirst => buffer = <<>>) /\ Len(buffer) <= L.newTrajWindow
  BY <1>3 DEF BufferInv
<1>5. PICK n \in Nat : n = Len(buffer)
  BY <1>4 DEF Aging
<1>6. PICK window \in Nat \ {0} : window = IF latFirst THEN L.newTrajWindow ELSE L.firstTrajWindow
  BY LatParams
<1> DEFINE aged == [i \in DOMAIN buffer |-> [buffer[i] EXCEPT !.rel = @ + in.advance]]
           all  == Append(aged, [rel |-> 0, goal |-> goal])
           keep == {i \in DOMAIN all : ~shouldPopFront(all[i].rel, window)}
           kept == SubSeq(all, Min(keep), Len(all))
<1>7. PushTrajectory(in) = IF buffer # <<>> /\ isDuplicateStamp(in.advance) THEN buffer ELSE kept
  BY <1>2, <1>3, <1>6 DEF PushTrajectory
<1>8. CASE buffer # <<>> /\ isDuplicateStamp(in.advance)
  BY <1>1, <1>4, <1>7, <1>8 DEF BufferInv, Aging
<1>9. CASE ~(buffer # <<>> /\ isDuplicateStamp(in.advance))
  <2>1. Aging(all) /\ Len(all) = n + 1 /\ all[n + 1].rel = 0
    <3>1. CASE buffer # <<>>
      <4>1. in.advance \in Nat \ {0}
        BY <1>9, <3>1 DEF isDuplicateStamp, LatInput
      <4> QED BY <1>4, <1>5, <4>1, PushedAges
    <3>2. CASE buffer = <<>>
      <4>1. aged = <<>> /\ n = 0
        BY <1>5, <3>2
      <4> HIDE DEF aged
      <4>2. all = <<[rel |-> 0, goal |-> goal]>>
        BY <4>1
      <4> QED BY <4>1, <4>2 DEF Aging
    <3> QED BY <3>1, <3>2
  <2> HIDE DEF all
  <2>2. n + 1 \in Nat \ {0}
    OBVIOUS
  <2>3. Aging(kept) /\ Len(kept) <= window /\ Len(kept) <= n + 1
    BY <2>1, <2>2, TrimmedFits
  <2>4. PICK new : new = kept
    OBVIOUS
  <2>5. Len(new) <= L.newTrajWindow
    <3>1. CASE latFirst
      BY <1>6, <2>3, <2>4, <3>1
    <3>2. CASE ~latFirst
      <4>1. n = 0
        BY <1>4, <1>5, <3>2
      <4>2. new \in Seq([rel : Nat, goal : Int])
        BY <2>3, <2>4 DEF Aging
      <4>3. Len(new) \in Nat
        BY <4>2
      <4>4. PICK w \in Nat \ {0} : w = L.newTrajWindow
        BY LatParams, Zenon
      <4>5. Len(new) <= 1
        <5>1. Len(new) <= n + 1
          BY <2>3, <2>4, Zenon
        <5> QED BY <4>1, <4>3, <5>1
      <4> QED BY <4>3, <4>4, <4>5
    <3> QED BY <3>1, <3>2
  <2>6. latBuffer' = new /\ latFirst' = TRUE
    BY <1>1, <1>7, <1>9, <2>4
  <2> QED BY <2>3, <2>4, <2>5, <2>6 DEF BufferInv, Aging
<1> QED BY <1>8, <1>9

-----------------------------------------------------------------------------
(* Every step keeps the parts.                                                *)

LEMMA InputsAreTyped ==
    /\ \A in \in BothInputs \cup LonInputs : LonInput(in)
    /\ \A in \in BothInputs \cup LatInputs : LatInput(in)
BY FollowersAssumption DEF FollowersAssumption, LonInput, LatInput

(* A cycle runs either controller or leaves all its variables alone.          *)
LEMMA NextRuns ==
    ASSUME [Next]_folVars
    PROVE  /\ UNCHANGED lonVars \/ \E in \in BothInputs \cup LonInputs : LonRun(in)
           /\ UNCHANGED latVars \/ \E in \in BothInputs \cup LatInputs : LatRun(in)
<1>1. ASSUME NEW in \in BothInputs, Cycle(in)
      PROVE  LonRun(in) /\ LatRun(in)
  BY <1>1 DEF Cycle
<1>2. ASSUME NEW in \in LonInputs, LonCycle(in)
      PROVE  LonRun(in) /\ UNCHANGED latVars
  BY <1>2 DEF LonCycle
<1>3. ASSUME NEW in \in LatInputs, LatCycle(in)
      PROVE  LatRun(in) /\ UNCHANGED lonVars
  BY <1>3 DEF LatCycle
<1>4. CASE UNCHANGED folVars
  BY <1>4 DEF folVars
<1> QED BY <1>1, <1>2, <1>3, <1>4 DEF Next

LEMMA NextKeepsLon ==
    ASSUME LonInv, [Next]_folVars
    PROVE  LonInv'
<1>1. CASE UNCHANGED lonVars
  BY <1>1 DEF LonInv, lonVars
<1>2. ASSUME NEW in \in BothInputs \cup LonInputs, LonRun(in)
      PROVE  LonInv'
  BY <1>2, InputsAreTyped, LonRunKeeps
<1> QED BY <1>1, <1>2, NextRuns

LEMMA NextKeepsHistory ==
    ASSUME NEW least \in Nat \ {0},
           \A in \in BothInputs \cup LonInputs : in.elapsed >= least,
           HistoryInv(least), [Next]_folVars
    PROVE  HistoryInv(least)'
<1>1. CASE UNCHANGED lonVars
  BY <1>1 DEF HistoryInv, Spaced, lonVars
<1>2. ASSUME NEW in \in BothInputs \cup LonInputs, LonRun(in)
      PROVE  HistoryInv(least)'
  <2>1. in.elapsed \in Nat /\ in.elapsed >= least
    BY InputsAreTyped DEF LonInput
  <2> QED BY <1>2, <2>1, LonRunStores
<1> QED BY <1>1, <1>2, NextRuns

LEMMA NextKeepsLat ==
    ASSUME \A in \in BothInputs \cup LatInputs : AbsInt(in.steer) <= L.steerLim,
           LatInv, [Next]_folVars
    PROVE  LatInv'
<1>1. CASE UNCHANGED latVars
  BY <1>1 DEF LatInv, latVars
<1>2. ASSUME NEW in \in BothInputs \cup LatInputs, LatRun(in)
      PROVE  LatInv'
  BY <1>2, InputsAreTyped, LatRunKeeps
<1> QED BY <1>1, <1>2, NextRuns

LEMMA NextKeepsBuffer ==
    ASSUME BufferInv, [Next]_folVars
    PROVE  BufferInv'
<1>1. CASE UNCHANGED latVars
  BY <1>1 DEF BufferInv, Aging, latVars
<1>2. ASSUME NEW in \in BothInputs \cup LatInputs, LatRun(in)
      PROVE  BufferInv'
  BY <1>2, InputsAreTyped, PushKeeps
<1> QED BY <1>1, <1>2, NextRuns

-----------------------------------------------------------------------------
(* They hold initially.                                                       *)

LEMMA HistoryStarts ==
    ASSUME NEW least \in Nat \ {0}, LonInit
    PROVE  HistoryInv(least)
<1>1. PICK d \in Nat : d = P.delay
  BY DelayNumbers
<1>2. d \div least \in Nat
  BY HalfOfNat
<1>3. lonCmds = <<>>
  BY DEF LonInit
<1>4. Len(lonCmds) = 0 /\ lonCmds \in Seq(Nat)
  BY <1>3
<1> QED BY <1>1, <1>2, <1>4 DEF HistoryInv, Spaced

LEMMA LatStarts ==
    ASSUME LatInit
    PROVE  LatInv /\ BufferInv
<1>1. PICK lim \in Nat \ {0} : lim = L.steerLim
  BY LatParams, Zenon
<1>2. PICK w \in Nat \ {0} : w = L.newTrajWindow
  BY LatParams, Zenon
<1>3. AbsInt(0) <= lim
  BY DEF AbsInt
<1>4. Len(Roads) \in Nat
  BY Params
<1>5. LatInv
  BY <1>1, <1>3, <1>4 DEF LatInit, LatInv, LatSolvedSet
<1>6. Aging(latBuffer) /\ Len(latBuffer) = 0
  BY DEF LatInit, Aging
<1> QED BY <1>2, <1>5, <1>6 DEF BufferInv, LatInit

-----------------------------------------------------------------------------
(* What the parts imply.                                                      *)

LEMMA LonInvImplies == LonInv => EmergencyRamp /\ InsideEnvelope
<1> SUFFICES ASSUME LonInv PROVE EmergencyRamp /\ InsideEnvelope
  OBVIOUS
<1>1. PICK j \in Nat : j = AbsInt(P.emgJerk)
  BY Params, AbsIsNat
<1>2. PICK h \in Nat : h = P.period \div 2
  <2>1. PICK p \in Nat : p = P.period
    BY Params
  <2>2. p \div 2 \in Nat
    BY HalfOfNat
  <2> QED BY <2>1, <2>2
<1>3. PICK k \in Nat : k = lonEmg
  BY Params DEF LonInv
<1>4. k * (j * h) = k * j * h
  OBVIOUS
<1>5. lonRaw.acc <= RampBound(k)
  BY <1>3 DEF LonInv
<1>6. RampBound(k) = MaxInt(ClampInt(P.emgAcc, P.minAcc, P.maxAcc), P.maxAcc - k * j * h)
  BY <1>1, <1>2, <1>4 DEF RampBound, EmgTarget, EmgStep
<1>7. EmergencyRamp
  BY <1>1, <1>2, <1>3, <1>5, <1>6 DEF EmergencyRamp
<1>8. PICK s \in Nat : s = P.slope
  BY Params
<1>9. PICK lo \in Int : lo = P.minAcc
  BY Params
<1>10. PICK hi \in Nat : hi = P.maxAcc
  BY Params
<1>11. PICK m \in Nat : m = MaxAbsAccel
  BY FollowersAssumption DEF FollowersAssumption
<1>12. hi + s <= m /\ s - lo <= m
  BY <1>8, <1>9, <1>10, <1>11, FollowersAssumption DEF FollowersAssumption
<1>13. PICK acc \in Int : acc = lonCmd.acc /\ lo - s <= acc /\ acc <= hi + s
  BY <1>8, <1>9, <1>10 DEF LonInv, InSlope
<1>14. AbsInt(acc) <= m
  BY <1>12, <1>13 DEF AbsInt
<1> QED BY <1>7, <1>11, <1>13, <1>14 DEF InsideEnvelope

(* Whatever the sensors, the clock and the geometry do, the published         *)
(* acceleration is inside the envelope of the gate, and k emergency cycles in *)
(* a row bring the raw one down by k least ramps.                             *)
THEOREM AccelerationsAlwaysInside == Spec => [](EmergencyRamp /\ InsideEnvelope)
<1>1. Init => LonInv
  BY LonStarts DEF Init
<1>2. LonInv /\ [Next]_folVars => LonInv'
  BY NextKeepsLon
<1> QED BY <1>1, <1>2, LonInvImplies, PTL DEF Spec

(* m_trajectory_buffer never holds more than one trajectory per stamp of the  *)
(* window, whatever the stamps admission lets through.                        *)
THEOREM TrajectoryBufferAlwaysBounded == Spec => []TrajectoryBufferBounded
<1>1. Init => BufferInv
  BY LatStarts DEF Init
<1>2. BufferInv /\ [Next]_folVars => BufferInv'
  BY NextKeepsBuffer
<1>3. BufferInv => TrajectoryBufferBounded
  BY DEF BufferInv, TrajectoryBufferBounded
<1> QED BY <1>1, <1>2, <1>3, PTL DEF Spec

(* m_ctrl_cmd_vec, which erases at most one expired entry per cycle, holds no *)
(* more than the commands of the delay and two, whatever the least time       *)
(* between two cycles is.                                                     *)
THEOREM CommandHistoryAlwaysBounded ==
    ASSUME NEW least \in Nat \ {0},
           \A in \in BothInputs \cup LonInputs : in.elapsed >= least
    PROVE  Spec => [](Len(lonCmds) <= P.delay \div least + 2)
<1>1. Init => HistoryInv(least)
  BY HistoryStarts DEF Init
<1>2. HistoryInv(least) /\ [Next]_folVars => HistoryInv(least)'
  BY NextKeepsHistory
<1>3. HistoryInv(least) => Len(lonCmds) <= P.delay \div least + 2
  BY DEF HistoryInv
<1> QED BY <1>1, <1>2, <1>3, PTL DEF Spec

(* Every command is one the vehicle may be given and both histories keep      *)
(* their sizes, when no cycle comes early and the steering that is measured   *)
(* is one the vehicle can take.                                               *)
THEOREM CommandsAlwaysInside ==
    ASSUME \A in \in BothInputs \cup LonInputs : in.elapsed >= P.period,
           \A in \in BothInputs \cup LatInputs : AbsInt(in.steer) <= L.steerLim
    PROVE  Spec => []CommandsInside
<1>1. PICK least \in Nat \ {0} : least = P.period
  BY Params
<1>2. \A in \in BothInputs \cup LonInputs : in.elapsed >= least
  BY <1>1
<1> DEFINE Inv == LonInv /\ HistoryInv(least) /\ LatInv /\ BufferInv
<1>3. Init => Inv
  BY LonStarts, HistoryStarts, LatStarts DEF Init
<1>4. Inv /\ [Next]_folVars => Inv'
  BY <1>2, NextKeepsLon, NextKeepsHistory, NextKeepsLat, NextKeepsBuffer
<1>5. Inv => CommandsInside
  <2> SUFFICES ASSUME Inv PROVE CommandsInside
    OBVIOUS
  <2>1. TypeOK
    BY DEF TypeOK, LonInv, LatInv, LatSolvedSet
  <2>2. CommandHistoryBounded
    BY <1>1 DEF HistoryInv, CommandHistoryBounded
  <2>3. TrajectoryBufferBounded /\ SteerWithinLimit
    BY DEF BufferInv, LatInv, TrajectoryBufferBounded, SteerWithinLimit
  <2> QED BY <2>1, <2>2, <2>3, LonInvImplies DEF CommandsInside
<1> QED BY <1>3, <1>4, <1>5, PTL DEF Spec
=============================================================================
