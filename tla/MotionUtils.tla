----------------------------- MODULE MotionUtils -----------------------------
(* Trajectory helpers shared by both followers (autoware_motion_utils) and    *)
(* the checks of the interpolation library.  A trajectory is a sequence of    *)
(* points on a straight road, [x |-> position, yaw |-> heading, v |->         *)
(* velocity, a |-> acceleration] in integer units; indices start at 1.        *)
(* Segments may run in either direction, so a reversing path is one whose x   *)
(* decreases.                                                                 *)
EXTENDS Integers, Sequences, FiniteSetsExt, SequencesExt

AbsInt(n) == IF n < 0 THEN -n ELSE n
SignInt(n) == IF n > 0 THEN 1 ELSE IF n < 0 THEN -1 ELSE 0
ClampInt(n, lo, hi) == IF n < lo THEN lo ELSE IF n > hi THEN hi ELSE n
MaxInt(a, b) == IF a > b THEN a ELSE b
MinInt(a, b) == IF a < b THEN a ELSE b

(* normalizeRadian and calcYawDeviation, headings in quarter turns. *)
YawDeviation(a, b) == LET d == (a - b) % 4 IN IF d > 2 THEN 4 - d ELSE d

(* std::nullopt of the searches. *)
NoIdx == 0

(* The first index of S with the least d: the strict comparison of the loops. *)
FirstMin(S, d) ==
    CHOOSE i \in S : \A j \in S : d[i] < d[j] \/ (d[i] = d[j] /\ i <= j)

(* The scan of the soft constraints breaks at the first violating point after *)
(* a satisfying one: only the first run of satisfying points competes.        *)
FirstRun(ok) ==
    LET start == Min(ok) IN {i \in ok : \A j \in start..i : j \in ok}

(* findFirstNearestIndexWithSoftConstraints: both thresholds, then distance   *)
(* alone, then neither.                                                       *)
findFirstNearestIndex(points, pose, distThr, yawThr) ==
    LET d(i)    == AbsInt(points[i].x - pose.x)
        close   == {i \in DOMAIN points : d(i) <= distThr}
        aligned == {i \in close : YawDeviation(points[i].yaw, pose.yaw) <= yawThr}
    IN  FirstMin(IF aligned # {} THEN FirstRun(aligned)
                 ELSE IF close # {} THEN FirstRun(close) ELSE DOMAIN points,
                 [i \in DOMAIN points |-> d(i)])

(* removeOverlapPoints(points, start_idx): after the first `start` points a   *)
(* point at the position of the last one kept is dropped.                     *)
removeOverlapPoints(points, start) ==
    IF Len(points) < start THEN points
    ELSE FoldLeft(LAMBDA dst, p : IF Last(dst).x = p.x THEN dst
                                                       ELSE Append(dst, p),
                  SubSeq(points, 1, start),
                  SubSeq(points, start + 1, Len(points)))

(* calcLongitudinalOffsetToSegment: the projection of x on the segment that   *)
(* starts at seg, negative behind it; only for seg < Len(points).             *)
calcLongitudinalOffsetToSegment(points, seg, x) ==
    LET pts == removeOverlapPoints(points, seg)
    IN  IF seg >= Len(pts) THEN 0
        ELSE SignInt(pts[seg + 1].x - pts[seg].x) * (x - pts[seg].x)

(* findFirstNearestSegmentIndexWithSoftConstraints, from the nearest index *)
SegmentAt(points, near, x) ==
    IF near = 1 THEN 1
    ELSE IF near = Len(points) \/ calcLongitudinalOffsetToSegment(points, near, x) <= 0
         THEN near - 1
    ELSE near

findFirstNearestSegment(points, pose, distThr, yawThr) ==
    SegmentAt(points, findFirstNearestIndex(points, pose, distThr, yawThr), pose.x)

(* searchZeroVelocityIndex: the first point whose velocity is zero. *)
searchZeroVelocityIndex(points) ==
    LET zero == {i \in DOMAIN points : points[i].v = 0}
    IN  IF zero = {} THEN NoIdx ELSE Min(zero)

(* calcSignedArcLength(points, src_idx, dst_idx) *)
ArcLength(points, src, dst) ==
    LET sum(i, j) == MapThenSumSet(
                       LAMBDA k : AbsInt(points[k + 1].x - points[k].x),
                       i..(j - 1))
    IN  IF src > dst THEN -sum(dst, src) ELSE sum(src, dst)

(* calcSignedArcLength(points, src_point, src_seg, dst_point, dst_seg) *)
calcSignedArcLength(points, srcX, srcSeg, dstX, dstSeg) ==
    ArcLength(points, srcSeg, dstSeg)
      - calcLongitudinalOffsetToSegment(points, srcSeg, srcX)
      + calcLongitudinalOffsetToSegment(points, dstSeg, dstX)

(* isDrivingForward: the first segment against the heading of its start       *)
(* (heading 0 is increasing x, 2 decreasing); unknown for a single point,     *)
(* where the caller keeps what it had.                                        *)
isDrivingForward(points, prev) ==
    IF Len(points) < 2 THEN prev
    ELSE YawDeviation(points[1].yaw,
                      IF points[2].x < points[1].x THEN 2 ELSE 0) = 0
==============================================================================
