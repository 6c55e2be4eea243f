---------------------------- MODULE VpReference ----------------------------
(***************************************************************************)
(* vp_reference.hpp: how one VisionPilot reference becomes a follower      *)
(* trajectory.  Lengths are counted in 1/48 m and times in steps of the    *)
(* speed schedule, a quarter of a second, so that every length of the      *)
(* conversion is a whole number; speeds are in m/s.  The shape of the lane *)
(* polynomial is the sequence of lengths it has over successive metres of  *)
(* x, each a whole number of equal pieces once densified; chords between   *)
(* selected points are as long as the arcs they span.  Speeds and times of *)
(* the points are fractions <<numerator, denominator>>.                    *)
(***************************************************************************)
EXTENDS Integers, Sequences, SequencesExt

\* The constants of the header, kPathSpacingM (one metre) as the unit of shapes.
kExtentCap == 1200

kMaxPoints == 13

kMinFollowerPoints == 3

kPathSpacing == 48

kResampleStep == 12

kSpeedLead == 48

kNearArcs == {12, 24, 48, 96}

\* Half a metre: the ego pose is prepended to a path that starts farther away.
kEgoGap == 24

\* referenceReason: why a reference is ignored, in the order of the tests;
\* `stepped' is a positive time step of the horizon.
ReferenceReason(r) ==
  CASE ~r.valid -> "INVALID_REFERENCE"
    [] r.valid /\ ~r.stamped -> "NO_SOURCE_STAMP"
    [] r.valid /\ r.stamped /\ ~(r.pathValid /\ r.xMax > 0) -> "NO_PATH"
    [] r.valid /\ r.stamped /\ r.pathValid /\ r.xMax > 0 ->
         IF Len(r.horizon) < 2 \/ ~r.stepped THEN "NO_HORIZON" ELSE "NONE"

CeilDiv(a, b) == (a + b - 1) \div b

Least(a, b) == IF a < b THEN a ELSE b

\* The samples of the polynomial after the first: one segment per metre of x,
\* up to the x the follower can use.
Segments(r) == [i \in 1 .. Least(r.xMax, kExtentCap) \div kPathSpacing |-> r.shape[i]]

\* cumulativeArcLengths of a sequence of distances.
CumulativeArcLengths(steps) ==
  LET arcs[i \in 1 .. Len(steps) + 1] == IF i = 1 THEN 0 ELSE arcs[i - 1] + steps[i - 1]
  IN  arcs

\* resample: each segment in equal pieces of at most one step, until the first
\* point at or past the cap.  The result is the arc length of every point.
ResampleSegment(arcs, seg) ==
  LET n == CeilDiv(seg, kResampleStep)
      used == Least(n, CeilDiv(kExtentCap - Last(arcs), seg \div n))
  IN  IF seg = 0 \/ Last(arcs) >= kExtentCap THEN arcs
      ELSE arcs \o [k \in 1 .. used |-> Last(arcs) + k * (seg \div n)]

Resample(segments) ==
  LET arcs[k \in 0 .. Len(segments)] ==
        IF k = 0 THEN <<0>> ELSE ResampleSegment(arcs[k - 1], segments[k])
  IN  arcs[Len(segments)]

\* nearestIndex of the arc num / den: lower_bound, then the closer neighbour,
\* the earlier one on a tie.
NearestIndex(s, num, den) ==
  LET pos == Cardinality({i \in DOMAIN s : s[i] * den < num}) + 1
  IN  IF pos = 1 THEN 1
      ELSE IF pos > Len(s) THEN Len(s)
      ELSE IF s[pos] * den - num < num - s[pos - 1] * den THEN pos ELSE pos - 1

\* selectIndices: evenly spaced over the extent; increasing, so a set.
SelectIndices(s) ==
  LET extent == Least(kExtentCap, Last(s))
      wanted == Least(kMaxPoints, Len(s))
  IN  IF Len(s) = 1 \/ extent <= 0 THEN {1}
      ELSE {NearestIndex(s, extent * step, wanted - 1) : step \in 0 .. wanted - 1}

\* The n smallest members of a set of numbers, in order: sort, unique, resize.
SortedPrefix(S, n) ==
  [k \in 1 .. Least(n, Cardinality(S)) |->
     CHOOSE i \in S : Cardinality({j \in S : j < i}) = k - 1]

\* Mutant: the near field is not added to the even selection.
SelectedStepsFar(s, gap) ==
  LET indices == SortedPrefix(SelectIndices(s), kMaxPoints)
      chords  == [i \in 1 .. Len(indices) - 1 |-> s[indices[i + 1]] - s[indices[i]]]
  IN  IF gap > kEgoGap
      THEN SubSeq(<<gap>> \o chords, 1, Least(Len(chords) + 1, kMaxPoints - 1))
      ELSE chords

\* Mutant: the ego pose is prepended without giving up a far point for it.
SelectedStepsOver(s, gap) ==
  LET extent  == Least(kExtentCap, Last(s))
      near    == {NearestIndex(s, want, 1) : want \in {w \in kNearArcs : w < extent}}
      indices == SortedPrefix(SelectIndices(s) \cup {1} \cup near, kMaxPoints)
      chords  == [i \in 1 .. Len(indices) - 1 |-> s[indices[i + 1]] - s[indices[i]]]
  IN  IF gap > kEgoGap THEN <<gap>> \o chords ELSE chords

\* The points handed on, as the distances between them: the even selection
\* with the near field added and the far field shed, behind the ego pose when
\* the path starts away from it.
SelectedSteps(s, gap) ==
  LET extent  == Least(kExtentCap, Last(s))
      near    == {NearestIndex(s, want, 1) : want \in {w \in kNearArcs : w < extent}}
      indices == SortedPrefix(SelectIndices(s) \cup {1} \cup near, kMaxPoints)
      chords  == [i \in 1 .. Len(indices) - 1 |-> s[indices[i + 1]] - s[indices[i]]]
  IN  IF gap > kEgoGap
      THEN SubSeq(<<gap>> \o chords, 1, Least(Len(chords) + 1, kMaxPoints - 1))
      ELSE chords

\* The schedule: negative speeds clipped, distance by the trapezoid rule.
Clipped(horizon) == [i \in DOMAIN horizon |-> IF horizon[i] < 0 THEN 0 ELSE horizon[i]]

ScheduleKnots(h) ==
  CumulativeArcLengths([i \in 1 .. Len(h) - 1 |-> (h[i] + h[i + 1]) * (kResampleStep \div 2)])

\* Mutant: the weights of the two knots are swapped.
SampleSpatialSwapped(knots, h, s) ==
  IF s <= 0 THEN [v |-> <<h[1], 1>>, t |-> <<0, 1>>]
  ELSE IF s >= Last(knots) THEN [v |-> <<Last(h), 1>>, t |-> <<Len(knots) - 1, 1>>]
  ELSE LET lo   == Cardinality({i \in DOMAIN knots : knots[i] < s})
           seg  == knots[lo + 1] - knots[lo]
           into == s - knots[lo]
       IN  [v |-> <<h[lo] * into + h[lo + 1] * (seg - into), seg>>,
            t |-> <<(lo - 1) * seg + into, seg>>]

\* sampleSpatial: the speed and the schedule time at arc s, holding the last
\* speed past the end; a held speed below 0.3 m/s counts as 0.3 m/s for time.
SampleSpatial(knots, h, s) ==
  IF s <= 0 THEN [v |-> <<h[1], 1>>, t |-> <<0, 1>>]
  ELSE IF s >= Last(knots)
  THEN LET extra == s - Last(knots)
       IN  [v |-> <<Last(h), 1>>,
            t |-> IF Last(h) = 0 THEN <<(Len(knots) - 1) * 36 + 10 * extra, 36>>
                  ELSE <<(Len(knots) - 1) * 12 * Last(h) + extra, 12 * Last(h)>>]
  ELSE LET lo   == Cardinality({i \in DOMAIN knots : knots[i] < s})
           seg  == knots[lo + 1] - knots[lo]
           into == s - knots[lo]
       IN  [v |-> <<h[lo] * (seg - into) + h[lo + 1] * into, seg>>,
            t |-> <<(lo - 1) * seg + into, seg>>]

\* The difference of two fractions.
Minus(p, q) == <<p[1] * q[2] - q[1] * p[2], p[2] * q[2]>>

\* The acceleration of point i: central difference of the samples, the mean of
\* the schedule for the first point when no time passes.
Acceleration(samples, h, i) ==
  LET n    == Len(samples)
      i0   == IF i = 1 THEN 1 ELSE i - 1
      i1   == IF i = n THEN n ELSE i + 1
      span == Minus(samples[i1].t, samples[i0].t)
      dv   == Minus(samples[i1].v, samples[i0].v)
      fallback == <<Last(h) - h[1], Len(h) - 1>>
  IN  IF n = 1 THEN fallback
      ELSE IF span[1] > 0 THEN <<dv[1] * span[2], dv[2] * span[1]>>
      ELSE IF i = 1 THEN fallback ELSE <<0, 1>>

\* convert: the trajectory, or rejection.  `finite' says that neither a sample
\* of the polynomial nor a derived value overflows.
Convert(r) ==
  LET steps   == SelectedSteps(Resample(Segments(r)), r.gap)
      lengths == CumulativeArcLengths(steps)
      h       == Clipped(r.horizon)
      samples == [i \in DOMAIN lengths |->
                    SampleSpatial(ScheduleKnots(h), h, lengths[i] + kSpeedLead)]
  IN  IF \/ ReferenceReason(r) # "NONE"
         \/ ~r.finite
         \/ Len(lengths) < kMinFollowerPoints
      THEN [ok |-> FALSE, points |-> <<>>]
      ELSE [ok |-> TRUE,
            points |-> [i \in DOMAIN lengths |->
                          [arc |-> lengths[i], v |-> samples[i].v, t |-> samples[i].t,
                           a |-> Acceleration(samples, h, i)]]]

-----------------------------------------------------------------------------

\* p is at most q, for fractions with positive denominators.
AtMost(p, q) == p[1] * q[2] <= q[1] * p[2]

\* convert: an accepted reference is a trajectory the follower can run, a
\* number of points within its budget, no two of which coincide (a repeated key
\* ends the program in validateKeys), with the ego pose in front of a path that
\* starts away; and a usable reference with a metre of path is accepted.
ReferenceRunnable(r, out) ==
  /\ out.ok => /\ Len(out.points) \in kMinFollowerPoints .. kMaxPoints
               /\ \A i \in 1 .. Len(out.points) - 1 :
                    out.points[i].arc < out.points[i + 1].arc
               /\ r.gap > kEgoGap => out.points[2].arc = r.gap
  /\ (ReferenceReason(r) = "NONE" /\ r.finite /\ r.xMax >= kPathSpacing) => out.ok

\* The near field survives the point budget: within half a step of every near
\* arc the path reaches there is a point, also when the far field is shed and
\* the ego pose takes one of the places.
NearFieldKept(r, out) ==
  out.ok =>
    LET base  == IF r.gap > kEgoGap THEN r.gap ELSE 0
        whole == CumulativeArcLengths(Segments(r))
    IN  \A want \in kNearArcs :
          want < Last(whole) =>
            \E i \in DOMAIN out.points :
              2 * (out.points[i].arc - base - want) \in -kResampleStep .. kResampleStep

\* What the speeds promise: inside the range of the schedule, zero from the
\* distance at which a schedule that ends standing has stopped, with times that
\* never run backwards and, for a schedule that only brakes, no acceleration.
ScheduleTranscribed(r, out) ==
  out.ok =>
    LET h     == Clipped(r.horizon)
        knots == ScheduleKnots(h)
    IN  /\ \A i \in DOMAIN out.points :
             /\ \E lo, hi \in Range(h) : /\ AtMost(<<lo, 1>>, out.points[i].v)
                                         /\ AtMost(out.points[i].v, <<hi, 1>>)
             /\ (Last(h) = 0 /\ out.points[i].arc + kSpeedLead >= Last(knots))
                  => out.points[i].v[1] = 0
             /\ (\A j \in 1 .. Len(h) - 1 : h[j] >= h[j + 1]) => out.points[i].a[1] <= 0
        /\ \A i \in 1 .. Len(out.points) - 1 :
             AtMost(out.points[i].t, out.points[i + 1].t)
=============================================================================
