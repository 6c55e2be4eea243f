----------------------------- MODULE MCNumerics -----------------------------
(***************************************************************************)
(* The small sets of arguments the algorithms of Numerics are called with. *)
(***************************************************************************)
EXTENDS Numerics

\* Straight, gently bent, bending more and more, and almost sideways.
Shapes ==
  {[i \in 1 .. 25 |-> 48], [i \in 1 .. 25 |-> IF i % 2 = 0 THEN 50 ELSE 55],
   [i \in 1 .. 25 |-> 55 + 11 * (i \div 4)], [i \in 1 .. 25 |-> 4800]}

MCReferences ==
  [valid : {TRUE}, stamped : {TRUE}, pathValid : {TRUE}, finite : {TRUE}, stepped : {TRUE},
   xMax : {0, 24, 48, 96, 240, 1200, 9999}, shape : Shapes, gap : {0, 24, 25, 96},
   horizon : {<<2>>, <<0, 0>>, <<8, 0>>, <<1, 2, 8>>, <<2, 1, 0, 0>>, <<2, 0, 0, 1>>,
              <<3, -1, 3>>, <<8, 8>>, <<8, 8, 6, 0>>}]
  \cup
  [valid : BOOLEAN, stamped : BOOLEAN, pathValid : BOOLEAN, finite : BOOLEAN, stepped : BOOLEAN,
   xMax : {0, 240}, shape : {[i \in 1 .. 25 |-> 48]}, gap : {0}, horizon : {<<2>>, <<1, 2>>}]

\* Knots, some of them repeated or too few, and queries around the tolerance.
MCLerpArgs ==
  [base : {<<0>>, <<0, 4>>, <<0, 0, 4>>, <<0, 4, 10>>, <<0, 3, 4, 10>>},
   values : {<<0>>, <<5, 1>>, <<5, 1, 1>>, <<0, 7, -2>>, <<2, 3, 5, 9>>},
   query : {<<>>, <<4, 1>>} \cup {s \in [1 .. 3 -> {-3, -2, -1, 0, 1, 4, 5, 9, 10, 11, 12, 13}] :
                               s[1] <= s[2] /\ s[2] <= s[3]}]

MCSplineArgs ==
  [x : {<<0, 3>>, <<0, 2>>}, y : [1 .. 2 -> -1 .. 1]]
  \cup [x : {<<0, 1, 3>>, <<0, 2, 3>>}, y : [1 .. 3 -> -1 .. 1]]
  \cup [x : {<<0, 1, 3, 4>>, <<0, 2, 3, 5>>}, y : [1 .. 4 -> {0, 1, 3}]]
  \cup [x : {<<0, 1, 3, 4, 6>>}, y : [1 .. 5 -> {0, 2, 3}]]

MCResampleArgs ==
  [arcs : {<<0, 7>>, <<0, 2, 3, 9>>, <<0, 5, 5, 9>>, <<0, 1, 2>>}, ego : -3 .. 11,
   interval : {1, 2, 4, 20}, eps : {1}]

MCCycleArgs ==
  [steps : UNION {[1 .. n -> {20, 40}] : n \in 0 .. 2}, vx : [1 .. 3 -> {0, 10, -20}],
   ego : {-5, 0, 10, 20, 30, 45, 60, 80, 95}, horizon : {3, 5}, dt : {10, 1500},
   buffer : {0, 3}, period : {15}, minLength : {10, 50}]

MCSmoothArgs == [num : 0 .. 4, u : UNION {[1 .. n -> 0 .. 2] : n \in 1 .. 5}]

\* The moments of up to five commands, then two calls of the predictor.
MCSteerArgs ==
  [calls : {s \in UNION {[1 .. n -> 0 .. 7] : n \in 1 .. 5} : IsIncreasing(s)},
   delay : {0, 2}, store : {2}, tStart : 0 .. 8, gap : 0 .. 3]

\* Steps whose matrices do not commute, in sequences of up to three.
Steps ==
  {[ad |-> <<<<1, 2>>, <<0, 1>>>>, bd |-> <<<<0>>, <<1>>>>, wd |-> <<<<1>>, <<0>>>>,
    cd |-> <<<<1, 0>>, <<0, 1>>>>, q |-> <<<<2, 0>>, <<0, 1>>>>, r |-> 1, jerk |-> 1, uref |-> 1],
   [ad |-> <<<<1, 0>>, <<-1, 2>>>>, bd |-> <<<<1>>, <<-1>>>>, wd |-> <<<<0>>, <<-2>>>>,
    cd |-> <<<<0, 1>>, <<1, 0>>>>, q |-> <<<<0, 0>>, <<0, 3>>>>, r |-> 2, jerk |-> 0, uref |-> -1],
   [ad |-> <<<<0, 1>>, <<1, 1>>>>, bd |-> <<<<2>>, <<0>>>>, wd |-> <<<<0>>, <<1>>>>,
    cd |-> <<<<1, 1>>, <<0, 1>>>>, q |-> <<<<1, 0>>, <<0, 0>>>>, r |-> 0, jerk |-> 2, uref |-> 0]}

MCMatrixArgs ==
  [steps : UNION {[1 .. n -> Steps] : n \in 1 .. 3}, x0 : {<<<<1>>, <<-2>>>>, <<<<0>>, <<3>>>>},
   dt : {1, 2}, cp : {1, 3}]

\* Sequences of one-row inputs with u in U, by their length.
InputsOf(n, U) == {[i \in 1 .. n |-> <<u[i]>>] : u \in [1 .. n -> U]}

MCMatrixInputs == [n \in 1 .. 3 |-> InputsOf(n, {-1, 0, 2})]

MCRateInputs == InputsOf(2, -10 .. 12)

\* More in a bend, less at speed.
MCCurvatureLimits == <<[at |-> 0, limit |-> 3], [at |-> 2, limit |-> 4], [at |-> 4, limit |-> 6]>>

MCSpeedLimits == <<[at |-> 0, limit |-> 8], [at |-> 2, limit |-> 4], [at |-> 4, limit |-> 2]>>

MCLimitArgs ==
  [ks : [1 .. 2 -> {-3, 0, 1, 3, 9}], vs : [1 .. 2 -> {0, 2, 4}], stopped : BOOLEAN, prev : {0, 3}]

\* Three speeds ahead of the vehicle's segment, the first of three points or later.
MCFilterArgs ==
  [seg : {1, 2}, start : {0, 1, 4}, steps : [1 .. 3 -> {0, 1, 6}], vx : [1 .. 4 -> {0, 2, 5}],
   acc : {1, 3}, tau : {2}]

MCPidParams ==
  [kp |-> 2, ki |-> 3, kd |-> 1, min |-> -9, max |-> 9, minP |-> -8, maxP |-> 8,
   minI |-> -5, maxI |-> 7, minD |-> -2, maxD |-> 2]

MCPidArgs == [1 .. 4 -> [e : {-2, 0, 3}, integrate : BOOLEAN, dt : {1, 2}]]

MCStopArgs ==
  {[i \in 1 .. n |-> [t |-> ts[n + 1 - i], v |-> vs[i]]] :
     n \in 0 .. 4, ts \in {<<0, -1, -2, -3>>, <<-1, -2, -4, -5>>, <<-2, -2, -2, -3>>},
     vs \in [1 .. 4 -> 0 .. 4]}

\* Histories of up to three commands, oldest first.
MCDelayArgs ==
  [v : {-3, -1, 0, 1, 4}, a : {-2, 0, 1}, delay : {0, 3}, autonomous : BOOLEAN,
   cmds : {c \in UNION {[1 .. n -> [age : 0 .. 5, acc : {-2, 1}]] : n \in 0 .. 3} :
             \A i \in 1 .. Len(c) - 1 : c[i].age > c[i + 1].age}]

MCCscArgs == [1 .. 2 -> [1 .. 3 -> {0, 1, 2}]] \cup [1 .. 3 -> [1 .. 3 -> {0, 5}]]
=============================================================================
