----------------------------- MODULE EdgeProofs -----------------------------
(***************************************************************************)
(* Proofs about the edges of the safety island, each of them a module of   *)
(* its own: the identity gate, the rpmsg-si fault input, the staleness     *)
(* gate, startup and the CAN path.  They share no state; every section     *)
(* below is about one of them.                                             *)
(***************************************************************************)
EXTENDS CandidateStream, SiFaultInput, StalenessGate, Startup, CanPath,
        FiniteSetTheorems, SequenceTheorems, TLAPS

-----------------------------------------------------------------------------
(* The identity gate: whatever the transport loses, repeats or reorders,   *)
(* and however often producers restart, the accepted stamps strictly       *)
(* increase, the cycles of one producer strictly increase, and the         *)
(* producer in charge is not among the retired ones.                       *)

\* The gate knows the last accepted candidate, and before there is one nothing
\* is retired.
GateHoldsLast ==
  /\ log = << >> => gate.retired = << >>
  /\ gate.seen => log # << >>
  /\ log # << >> =>
       /\ gate.seen
       /\ gate.session = log[Len(log)].session
       /\ gate.cycle = log[Len(log)].cycle
       /\ gate.stamp = log[Len(log)].stamp

StreamInv ==
  /\ StreamTypeOK
  /\ GateHoldsLast
  /\ StampsIncrease
  /\ CyclesIncrease
  /\ CurrentNotRetired

LEMMA CandidateType ==
  ASSUME NEW m \in Candidates
  PROVE  m.session \in Nat /\ m.cycle \in Nat /\ m.stamp \in Int
  BY CandidatesAssumption DEF CandidatesAssumption

\* The ring keeps its bound and holds the session just retired and nothing new
\* besides it.
LEMMA RetireRing ==
  ASSUME NEW ring \in Seq(Nat), Len(ring) <= RetiredWindow, NEW session \in Nat
  PROVE  /\ Retire(ring, session) \in Seq(Nat)
         /\ Len(Retire(ring, session)) <= RetiredWindow
         /\ \A i \in 1 .. Len(Retire(ring, session)) :
              \/ Retire(ring, session)[i] = session
              \/ \E j \in 1 .. Len(ring) : Retire(ring, session)[i] = ring[j]
<1> DEFINE kept == IF Len(ring) < RetiredWindow THEN ring ELSE Tail(ring)
<1>1. /\ kept \in Seq(Nat) /\ Len(kept) < RetiredWindow
      /\ \A i \in 1 .. Len(kept) : \E j \in 1 .. Len(ring) : kept[i] = ring[j]
  <2>1. CASE Len(ring) < RetiredWindow
    BY <2>1
  <2>2. CASE ~(Len(ring) < RetiredWindow)
    <3>1. kept = Tail(ring) /\ Len(ring) > 0
      BY <2>2, RetiredWindowAssumption
    <3>2. \A i \in 1 .. Len(kept) : i + 1 \in 1 .. Len(ring) /\ kept[i] = ring[i + 1]
      BY <3>1
    <3>3. QED
      BY <3>1, <3>2, RetiredWindowAssumption
  <2>3. QED
    BY <2>1, <2>2
<1>2. Retire(ring, session) = Append(kept, session)
  BY DEF Retire
<1> HIDE DEF kept
<1>3. QED
  BY <1>1, <1>2, RetiredWindowAssumption

\* What an accepted candidate says about the gate before it.
LEMMA AcceptMeans ==
  ASSUME NEW id \in VpIdentities, NEW m \in Candidates,
         VpCheck(id, m.session, m.cycle, m.stamp) = "ACCEPT", id.seen
  PROVE  /\ m.session \notin Retired(id)
         /\ m.stamp > id.stamp
         /\ m.session = id.session => m.cycle > id.cycle
<1>1. m.session \notin Retired(id)
  BY DEF VpCheck
<1>2. m.stamp > id.stamp
  BY <1>1 DEF VpCheck
<1>3. ~(m.session = id.session /\ m.cycle <= id.cycle)
  BY <1>1 DEF VpCheck
<1>4. QED
  BY <1>1, <1>2, <1>3, CandidateType DEF VpIdentities

LEMMA InitStream == StreamInit => StreamInv
<1> SUFFICES ASSUME StreamInit PROVE StreamInv
  OBVIOUS
<1>1. log = << >> /\ gate = FreshVpIdentity
  BY DEF StreamInit
<1>2. FreshVpIdentity \in VpIdentities /\ FreshVpIdentity.retired = << >> /\ ~FreshVpIdentity.seen
  BY DEF FreshVpIdentity, VpIdentities
<1>3. StreamTypeOK
  BY <1>1, <1>2, RetiredWindowAssumption DEF StreamTypeOK
<1>4. GateHoldsLast /\ StampsIncrease /\ CyclesIncrease /\ CurrentNotRetired
  BY <1>1, <1>2 DEF GateHoldsLast, StampsIncrease, CyclesIncrease, CurrentNotRetired
<1>5. QED
  BY <1>3, <1>4 DEF StreamInv

LEMMA OfferStream ==
  ASSUME StreamInv, NEW m \in Candidates, Offer(m)
  PROVE  StreamInv'
<1>1. gate \in VpIdentities /\ Len(gate.retired) <= RetiredWindow /\ log \in Seq(Candidates)
  BY DEF StreamInv, StreamTypeOK
<1>2. log' = Append(log, m) /\ gate' = VpNote(gate, m.session, m.cycle, m.stamp)
      /\ VpCheck(gate, m.session, m.cycle, m.stamp) = "ACCEPT"
  BY DEF Offer
<1>3. gate.session \in Nat /\ gate.cycle \in Nat /\ gate.stamp \in Int /\ gate.retired \in Seq(Nat)
  BY <1>1 DEF VpIdentities
<1>4. log' \in Seq(Candidates) /\ Len(log') = Len(log) + 1 /\ log'[Len(log')] = m
      /\ \A i \in 1 .. Len(log) : log'[i] = log[i]
  BY <1>1, <1>2
<1>5. gate'.seen /\ gate'.session = m.session /\ gate'.cycle = m.cycle /\ gate'.stamp = m.stamp
  BY <1>2 DEF VpNote
<1>6. gate'.retired = IF gate.seen /\ m.session # gate.session
                      THEN Retire(gate.retired, gate.session) ELSE gate.retired
  BY <1>2 DEF VpNote
<1>7. StreamTypeOK'
  <2>1. gate'.retired \in Seq(Nat) /\ Len(gate'.retired) <= RetiredWindow
    BY <1>1, <1>3, <1>6, RetireRing
  <2>2. Retire(gate.retired, gate.session) \in Seq(Nat)
    BY <1>1, <1>3, RetireRing
  <2>3. gate' \in VpIdentities
    BY <1>2, <1>3, <2>2, CandidateType DEF VpNote, VpIdentities
  <2>4. QED
    BY <1>4, <2>1, <2>3 DEF StreamTypeOK
<1>8. GateHoldsLast'
  BY <1>4, <1>5 DEF GateHoldsLast
<1>9. log # << >> =>
        /\ gate.seen
        /\ log[Len(log)].stamp < m.stamp
        /\ log[Len(log)].session = m.session => log[Len(log)].cycle < m.cycle
  <2> SUFFICES ASSUME log # << >>
               PROVE  /\ gate.seen
                      /\ log[Len(log)].stamp < m.stamp
                      /\ log[Len(log)].session = m.session => log[Len(log)].cycle < m.cycle
    OBVIOUS
  <2>1. gate.seen /\ gate.session = log[Len(log)].session /\ gate.cycle = log[Len(log)].cycle
        /\ gate.stamp = log[Len(log)].stamp
    BY DEF StreamInv, GateHoldsLast
  <2>2. m.stamp > gate.stamp /\ (m.session = gate.session => m.cycle > gate.cycle)
    BY <1>1, <1>2, <2>1, AcceptMeans
  <2>3. QED
    BY <1>3, <2>1, <2>2, CandidateType
<1>10. StampsIncrease'
  <2> SUFFICES ASSUME NEW i \in 1 .. Len(log'), NEW j \in 1 .. Len(log'), i < j
               PROVE  log'[i].stamp < log'[j].stamp
    BY DEF StampsIncrease
  <2>1. CASE j <= Len(log)
    BY <1>4, <2>1 DEF StreamInv, StampsIncrease
  <2>2. CASE j = Len(log) + 1
    <3>1. i \in 1 .. Len(log) /\ Len(log) \in Nat /\ log # << >>
      BY <1>1, <1>4, <2>2
    <3>2. log[i].stamp <= log[Len(log)].stamp
      <4>1. CASE i = Len(log)
        <5>1. log[Len(log)] \in Candidates
          BY <1>1, <3>1
        <5>2. QED
          BY <4>1, <5>1, CandidateType
      <4>2. CASE i < Len(log)
        <5>1. log[i] \in Candidates /\ log[Len(log)] \in Candidates
          BY <1>1, <3>1
        <5>2. log[i].stamp < log[Len(log)].stamp
          BY <3>1, <4>2 DEF StreamInv, StampsIncrease
        <5>3. QED
          BY <5>1, <5>2, CandidateType
      <4>3. QED
        BY <3>1, <4>1, <4>2
    <3>3. log[i].stamp \in Int /\ log[Len(log)].stamp \in Int /\ m.stamp \in Int
      <4>1. log[i] \in Candidates /\ log[Len(log)] \in Candidates
        BY <1>1, <3>1
      <4>2. QED
        BY <4>1, CandidateType
    <3>4. log[i].stamp < m.stamp
      BY <1>9, <3>1, <3>2, <3>3
    <3>5. QED
      BY <1>4, <2>2, <3>1, <3>4
  <2>3. QED
    BY <1>4, <2>1, <2>2
<1>11. CyclesIncrease'
  <2> SUFFICES ASSUME NEW i \in 1 .. Len(log') - 1, log'[i].session = log'[i + 1].session
               PROVE  log'[i].cycle < log'[i + 1].cycle
    BY DEF CyclesIncrease
  <2>1. CASE i < Len(log)
    <3>1. i \in 1 .. Len(log) - 1 /\ i + 1 \in 1 .. Len(log)
      BY <1>4, <2>1
    <3>2. QED
      BY <1>4, <3>1 DEF StreamInv, CyclesIncrease
  <2>2. CASE i = Len(log)
    <3>1. log # << >> /\ log'[i] = log[Len(log)] /\ log'[i + 1] = m
      BY <1>1, <1>4, <2>2
    <3>2. QED
      BY <1>9, <3>1
  <2>3. QED
    BY <1>1, <1>4, <2>1, <2>2
<1>12. CurrentNotRetired'
  <2> SUFFICES m.session \notin Retired(gate')
    BY <1>5 DEF CurrentNotRetired
  <2>1. CASE ~gate.seen \/ m.session = gate.session
    <3>1. gate'.retired = gate.retired
      BY <1>6, <2>1
    <3>2. CASE gate.seen
      BY <1>1, <1>2, <3>1, <3>2, AcceptMeans DEF Retired
    <3>3. CASE ~gate.seen
      <4>1. gate.retired = << >>
        BY <3>3 DEF StreamInv, GateHoldsLast
      <4>2. QED
        BY <3>1, <4>1 DEF Retired
    <3>4. QED
      BY <3>2, <3>3
  <2>2. CASE gate.seen /\ m.session # gate.session
    <3>1. gate'.retired = Retire(gate.retired, gate.session)
      BY <1>6, <2>2
    <3>2. m.session \notin Retired(gate)
      BY <1>1, <1>2, <2>2, AcceptMeans
    <3>3. ASSUME NEW i \in 1 .. Len(gate'.retired) PROVE gate'.retired[i] # m.session
      <4>1. \/ gate'.retired[i] = gate.session
            \/ \E j \in 1 .. Len(gate.retired) : gate'.retired[i] = gate.retired[j]
        <5>1. \A k \in 1 .. Len(Retire(gate.retired, gate.session)) :
                \/ Retire(gate.retired, gate.session)[k] = gate.session
                \/ \E j \in 1 .. Len(gate.retired) :
                     Retire(gate.retired, gate.session)[k] = gate.retired[j]
          BY <1>1, <1>3, RetireRing
        <5>2. QED
          BY <3>1, <3>3, <5>1, Zenon
      <4>2. QED
        BY <2>2, <3>2, <4>1 DEF Retired
    <3>4. QED
      BY <3>3 DEF Retired
  <2>3. QED
    BY <2>1, <2>2
<1>13. QED
  BY <1>7, <1>8, <1>10, <1>11, <1>12 DEF StreamInv

LEMMA NextStream == StreamInv /\ [StreamNext]_streamVars => StreamInv'
<1> SUFFICES ASSUME StreamInv, [StreamNext]_streamVars PROVE StreamInv'
  OBVIOUS
<1>1. CASE UNCHANGED streamVars
  BY <1>1 DEF streamVars, StreamInv, StreamTypeOK, GateHoldsLast, StampsIncrease, CyclesIncrease,
              CurrentNotRetired, Retired
<1>2. CASE StreamNext
  BY <1>1, <1>2, OfferStream DEF StreamNext, Refuse
<1>3. QED
  BY <1>1, <1>2

THEOREM StreamInvariant == StreamSpec => []StreamInv
  BY InitStream, NextStream, PTL DEF StreamSpec

\* For any ring size and any candidates: no camera frame is accepted twice or
\* after a younger one, whoever sends it; no cycle twice or backwards within
\* one producer's tenure; and the producer in charge is never refused as a
\* retired one.
THEOREM StreamAlwaysSound == StreamSpec => []StreamSound
<1>1. StreamInv => StreamSound
  BY DEF StreamInv, StreamSound
<1>2. QED
  BY <1>1, StreamInvariant, PTL

-----------------------------------------------------------------------------
(* No revival: a producer that was retired is refused while the ring       *)
(* remembers it, which is for RetiredWindow retirements.                   *)

\* The retirements of s after the one at i, up to its candidate n.
RetiredAfter(s, i, n) == {k \in i + 1 .. n - 1 : s[k].session # s[k + 1].session}

\* Counted from its end, the ring holds the session retired at i behind those
\* retired after it, until RetiredWindow of them have pushed it out.
RingRemembers ==
  \A i \in 1 .. Len(log) - 1 :
    log[i].session # log[i + 1].session =>
      LET later == Cardinality(RetiredAfter(log, i, Len(log)))
      IN  \/ later >= RetiredWindow
          \/ /\ later < Len(gate.retired)
             /\ gate.retired[Len(gate.retired) - later] = log[i].session

LEMMA RetiredAfterIsFinite ==
  ASSUME NEW s, NEW i \in Nat, NEW n \in Nat
  PROVE  IsFiniteSet(RetiredAfter(s, i, n)) /\ Cardinality(RetiredAfter(s, i, n)) \in Nat
<1>1. IsFiniteSet(i + 1 .. n - 1)
  BY FS_Interval
<1>2. RetiredAfter(s, i, n) \subseteq i + 1 .. n - 1
  BY DEF RetiredAfter
<1>3. IsFiniteSet(RetiredAfter(s, i, n))
  BY <1>1, <1>2, FS_Subset
<1>4. QED
  BY <1>3, FS_CardinalityType

\* One more candidate adds a retirement exactly when it changes the session.
OneMore(s, t, m, i, n) ==
  /\ s[n].session # m.session =>
       Cardinality(RetiredAfter(t, i, n + 1)) = Cardinality(RetiredAfter(s, i, n)) + 1
  /\ s[n].session = m.session =>
       Cardinality(RetiredAfter(t, i, n + 1)) = Cardinality(RetiredAfter(s, i, n))

LEMMA OneMoreRetired ==
  ASSUME NEW s \in Seq(Candidates), NEW m \in Candidates, NEW n \in Nat, n = Len(s),
         NEW t, t = Append(s, m), NEW i \in 1 .. n - 1
  PROVE  OneMore(s, t, m, i, n)
<1>1. Len(t) = n + 1 /\ t[n + 1] = m /\ \A k \in 1 .. n : t[k] = s[k]
  OBVIOUS
<1> DEFINE old == RetiredAfter(s, i, n)
<1>2. IsFiniteSet(old) /\ Cardinality(old) \in Nat /\ n \notin old
  <2>1. i \in Nat
    OBVIOUS
  <2>2. n \notin old
    BY DEF RetiredAfter
  <2>3. QED
    BY <2>1, <2>2, RetiredAfterIsFinite
<1>3. \A k \in i + 1 .. n - 1 : k \in 1 .. n /\ k + 1 \in 1 .. n
  OBVIOUS
<1>4. CASE s[n].session # m.session
  <2>1. RetiredAfter(t, i, n + 1) = old \cup {n}
    <3>1. ASSUME NEW k \in i + 1 .. n - 1
          PROVE  k \in RetiredAfter(t, i, n + 1) <=> k \in old
      BY <1>1, <1>3 DEF RetiredAfter
    <3>2. n \in RetiredAfter(t, i, n + 1)
      BY <1>1, <1>4 DEF RetiredAfter
    <3>3. RetiredAfter(t, i, n + 1) \subseteq (i + 1 .. n - 1) \cup {n}
          /\ old \subseteq i + 1 .. n - 1
      BY DEF RetiredAfter
    <3> HIDE DEF old
    <3>4. QED
      BY <3>1, <3>2, <3>3
  <2> HIDE DEF old
  <2>2. Cardinality(old \cup {n}) = Cardinality(old) + 1
    BY <1>2, FS_AddElement
  <2>3. QED
    BY <1>4, <2>1, <2>2 DEF old, OneMore
<1>5. CASE ~(s[n].session # m.session)
  <2>1. RetiredAfter(t, i, n + 1) = old
    <3>1. ASSUME NEW k \in i + 1 .. n - 1
          PROVE  k \in RetiredAfter(t, i, n + 1) <=> k \in old
      BY <1>1, <1>3 DEF RetiredAfter
    <3>2. n \notin RetiredAfter(t, i, n + 1)
      BY <1>1, <1>5 DEF RetiredAfter
    <3>3. RetiredAfter(t, i, n + 1) \subseteq (i + 1 .. n - 1) \cup {n}
          /\ old \subseteq i + 1 .. n - 1
      BY DEF RetiredAfter
    <3> HIDE DEF old
    <3>4. QED
      BY <3>1, <3>2, <3>3
  <2>2. QED
    BY <1>2, <1>5, <2>1 DEF OneMore
<1>6. QED
  BY <1>4, <1>5

\* Retiring a session puts it at the end and pushes the others one further.
LEMMA RetirePushes ==
  ASSUME NEW ring \in Seq(Nat), Len(ring) <= RetiredWindow, NEW session \in Nat,
         NEW next, next = Retire(ring, session)
  PROVE  /\ Len(next) \in Nat /\ Len(next) > 0 /\ next[Len(next)] = session
         /\ \A c \in Nat : c < Len(ring) /\ c + 1 < RetiredWindow =>
              /\ c + 1 < Len(next)
              /\ next[Len(next) - (c + 1)] = ring[Len(ring) - c]
<1>1. RetiredWindow \in Nat \ {0} /\ Len(ring) \in Nat
  BY RetiredWindowAssumption DEF RetiredWindowAssumption
<1>2. CASE Len(ring) < RetiredWindow
  <2>1. next = Append(ring, session)
    BY <1>2 DEF Retire
  <2>2. Len(next) = Len(ring) + 1 /\ next[Len(ring) + 1] = session
        /\ \A k \in 1 .. Len(ring) : next[k] = ring[k]
    BY <2>1
  <2>3. QED
    BY <1>1, <2>2
<1>3. CASE ~(Len(ring) < RetiredWindow)
  <2>1. PICK rest : rest = Tail(ring)
    OBVIOUS
  <2>2. Len(ring) = RetiredWindow /\ ring # << >>
    BY <1>1, <1>3
  <2>3. rest \in Seq(Nat) /\ Len(rest) = Len(ring) - 1
        /\ \A k \in 1 .. Len(ring) - 1 : rest[k] = ring[k + 1]
    BY <2>1, <2>2
  <2>4. next = Append(rest, session)
    BY <1>3, <2>1 DEF Retire
  <2>5. Len(next) = Len(ring) /\ next[Len(ring)] = session
        /\ \A k \in 1 .. Len(ring) - 1 : next[k] = ring[k + 1]
    BY <1>1, <2>3, <2>4
  <2>6. ASSUME NEW c \in Nat, c < Len(ring), c + 1 < RetiredWindow
        PROVE  c + 1 < Len(next) /\ next[Len(next) - (c + 1)] = ring[Len(ring) - c]
    <3>1. PICK k \in 1 .. Len(ring) - 1 : k = Len(ring) - (c + 1) /\ k + 1 = Len(ring) - c
      BY <1>1, <2>2, <2>6
    <3>2. QED
      BY <1>1, <2>2, <2>5, <2>6, <3>1
  <2>7. QED
    BY <1>1, <2>2, <2>5, <2>6
<1>4. QED
  BY <1>2, <1>3

\* An accepted candidate keeps what the ring remembers.
LEMMA OfferRemembers ==
  ASSUME StreamInv, RingRemembers, NEW m \in Candidates, Offer(m)
  PROVE  RingRemembers'
<1>1. gate \in VpIdentities /\ Len(gate.retired) <= RetiredWindow /\ log \in Seq(Candidates)
  BY DEF StreamInv, StreamTypeOK
<1>2. gate.session \in Nat /\ gate.retired \in Seq(Nat)
  BY <1>1 DEF VpIdentities
<1>3. PICK n \in Nat : n = Len(log)
  BY <1>1
<1>4. PICK t : t = Append(log, m) /\ log' = t
  BY DEF Offer
<1>5. Len(t) = n + 1 /\ t[n + 1] = m /\ \A k \in 1 .. n : t[k] = log[k]
  BY <1>1, <1>3, <1>4
<1>6. PICK ring \in Seq(Nat) : ring = gate.retired /\ Len(ring) <= RetiredWindow /\ Len(ring) \in Nat
  BY <1>1, <1>2
<1>7. PICK next : next = gate'.retired
  OBVIOUS
<1>8. next = IF gate.seen /\ m.session # gate.session THEN Retire(ring, gate.session) ELSE ring
  BY <1>6, <1>7 DEF Offer, VpNote
<1>9. n # 0 => gate.seen /\ gate.session = log[n].session
  BY <1>1, <1>3 DEF StreamInv, GateHoldsLast
<1>10. RetiredWindow \in Nat \ {0}
  BY RetiredWindowAssumption DEF RetiredWindowAssumption
<1>11. SUFFICES ASSUME NEW i \in 1 .. n, t[i].session # t[i + 1].session
                PROVE  LET later == Cardinality(RetiredAfter(t, i, n + 1))
                       IN  \/ later >= RetiredWindow
                           \/ later < Len(next) /\ next[Len(next) - later] = t[i].session
  BY <1>4, <1>5, <1>7 DEF RingRemembers
<1>12. n # 0 /\ gate.seen /\ gate.session = log[n].session
  BY <1>9
<1>13. CASE i = n
  <2>1. RetiredAfter(t, i, n + 1) = {}
    BY <1>13 DEF RetiredAfter
  <2>2. Cardinality(RetiredAfter(t, i, n + 1)) = 0
    BY <2>1, FS_EmptySet
  <2>3. next = Retire(ring, gate.session) /\ t[i].session = gate.session
    BY <1>5, <1>8, <1>11, <1>12, <1>13
  <2>4. Len(next) \in Nat /\ Len(next) > 0 /\ next[Len(next)] = gate.session
    BY <1>2, <1>6, <2>3, RetirePushes
  <2>5. QED
    BY <2>2, <2>3, <2>4
<1>14. CASE i # n
  <2>1. i \in 1 .. n - 1 /\ i \in Nat /\ i + 1 \in 1 .. n
    BY <1>14
  <2>2. PICK c \in Nat : c = Cardinality(RetiredAfter(log, i, n))
    BY <2>1, RetiredAfterIsFinite
  <2>3. /\ log[n].session # m.session => Cardinality(RetiredAfter(t, i, n + 1)) = c + 1
        /\ log[n].session = m.session => Cardinality(RetiredAfter(t, i, n + 1)) = c
    <3>1. log \in Seq(Candidates) /\ n = Len(log) /\ t = Append(log, m) /\ i \in 1 .. n - 1
      BY <1>1, <1>3, <1>4, <2>1
    <3>2. QED
      <4>1. /\ log[n].session # m.session =>
                 Cardinality(RetiredAfter(t, i, n + 1)) = Cardinality(RetiredAfter(log, i, n)) + 1
            /\ log[n].session = m.session =>
                 Cardinality(RetiredAfter(t, i, n + 1)) = Cardinality(RetiredAfter(log, i, n))
        <5>1. OneMore(log, t, m, i, n)
          BY <3>1, OneMoreRetired, Zenon
        <5>2. QED
          BY <5>1 DEF OneMore
      <4>2. QED
        BY <2>2, <4>1
  <2>4. log[i].session # log[i + 1].session /\ t[i].session = log[i].session
    BY <1>5, <1>11, <2>1
  <2>5. \/ c >= RetiredWindow
        \/ c < Len(ring) /\ ring[Len(ring) - c] = log[i].session
    <3>1. i \in 1 .. Len(log) - 1
      BY <1>3, <2>1
    <3>2. PICK d : /\ d = Cardinality(RetiredAfter(log, i, Len(log)))
                   /\ \/ d >= RetiredWindow
                      \/ /\ d < Len(gate.retired)
                         /\ gate.retired[Len(gate.retired) - d] = log[i].session
      BY <2>4, <3>1, Zenon DEF RingRemembers
    <3>3. d = c
      BY <1>3, <2>2, <3>2
    <3>4. CASE d >= RetiredWindow
      BY <3>3, <3>4
    <3>5. CASE d < Len(gate.retired) /\ gate.retired[Len(gate.retired) - d] = log[i].session
      <4>1. d < Len(ring) /\ ring[Len(ring) - d] = log[i].session
        BY <1>6, <3>5, Zenon
      <4>2. QED
        BY <3>3, <4>1
    <3>6. QED
      BY <3>2, <3>4, <3>5
  <2>6. CASE log[n].session = m.session
    <3>1. next = ring
      BY <1>8, <1>12, <2>6
    <3>2. Cardinality(RetiredAfter(t, i, n + 1)) = c
      BY <2>3, <2>6
    <3>3. QED
      BY <2>4, <2>5, <3>1, <3>2
  <2>7. CASE log[n].session # m.session
    <3>1. next = Retire(ring, gate.session)
      BY <1>8, <1>12, <2>7
    <3>2. Cardinality(RetiredAfter(t, i, n + 1)) = c + 1
      BY <2>3, <2>7
    <3>3. c < Len(ring) /\ c + 1 < RetiredWindow =>
            c + 1 < Len(next) /\ next[Len(next) - (c + 1)] = ring[Len(ring) - c]
      BY <1>2, <1>6, <3>1, RetirePushes
    <3>4. CASE c + 1 >= RetiredWindow
      BY <3>2, <3>4
    <3>5. CASE c + 1 < RetiredWindow
      <4>1. c < Len(ring) /\ ring[Len(ring) - c] = log[i].session
        BY <1>10, <2>5, <3>5
      <4>2. QED
        BY <2>4, <3>2, <3>3, <3>5, <4>1
    <3>6. QED
      BY <1>10, <3>4, <3>5
  <2>8. QED
    BY <2>6, <2>7
<1>15. QED
  BY <1>13, <1>14

\* A candidate of a session that the ring remembers is not accepted.
LEMMA OfferRevivesNothing ==
  ASSUME StreamInv, RingRemembers, NoRevival, NEW m \in Candidates, Offer(m)
  PROVE  NoRevival'
<1>1. gate \in VpIdentities /\ log \in Seq(Candidates) /\ gate.retired \in Seq(Nat)
  BY DEF StreamInv, StreamTypeOK, VpIdentities
<1>2. PICK n \in Nat : n = Len(log)
  BY <1>1
<1>3. log' = Append(log, m)
  BY DEF Offer
<1>4. Len(log') = n + 1 /\ log'[n + 1] = m /\ \A k \in 1 .. n : log'[k] = log[k]
  BY <1>1, <1>2, <1>3
<1>5. SUFFICES ASSUME NEW i \in 1 .. Len(log'), NEW j \in 1 .. Len(log'),
                      i + 1 < j, log'[i].session = log'[j].session, log'[i + 1].session # log'[i].session
               PROVE  Cardinality({k \in i + 1 .. j - 2 : log'[k].session # log'[k + 1].session})
                        >= RetiredWindow
  BY DEF NoRevival
<1>6. {k \in i + 1 .. j - 2 : log'[k].session # log'[k + 1].session}
        = {k \in i + 1 .. j - 2 : log[k].session # log[k + 1].session}
  <2>1. \A k \in i + 1 .. j - 2 : k \in 1 .. n /\ k + 1 \in 1 .. n
    BY <1>4
  <2>2. \A k \in i + 1 .. j - 2 : log'[k] = log[k] /\ log'[k + 1] = log[k + 1]
    BY <1>4, <2>1
  <2>3. QED
    BY <2>2
<1>7. i \in 1 .. n - 1 /\ i + 1 \in 1 .. n /\ log'[i] = log[i] /\ log'[i + 1] = log[i + 1]
  <2>1. i \in 1 .. n - 1 /\ i \in 1 .. n /\ i + 1 \in 1 .. n
    BY <1>4, <1>5
  <2>2. QED
    BY <1>4, <2>1
<1>8. CASE j <= n
  <2>1. i \in 1 .. n /\ j \in 1 .. n /\ log'[j] = log[j]
    BY <1>4, <1>7, <1>8
  <2>2. log[i].session = log[j].session /\ log[i + 1].session # log[i].session
    BY <1>5, <1>7, <2>1
  <2>3. QED
    BY <1>2, <1>5, <1>6, <2>1, <2>2 DEF NoRevival
<1>9. CASE j = n + 1
  <2>1. {k \in i + 1 .. j - 2 : log[k].session # log[k + 1].session} = RetiredAfter(log, i, n)
    <3>1. j - 2 = n - 1
      BY <1>9
    <3>2. QED
      BY <3>1 DEF RetiredAfter
  <2>2. PICK c \in Nat : c = Cardinality(RetiredAfter(log, i, n))
    BY <1>7, RetiredAfterIsFinite
  <2>3. \/ c >= RetiredWindow
        \/ c < Len(gate.retired) /\ gate.retired[Len(gate.retired) - c] = log[i].session
    BY <1>2, <1>5, <1>7, <2>2 DEF RingRemembers
  <2>4. m.session = log[i].session
    BY <1>4, <1>5, <1>7, <1>9
  <2>5. gate.seen
    <3>1. log # << >>
      BY <1>2, <1>7
    <3>2. QED
      BY <3>1 DEF StreamInv, GateHoldsLast
  <2>6. m.session \notin Retired(gate)
    BY <1>1, <2>5, AcceptMeans DEF Offer
  <2>7. ~(c < Len(gate.retired) /\ gate.retired[Len(gate.retired) - c] = log[i].session)
    <3>1. PICK size \in Nat : size = Len(gate.retired)
      BY <1>1
    <3>2. c < size => size - c \in 1 .. size
      BY <3>1
    <3>3. QED
      BY <2>4, <2>6, <3>1, <3>2 DEF Retired
  <2>8. c >= RetiredWindow
    BY <2>3, <2>7
  <2>9. QED
    BY <1>6, <2>1, <2>2, <2>8
<1>10. QED
  BY <1>4, <1>8, <1>9

\* However producers restart and whatever the transport repeats: a producer that
\* lost its place comes back only after RetiredWindow later ones lost theirs.
THEOREM RetiredNeverRevive == StreamSpec => []NoRevival
<1>1. StreamInit => RingRemembers /\ NoRevival
  <2>1. StreamInit => Len(log) = 0
    BY DEF StreamInit
  <2>2. QED
    BY <2>1 DEF RingRemembers, NoRevival
<1>2. StreamInv /\ RingRemembers /\ NoRevival /\ [StreamNext]_streamVars => (RingRemembers /\ NoRevival)'
  <2> SUFFICES ASSUME StreamInv, RingRemembers, NoRevival, [StreamNext]_streamVars
               PROVE  RingRemembers' /\ NoRevival'
    OBVIOUS
  <2>1. CASE UNCHANGED streamVars
    BY <2>1 DEF streamVars, RingRemembers, NoRevival
  <2>2. CASE StreamNext
    BY <2>1, <2>2, OfferRemembers, OfferRevivesNothing DEF StreamNext, Refuse
  <2>3. QED
    BY <2>1, <2>2
<1>3. QED
  BY <1>1, <1>2, StreamInvariant, PTL DEF StreamSpec

-----------------------------------------------------------------------------
(* The fault input, for any number of rising edges.  SiInv says where an   *)
(* edge is while it is not yet a stop: in the count that the controller    *)
(* has still to read, and never in the level alone.                        *)

Held(l) == l.latched /\ l.reason = "si_fault_input"

SiInv ==
  /\ SiTypeOK
  /\ seen <= events
  /\ rx = "counted" => events # seen
  /\ fault => events # seen \/ latch.latched
  /\ held => fault
  /\ held /\ at # "idle" => latch.latched
  /\ new => events # seen /\ ~Held(latch)
  /\ due /\ at # "idle" => latch.latched /\ ~latch.pending
  /\ at = "idle" => ~held /\ ~due

\* Whatever the other sources say, a tick that reads a new count ends its first
\* access with the fault latched, and an earlier request withdrawn unless the
\* latch already held this fault.
LEMMA NewCountLatches ==
  ASSUME SiTypeOK, NEW isStale \in BOOLEAN, events # seen
  PROVE  LET w == WatchEvents(IF isStale THEN LatchFault(latch, "source") ELSE latch)
         IN  /\ w.latched
             /\ ~Held(latch) => ~w.pending
BY DEF SiTypeOK, WatchEvents, LatchFault, Latch, Held

\* The first access keeps the type of the latch and never clears it.
LEMMA WatchKeepsLatch ==
  ASSUME SiTypeOK, NEW isStale \in BOOLEAN
  PROVE  LET w == WatchEvents(IF isStale THEN LatchFault(latch, "source") ELSE latch)
         IN  /\ w \in [latched : BOOLEAN, reason : {"none", "source", "si_fault_input"},
                        pending : BOOLEAN]
             /\ latch.latched => w.latched
BY DEF SiTypeOK, WatchEvents, LatchFault, Latch

LEMMA InitSi == SiInit => SiInv
<1> SUFFICES ASSUME SiInit PROVE SiInv
  OBVIOUS
<1>1. ~fault /\ ~held /\ ~new /\ ~due
  BY Zenon DEF SiInit
<1>2. stale \in BOOLEAN /\ fault \in BOOLEAN /\ held \in BOOLEAN /\ new \in BOOLEAN /\ due \in BOOLEAN
  BY Zenon DEF SiInit
<1>3. SiTypeOK
  BY <1>2 DEF SiInit, Latch, SiTypeOK
<1>4. at = "idle" /\ rx = "idle" /\ seen = events /\ events \in Nat
  BY DEF SiInit
<1> QED BY <1>1, <1>3, <1>4 DEF SiInv

LEMMA CountEdgeSi == SiInv /\ CountEdge => SiInv'
BY DEF SiInv, CountEdge, controller, SiTypeOK, Held

LEMMA SetFaultSi == SiInv /\ SetFault => SiInv'
BY DEF SiInv, SetFault, controller, history, SiTypeOK, Held

LEMMA ClearFaultSi == SiInv /\ ClearFault => SiInv'
<1> SUFFICES ASSUME SiInv, ClearFault PROVE SiInv'
  OBVIOUS
<1>1. ~fault' /\ ~held' /\ fault' \in BOOLEAN /\ held' \in BOOLEAN
  BY Zenon DEF ClearFault
<1> QED BY <1>1 DEF SiInv, ClearFault, controller, SiTypeOK, Held

LEMMA PressSi == SiInv /\ Press => SiInv'
BY DEF SiInv, Press, Latch, history, SiTypeOK, Held

LEMMA RefuseSi == SiInv /\ RefuseCandidate => SiInv'
BY DEF SiInv, RefuseCandidate, LatchFault, Latch, history, SiTypeOK, Held

LEMMA BeginTickSi ==
  ASSUME SiInv, NEW isStale \in BOOLEAN, NEW expires \in BOOLEAN, BeginTick(isStale, expires)
  PROVE  SiInv'
<1> DEFINE w == WatchEvents(IF isStale THEN LatchFault(latch, "source") ELSE latch)
<1> USE DEF SiInv
<1>1. /\ w \in [latched : BOOLEAN, reason : {"none", "source", "si_fault_input"},
                pending : BOOLEAN]
      /\ latch.latched => w.latched
  BY WatchKeepsLatch
<1>2. events # seen => w.latched /\ (~Held(latch) => ~w.pending)
  BY NewCountLatches
<1>3. /\ latch' = Latch(w.latched, w.reason, w.pending /\ ~(w.latched /\ expires))
      /\ seen' = events /\ at' = "counted" /\ stale' = isStale
      /\ held' = fault /\ due' = new /\ new' = FALSE
      /\ UNCHANGED <<fault, events, rx, decision>>
      /\ rx = "idle"
  BY DEF BeginTick, ControllerRuns
<1> HIDE DEF w
<1>4. /\ latch' \in [latched : BOOLEAN, reason : {"none", "source", "si_fault_input"},
                      pending : BOOLEAN]
      /\ latch'.latched = w.latched /\ latch'.reason = w.reason /\ (latch'.pending => w.pending)
  BY <1>1, <1>3 DEF Latch
<1>5. SiTypeOK'
  BY <1>3, <1>4 DEF SiTypeOK
<1>6. (fault => events # seen \/ latch.latched)'
  BY <1>1, <1>2, <1>3, <1>4
<1>7. (held /\ at # "idle" => latch.latched)'
  BY <1>1, <1>2, <1>3, <1>4
<1>8. (due /\ at # "idle" => latch.latched /\ ~latch.pending)'
  BY <1>2, <1>3, <1>4
<1> QED BY <1>3, <1>5, <1>6, <1>7, <1>8 DEF SiTypeOK

LEMMA ReadLevelSi == SiInv /\ ReadLevel => SiInv'
BY DEF SiInv, ReadLevel, Latch, history, ControllerRuns, SiTypeOK, Held

LEMMA PublishSi == SiInv /\ PublishDecision => SiInv'
<1> SUFFICES ASSUME SiInv, PublishDecision PROVE SiInv'
  OBVIOUS
<1>1. ~held' /\ ~due' /\ held' \in BOOLEAN /\ due' \in BOOLEAN
  BY Zenon DEF PublishDecision
<1> QED BY <1>1 DEF SiInv, PublishDecision, SiTypeOK, Held

LEMMA NextSi == SiInv /\ [SiNext]_siVars => SiInv'
<1> SUFFICES ASSUME SiInv, [SiNext]_siVars PROVE SiInv'
  OBVIOUS
<1>1. CASE UNCHANGED siVars
  BY <1>1 DEF SiInv, siVars, controller, history, SiTypeOK, Held
<1>2. CASE SiNext
  BY <1>2, CountEdgeSi, SetFaultSi, ClearFaultSi, PressSi, RefuseSi, BeginTickSi,
     ReadLevelSi, PublishSi DEF SiNext
<1> QED BY <1>1, <1>2

\* SiInv holds in every reachable state.
THEOREM EdgesAreAccounted == SiSpec => []SiInv
BY InitSi, NextSi, PTL DEF SiSpec

\* What a tick needs to publish NORMAL.
LEMMA ApprovalConditions ==
  ASSUME SiInv, [SiNext]_siVars, Approves PROVE ~held /\ ~due
<1>1. PublishDecision
  BY DEF Approves, SiNext, siVars, controller, history, CountEdge, SetFault, ClearFault, Press,
     RefuseCandidate, BeginTick, ReadLevel
<1>2. ~latch.latched
  BY <1>1 DEF Approves, PublishDecision
<1> QED BY <1>1, <1>2 DEF SiInv, SiTypeOK, PublishDecision

\* No tick approves a motion over a fault input that is 1 from its first access
\* to its output, nor over a rising edge the latch did not hold yet, wherever in
\* the tick the poll task runs.
THEOREM FaultTicksAlwaysStop == SiSpec => FaultTicksStop
<1>1. SiInv /\ [SiNext]_siVars => HeldThroughTickStops /\ EdgeStopsNextTick
  BY ApprovalConditions DEF HeldThroughTickStops, EdgeStopsNextTick
<1> QED BY <1>1, EdgesAreAccounted, PTL DEF FaultTicksStop, SiSpec

-----------------------------------------------------------------------------
(* The staleness gate, for any number of callback threads, any two         *)
(* thresholds and any delay between a clock reading and its store.         *)

\* What is stored is a reading, and no later than the latest one stored: a
\* late store can make the gate believe less, never more.
GateInv ==
  /\ gateNow \in Nat
  /\ gateRead \in [GateThreads -> Nat \cup {None}]
  /\ gateCycle \in Nat \cup {None}
  /\ gateLast \in Nat \cup {None} /\ gateNewest \in Nat \cup {None}
  /\ gateLast <= gateNewest
  /\ gateLast = None => gateNewest = None
  /\ gateStale \in BOOLEAN

LEMMA InitGate == GateInit => GateInv
<1> SUFFICES ASSUME GateInit PROVE GateInv
  OBVIOUS
<1>1. gateStale \in BOOLEAN
  BY Zenon DEF GateInit
<1> QED BY <1>1 DEF GateInit, GateInv, None

\* A store replaces the last reading and moves the newest one only forwards.
LEMMA NoteGate ==
  ASSUME GateInv, NEW t \in GateThreads, noteInput(t)
  PROVE  GateInv'
<1>1. gateRead[t] \in Nat
  BY DEF GateInv, noteInput, None
<1>2. /\ gateLast' = gateRead[t]
      /\ gateNewest' \in Nat /\ gateRead[t] <= gateNewest'
  BY <1>1 DEF noteInput, GateInv, None
<1>3. gateRead' \in [GateThreads -> Nat \cup {None}]
  BY DEF GateInv, noteInput, None
<1> QED BY <1>1, <1>2, <1>3 DEF GateInv, noteInput, None

LEMMA NextGate == GateInv /\ [GateNext]_gateVars => GateInv'
<1> SUFFICES ASSUME GateInv, [GateNext]_gateVars PROVE GateInv'
  OBVIOUS
<1>1. ASSUME NEW t \in GateThreads, InputArrives(t) PROVE GateInv'
  BY <1>1 DEF InputArrives, GateInv, None
<1>2. ASSUME NEW t \in GateThreads, noteInput(t) PROVE GateInv'
  BY <1>2, NoteGate
<1>3. CASE CycleBegins
  BY <1>3 DEF CycleBegins, GateInv, None
<1>4. CASE update
  <2>1. gateStale' \in BOOLEAN
    BY <1>4, Zenon DEF update, GateInv
  <2> QED BY <1>4, <2>1 DEF update, GateInv, None
<1>5. CASE GateTicks
  BY <1>5 DEF GateTicks, GateInv, None
<1>6. CASE UNCHANGED gateVars
  BY <1>6 DEF gateVars, GateInv, None
<1> QED BY <1>1, <1>2, <1>3, <1>4, <1>5, <1>6 DEF GateNext

\* The flag an update leaves down means a young last reading: the thresholds
\* do not cross, so neither side of the hysteresis lets an old one through.
LEMMA DownMeansYoung ==
  ASSUME GateInv, update, gateLast # None, ~gateStale'
  PROVE  gateCycle - gateLast <= StaleThreshold
<1> DEFINE age  == gateCycle - gateLast
           edge == NextStale(age) # gateStale
<1>1. age \in Int /\ StaleThreshold \in Nat /\ FreshThreshold \in Nat
      /\ FreshThreshold < StaleThreshold
  BY GateAssumption DEF GateAssumption, GateInv, None
<1>2. gateStale' = IF edge THEN ~gateStale ELSE gateStale
  BY DEF update
<1>3. ~NextStale(age)
  BY <1>2, Zenon DEF GateInv, NextStale
<1> HIDE DEF age
<1>4. age <= StaleThreshold
  BY <1>1, <1>3 DEF NextStale
<1> QED BY <1>4 DEF age

\* Only update ends a cycle.
LEMMA OnlyUpdateEnds ==
  ASSUME GateInv, [GateNext]_gateVars, gateCycle # None, gateCycle' = None
  PROVE  update
BY DEF GateNext, gateVars, InputArrives, noteInput, CycleBegins, GateTicks

\* Publication is allowed only when an input was heard within the stale
\* threshold, however the callback threads' stores are delayed or reordered.
THEOREM AllowedAlwaysHeard == GateSpec => [][AllowedMeansHeard]_gateVars
<1>1. GateInv /\ [GateNext]_gateVars => [AllowedMeansHeard]_gateVars
  <2> SUFFICES ASSUME GateInv, [GateNext]_gateVars, gateCycle # None, gateCycle' = None,
                      gateNewest # None, publishAllowed'
               PROVE  gateCycle - gateNewest <= StaleThreshold
    BY DEF AllowedMeansHeard
  <2>1. update /\ gateLast # None /\ ~gateStale'
    BY OnlyUpdateEnds DEF publishAllowed, GateInv
  <2>2. gateCycle - gateLast <= StaleThreshold
    BY <2>1, DownMeansYoung
  <2> QED BY <2>1, <2>2, GateAssumption DEF GateAssumption, GateInv, None
<1> QED BY <1>1, InitGate, NextGate, PTL DEF GateSpec

\* Two edges it reports are at least the interval apart: only update reports,
\* and it compares its own cycle with the last report.
THEOREM ReportsAlwaysApart == GateSpec => [][EdgesRateLimited]_gateVars
<1>1. [GateNext]_gateVars => [EdgesRateLimited]_gateVars
  <2> SUFFICES ASSUME GateNext, gateEdge # None, gateEdge' # gateEdge
               PROVE  gateEdge' - gateEdge >= EdgeInterval
    BY DEF gateVars, EdgesRateLimited
  <2>1. update
    BY DEF GateNext, InputArrives, noteInput, CycleBegins, GateTicks
  <2>2. gateEdge' = gateCycle /\ Reports(gateCycle)
    BY <2>1 DEF update
  <2> QED BY <2>2 DEF Reports
<1> QED BY <1>1, PTL DEF GateSpec

\* The gate lets no unheard input pass and never floods the log, for any
\* number of callback threads, any thresholds and any delay of a store.
THEOREM GateAlwaysSound == GateSpec => GateSound
BY AllowedAlwaysHeard, ReportsAlwaysApart, PTL DEF GateSound

-----------------------------------------------------------------------------
(* Startup, for every environment and every set of failures.               *)

\* The topics a candidate may come on.
CandidateTopics == {"trajectory", "driving_reference", "driving_command"}

\* Past the configuration step the selection stands, the readers are those of
\* the selection, and what a later step relies on was done: the writers before
\* CAN, CAN before the spin, and nothing is heard or driven before the spin.
StartupInv ==
  /\ suEnv \in Environments
  /\ IsFiniteSet(DOMAIN suReaders)
  /\ suPc \notin {"config", "exited"} => suCfg = fromValues(suEnv) /\ suCfg.ok
  /\ suPc \in {"config", "network", "sntp", "dds"} => DOMAIN suReaders = {}
  /\ suPc \notin {"config", "exited"} =>
       CandidateTopics \cap DOMAIN suReaders \subseteq {SourceTopic(suCfg)}
  /\ suPc \in {"can", "spin", "live"} =>
       "approved" \in suOut /\ (output_mode_uses_dds(suEnv.output) => "legacy" \in suOut)
  /\ suPc \in {"spin", "live"} => (suEnv.output = "CAN_ONLY" => "can" \in suOut)
  /\ suPc # "live" => suSeen = {} /\ ~suDrives
  /\ \A t \in suSeen : Delivers(t)
  /\ suDrives => Ready

LEMMA InitStartup == StartupInit => StartupInv
<1> SUFFICES ASSUME StartupInit PROVE StartupInv
  OBVIOUS
<1>1. DOMAIN suReaders = {}
  BY DEF StartupInit, NoReader
<1>2. IsFiniteSet(DOMAIN suReaders)
  BY <1>1, FS_EmptySet
<1> QED BY <1>1, <1>2 DEF StartupInit, StartupInv

\* The constructor creates the reader of the selected source and of no other.
LEMMA NextTopicSelected ==
  ASSUME IsFiniteSet(DOMAIN suReaders), Created < 7, NextTopic \in CandidateTopics
  PROVE  NextTopic = SourceTopic(suCfg)
<1>1. Created \in Nat
  BY FS_CardinalityType DEF Created
<1>2. Created + 1 \in 1 .. 7
  BY <1>1
<1> DEFINE k == Created + 1
<1>3. k \in 1 .. 7 /\ NextTopic = ReaderOrder(suCfg)[k]
  BY <1>2 DEF NextTopic
<1> HIDE DEF k
<1> QED BY <1>3 DEF ReaderOrder, CandidateTopics

LEMMA CreateReaderStartup ==
  ASSUME StartupInv, NEW r, CreateReader(r)
  PROVE  StartupInv'
<1>1. DOMAIN suReaders' = DOMAIN suReaders \cup {NextTopic}
  BY DEF CreateReader
<1>2. IsFiniteSet(DOMAIN suReaders')
  BY <1>1, FS_AddElement DEF StartupInv
<1>3. CandidateTopics \cap DOMAIN suReaders' \subseteq {SourceTopic(suCfg)}
  BY <1>1, NextTopicSelected DEF StartupInv, CreateReader
<1>4. suPc = "readers" /\ suPc' \in {"readers", "thrown"} /\ suCfg' = suCfg /\ suOut' = suOut
      /\ suEnv' = suEnv /\ suSeen' = suSeen /\ suDrives' = suDrives
  BY DEF CreateReader, Goto, Quiet
<1> QED BY <1>2, <1>3, <1>4 DEF StartupInv

\* The steps of main() and of the constructor that create no reader.
LEMMA MainStartup ==
  ASSUME StartupInv,
         \/ ReadConfig
         \/ \E rc \in 0 .. 1 : ConfigureNetwork(rc)
         \/ \E ok \in BOOLEAN :
              InitClock(ok) \/ CreateNode(ok) \/ CreateWriters(ok) \/ InitCan(ok) \/ Spin(ok)
         \/ \E e \in {"exited", "undefined"} : Unwind(e)
  PROVE  StartupInv'
<1>1. suEnv' = suEnv /\ suSeen' = suSeen /\ suDrives' = suDrives /\ suReaders' = suReaders
      /\ suSeen = {} /\ ~suDrives
  BY DEF ReadConfig, ConfigureNetwork, InitClock, CreateNode, CreateWriters, InitCan, Spin, Unwind,
         Quiet, StartupInv
<1> USE <1>1 DEF StartupInv, Goto
<1>2. CASE ReadConfig
  BY <1>2 DEF ReadConfig
<1>3. ASSUME NEW rc \in 0 .. 1, ConfigureNetwork(rc) PROVE StartupInv'
  BY <1>3 DEF ConfigureNetwork
<1>4. ASSUME NEW ok \in BOOLEAN, InitClock(ok) PROVE StartupInv'
  BY <1>4 DEF InitClock
<1>5. ASSUME NEW ok \in BOOLEAN, CreateNode(ok) PROVE StartupInv'
  BY <1>5 DEF CreateNode
<1>6. ASSUME NEW ok \in BOOLEAN, CreateWriters(ok) PROVE StartupInv'
  BY <1>6 DEF CreateWriters
<1>7. ASSUME NEW ok \in BOOLEAN, InitCan(ok) PROVE StartupInv'
  BY <1>7 DEF InitCan, AfterCan, output_mode_uses_can
<1>8. ASSUME NEW ok \in BOOLEAN, Spin(ok) PROVE StartupInv'
  BY <1>8 DEF Spin
<1>9. ASSUME NEW e \in {"exited", "undefined"}, Unwind(e) PROVE StartupInv'
  BY <1>9 DEF Unwind
<1> QED BY <1>2, <1>3, <1>4, <1>5, <1>6, <1>7, <1>8, <1>9

\* The running node: only readers that deliver are heard.
LEMMA LiveStartup ==
  ASSUME StartupInv, (\E s : Samples(s)) \/ Cycle \/ UNCHANGED suVars
  PROVE  StartupInv'
<1>1. ASSUME NEW s, Samples(s) PROVE StartupInv'
  <2>1. \A t : Delivers(t)' <=> Delivers(t)
    BY <1>1 DEF Samples, Delivers, OpModeArrives
  <2>2. \A t \in suSeen' : Delivers(t)'
    BY <1>1, <2>1 DEF Samples, StartupInv
  <2>3. suDrives' => Ready'
    BY <1>1 DEF Samples, StartupInv, Ready
  <2> QED BY <1>1, <2>2, <2>3 DEF Samples, StartupInv
<1>2. CASE Cycle
  BY <1>2 DEF Cycle, StartupInv, Ready, Delivers, OpModeArrives
<1>3. CASE UNCHANGED suVars
  BY <1>3 DEF suVars, StartupInv, Ready, Delivers, OpModeArrives
<1> QED BY <1>1, <1>2, <1>3

LEMMA NextStartup == StartupInv /\ [StartupNext]_suVars => StartupInv'
BY CreateReaderStartup, MainStartup, LiveStartup DEF StartupNext, StartupStep

\* An accepted environment is one of the table, and selects what it says.
LEMMA FromValuesSelects ==
  ASSUME NEW e \in Environments, fromValues(e).ok
  PROVE  /\ <<e.mode, e.source, fromValues(e).mode, fromValues(e).source>> \in Selections
         /\ e.legacy \in {"unset", fromValues(e).legacy}
         /\ e.durability \in {"unset", fromValues(e).durability}
<1> DEFINE default == e.mode = "unset" /\ e.source = "unset"
           mode == IF default THEN "si" ELSE e.mode
           source == IF default THEN "autoware" ELSE e.source
<1>1. /\ parseLegacyControlCmd(e.legacy) # "invalid"
      /\ parseOperationModeDurability(e.durability) # "invalid"
      /\ parse(mode, source)
      /\ fromValues(e).mode = mode /\ fromValues(e).source = source
      /\ fromValues(e).legacy = parseLegacyControlCmd(e.legacy)
      /\ fromValues(e).durability = parseOperationModeDurability(e.durability)
  BY DEF fromValues, Rejected
<1>2. <<e.mode, e.source, mode, source>> \in Selections
  BY <1>1 DEF parse, Selections, Environments
<1>3. e.legacy \in {"unset", parseLegacyControlCmd(e.legacy)}
  BY <1>1 DEF parseLegacyControlCmd
<1>4. e.durability \in {"unset", parseOperationModeDurability(e.durability)}
  BY <1>1 DEF parseOperationModeDurability
<1> QED BY <1>1, <1>2, <1>3, <1>4

\* What starts is what was asked for, can act, and drives only what it hears.
THEOREM StartupAlwaysAsAsked == StartupSpec => []StartsAsAsked
<1>1. StartupInv => StartsAsAsked
  <2> SUFFICES ASSUME StartupInv PROVE StartsAsAsked
    OBVIOUS
  <2>1. NeverFallsBack
    BY FromValuesSelects DEF StartupInv, NeverFallsBack, CandidateTopics
  <2>2. LiveCanAct
    BY DEF StartupInv, LiveCanAct
  <2>3. NeverDrivesDeaf
    BY DEF StartupInv, NeverDrivesDeaf, Ready
  <2> QED BY <2>1, <2>2, <2>3 DEF StartsAsAsked
<1> QED BY <1>1, InitStartup, NextStartup, PTL DEF StartupSpec

-----------------------------------------------------------------------------
(* Division with a remainder.                                              *)

LEMMA DivideNat ==
  ASSUME NEW x \in Nat, NEW b \in Nat, b > 0
  PROVE  (x % b) + b * (x \div b) = x /\ x % b \in 0 .. b - 1 /\ x \div b \in Nat
OBVIOUS

LEMMA Quotient ==
  ASSUME NEW v \in Int, NEW w \in Nat, w > 0
  PROVE  \E q \in Int, r \in 0 .. w - 1 : v = q * w + r
<1>1. CASE v >= 0
  <2> DEFINE q == v \div w
             r == v % w
  <2>1. v \in Nat
    BY <1>1
  <2>2. r + w * q = v /\ r \in 0 .. w - 1 /\ q \in Nat
    BY <2>1, DivideNat
  <2> HIDE DEF q, r
  <2>3. v = q * w + r
    BY <2>2
  <2> QED BY <2>2, <2>3
<1>2. CASE v < 0
  <2> DEFINE m == -v
             u == m * w - m
             q == u \div w
             r == u % w
  <2>1. m \in Nat /\ m * w >= m /\ m * w \in Nat
    BY <1>2
  <2>2. u \in Nat
    BY <2>1
  <2>3. r + w * q = u /\ r \in 0 .. w - 1 /\ q \in Nat
    BY <2>2, DivideNat
  <2>4. u = m * w + v
    BY <2>1
  <2> HIDE DEF u, q, r, m
  <2>5. (q - m) * w = q * w - m * w /\ q - m \in Int /\ w * q = q * w
    BY <2>1, <2>3
  <2>6. v = (q - m) * w + r
    BY <2>1, <2>2, <2>3, <2>4, <2>5
  <2> QED BY <2>3, <2>5, <2>6
<1> QED BY <1>1, <1>2

LEMMA Remainder ==
  ASSUME NEW v \in Int, NEW q \in Int, NEW r \in Int, NEW w \in Nat, w > 0,
         v = q * w + r, 0 <= r, r < w
  PROVE  v % w = r
OBVIOUS

\* Adding the modulus changes nothing; a sum may be reduced before it is taken.
LEMMA ModShift ==
  ASSUME NEW w \in Nat, w > 0, NEW v \in Int, NEW q \in Int
  PROVE  (v + q * w) % w = v % w
<1>1. PICK p \in Int, r \in 0 .. w - 1 : v = p * w + r
  BY Quotient
<1> DEFINE x == v + q * w
           s == p + q
<1>2. s \in Int /\ x = s * w + r /\ x \in Int
  BY <1>1
<1>3. v % w = r
  BY <1>1, Remainder
<1> HIDE DEF x, s
<1>4. x % w = r
  BY <1>2, Remainder
<1> QED BY <1>3, <1>4 DEF x

LEMMA ModAdd ==
  ASSUME NEW w \in Nat, w > 0, NEW v \in Int, NEW k \in Int
  PROVE  (v + k) % w = ((v % w) + k) % w
<1>1. PICK p \in Int, r \in 0 .. w - 1 : v = p * w + r
  BY Quotient
<1>2. v % w = r
  BY <1>1, Remainder
<1> DEFINE x == r + k
<1>3. v + k = x + p * w /\ x \in Int
  BY <1>1
<1> HIDE DEF x
<1>4. (x + p * w) % w = x % w
  BY <1>3, ModShift
<1> QED BY <1>2, <1>3, <1>4 DEF x

-----------------------------------------------------------------------------
(* The CAN encoding, for every size of a byte.                             *)

LEMMA CanNumbers ==
  /\ ByteBase \in Nat /\ ByteBase > 1 /\ WordMod \in Nat /\ WordMod > 1
  /\ SeqMod \in Nat /\ SeqMod > 1 /\ SeqMod = 2 * (SeqMod \div 2) /\ SeqMod \div 2 \in Nat
  /\ MaxDelay \in Nat /\ MaxDelay < SeqMod \div 2 /\ CanTimeout \in Nat /\ MaxSends \in Nat
<1>1. ByteBase * ByteBase \in Nat /\ ByteBase * ByteBase > 1
  BY CanAssumption DEF CanAssumption
<1>2. SeqMod \in Nat /\ SeqMod % 2 = 0 /\ MaxDelay \in Nat /\ MaxDelay < SeqMod \div 2
  BY CanAssumption DEF CanAssumption
<1>3. SeqMod = 2 * (SeqMod \div 2) /\ SeqMod > 1 /\ SeqMod \div 2 \in Nat
  BY <1>2
<1> QED BY <1>1, <1>2, <1>3, CanAssumption DEF CanAssumption, WordMod

\* A word is two digits.
LEMMA WordType ==
  ASSUME NEW v \in Int
  PROVE  write_i32_le(v) \in Int \X Int
<1>1. v % WordMod \in Nat
  BY CanNumbers
<1> DEFINE x == v % WordMod
<1> HIDE DEF x
<1>2. x \in Nat => x % ByteBase \in Int /\ x \div ByteBase \in Int
  BY CanNumbers, DivideNat
<1>3. write_i32_le(v) = <<x % ByteBase, x \div ByteBase>>
  BY DEF write_i32_le, x
<1> QED BY <1>1, <1>2, <1>3 DEF x

\* Reading a word gives back every value that fits, of either sign.
LEMMA WordRoundTrip ==
  ASSUME NEW v \in -(WordMod \div 2) .. WordMod \div 2 - 1
  PROVE  i32_le(write_i32_le(v)) = v
<1> DEFINE x == v % WordMod
<1>1. WordMod \in Nat /\ WordMod > 1 /\ WordMod \div 2 \in Nat
      /\ 2 * (WordMod \div 2) <= WordMod /\ v \in Int
  BY CanNumbers
<1>2. v >= 0 => x = v
  <2> SUFFICES ASSUME v >= 0 PROVE x = v
    OBVIOUS
  <2>1. v = 0 * WordMod + v
    BY <1>1
  <2> QED BY <1>1, <2>1, Remainder
<1>3. v < 0 => x = v + WordMod
  <2> SUFFICES ASSUME v < 0 PROVE x = v + WordMod
    OBVIOUS
  <2> DEFINE r == v + WordMod
  <2>1. v = (-1) * WordMod + r /\ r \in Int /\ 0 <= r /\ r < WordMod
    BY <1>1
  <2> HIDE DEF r
  <2>2. v % WordMod = r
    BY <1>1, <2>1, Remainder
  <2> QED BY <2>2 DEF r
<1>4. x \in Nat
  BY <1>1, <1>2, <1>3
<1>5. write_i32_le(v) = <<x % ByteBase, x \div ByteBase>>
  BY DEF write_i32_le
<1> HIDE DEF x
<1>6. (x % ByteBase) + ByteBase * (x \div ByteBase) = x
  BY <1>4, CanNumbers, DivideNat
<1>7. i32_le(write_i32_le(v)) = IF x >= WordMod \div 2 THEN x - WordMod ELSE x
  BY <1>5, <1>6 DEF i32_le
<1> QED BY <1>1, <1>2, <1>3, <1>7

\* Rounding moves a value by at most half a wire unit.
LEMMA RoundedClose ==
  ASSUME NEW v \in Int
  PROVE  Rounded(v) \in Int /\ 10 * Rounded(v) - v \in -5 .. 5
<1>1. CASE v >= 0
  BY <1>1 DEF Rounded
<1>2. CASE v < 0
  BY <1>2 DEF Rounded
<1> QED BY <1>1, <1>2

\* What the bridge decodes from a message that was sent is the message, within
\* half a wire unit.
LEMMA DecodedClose ==
  ASSUME NEW m \in CanMessages, Encodable(m)
  PROVE  /\ i32_le(write_i32_le(Rounded(m.steer))) = Rounded(m.steer)
         /\ i32_le(write_i32_le(Rounded(m.vel))) = Rounded(m.vel)
         /\ Rounded(m.steer) \in Int /\ 10 * Rounded(m.steer) - m.steer \in -5 .. 5
         /\ Rounded(m.vel) \in Int /\ 10 * Rounded(m.vel) - m.vel \in -5 .. 5
<1>1. m.steer \in Int /\ m.vel \in Int
  BY CanAssumption DEF CanAssumption
<1>2. Rounded(m.steer) \in -(WordMod \div 2) .. WordMod \div 2 - 1
      /\ Rounded(m.vel) \in -(WordMod \div 2) .. WordMod \div 2 - 1
  BY DEF Encodable, scale_to_i32
<1> QED BY <1>1, <1>2, WordRoundTrip, RoundedClose

-----------------------------------------------------------------------------
(* The shapes of what is on the CAN path.                                  *)

CanFrames ==
  [id : {"none", "lat", "lon", "st"}, data : Int \X Int, seq : Int, n : Int,
   msg : CanMessages \cup {NoFrame.msg}]

WireFrames == CanFrames \cup [id : {"fd"}, parts : Seq(CanFrames)]

Datagrams == [magic : {"CT"}, version : {1}, seq : Int, frames : Seq(CanFrames)]

CanCommands == [steer : Int, vel : Int, lat : CanFrames, lon : CanFrames, st : CanFrames]

Decoders ==
  [lat : CanFrames, lon : CanFrames, command : CanCommands, safe : BOOLEAN,
   hasExpected : BOOLEAN, expected : 0 .. SeqMod - 1, anchored : BOOLEAN, age : Nat,
   event : {"IGNORED", "STORED", "REJECTED", "ACCEPTED"}]

CanControls ==
  [kind : {"none", "drive", "stop"}, steer : Int, speed : Int, n : Int, age : Nat]

CanTypes ==
  /\ canVia \in {"socketcan", "fd", "udp", "zephyr"}
  /\ canSeq \in 0 .. SeqMod - 1 /\ canNum \in 0 .. MaxSends
  /\ canTodo \in Seq(CanFrames) /\ Len(canTodo) <= 3
  /\ canCtx \in [state : {"Idle", "Waiting", "TimedOut"}, sem : 0 .. 1, err : 0 .. 1]
  /\ canMail \subseteq CanFrames /\ canNet \subseteq Datagrams
  /\ canBus \in Seq(WireFrames)
  /\ canDec \in Decoders /\ canCtl \in CanControls /\ canTick \in BOOLEAN
  /\ canLate \in Nat /\ canMissed \in Nat

\* A frame that one of the first num sends made of a message.
Sent(f, num) ==
  /\ f.id \in {"lat", "lon", "st"} /\ f.n \in 1 .. num
  /\ f.msg \in CanMessages /\ Encodable(f.msg)
  /\ f.id = "lat" => f.data = write_i32_le(Rounded(f.msg.steer))
  /\ f.id = "lon" => f.data = write_i32_le(Rounded(f.msg.vel))

OneSend(f, g) == f.n = g.n /\ f.msg = g.msg

\* A frame that may come right after f, and one that may be the next to reach
\* a decoder: what is paired with a status frame is of the same send.
Follows(f, g) ==
  \/ g.id \in {"lat", "fd"}
  \/ g.id = "lon" /\ f.id = "lat" /\ OneSend(f, g)
  \/ g.id = "st" /\ f.id = "lon" /\ OneSend(f, g)

Starts(dec, g) ==
  \/ g.id \in {"lat", "fd"}
  \/ g.id = "lon" /\ (dec.lat = NoFrame \/ OneSend(dec.lat, g))
  \/ g.id = "st" /\ (Paired(dec) => OneSend(dec.lat, g) /\ OneSend(dec.lon, g))

\* The three frames of a send in their order.
Batch(b, num) ==
  /\ b \in Seq(CanFrames) /\ Len(b) = 3
  /\ b[1].id = "lat" /\ b[2].id = "lon" /\ b[3].id = "st"
  /\ \A i \in 1 .. 3 : Sent(b[i], num)
  /\ OneSend(b[1], b[2]) /\ OneSend(b[2], b[3])

OnWire(f, num) == IF f.id = "fd" THEN Batch(f.parts, num) ELSE Sent(f, num)

LEMMA BatchFrames ==
  ASSUME NEW b, NEW num, Batch(b, num)
  PROVE  b[1] \in CanFrames /\ b[2] \in CanFrames /\ b[3] \in CanFrames
<1>1. b \in Seq(CanFrames) /\ Len(b) = 3
  BY DEF Batch
<1>2. 1 \in 1 .. Len(b) /\ 2 \in 1 .. Len(b) /\ 3 \in 1 .. Len(b)
  BY <1>1
<1> QED BY <1>1, <1>2, ElementOfSeq

\* A batch cut short.
LEMMA BatchPrefix ==
  ASSUME NEW b, NEW num, Batch(b, num), NEW k \in 0 .. 3
  PROVE  /\ SubSeq(b, 1, k) \in Seq(CanFrames) /\ Len(SubSeq(b, 1, k)) = k
         /\ \A i \in 1 .. k : SubSeq(b, 1, k)[i] = b[i]
<1> DEFINE s == SubSeq(b, 1, k)
<1>1. \A i \in 1 .. k : b[i] \in CanFrames
  <2>1. \A i \in 1 .. k : i \in {1, 2, 3}
    OBVIOUS
  <2> QED BY <2>1, BatchFrames
<1>2. /\ s \in Seq(CanFrames) /\ Len(s) = IF 1 <= k THEN k - 1 + 1 ELSE 0
      /\ \A i \in 1 .. k - 1 + 1 : s[i] = b[1 + i - 1]
  BY <1>1, SubSeqProperties
<1>3. \A i \in 1 .. k : s[i] = b[1 + i - 1] /\ 1 + i - 1 = i
  BY <1>2
<1> HIDE DEF s
<1>4. s \in Seq(CanFrames) /\ Len(s) = k /\ \A i \in 1 .. k : s[i] = b[i]
  BY <1>2, <1>3
<1> QED BY <1>4 DEF s

LEMMA NoFrameShape == NoFrame \in CanFrames /\ NoFrame.id = "none" /\ NoFrame.n = 0
BY DEF NoFrame, CanFrames

\* The encoder makes a batch.
LEMMA EncodedBatch ==
  ASSUME NEW m \in CanMessages, Encodable(m), NEW n \in Nat, n > 0, NEW seq \in Int
  PROVE  /\ Batch(encode_control_command(m, n, seq), n)
         /\ \A i \in 1 .. 3 : encode_control_command(m, n, seq)[i].n = n
         /\ encode_control_command(m, n, seq)[3].seq = seq
<1> DEFINE lat == [id |-> "lat", data |-> write_i32_le(scale_to_i32(m.steer).out),
                   seq |-> 0, n |-> n, msg |-> m]
           lon == [id |-> "lon", data |-> write_i32_le(scale_to_i32(m.vel).out),
                   seq |-> 0, n |-> n, msg |-> m]
           st  == [id |-> "st", data |-> <<0, 0>>, seq |-> seq, n |-> n, msg |-> m]
           b   == <<lat, lon, st>>
<1>1. m.steer \in Int /\ m.vel \in Int
  BY CanAssumption DEF CanAssumption
<1>2. scale_to_i32(m.steer).out = Rounded(m.steer) /\ scale_to_i32(m.vel).out = Rounded(m.vel)
  BY DEF scale_to_i32
<1>3. write_i32_le(Rounded(m.steer)) \in Int \X Int /\ write_i32_le(Rounded(m.vel)) \in Int \X Int
  BY <1>1, RoundedClose, WordType
<1>4. lat \in CanFrames /\ lon \in CanFrames /\ st \in CanFrames
  BY <1>2, <1>3 DEF CanFrames
<1>5. encode_control_command(m, n, seq) = b
  BY DEF encode_control_command
<1>6. Sent(lat, n) /\ Sent(lon, n) /\ Sent(st, n)
  BY <1>2 DEF Sent
<1>7. OneSend(lat, lon) /\ OneSend(lon, st)
  BY DEF OneSend
<1>8. lat.id = "lat" /\ lon.id = "lon" /\ st.id = "st" /\ st.seq = seq
      /\ lat.n = n /\ lon.n = n /\ st.n = n
  OBVIOUS
<1> HIDE DEF lat, lon, st
<1>9. b \in Seq(CanFrames) /\ Len(b) = 3 /\ b[1] = lat /\ b[2] = lon /\ b[3] = st
  BY <1>4
<1> HIDE DEF b
<1>10. Batch(b, n)
  BY <1>6, <1>7, <1>8, <1>9 DEF Batch
<1> QED BY <1>5, <1>8, <1>9, <1>10

\* A send made is made for ever.
LEMMA SentStays ==
  ASSUME NEW f, NEW m \in Nat, NEW n \in Nat, m <= n, Sent(f, m)
  PROVE  Sent(f, n)
BY DEF Sent

LEMMA BatchStays ==
  ASSUME NEW b, NEW m \in Nat, NEW n \in Nat, m <= n, Batch(b, m)
  PROVE  Batch(b, n)
BY SentStays DEF Batch

LEMMA OnWireStays ==
  ASSUME NEW f, NEW m \in Nat, NEW n \in Nat, m <= n, OnWire(f, m)
  PROVE  OnWire(f, n)
BY SentStays, BatchStays DEF OnWire

-----------------------------------------------------------------------------
(* The decoder of the bridge.                                              *)

\* What a decoder keeps: halves that were sent, and a command that is one send.
WholeCommand(c) ==
  c # NoCommand =>
    /\ c.lat.n = c.st.n /\ c.lon.n = c.st.n
    /\ 10 * c.steer - c.st.msg.steer \in -5 .. 5
    /\ 10 * c.vel - c.st.msg.vel \in -5 .. 5

Keeps(dec, num) ==
  /\ dec.lat = NoFrame \/ (Sent(dec.lat, num) /\ dec.lat.id = "lat")
  /\ dec.lon = NoFrame \/ (Sent(dec.lon, num) /\ dec.lon.id = "lon")
  /\ WholeCommand(dec.command)

LEMMA PollKeeps ==
  ASSUME NEW dec \in Decoders, NEW num \in Nat, Keeps(dec, num)
  PROVE  /\ poll_watchdog(dec) \in Decoders /\ Keeps(poll_watchdog(dec), num)
         /\ \A g : Starts(dec, g) => Starts(poll_watchdog(dec), g)
<1>1. NoFrame \in CanFrames
  BY NoFrameShape
<1>2. /\ poll_watchdog(dec) \in Decoders
      /\ poll_watchdog(dec).command = dec.command
      /\ \/ poll_watchdog(dec).lat = dec.lat /\ poll_watchdog(dec).lon = dec.lon
         \/ poll_watchdog(dec).lat = NoFrame /\ poll_watchdog(dec).lon = NoFrame
  BY <1>1 DEF poll_watchdog, NoteTime, Cleared, Decoders
<1> QED BY <1>2 DEF Keeps, Starts, Paired

\* Feeding one frame of the right order keeps the decoder whole, and what may
\* follow that frame may be fed next.
LEMMA FeedKeeps ==
  ASSUME NEW dec \in Decoders, NEW num \in Nat, Keeps(dec, num),
         NEW f \in CanFrames, Sent(f, num), Starts(dec, f)
  PROVE  /\ feed(dec, f) \in Decoders /\ Keeps(feed(dec, f), num)
         /\ \A g : Follows(f, g) => Starts(feed(dec, f), g)
<1> DEFINE d == NoteTime(dec)
<1>1. d \in Decoders /\ d.lat = dec.lat /\ d.lon = dec.lon /\ d.command = dec.command
  BY DEF NoteTime, Decoders
<1>2. f.id \in {"lat", "lon", "st"} /\ f # NoFrame
  BY NoFrameShape DEF Sent
<1> HIDE DEF d
<1>3. CASE f.id = "lat"
  <2>1. feed(dec, f) = [d EXCEPT !.lat = f, !.event = "STORED"]
    BY <1>3 DEF feed, d
  <2>2. feed(dec, f) \in Decoders /\ feed(dec, f).lat = f /\ feed(dec, f).lon = dec.lon
        /\ feed(dec, f).command = dec.command
    BY <1>1, <2>1 DEF Decoders
  <2> QED BY <1>3, <2>2 DEF Keeps, Follows, Starts
<1>4. CASE f.id = "lon"
  <2>1. feed(dec, f) = [d EXCEPT !.lon = f, !.event = "STORED"]
    BY <1>4 DEF feed, d
  <2>2. feed(dec, f) \in Decoders /\ feed(dec, f).lon = f /\ feed(dec, f).lat = dec.lat
        /\ feed(dec, f).command = dec.command
    BY <1>1, <2>1 DEF Decoders
  <2>3. Keeps(feed(dec, f), num)
    BY <1>4, <2>2 DEF Keeps
  <2>4. dec.lat = NoFrame \/ OneSend(dec.lat, f)
    BY <1>4 DEF Starts
  <2> QED BY <1>4, <2>2, <2>3, <2>4 DEF Follows, Starts, Paired, OneSend
<1>5. CASE f.id = "st" /\ (~Paired(d) \/ Replayed(d, f))
  <2>1. feed(dec, f) = [Cleared(d) EXCEPT !.event = "REJECTED"]
    BY <1>5 DEF feed, d
  <2>2. feed(dec, f) \in Decoders /\ feed(dec, f).lon = NoFrame /\ feed(dec, f).lat = NoFrame
        /\ feed(dec, f).command = dec.command
    BY <1>1, <2>1, NoFrameShape DEF Decoders, Cleared
  <2> QED BY <1>5, <2>2 DEF Keeps, Follows, Starts, Paired
<1>6. CASE f.id = "st" /\ ~(~Paired(d) \/ Replayed(d, f))
  <2>1. feed(dec, f) = Accepted(d, f)
    BY <1>6 DEF feed, d
  <2>2. Paired(dec) /\ OneSend(dec.lat, f) /\ OneSend(dec.lon, f)
    BY <1>1, <1>6 DEF Paired, Starts
  <2>3. /\ Sent(dec.lat, num) /\ dec.lat.id = "lat" /\ Sent(dec.lon, num) /\ dec.lon.id = "lon"
        /\ dec.lat \in CanFrames /\ dec.lon \in CanFrames
    BY <2>2 DEF Keeps, Paired, Decoders
  <2>4. dec.lat.data = write_i32_le(Rounded(f.msg.steer))
        /\ dec.lon.data = write_i32_le(Rounded(f.msg.vel))
        /\ f.msg \in CanMessages /\ Encodable(f.msg)
    BY <2>2, <2>3 DEF Sent, OneSend
  <2>5. /\ i32_le(dec.lat.data) = Rounded(f.msg.steer) /\ i32_le(dec.lon.data) = Rounded(f.msg.vel)
        /\ Rounded(f.msg.steer) \in Int /\ 10 * Rounded(f.msg.steer) - f.msg.steer \in -5 .. 5
        /\ Rounded(f.msg.vel) \in Int /\ 10 * Rounded(f.msg.vel) - f.msg.vel \in -5 .. 5
    BY <2>4, DecodedClose
  <2> DEFINE c == [steer |-> i32_le(d.lat.data), vel |-> i32_le(d.lon.data),
                   lat |-> d.lat, lon |-> d.lon, st |-> f]
  <2>6. c \in CanCommands
    BY <1>1, <2>3, <2>5 DEF CanCommands
  <2>7. WholeCommand(c)
    BY <1>1, <2>2, <2>5 DEF WholeCommand, OneSend
  <2>8. feed(dec, f).command = c /\ feed(dec, f).lat = NoFrame /\ feed(dec, f).lon = NoFrame
    BY <2>1 DEF Accepted
  <2>9. (f.seq + 1) % SeqMod \in 0 .. SeqMod - 1
    BY CanNumbers DEF CanFrames
  <2>10. feed(dec, f) \in Decoders
    BY <2>1, <2>6, <2>9, NoFrameShape DEF Accepted, Decoders
  <2> HIDE DEF c
  <2> QED BY <1>6, <2>7, <2>8, <2>10 DEF Keeps, Follows, Starts, Paired
<1> QED BY <1>2, <1>3, <1>4, <1>5, <1>6

LEMMA FeedFdKeeps ==
  ASSUME NEW dec \in Decoders, NEW num \in Nat, Keeps(dec, num), NEW f, Batch(f.parts, num)
  PROVE  feed_fd(dec, f) \in Decoders /\ Keeps(feed_fd(dec, f), num)
<1> DEFINE p == f.parts
           d1 == feed(dec, p[1])
           d2 == feed(d1, p[2])
<1>1. /\ p[1] \in CanFrames /\ p[2] \in CanFrames /\ p[3] \in CanFrames
      /\ Sent(p[1], num) /\ Sent(p[2], num) /\ Sent(p[3], num)
      /\ p[1].id = "lat" /\ Follows(p[1], p[2]) /\ Follows(p[2], p[3])
  BY DEF Batch, Follows
<1>2. feed_fd(dec, f) = feed(d2, p[3])
  BY DEF feed_fd
<1> HIDE DEF p
<1>3. Starts(dec, p[1])
  BY <1>1 DEF Starts
<1>4. d1 \in Decoders /\ Keeps(d1, num) /\ Starts(d1, p[2])
  BY <1>1, <1>3, FeedKeeps
<1> HIDE DEF d1
<1>5. d2 \in Decoders /\ Keeps(d2, num) /\ Starts(d2, p[3])
  BY <1>1, <1>4, FeedKeeps
<1> HIDE DEF d2
<1> QED BY <1>1, <1>2, <1>5, FeedKeeps

-----------------------------------------------------------------------------
(* Every bus is in order: frames of one send come one after the other, and *)
(* the next frame fits what the decoder holds.                             *)

Ordered(bus, dec, num) ==
  /\ \A i \in 1 .. Len(bus) : OnWire(bus[i], num)
  /\ \A i \in 1 .. Len(bus) - 1 : Follows(bus[i], bus[i + 1])
  /\ bus # << >> => Starts(dec, bus[1])

\* g may come behind what is on the bus.
Comes(bus, dec, g) ==
  IF bus = << >> THEN Starts(dec, g) ELSE Follows(bus[Len(bus)], g)

LEMMA OrderedStays ==
  ASSUME NEW bus, NEW dec, NEW m \in Nat, NEW n \in Nat, m <= n, Ordered(bus, dec, m)
  PROVE  Ordered(bus, dec, n)
BY OnWireStays DEF Ordered

LEMMA AppendOrdered ==
  ASSUME NEW bus \in Seq(WireFrames), NEW dec, NEW num, Ordered(bus, dec, num),
         NEW f \in WireFrames, OnWire(f, num), Comes(bus, dec, f)
  PROVE  /\ Append(bus, f) \in Seq(WireFrames) /\ Ordered(Append(bus, f), dec, num)
         /\ \A g : Follows(f, g) => Comes(Append(bus, f), dec, g)
<1> DEFINE grown == Append(bus, f)
<1>1. /\ grown \in Seq(WireFrames) /\ Len(bus) \in Nat /\ Len(grown) = Len(bus) + 1
      /\ \A i \in 1 .. Len(bus) : grown[i] = bus[i]
      /\ grown[Len(bus) + 1] = f /\ grown # << >>
  OBVIOUS
<1>2. bus # << >> => Len(bus) > 0
  OBVIOUS
<1>3. bus = << >> => Len(bus) = 0
  OBVIOUS
<1> HIDE DEF grown
<1>4. \A i \in 1 .. Len(grown) : OnWire(grown[i], num)
  BY <1>1 DEF Ordered
<1>5. \A i \in 1 .. Len(grown) - 1 : Follows(grown[i], grown[i + 1])
  <2> SUFFICES ASSUME NEW i \in 1 .. Len(grown) - 1 PROVE Follows(grown[i], grown[i + 1])
    OBVIOUS
  <2>1. CASE i < Len(bus)
    BY <1>1, <2>1 DEF Ordered
  <2>2. CASE i = Len(bus)
    BY <1>1, <1>2, <1>3, <2>2 DEF Comes
  <2> QED BY <1>1, <2>1, <2>2
<1>6. Starts(dec, grown[1])
  <2>1. CASE bus = << >>
    BY <1>1, <1>3, <2>1 DEF Comes
  <2>2. CASE bus # << >>
    BY <1>1, <1>2, <2>2 DEF Ordered
  <2> QED BY <2>1, <2>2
<1>7. Ordered(grown, dec, num)
  BY <1>4, <1>5, <1>6 DEF Ordered
<1>8. \A g : Follows(f, g) => Comes(grown, dec, g)
  BY <1>1 DEF Comes
<1> QED BY <1>1, <1>7, <1>8 DEF grown

\* A batch may be cut short, and always comes: it begins with its first half.
LEMMA BatchOrdered ==
  ASSUME NEW bus \in Seq(WireFrames), NEW dec, NEW num, Ordered(bus, dec, num),
         NEW b, Batch(b, num), NEW k \in 0 .. 3
  PROVE  bus \o SubSeq(b, 1, k) \in Seq(WireFrames) /\ Ordered(bus \o SubSeq(b, 1, k), dec, num)
<1> DEFINE s == SubSeq(b, 1, k)
           grown == bus \o s
<1>2. s \in Seq(CanFrames) /\ Len(s) = k /\ \A i \in 1 .. k : s[i] = b[i]
  BY BatchPrefix
<1>3. s \in Seq(WireFrames)
  BY <1>2 DEF WireFrames
<1> HIDE DEF s
<1>4. /\ grown \in Seq(WireFrames) /\ Len(bus) \in Nat /\ Len(grown) = Len(bus) + k
      /\ \A i \in 1 .. Len(bus) : grown[i] = bus[i]
      /\ \A i \in Len(bus) + 1 .. Len(bus) + k : grown[i] = s[i - Len(bus)]
  BY <1>2, <1>3
<1>5. \A i \in Len(bus) + 1 .. Len(bus) + k : grown[i] = b[i - Len(bus)] /\ i - Len(bus) \in 1 .. 3
  BY <1>2, <1>4
<1> HIDE DEF grown
<1>6. \A i \in 1 .. 3 : OnWire(b[i], num)
  BY DEF Batch, OnWire
<1>7. Follows(b[1], b[2]) /\ Follows(b[2], b[3]) /\ b[1].id = "lat"
  BY DEF Batch, Follows
<1>8. \A i \in 1 .. Len(grown) : OnWire(grown[i], num)
  <2> SUFFICES ASSUME NEW i \in 1 .. Len(grown)
               PROVE  OnWire(grown[i], num)
    OBVIOUS
  <2>1. CASE i <= Len(bus)
    BY <1>4, <2>1 DEF Ordered
  <2>2. CASE i > Len(bus)
    BY <1>4, <1>5, <1>6, <2>2
  <2> QED BY <1>4, <2>1, <2>2
<1>9. \A i \in 1 .. Len(grown) - 1 : Follows(grown[i], grown[i + 1])
  <2> SUFFICES ASSUME NEW i \in 1 .. Len(grown) - 1 PROVE Follows(grown[i], grown[i + 1])
    OBVIOUS
  <2>1. CASE i < Len(bus)
    BY <1>4, <2>1 DEF Ordered
  <2>2. CASE i = Len(bus)
    <3>1. grown[i + 1] = b[1]
      BY <1>4, <1>5, <2>2
    <3> QED BY <1>7, <3>1 DEF Follows
  <2>3. CASE i > Len(bus)
    <3> DEFINE j == i - Len(bus)
    <3>1. grown[i] = b[j] /\ grown[i + 1] = b[j + 1] /\ j \in 1 .. 2
      BY <1>4, <1>5, <2>3
    <3> QED BY <1>7, <3>1
  <2> QED BY <1>4, <2>1, <2>2, <2>3
<1>10. grown # << >> => Starts(dec, grown[1])
  <2> SUFFICES ASSUME grown # << >> PROVE Starts(dec, grown[1])
    OBVIOUS
  <2>1. Len(grown) > 0
    BY <1>4
  <2>2. CASE Len(bus) > 0
    BY <1>4, <2>2 DEF Ordered
  <2>3. CASE Len(bus) = 0
    <3>1. grown[1] = b[1]
      BY <1>4, <1>5, <2>1, <2>3
    <3> QED BY <1>7, <3>1 DEF Starts
  <2> QED BY <1>4, <2>2, <2>3
<1> QED BY <1>4, <1>8, <1>9, <1>10 DEF Ordered, grown, s

\* The bridge takes the first frame.
LEMMA TailOrdered ==
  ASSUME NEW bus \in Seq(WireFrames), bus # << >>, NEW dec, NEW num, Ordered(bus, dec, num),
         NEW dec2, \A g : Follows(bus[1], g) => Starts(dec2, g)
  PROVE  /\ Tail(bus) \in Seq(WireFrames) /\ Ordered(Tail(bus), dec2, num)
         /\ \A g : Comes(bus, dec, g) => Comes(Tail(bus), dec2, g)
<1> DEFINE grown == Tail(bus)
<1>1. /\ grown \in Seq(WireFrames) /\ Len(bus) \in Nat /\ Len(bus) > 0 /\ Len(grown) = Len(bus) - 1
      /\ \A i \in 1 .. Len(grown) : grown[i] = bus[i + 1]
  OBVIOUS
<1> HIDE DEF grown
<1>2. grown = << >> <=> Len(bus) = 1
  <2>1. grown = << >> => Len(grown) = 0
    BY EmptySeq
  <2>2. grown # << >> => Len(grown) # 0
    BY <1>1, EmptySeq
  <2> QED BY <1>1, <2>1, <2>2
<1>3. \A i \in 1 .. Len(grown) : OnWire(grown[i], num)
  BY <1>1 DEF Ordered
<1>4. \A i \in 1 .. Len(grown) - 1 : Follows(grown[i], grown[i + 1])
  BY <1>1 DEF Ordered
<1>5. grown # << >> => Starts(dec2, grown[1])
  BY <1>1, <1>2 DEF Ordered
<1>6. ASSUME NEW g, Comes(bus, dec, g) PROVE Comes(grown, dec2, g)
  <2>1. Follows(bus[Len(bus)], g)
    BY <1>6 DEF Comes
  <2>2. CASE Len(bus) = 1
    BY <1>2, <2>1, <2>2 DEF Comes
  <2>3. CASE Len(bus) > 1
    BY <1>1, <1>2, <2>1, <2>3 DEF Comes
  <2> QED BY <1>1, <2>2, <2>3
<1> QED BY <1>1, <1>3, <1>4, <1>5, <1>6 DEF Ordered, grown

\* A decoder that accepts no less keeps the order.
LEMMA DecoderOrdered ==
  ASSUME NEW bus, NEW dec, NEW num, Ordered(bus, dec, num),
         NEW dec2, \A g : Starts(dec, g) => Starts(dec2, g)
  PROVE  /\ Ordered(bus, dec2, num)
         /\ \A g : Comes(bus, dec, g) => Comes(bus, dec2, g)
BY DEF Ordered, Comes

-----------------------------------------------------------------------------
(* The watchdog of the bridge.                                             *)

\* What the control in force knows of its age.
DriveAges ==
  canCtl.kind = "drive" =>
    /\ canDec.anchored /\ ~canDec.safe /\ canCtl.age = canDec.age
    /\ canDec.age <= CanTimeout + 1 /\ (canTick => canDec.age <= CanTimeout)

\* Only an accepted command feeds the watchdog or ends a safe stop.
Aged(dec, old) ==
  /\ dec.anchored
  /\ dec.event = "ACCEPTED" => ~dec.safe /\ dec.age = 0
  /\ dec.event # "ACCEPTED" => /\ dec.safe \/ (~old.safe /\ dec.age <= CanTimeout)
                               /\ old.anchored => dec.age = old.age

LEMMA PollAged ==
  ASSUME NEW dec \in Decoders
  PROVE  Aged(poll_watchdog(dec), dec) /\ poll_watchdog(dec).event = "IGNORED"
BY CanNumbers DEF poll_watchdog, NoteTime, Cleared, Decoders, Aged

LEMMA FeedAged ==
  ASSUME NEW old, NEW dec \in Decoders, Aged(dec, old), dec.event # "ACCEPTED", NEW f
  PROVE  /\ Aged(feed(dec, f), old)
         /\ f.id # "st" /\ f.id \in {"lat", "lon"} => feed(dec, f).event # "ACCEPTED"
<1>1. NoteTime(dec) = dec
  BY DEF NoteTime, Aged
<1>2. CASE f.id \in {"lat", "lon"}
  BY <1>1, <1>2 DEF feed, Decoders, Aged
<1>3. CASE f.id \notin {"lat", "lon"}
  BY <1>1, <1>3 DEF feed, Accepted, Cleared, Decoders, Aged
<1> QED BY <1>2, <1>3

LEMMA FeedFdAged ==
  ASSUME NEW old, NEW dec \in Decoders, Aged(dec, old), dec.event # "ACCEPTED",
         NEW num \in Nat, Keeps(dec, num), NEW f, Batch(f.parts, num)
  PROVE  Aged(feed_fd(dec, f), old)
<1> DEFINE p == f.parts
           d1 == feed(dec, p[1])
           d2 == feed(d1, p[2])
<1>1. /\ p[1] \in CanFrames /\ p[2] \in CanFrames
      /\ Sent(p[1], num) /\ Sent(p[2], num)
      /\ p[1].id = "lat" /\ p[2].id = "lon" /\ Follows(p[1], p[2])
  BY DEF Batch, Follows
<1>2. feed_fd(dec, f) = feed(d2, p[3])
  BY DEF feed_fd
<1> HIDE DEF p
<1>3. Starts(dec, p[1])
  BY <1>1 DEF Starts
<1>4. /\ d1 \in Decoders /\ Keeps(d1, num) /\ Starts(d1, p[2])
      /\ Aged(d1, old) /\ d1.event # "ACCEPTED"
  BY <1>1, <1>3, FeedKeeps, FeedAged
<1> HIDE DEF d1
<1>5. d2 \in Decoders /\ Aged(d2, old) /\ d2.event # "ACCEPTED"
  BY <1>1, <1>4, FeedKeeps, FeedAged
<1> HIDE DEF d2
<1> QED BY <1>2, <1>5, FeedAged

LEMMA AppliesAges ==
  ASSUME CanTypes, DriveAges, NEW dec \in Decoders, Aged(dec, canDec), BridgeApplies(dec)
  PROVE  canCtl' \in CanControls /\ canDec' = dec /\ canTick' = TRUE /\ DriveAges'
<1>1. canDec' = dec /\ canTick' = TRUE
  BY DEF BridgeApplies
<1>2. canCtl \in CanControls
  BY DEF CanTypes
<1>3. CASE dec.safe
  <2>1. canCtl' = [canCtl EXCEPT !.kind = "stop", !.speed = 0]
    BY <1>3 DEF BridgeApplies, map_ackermann
  <2>2. canCtl' = [kind |-> "stop", steer |-> canCtl.steer, speed |-> 0,
                   n |-> canCtl.n, age |-> canCtl.age]
    BY <1>2, <2>1 DEF CanControls
  <2>3. canCtl' \in CanControls /\ canCtl'.kind = "stop"
    BY <1>2, <2>2 DEF CanControls
  <2> QED BY <1>1, <2>3 DEF DriveAges
<1>4. CASE ~dec.safe /\ dec.event = "ACCEPTED"
  <2>1. canCtl' = [kind |-> "drive", steer |-> -dec.command.steer, speed |-> dec.command.vel,
                   n |-> dec.command.st.n, age |-> 0]
    BY <1>4 DEF BridgeApplies, map_ackermann
  <2>2. dec.command.steer \in Int /\ dec.command.vel \in Int /\ dec.command.st.n \in Int
    BY DEF Decoders, CanCommands, CanFrames
  <2>3. canCtl' \in CanControls /\ canCtl'.age = 0
    BY <2>1, <2>2 DEF CanControls
  <2> QED BY <1>1, <1>4, <2>3, CanNumbers DEF DriveAges, Aged
<1>5. CASE ~dec.safe /\ dec.event # "ACCEPTED"
  <2>1. canCtl' = canCtl
    BY <1>5 DEF BridgeApplies
  <2> QED BY <1>1, <1>2, <1>5, <2>1, CanNumbers DEF DriveAges, Aged, CanTypes, Decoders
<1> QED BY <1>3, <1>4, <1>5

-----------------------------------------------------------------------------
(* The invariant of the CAN path.                                          *)

\* The Zephyr driver: what is left of the batch, who owns the context, and
\* what the frame in the mailbox will find when it reaches the bus.
Driver(todo, ctx, mail, bus, dec, num) ==
  /\ \A i \in 1 .. Len(todo) : Sent(todo[i], num)
  /\ \A i \in 1 .. Len(todo) - 1 : Follows(todo[i], todo[i + 1])
  /\ \A f \in mail : Sent(f, num) /\ Comes(bus, dec, f)
  /\ \A f, g \in mail : f = g
  /\ ctx.state = "Idle" => mail = {} /\ (todo # << >> => Comes(bus, dec, todo[1]))
  /\ ctx.state = "Waiting" =>
       /\ todo # << >>
       /\ ctx.sem = 0 => mail = {todo[1]}
       /\ ctx.sem = 1 => mail = {}
       /\ ctx.sem = 1 /\ ctx.err = 0 /\ Len(todo) > 1 => Comes(bus, dec, todo[2])
  /\ ctx.state = "TimedOut" =>
       /\ todo # << >> => todo[1].id = "lat"
       /\ ctx.sem = 1 => mail = {}

Traffic ==
  /\ canVia # "zephyr" => canTodo = << >> /\ canMail = {} /\ canCtx = Idle
  /\ canVia # "udp" => canNet = {}
  /\ canVia = "fd" => \A i \in 1 .. Len(canBus) : canBus[i].id = "fd"
  /\ \A d \in canNet : Batch(d.frames, canNum)
  /\ Ordered(canBus, canDec, canNum)
  /\ Driver(canTodo, canCtx, canMail, canBus, canDec, canNum)

CanInv == CanTypes /\ Traffic /\ Keeps(canDec, canNum) /\ DriveAges

LEMMA DriverStays ==
  ASSUME NEW todo, NEW ctx, NEW mail, NEW bus, NEW dec, NEW m \in Nat, NEW n \in Nat, m <= n,
         Driver(todo, ctx, mail, bus, dec, m),
         NEW bus2, NEW dec2, \A g : Comes(bus, dec, g) => Comes(bus2, dec2, g)
  PROVE  Driver(todo, ctx, mail, bus2, dec2, n)
<1>1. \A f : Sent(f, m) => Sent(f, n)
  BY SentStays
<1> QED BY <1>1 DEF Driver

LEMMA DriverRests ==
  ASSUME NEW bus, NEW dec, NEW num
  PROVE  Driver(<< >>, Idle, {}, bus, dec, num)
BY DEF Driver, Idle

LEMMA KeepsStays ==
  ASSUME NEW dec, NEW m \in Nat, NEW n \in Nat, m <= n, Keeps(dec, m)
  PROVE  Keeps(dec, n)
BY SentStays DEF Keeps

LEMMA CanStartsSound ==
  ASSUME CanInit
  PROVE  CanInv
<1>1. canSeq \in 0 .. SeqMod - 1 /\ 0 \in 0 .. SeqMod - 1 /\ canNum \in 0 .. MaxSends
  BY CanAssumption, CanNumbers DEF CanInit, CanAssumption
<1>2. NoCommand \in CanCommands
  BY NoFrameShape DEF NoCommand, CanCommands
<1>3. canDec \in Decoders /\ canCtl \in CanControls
  BY <1>1, <1>2, NoFrameShape DEF CanInit, Decoders, CanControls
<1>4. canCtx \in [state : {"Idle", "Waiting", "TimedOut"}, sem : 0 .. 1, err : 0 .. 1]
  BY DEF CanInit, Idle
<1>5. CanTypes
  <2>1. /\ canVia \in {"socketcan", "fd", "udp", "zephyr"} /\ canTodo = << >> /\ canMail = {}
        /\ canNet = {} /\ canBus = << >> /\ canTick = FALSE /\ canLate = 0 /\ canMissed = 0
    BY DEF CanInit
  <2>2. canTodo \in Seq(CanFrames) /\ Len(canTodo) <= 3 /\ canBus \in Seq(WireFrames)
    BY <2>1
  <2> QED BY <1>1, <1>3, <1>4, <2>1, <2>2 DEF CanTypes
<1>6. Ordered(canBus, canDec, canNum)
  BY DEF CanInit, Ordered
<1>7. Driver(canTodo, canCtx, canMail, canBus, canDec, canNum)
  BY DriverRests DEF CanInit
<1>8. Traffic
  BY <1>6, <1>7 DEF CanInit, Traffic
<1>9. Keeps(canDec, canNum) /\ DriveAges
  <2>1. /\ canDec.lat = NoFrame /\ canDec.lon = NoFrame /\ canDec.command = NoCommand
        /\ canCtl.kind = "none"
    BY DEF CanInit
  <2>2. WholeCommand(canDec.command)
    BY <2>1 DEF WholeCommand
  <2>3. Keeps(canDec, canNum)
    BY <2>1, <2>2 DEF Keeps
  <2>4. DriveAges
    BY <2>1 DEF DriveAges
  <2> QED BY <2>3, <2>4
<1> QED BY <1>5, <1>8, <1>9 DEF CanInv

\* What the sender does leaves the bridge as it is.
LEMMA BridgeRests ==
  ASSUME CanInv, canNum' \in Nat, canNum <= canNum', UNCHANGED bridgeVars
  PROVE  Keeps(canDec', canNum') /\ DriveAges'
<1>1. canNum \in Nat
  BY CanNumbers DEF CanInv, CanTypes
<1> QED BY <1>1, KeepsStays DEF CanInv, bridgeVars, DriveAges

LEMMA SendRefusedCan ==
  ASSUME CanInv, NEW m \in CanMessages, SendRefused(m)
  PROVE  CanInv'
<1>1. canNum \in Nat /\ canNum' \in Nat /\ canNum <= canNum' /\ canNum' \in 0 .. MaxSends
  BY CanNumbers DEF CanInv, CanTypes, SendRefused, MaySend
<1>2. CanTypes'
  BY <1>1 DEF CanInv, CanTypes, SendRefused, SequenceAfter, bridgeVars
<1>3. Traffic'
  BY <1>1, BatchStays, OrderedStays, DriverStays DEF CanInv, Traffic, SendRefused, bridgeVars
<1> QED BY <1>1, <1>2, <1>3, BridgeRests DEF CanInv, SendRefused

LEMMA SequenceType ==
  ASSUME canSeq \in 0 .. SeqMod - 1, NEW sent
  PROVE  SequenceAfter(sent) \in 0 .. SeqMod - 1
BY CanNumbers DEF SequenceAfter

LEMMA SendClassicCan ==
  ASSUME CanInv, NEW m \in CanMessages, NEW k \in 0 .. 3, SendClassic(m, k)
  PROVE  CanInv'
<1> DEFINE b == encode_control_command(m, canNum + 1, canSeq)
<1>1. canNum \in Nat /\ canNum' = canNum + 1 /\ canNum' \in 0 .. MaxSends /\ canSeq \in Int
  BY CanNumbers DEF CanInv, CanTypes, SendClassic, MaySend
<1>2. Batch(b, canNum')
  BY <1>1, EncodedBatch DEF SendClassic
<1>3. canBus \in Seq(WireFrames) /\ Ordered(canBus, canDec, canNum')
  BY <1>1, OrderedStays DEF CanInv, CanTypes, Traffic
<1>4. canBus' \in Seq(WireFrames) /\ Ordered(canBus', canDec', canNum')
  BY <1>2, <1>3, BatchOrdered DEF SendClassic, bridgeVars
<1>5. CanTypes'
  BY <1>1, <1>4, SequenceType DEF CanInv, CanTypes, SendClassic, bridgeVars
<1>6. Traffic'
  <2>1. canVia' # "zephyr" /\ canVia' # "udp" /\ canVia' # "fd" /\ canNet' = {}
        /\ canTodo' = << >> /\ canMail' = {} /\ canCtx' = Idle
    BY DEF CanInv, Traffic, SendClassic
  <2> QED BY <2>1, <1>4, DriverRests DEF Traffic
<1> QED BY <1>1, <1>5, <1>6, BridgeRests DEF CanInv, SendClassic

LEMMA SendFdCan ==
  ASSUME CanInv, NEW m \in CanMessages, NEW k \in 0 .. 1, SendFd(m, k)
  PROVE  CanInv'
<1> DEFINE f == encode_control_command_fd(m, canNum + 1, canSeq)
<1>1. canNum \in Nat /\ canNum' = canNum + 1 /\ canNum' \in 0 .. MaxSends /\ canSeq \in Int
  BY CanNumbers DEF CanInv, CanTypes, SendFd, MaySend
<1>2. Batch(f.parts, canNum') /\ f.id = "fd" /\ f \in WireFrames
  <2>1. Batch(encode_control_command(m, canNum + 1, canSeq), canNum')
    BY <1>1, EncodedBatch DEF SendFd
  <2> QED BY <2>1 DEF encode_control_command_fd, Batch, WireFrames
<1>3. canBus \in Seq(WireFrames) /\ Ordered(canBus, canDec, canNum')
  BY <1>1, OrderedStays DEF CanInv, CanTypes, Traffic
<1>4. OnWire(f, canNum') /\ Comes(canBus, canDec, f)
  BY <1>2 DEF OnWire, Comes, Starts, Follows
<1>5. canBus' \in {canBus, Append(canBus, f)} /\ canDec' = canDec
  BY DEF SendFd, bridgeVars
<1> HIDE DEF f
<1>6. canBus' \in Seq(WireFrames) /\ Ordered(canBus', canDec', canNum')
  BY <1>2, <1>3, <1>4, <1>5, AppendOrdered
<1>7. CanTypes'
  BY <1>1, <1>6, SequenceType DEF CanInv, CanTypes, SendFd, bridgeVars
<1>8. Traffic'
  <2>1. canVia' # "zephyr" /\ canVia' # "udp" /\ canNet' = {}
        /\ canTodo' = << >> /\ canMail' = {} /\ canCtx' = Idle
    BY DEF CanInv, Traffic, SendFd
  <2>2. \A i \in 1 .. Len(canBus') : canBus'[i].id = "fd"
    <3>1. \A i \in 1 .. Len(canBus) : canBus[i].id = "fd"
      BY DEF CanInv, Traffic, SendFd
    <3>2. CASE canBus' = canBus
      BY <3>1, <3>2
    <3>3. CASE canBus' = Append(canBus, f)
      BY <1>2, <1>3, <3>1, <3>3
    <3> QED BY <1>5, <3>2, <3>3
  <2> QED BY <2>1, <2>2, <1>6, DriverRests DEF Traffic
<1> QED BY <1>1, <1>7, <1>8, BridgeRests DEF CanInv, SendFd
LEMMA SendUdpCan ==
  ASSUME CanInv, NEW m \in CanMessages, NEW sent \in BOOLEAN, SendUdp(m, sent)
  PROVE  CanInv'
<1> DEFINE b == encode_control_command(m, canNum + 1, canSeq)
           d == pack_can_udp_tunnel(b)
<1>1. canNum \in Nat /\ canNum' = canNum + 1 /\ canNum' \in 0 .. MaxSends /\ canSeq \in Int
  BY CanNumbers DEF CanInv, CanTypes, SendUdp, MaySend
<1>2. Batch(b, canNum') /\ b[3].seq = canSeq
  BY <1>1, EncodedBatch DEF SendUdp
<1>3. canNet' \subseteq canNet \cup {d}
  BY DEF SendUdp
<1> HIDE DEF b
<1>4. d \in Datagrams /\ d.frames = b
  BY <1>1, <1>2 DEF pack_can_udp_tunnel, Datagrams, Batch
<1> HIDE DEF d
<1>5. \A e \in canNet' : e \in Datagrams /\ Batch(e.frames, canNum')
  <2>1. \A e \in canNet : e \in Datagrams /\ Batch(e.frames, canNum')
    BY <1>1, BatchStays DEF CanInv, CanTypes, Traffic
  <2> QED BY <1>2, <1>3, <1>4, <2>1
<1>6. Ordered(canBus', canDec', canNum')
  BY <1>1, OrderedStays DEF CanInv, CanTypes, Traffic, SendUdp, bridgeVars
<1>7. CanTypes'
  BY <1>1, <1>5, SequenceType DEF CanInv, CanTypes, SendUdp, bridgeVars
<1>8. Traffic'
  <2>1. canVia' # "zephyr" /\ canVia' = "udp"
        /\ canTodo' = << >> /\ canMail' = {} /\ canCtx' = Idle
    BY DEF CanInv, Traffic, SendUdp
  <2> QED BY <2>1, <1>5, <1>6, DriverRests DEF Traffic
<1> QED BY <1>1, <1>7, <1>8, BridgeRests DEF CanInv, SendUdp

LEMMA SendZephyrCan ==
  ASSUME CanInv, NEW m \in CanMessages, SendZephyr(m)
  PROVE  CanInv'
<1> DEFINE b == encode_control_command(m, canNum + 1, canSeq)
<1>1. canNum \in Nat /\ canNum' = canNum + 1 /\ canNum' \in 0 .. MaxSends /\ canSeq \in Int
  BY CanNumbers DEF CanInv, CanTypes, SendZephyr, MaySend
<1>2. Batch(b, canNum')
  BY <1>1, EncodedBatch DEF SendZephyr
<1>3. canTodo' = b /\ canTodo = << >>
  BY DEF SendZephyr, MaySend
<1> HIDE DEF b
<1>4. /\ b \in Seq(CanFrames) /\ Len(b) = 3 /\ b # << >> /\ b[1].id = "lat"
      /\ \A i \in 1 .. Len(b) : Sent(b[i], canNum')
      /\ \A i \in 1 .. Len(b) - 1 : Follows(b[i], b[i + 1])
  <2>1. b \in Seq(CanFrames) /\ Len(b) = 3 /\ b[1].id = "lat"
    BY <1>2 DEF Batch
  <2>2. \A i \in 1 .. 3 : Sent(b[i], canNum')
    BY <1>2 DEF Batch
  <2>3. Follows(b[1], b[2]) /\ Follows(b[2], b[3])
    BY <1>2 DEF Batch, Follows
  <2>4. \A i \in 1 .. 2 : Follows(b[i], b[i + 1])
    BY <2>3
  <2> QED BY <2>1, <2>2, <2>4
<1>5. Ordered(canBus', canDec', canNum')
  BY <1>1, OrderedStays DEF CanInv, CanTypes, Traffic, SendZephyr, bridgeVars
<1>6. Driver(canTodo', canCtx', canMail', canBus', canDec', canNum')
  <2>1. Driver(canTodo, canCtx, canMail, canBus, canDec, canNum')
    BY <1>1, DriverStays DEF CanInv, Traffic
  <2>2. Driver(b, canCtx, canMail, canBus, canDec, canNum')
    BY <1>3, <1>4, <2>1 DEF Driver, Comes, Starts, Follows
  <2> QED BY <1>3, <2>2 DEF SendZephyr, bridgeVars
<1>7. CanTypes'
  <2>1. UNCHANGED <<canVia, canSeq, canCtx, canMail, canNet, canBus, canLate, canDec, canCtl,
                    canTick, canMissed>>
    BY DEF SendZephyr, bridgeVars
  <2>2. canTodo' \in Seq(CanFrames) /\ Len(canTodo') <= 3
    BY <1>3, <1>4
  <2> QED BY <1>1, <2>1, <2>2 DEF CanInv, CanTypes
<1>8. Traffic'
  BY <1>5, <1>6 DEF CanInv, Traffic, SendZephyr
<1> QED BY <1>1, <1>7, <1>8, BridgeRests DEF CanInv, SendZephyr

LEMMA LosesCan ==
  ASSUME CanInv, NEW d \in canNet, Loses(d)
  PROVE  CanInv'
<1>1. CanTypes'
  BY DEF CanInv, CanTypes, Loses, senderVars, bridgeVars
<1>2. Traffic'
  BY DEF CanInv, Traffic, Loses, senderVars, bridgeVars
<1>3. Keeps(canDec', canNum') /\ DriveAges'
  BY DEF CanInv, Loses, senderVars, bridgeVars, DriveAges
<1> QED BY <1>1, <1>2, <1>3 DEF CanInv

LEMMA GatewayCan ==
  ASSUME CanInv, NEW d \in canNet, NEW k \in 0 .. 3, NEW again \in BOOLEAN, Gateway(d, k, again)
  PROVE  CanInv'
<1>1. Batch(d.frames, canNum) /\ canVia = "udp" /\ canTodo = << >> /\ canMail = {} /\ canCtx = Idle
  BY DEF CanInv, Traffic
<1>2. canBus \in Seq(WireFrames) /\ Ordered(canBus, canDec, canNum)
  BY DEF CanInv, CanTypes, Traffic
<1>3. canBus' \in {canBus, canBus \o SubSeq(d.frames, 1, k)}
  BY DEF Gateway
<1>4. canBus' \in Seq(WireFrames) /\ Ordered(canBus', canDec, canNum)
  BY <1>1, <1>2, <1>3, BatchOrdered
<1>5. canNet' \subseteq canNet
  BY DEF Gateway
<1>6. UNCHANGED <<canVia, canSeq, canNum, canTodo, canCtx, canMail, canLate, canDec,
                  canCtl, canTick, canMissed>>
  BY DEF Gateway, senderVars, bridgeVars
<1>7. CanTypes'
  BY <1>4, <1>5, <1>6 DEF CanInv, CanTypes
<1>8. Traffic'
  BY <1>1, <1>4, <1>5, <1>6, DriverRests DEF CanInv, Traffic
<1>9. Keeps(canDec', canNum') /\ DriveAges'
  BY <1>6 DEF CanInv, DriveAges
<1> QED BY <1>7, <1>8, <1>9 DEF CanInv
\* What the Zephyr driver does leaves the bridge and the network as they are.
LEMMA DriverStep ==
  ASSUME CanInv, canVia = "zephyr",
         UNCHANGED <<canVia, canNum, canNet, bridgeVars>>,
         canSeq' \in 0 .. SeqMod - 1, canLate' \in Nat,
         canTodo' \in Seq(CanFrames), Len(canTodo') <= 3, canMail' \subseteq CanFrames,
         canCtx' \in [state : {"Idle", "Waiting", "TimedOut"}, sem : 0 .. 1, err : 0 .. 1],
         canBus' \in Seq(WireFrames), Ordered(canBus', canDec, canNum),
         Driver(canTodo', canCtx', canMail', canBus', canDec, canNum)
  PROVE  CanInv'
<1>1. canDec' = canDec /\ canCtl' = canCtl /\ canTick' = canTick /\ canMissed' = canMissed
  BY DEF bridgeVars
<1>2. CanTypes'
  BY <1>1 DEF CanInv, CanTypes
<1>3. Traffic'
  BY <1>1 DEF CanInv, Traffic
<1>4. Keeps(canDec', canNum') /\ DriveAges'
  BY <1>1 DEF CanInv, DriveAges
<1> QED BY <1>2, <1>3, <1>4 DEF CanInv

LEMMA DriverFacts ==
  ASSUME CanInv
  PROVE  /\ canSeq \in 0 .. SeqMod - 1 /\ canLate \in Nat /\ canMail \subseteq CanFrames
         /\ canTodo \in Seq(CanFrames) /\ Len(canTodo) <= 3
         /\ canCtx \in [state : {"Idle", "Waiting", "TimedOut"}, sem : 0 .. 1, err : 0 .. 1]
         /\ canBus \in Seq(WireFrames) /\ Ordered(canBus, canDec, canNum)
         /\ Driver(canTodo, canCtx, canMail, canBus, canDec, canNum)
         /\ canTodo # << >> \/ canCtx.state # "Idle" \/ canMail # {} => canVia = "zephyr"
BY DEF CanInv, CanTypes, Traffic, Idle

\* A batch given up leaves at most the frame in the mailbox.
LEMMA GivenUp ==
  ASSUME NEW todo, NEW ctx, NEW mail, NEW bus, NEW dec, NEW num,
         Driver(todo, ctx, mail, bus, dec, num),
         NEW after, after.state = "TimedOut", after.sem = 1 => mail = {}
  PROVE  Driver(<< >>, after, mail, bus, dec, num)
BY DEF Driver

LEMMA QueueFrameCan ==
  ASSUME CanInv, QueueFrame
  PROVE  CanInv'
<1> DEFINE ctx == [state |-> "Waiting", sem |-> 0, err |-> 0]
           f == Head(canTodo)
<1>1. /\ canCtx' = ctx /\ canMail' = canMail \cup {f} /\ canTodo # << >> /\ canTodo' = canTodo
      /\ canBus' = canBus /\ canVia = "zephyr" /\ canSeq' = canSeq /\ canLate' = canLate
      /\ UNCHANGED <<canVia, canNum, canNet, bridgeVars>>
  BY DriverFacts DEF QueueFrame
<1>2. f = canTodo[1] /\ f \in CanFrames /\ Len(canTodo) >= 1
  BY <1>1, DriverFacts
<1>3. canMail = {} /\ Comes(canBus, canDec, f)
  <2>1. CASE canCtx.state = "Idle"
    BY <1>1, <1>2, <2>1, DriverFacts DEF Driver
  <2>2. CASE canCtx.state = "TimedOut" /\ canCtx.sem = 1
    BY <1>1, <1>2, <2>2, DriverFacts DEF Driver, Comes, Starts, Follows
  <2> QED BY <2>1, <2>2 DEF QueueFrame, ContextFree
<1>4. ctx \in [state : {"Idle", "Waiting", "TimedOut"}, sem : 0 .. 1, err : 0 .. 1]
      /\ ctx.state = "Waiting" /\ ctx.sem = 0
  OBVIOUS
<1> HIDE DEF ctx, f
<1>5. Sent(f, canNum)
  BY <1>1, <1>2, DriverFacts DEF Driver
<1>6. Driver(canTodo', canCtx', canMail', canBus', canDec, canNum)
  BY <1>1, <1>2, <1>3, <1>4, <1>5, DriverFacts DEF Driver
<1>7. canMail' \subseteq CanFrames
  BY <1>1, <1>2, DriverFacts
<1> QED BY <1>1, <1>4, <1>6, <1>7, DriverFacts, DriverStep

LEMMA QueueFailsCan ==
  ASSUME CanInv, QueueFails
  PROVE  CanInv'
<1>1. /\ canMail' = canMail /\ canTodo # << >> /\ canTodo' = << >> /\ canSeq' = canSeq
      /\ canBus' = canBus /\ canVia = "zephyr" /\ canLate' = canLate
      /\ UNCHANGED <<canVia, canNum, canNet, bridgeVars>>
  BY DriverFacts DEF QueueFails, FailBatch, SequenceAfter
<1>2. canTodo' \in Seq(CanFrames) /\ Len(canTodo') <= 3
  BY <1>1
<1>3. Idle \in [state : {"Idle", "Waiting", "TimedOut"}, sem : 0 .. 1, err : 0 .. 1]
      /\ Idle.state = "Idle"
  BY DEF Idle
<1>4. CASE ContextFree
  <2>1. canCtx' = Idle
    BY <1>4 DEF QueueFails
  <2>2. canMail = {}
    BY <1>4, DriverFacts DEF Driver, ContextFree
  <2>3. Driver(canTodo', canCtx', canMail', canBus', canDec, canNum)
    BY <1>1, <2>1, <2>2, DriverRests
  <2> QED BY <1>1, <1>2, <1>3, <2>1, <2>3, DriverFacts, DriverStep
<1>5. CASE ~ContextFree
  <2>1. canCtx' = canCtx /\ canCtx.state = "TimedOut" /\ canCtx.sem # 1
    BY <1>5, DriverFacts DEF QueueFails, ContextFree
  <2>2. Driver(canTodo', canCtx', canMail', canBus', canDec, canNum)
    BY <1>1, <1>3, <2>1, DriverFacts, GivenUp
  <2> QED BY <1>1, <1>2, <2>1, <2>2, DriverFacts, DriverStep
<1> QED BY <1>4, <1>5

LEMMA TxDoneCan ==
  ASSUME CanInv, NEW f \in canMail, NEW err \in 0 .. 1, TxDone(f, err)
  PROVE  CanInv'
<1> DEFINE ctx == [canCtx EXCEPT !.err = err, !.sem = 1]
<1>1. /\ canMail' = canMail \ {f} /\ canTodo' = canTodo /\ canSeq' = canSeq /\ canCtx' = ctx
      /\ canVia = "zephyr" /\ canLate' = canLate
      /\ UNCHANGED <<canVia, canNum, canNet, bridgeVars>>
  BY DriverFacts DEF TxDone
<1>2. canBus' = IF err = 0 THEN Append(canBus, f) ELSE canBus
  BY DEF TxDone
<1>3. /\ ctx \in [state : {"Idle", "Waiting", "TimedOut"}, sem : 0 .. 1, err : 0 .. 1]
      /\ ctx.state = canCtx.state /\ ctx.sem = 1 /\ ctx.err = err
  <2>1. canCtx \in [state : {"Idle", "Waiting", "TimedOut"}, sem : 0 .. 1, err : 0 .. 1]
    BY DriverFacts
  <2> DEFINE failed == [canCtx EXCEPT !.err = err]
  <2>2. failed = [state |-> canCtx.state, sem |-> canCtx.sem, err |-> err]
    BY <2>1
  <2>3. ctx = [failed EXCEPT !.sem = 1]
    BY <2>1
  <2> HIDE DEF ctx, failed
  <2>4. ctx = [state |-> canCtx.state, sem |-> 1, err |-> err]
    BY <2>2, <2>3
  <2> QED BY <2>1, <2>4
<1> HIDE DEF ctx
<1>4. canMail' = {} /\ canMail = {f} /\ canCtx.state # "Idle"
  BY <1>1, DriverFacts DEF Driver
<1>5. f \in WireFrames /\ OnWire(f, canNum) /\ Comes(canBus, canDec, f)
  <2>1. f \in CanFrames /\ Sent(f, canNum) /\ Comes(canBus, canDec, f)
    BY DriverFacts DEF Driver
  <2> QED BY <2>1 DEF WireFrames, OnWire, Sent
<1>6. /\ canBus' \in Seq(WireFrames) /\ Ordered(canBus', canDec, canNum)
      /\ err = 0 => \A g : Follows(f, g) => Comes(canBus', canDec, g)
  BY <1>2, <1>5, DriverFacts, AppendOrdered
<1>7. canCtx.state = "Waiting" => canTodo # << >> /\ f = canTodo[1]
  <2>1. canCtx.sem = 0 \/ canCtx.sem = 1
    BY DriverFacts
  <2> QED BY <1>4, <2>1, DriverFacts DEF Driver
<1>8. canCtx.state = "Waiting" /\ err = 0 /\ Len(canTodo) > 1 => Comes(canBus', canDec, canTodo[2])
  <2>1. Len(canTodo) > 1 => Follows(canTodo[1], canTodo[2])
    BY DriverFacts DEF Driver
  <2> QED BY <1>6, <1>7, <2>1
<1>9. canCtx.state = "TimedOut" => (canTodo # << >> => canTodo[1].id = "lat")
  BY DriverFacts DEF Driver
<1>10. Driver(canTodo, ctx, {}, canBus', canDec, canNum)
  <2>1. /\ \A i \in 1 .. Len(canTodo) : Sent(canTodo[i], canNum)
        /\ \A i \in 1 .. Len(canTodo) - 1 : Follows(canTodo[i], canTodo[i + 1])
    BY DriverFacts DEF Driver
  <2> QED BY <1>3, <1>4, <1>7, <1>8, <1>9, <2>1 DEF Driver
<1> QED BY <1>1, <1>3, <1>4, <1>6, <1>10, DriverFacts, DriverStep
LEMMA WaitEndsCan ==
  ASSUME CanInv, WaitEnds
  PROVE  CanInv'
<1>1. /\ canMail' = canMail /\ canCtx' = Idle /\ canBus' = canBus /\ canVia = "zephyr"
      /\ canLate' = canLate /\ UNCHANGED <<canVia, canNum, canNet, bridgeVars>>
      /\ canCtx.state = "Waiting" /\ canCtx.sem = 1
  BY DriverFacts DEF WaitEnds
<1>2. Idle \in [state : {"Idle", "Waiting", "TimedOut"}, sem : 0 .. 1, err : 0 .. 1]
      /\ Idle.state = "Idle"
  BY DEF Idle
<1>3. canMail = {} /\ canTodo # << >>
  BY <1>1, DriverFacts DEF Driver
<1>4. canSeq' \in 0 .. SeqMod - 1
  BY DriverFacts, SequenceType DEF WaitEnds, FailBatch
<1>5. CASE canCtx.err # 0
  <2>1. canTodo' = << >>
    BY <1>5 DEF WaitEnds, FailBatch
  <2>2. canTodo' \in Seq(CanFrames) /\ Len(canTodo') <= 3
    BY <2>1
  <2>3. Driver(canTodo', canCtx', canMail', canBus', canDec, canNum)
    BY <1>1, <1>3, <2>1, DriverRests
  <2> QED BY <1>1, <1>2, <1>4, <2>2, <2>3, DriverFacts, DriverStep
<1>6. CASE canCtx.err = 0
  <2> DEFINE rest == Tail(canTodo)
  <2>1. canTodo' = rest
    BY <1>6 DEF WaitEnds
  <2>2. /\ rest \in Seq(CanFrames) /\ Len(rest) = Len(canTodo) - 1 /\ Len(canTodo) \in 1 .. 3
        /\ \A i \in 1 .. Len(rest) : rest[i] = canTodo[i + 1]
    <3> DEFINE size == Len(canTodo)
    <3>1. canTodo \in Seq(CanFrames) /\ canTodo # << >> /\ size <= 3
      BY <1>3, DriverFacts
    <3>2. size # 0 /\ size \in Nat
      BY <3>1, EmptySeq
    <3> HIDE DEF size
    <3>3. size \in 1 .. 3
      BY <3>1, <3>2
    <3> QED BY <3>1, <3>3 DEF size
  <2>3. /\ \A i \in 1 .. Len(canTodo) : Sent(canTodo[i], canNum)
        /\ \A i \in 1 .. Len(canTodo) - 1 : Follows(canTodo[i], canTodo[i + 1])
        /\ Len(canTodo) > 1 => Comes(canBus, canDec, canTodo[2])
    BY <1>1, <1>6, DriverFacts DEF Driver
  <2> HIDE DEF rest
  <2>4. rest # << >> => Len(rest) > 0
    BY <2>2, EmptySeq
  <2>5. Driver(rest, Idle, {}, canBus, canDec, canNum)
    BY <1>2, <2>2, <2>3, <2>4 DEF Driver
  <2> QED BY <1>1, <1>2, <1>3, <1>4, <2>1, <2>2, <2>5, DriverFacts, DriverStep
<1> QED BY <1>5, <1>6

LEMMA WaitTimesOutCan ==
  ASSUME CanInv, WaitTimesOut
  PROVE  CanInv'
<1> DEFINE ctx == [canCtx EXCEPT !.state = "TimedOut"]
<1>1. /\ canMail' = canMail /\ canCtx' = ctx /\ canBus' = canBus /\ canVia = "zephyr"
      /\ canTodo' = << >> /\ canSeq' = canSeq
      /\ UNCHANGED <<canVia, canNum, canNet, bridgeVars>>
      /\ canCtx.state = "Waiting" /\ canCtx.sem = 0
  BY DriverFacts DEF WaitTimesOut, FailBatch, SequenceAfter
<1>2. /\ ctx \in [state : {"Idle", "Waiting", "TimedOut"}, sem : 0 .. 1, err : 0 .. 1]
      /\ ctx.state = "TimedOut" /\ ctx.sem = 0
  <2>1. canCtx \in [state : {"Idle", "Waiting", "TimedOut"}, sem : 0 .. 1, err : 0 .. 1]
    BY DriverFacts
  <2>2. ctx = [state |-> "TimedOut", sem |-> 0, err |-> canCtx.err]
    BY <1>1, <2>1
  <2> HIDE DEF ctx
  <2> QED BY <2>1, <2>2
<1>3. canLate' \in Nat
  BY DriverFacts DEF WaitTimesOut
<1> HIDE DEF ctx
<1>4. canTodo' \in Seq(CanFrames) /\ Len(canTodo') <= 3
  BY <1>1
<1>5. Driver(canTodo', canCtx', canMail', canBus', canDec, canNum)
  BY <1>1, <1>2, DriverFacts, GivenUp
<1> QED BY <1>1, <1>2, <1>3, <1>4, <1>5, DriverFacts, DriverStep

\* What the bridge does leaves the sender and the network as they are.
LEMMA BridgeStep ==
  ASSUME CanInv, UNCHANGED <<canVia, canNet, senderVars>>,
         NEW dec \in Decoders, Aged(dec, canDec), BridgeApplies(dec), Keeps(dec, canNum),
         canMissed' \in Nat, canBus' \in Seq(WireFrames), Ordered(canBus', dec, canNum),
         canVia = "fd" => \A i \in 1 .. Len(canBus') : canBus'[i].id = "fd",
         \A g : Comes(canBus, canDec, g) => Comes(canBus', dec, g)
  PROVE  CanInv'
<1>1. /\ canSeq' = canSeq /\ canNum' = canNum /\ canTodo' = canTodo /\ canCtx' = canCtx
      /\ canMail' = canMail /\ canLate' = canLate /\ canNum \in Nat
  BY CanNumbers DEF senderVars, CanInv, CanTypes
<1>2. canCtl' \in CanControls /\ canDec' = dec /\ canTick' = TRUE /\ DriveAges'
  BY AppliesAges DEF CanInv
<1>3. CanTypes'
  BY <1>1, <1>2 DEF CanInv, CanTypes
<1>4. Driver(canTodo, canCtx, canMail, canBus', dec, canNum)
  BY <1>1, DriverStays DEF CanInv, Traffic
<1>5. Traffic'
  BY <1>1, <1>2, <1>4 DEF CanInv, Traffic
<1> QED BY <1>1, <1>2, <1>3, <1>5 DEF CanInv

LEMMA BridgeReadsCan ==
  ASSUME CanInv, BridgeReads
  PROVE  CanInv'
<1> DEFINE polled == poll_watchdog(canDec)
           f == canBus[1]
           dec == IF f.id = "fd" THEN feed_fd(polled, f) ELSE feed(polled, f)
<1>1. /\ canBus # << >> /\ canBus \in Seq(WireFrames) /\ Ordered(canBus, canDec, canNum)
      /\ canDec \in Decoders /\ canNum \in Nat /\ Keeps(canDec, canNum) /\ canMissed \in Nat
  BY CanNumbers DEF CanInv, CanTypes, Traffic, BridgeReads
<1>2. f = Head(canBus) /\ f \in WireFrames /\ Len(canBus) >= 1
  BY <1>1
<1>3. BridgeApplies(dec) /\ canBus' = Tail(canBus) /\ UNCHANGED <<canVia, canNet, senderVars>>
  BY <1>2 DEF BridgeReads
<1>4. canMissed' \in Nat
  BY <1>1 DEF BridgeReads
<1> HIDE DEF f
<1>5. OnWire(f, canNum) /\ Starts(canDec, f)
  BY <1>1, <1>2 DEF Ordered, f
<1>6. /\ polled \in Decoders /\ Keeps(polled, canNum) /\ Starts(polled, f)
      /\ Aged(polled, canDec) /\ polled.event # "ACCEPTED"
  BY <1>1, <1>5, PollKeeps, PollAged
<1> HIDE DEF polled
<1>7. dec \in Decoders /\ Keeps(dec, canNum) /\ \A g : Follows(f, g) => Starts(dec, g)
  <2>1. CASE f.id = "fd"
    <3>1. Batch(f.parts, canNum)
      BY <1>5, <2>1 DEF OnWire
    <3>2. dec \in Decoders /\ Keeps(dec, canNum)
      BY <1>1, <1>6, <2>1, <3>1, FeedFdKeeps
    <3>3. \A g : Follows(f, g) => Starts(dec, g)
      BY <2>1 DEF Follows, Starts
    <3> QED BY <3>2, <3>3
  <2>2. CASE f.id # "fd"
    <3>1. Sent(f, canNum) /\ f \in CanFrames
      BY <1>2, <1>5, <2>2 DEF OnWire, WireFrames
    <3>2. dec = feed(polled, f)
      BY <2>2
    <3> HIDE DEF dec
    <3> QED BY <1>1, <1>6, <3>1, <3>2, FeedKeeps
  <2> QED BY <2>1, <2>2
<1>8. Aged(dec, canDec)
  <2>1. CASE f.id = "fd"
    <3>1. Batch(f.parts, canNum)
      BY <1>5, <2>1 DEF OnWire
    <3> QED BY <1>1, <1>6, <2>1, <3>1, FeedFdAged
  <2>2. CASE f.id # "fd"
    BY <1>6, <2>2, FeedAged
  <2> QED BY <2>1, <2>2
<1> HIDE DEF dec
<1>9. /\ canBus' \in Seq(WireFrames) /\ Ordered(canBus', dec, canNum)
      /\ \A g : Comes(canBus, canDec, g) => Comes(canBus', dec, g)
  BY <1>1, <1>3, <1>7, TailOrdered DEF f
<1>10. canVia = "fd" => \A i \in 1 .. Len(canBus') : canBus'[i].id = "fd"
  <2> SUFFICES ASSUME canVia = "fd", NEW i \in 1 .. Len(canBus') PROVE canBus'[i].id = "fd"
    OBVIOUS
  <2>1. canBus'[i] = canBus[i + 1] /\ i + 1 \in 1 .. Len(canBus)
    BY <1>1, <1>3
  <2> QED BY <2>1 DEF CanInv, Traffic
<1> QED BY <1>3, <1>4, <1>7, <1>8, <1>9, <1>10, BridgeStep

LEMMA BridgeWaitsCan ==
  ASSUME CanInv, BridgeWaits
  PROVE  CanInv'
<1> DEFINE dec == poll_watchdog(canDec)
<1>1. /\ canBus \in Seq(WireFrames) /\ Ordered(canBus, canDec, canNum)
      /\ canDec \in Decoders /\ canNum \in Nat /\ Keeps(canDec, canNum) /\ canMissed' \in Nat
  BY CanNumbers DEF CanInv, CanTypes, Traffic, BridgeWaits
<1>2. BridgeApplies(dec) /\ canBus' = canBus /\ UNCHANGED <<canVia, canNet, senderVars>>
  BY DEF BridgeWaits
<1>3. dec \in Decoders /\ Keeps(dec, canNum) /\ Aged(dec, canDec)
      /\ \A g : Starts(canDec, g) => Starts(dec, g)
  BY <1>1, PollKeeps, PollAged
<1> HIDE DEF dec
<1>4. /\ canBus' \in Seq(WireFrames) /\ Ordered(canBus', dec, canNum)
      /\ \A g : Comes(canBus, canDec, g) => Comes(canBus', dec, g)
  BY <1>1, <1>2, <1>3, DecoderOrdered
<1>5. canVia = "fd" => \A i \in 1 .. Len(canBus') : canBus'[i].id = "fd"
  BY <1>2 DEF CanInv, Traffic
<1> QED BY <1>1, <1>2, <1>3, <1>4, <1>5, BridgeStep

LEMMA FdLosesCan ==
  ASSUME CanInv, FdLoses
  PROVE  CanInv'
<1>1. /\ canBus # << >> /\ canBus \in Seq(WireFrames) /\ Ordered(canBus, canDec, canNum)
      /\ canVia = "fd" /\ canBus' = Tail(canBus)
      /\ \A i \in 1 .. Len(canBus) : canBus[i].id = "fd"
  BY DEF CanInv, CanTypes, Traffic, FdLoses
<1>2. UNCHANGED <<canVia, canNet, canSeq, canNum, canTodo, canCtx, canMail, canLate,
                  canDec, canCtl, canTick, canMissed>>
  BY DEF FdLoses, senderVars, bridgeVars
<1>3. /\ canBus' \in Seq(WireFrames) /\ Len(canBus') = Len(canBus) - 1 /\ Len(canBus) \in Nat
      /\ \A i \in 1 .. Len(canBus') : canBus'[i] = canBus[i + 1]
  BY <1>1
<1>4. \A i \in 1 .. Len(canBus') : canBus'[i].id = "fd"
  BY <1>1, <1>3
<1>5. canBus' # << >> => 1 \in 1 .. Len(canBus')
  BY <1>3, EmptySeq
<1>6. Ordered(canBus', canDec, canNum)
  <2>1. canBus' # << >> => Starts(canDec, canBus'[1])
    BY <1>4, <1>5 DEF Starts
  <2> QED BY <1>1, <1>3, <2>1 DEF Ordered
<1>7. CanTypes'
  BY <1>2, <1>3 DEF CanInv, CanTypes
<1>8. Traffic'
  <2>1. canTodo = << >> /\ canMail = {} /\ canCtx = Idle
    BY <1>1 DEF CanInv, Traffic
  <2> QED BY <1>1, <1>2, <1>4, <1>6, <2>1, DriverRests DEF CanInv, Traffic
<1>9. Keeps(canDec', canNum') /\ DriveAges'
  BY <1>2 DEF CanInv, DriveAges
<1> QED BY <1>7, <1>8, <1>9 DEF CanInv

\* The halves and the command are not touched by the clock.
LEMMA CanTicksCan ==
  ASSUME CanInv, CanTicks
  PROVE  CanInv'
<1> DEFINE dec == [canDec EXCEPT !.age = IF @ > CanTimeout THEN @ ELSE @ + 1]
           ctl == [canCtl EXCEPT !.age = IF @ > CanTimeout + 1 THEN @ ELSE @ + 1]
<1>1. /\ canDec' = dec /\ canCtl' = ctl /\ canTick' = FALSE /\ canTick = TRUE
      /\ UNCHANGED <<canVia, canNet, canBus, canSeq, canNum, canTodo, canCtx, canMail,
                     canLate, canMissed>>
  BY DEF CanTicks, senderVars, CanInv, CanTypes
<1>2. canDec \in Decoders /\ canCtl \in CanControls /\ canNum \in Nat
  BY CanNumbers DEF CanInv, CanTypes
<1>3. /\ dec \in Decoders /\ dec.lat = canDec.lat /\ dec.lon = canDec.lon
      /\ dec.command = canDec.command /\ dec.safe = canDec.safe /\ dec.anchored = canDec.anchored
      /\ dec.age = IF canDec.age > CanTimeout THEN canDec.age ELSE canDec.age + 1
  BY <1>2, CanNumbers DEF Decoders
<1>4. /\ ctl \in CanControls /\ ctl.kind = canCtl.kind
      /\ ctl.age = IF canCtl.age > CanTimeout + 1 THEN canCtl.age ELSE canCtl.age + 1
  BY <1>2, CanNumbers DEF CanControls
<1> HIDE DEF dec, ctl
<1>5. \A g : Starts(canDec, g) => Starts(dec, g)
  BY <1>3 DEF Starts, Paired
<1>6. /\ Ordered(canBus, dec, canNum)
      /\ \A g : Comes(canBus, canDec, g) => Comes(canBus, dec, g)
  BY <1>5, DecoderOrdered DEF CanInv, Traffic
<1>7. Driver(canTodo, canCtx, canMail, canBus, dec, canNum)
  BY <1>2, <1>6, DriverStays DEF CanInv, Traffic
<1>8. CanTypes'
  BY <1>1, <1>3, <1>4 DEF CanInv, CanTypes
<1>9. Traffic'
  BY <1>1, <1>6, <1>7 DEF CanInv, Traffic
<1>10. Keeps(canDec', canNum')
  BY <1>1, <1>3 DEF CanInv, Keeps
<1>11. DriveAges'
  <2>1. canDec.age \in Nat
    BY <1>2 DEF Decoders
  <2> QED BY <1>1, <1>3, <1>4, <2>1, CanNumbers DEF CanInv, DriveAges
<1> QED BY <1>8, <1>9, <1>10, <1>11 DEF CanInv

LEMMA NextCan == CanInv /\ [CanNext]_canVars => CanInv'
<1> SUFFICES ASSUME CanInv, [CanNext]_canVars PROVE CanInv'
  OBVIOUS
<1>1. CASE CanNext
  BY <1>1, SendRefusedCan, SendClassicCan, SendFdCan, SendUdpCan, SendZephyrCan, LosesCan,
     GatewayCan, QueueFrameCan, QueueFailsCan, WaitEndsCan, WaitTimesOutCan, TxDoneCan,
     BridgeReadsCan, BridgeWaitsCan, FdLosesCan, CanTicksCan DEF CanNext
<1>2. CASE UNCHANGED canVars
  BY <1>2 DEF canVars, CanInv, CanTypes, Traffic, DriveAges
<1> QED BY <1>1, <1>2
\* What holds of the CAN path always: nothing that reaches the vehicle is put
\* together from two sends, no command outlives the watchdog, and a completion
\* ends only the wait for its own frame (CanSound but for the refused commands).
THEOREM CanAlwaysWhole ==
  CanSpec => [](CanTypeOK /\ AcceptedWhole /\ NoOldDrive /\ OneCompletion)
<1>1. CanInit => CanInv
  BY CanStartsSound
<1>2. CanInv => CanTypeOK /\ AcceptedWhole /\ NoOldDrive /\ OneCompletion
  <2> SUFFICES ASSUME CanInv PROVE CanTypeOK /\ AcceptedWhole /\ NoOldDrive /\ OneCompletion
    OBVIOUS
  <2>1. CanTypeOK
    <3>1. canCtx.state \in {"Idle", "Waiting", "TimedOut"} /\ canDec.expected \in 0 .. SeqMod - 1
      BY DEF CanInv, CanTypes, Decoders
    <3> QED BY <3>1 DEF CanInv, CanTypes, CanTypeOK
  <2>2. AcceptedWhole
    BY DEF CanInv, Keeps, WholeCommand, AcceptedWhole
  <2>3. NoOldDrive
    BY DEF CanInv, DriveAges, NoOldDrive
  <2>4. OneCompletion
    <3>1. \A f, g \in canMail : f = g
      BY DriverFacts DEF Driver
    <3>2. Cardinality(canMail) <= 1
      <4>1. CASE canMail = {}
        BY <4>1, FS_EmptySet
      <4>2. ASSUME NEW f \in canMail PROVE Cardinality(canMail) <= 1
        <5>1. canMail = {f}
          BY <3>1
        <5> QED BY <5>1, FS_Singleton
      <4> QED BY <4>1, <4>2
    <3>3. ASSUME canCtx.state = "Waiting", canMail # {}
          PROVE  canMail = {Head(canTodo)} /\ canCtx.sem = 0
      <4>1. canCtx.sem = 0 \/ canCtx.sem = 1
        BY DriverFacts
      <4>2. canTodo # << >> /\ canMail = {canTodo[1]} /\ canCtx.sem = 0
        BY <3>3, <4>1, DriverFacts DEF Driver
      <4>3. Head(canTodo) = canTodo[1]
        BY <4>2, DriverFacts
      <4> QED BY <4>2, <4>3
    <3> QED BY <3>2, <3>3 DEF OneCompletion
  <2> QED BY <2>1, <2>2, <2>3, <2>4
<1> QED BY <1>1, <1>2, NextCan, PTL DEF CanSpec

-----------------------------------------------------------------------------
(* In what order the sends reach the bridge.                               *)

\* The frame that carries the number of a batch, when it is a status frame.
StatusOf(f) == IF f.id = "fd" THEN f.parts[3] ELSE f

\* What may have come before send y: on one bus an older send or the same one,
\* over IP a younger one too, but never by MaxDelay.
Before(via, x, y) ==
  IF via = "fd" THEN x < y ELSE x <= y \/ (via = "udp" /\ x < y + MaxDelay)

InTurn(via, bus, known) ==
  /\ \A i \in 1 .. Len(bus) : /\ Before(via, known, StatusOf(bus[i]).n)
                              /\ bus[i].id = "fd" => via = "fd"
  /\ \A i \in 1 .. Len(bus) : \A j \in i + 1 .. Len(bus) :
       Before(via, StatusOf(bus[i]).n, StatusOf(bus[j]).n)

Turns ==
  /\ InTurn(canVia, canBus, canDec.command.st.n)
  /\ \A f \in canMail : /\ canDec.command.st.n <= f.n
                        /\ \A i \in 1 .. Len(canBus) : StatusOf(canBus[i]).n <= f.n
  /\ \A i \in 1 .. Len(canTodo) : canTodo[i].n = canNum
  /\ canDec.command.st.n \in 0 .. canNum

LEMMA BusNumbers ==
  ASSUME CanInv
  PROVE  /\ canNum \in Nat /\ canBus \in Seq(WireFrames) /\ Len(canBus) \in Nat
         /\ \A i \in 1 .. Len(canBus) : StatusOf(canBus[i]).n \in 1 .. canNum
         /\ canDec.command.st.n \in Int /\ canDec.command.st \in CanFrames
<1>1. canNum \in Nat /\ canBus \in Seq(WireFrames) /\ Len(canBus) \in Nat
  BY CanNumbers DEF CanInv, CanTypes
<1>2. ASSUME NEW i \in 1 .. Len(canBus) PROVE StatusOf(canBus[i]).n \in 1 .. canNum
  <2>1. OnWire(canBus[i], canNum)
    BY DEF CanInv, Traffic, Ordered
  <2> QED BY <2>1 DEF OnWire, Batch, Sent, StatusOf
<1>3. canDec.command.st.n \in Int /\ canDec.command.st \in CanFrames
  BY DEF CanInv, CanTypes, Decoders, CanCommands, CanFrames
<1> QED BY <1>1, <1>2, <1>3

LEMMA AppendInTurn ==
  ASSUME NEW via, NEW bus \in Seq(WireFrames), NEW known, InTurn(via, bus, known),
         NEW f \in WireFrames, Before(via, known, StatusOf(f).n), f.id = "fd" => via = "fd",
         \A i \in 1 .. Len(bus) : Before(via, StatusOf(bus[i]).n, StatusOf(f).n)
  PROVE  InTurn(via, Append(bus, f), known)
<1> DEFINE grown == Append(bus, f)
<1>1. /\ Len(bus) \in Nat /\ Len(grown) = Len(bus) + 1 /\ grown[Len(bus) + 1] = f
      /\ \A i \in 1 .. Len(bus) : grown[i] = bus[i]
  OBVIOUS
<1> HIDE DEF grown
<1>2. ASSUME NEW i \in 1 .. Len(grown)
      PROVE  Before(via, known, StatusOf(grown[i]).n) /\ (grown[i].id = "fd" => via = "fd")
  <2>1. CASE i <= Len(bus)
    BY <1>1, <2>1 DEF InTurn
  <2>2. CASE i = Len(bus) + 1
    BY <1>1, <2>2
  <2> QED BY <1>1, <2>1, <2>2
<1>3. ASSUME NEW i \in 1 .. Len(grown), NEW j \in i + 1 .. Len(grown)
      PROVE  Before(via, StatusOf(grown[i]).n, StatusOf(grown[j]).n)
  <2>1. CASE j <= Len(bus)
    BY <1>1, <2>1 DEF InTurn
  <2>2. CASE j = Len(bus) + 1
    <3>1. grown[j] = f /\ grown[i] = bus[i] /\ i \in 1 .. Len(bus)
      BY <1>1, <2>2
    <3> QED BY <3>1
  <2> QED BY <1>1, <2>1, <2>2
<1> QED BY <1>2, <1>3 DEF InTurn, grown

\* A batch is of one send.
LEMMA BatchInTurn ==
  ASSUME NEW via, via # "fd", NEW bus \in Seq(WireFrames), NEW known \in Int,
         InTurn(via, bus, known), NEW num, NEW b, Batch(b, num), NEW k \in 0 .. 3, NEW n \in Int,
         b[1].n = n, Before(via, known, n),
         \A i \in 1 .. Len(bus) : Before(via, StatusOf(bus[i]).n, n)
  PROVE  InTurn(via, bus \o SubSeq(b, 1, k), known)
<1> DEFINE s == SubSeq(b, 1, k)
           grown == bus \o s
<1>1. s \in Seq(CanFrames) /\ Len(s) = k /\ \A i \in 1 .. k : s[i] = b[i]
  BY BatchPrefix
<1>2. s \in Seq(WireFrames)
  BY <1>1 DEF WireFrames
<1> HIDE DEF s
<1>3. /\ Len(bus) \in Nat /\ Len(grown) = Len(bus) + k
      /\ \A i \in 1 .. Len(bus) : grown[i] = bus[i]
      /\ \A i \in Len(bus) + 1 .. Len(bus) + k : grown[i] = s[i - Len(bus)]
  BY <1>1, <1>2
<1>4. \A i \in 1 .. 3 : StatusOf(b[i]).n = n /\ b[i].id # "fd"
  BY DEF Batch, OneSend, StatusOf
<1>5. \A i \in Len(bus) + 1 .. Len(bus) + k : StatusOf(grown[i]).n = n /\ grown[i].id # "fd"
  <2> SUFFICES ASSUME NEW i \in Len(bus) + 1 .. Len(bus) + k
               PROVE  StatusOf(grown[i]).n = n /\ grown[i].id # "fd"
    OBVIOUS
  <2>1. i - Len(bus) \in 1 .. 3 /\ i - Len(bus) \in 1 .. k
    BY <1>3
  <2>2. grown[i] = b[i - Len(bus)]
    BY <1>1, <1>3, <2>1
  <2> QED BY <1>4, <2>1, <2>2
<1> HIDE DEF grown
<1>6. Before(via, n, n)
  BY DEF Before
<1>7. ASSUME NEW i \in 1 .. Len(grown)
      PROVE  Before(via, known, StatusOf(grown[i]).n) /\ (grown[i].id = "fd" => via = "fd")
  <2>1. CASE i <= Len(bus)
    BY <1>3, <2>1 DEF InTurn
  <2>2. CASE i > Len(bus)
    BY <1>3, <1>5, <2>2
  <2> QED BY <1>3, <2>1, <2>2
<1>8. ASSUME NEW i \in 1 .. Len(grown), NEW j \in i + 1 .. Len(grown)
      PROVE  Before(via, StatusOf(grown[i]).n, StatusOf(grown[j]).n)
  <2>1. CASE j <= Len(bus)
    <3>1. /\ grown[i] = bus[i] /\ i \in 1 .. Len(bus)
          /\ grown[j] = bus[j] /\ j \in i + 1 .. Len(bus)
      BY <1>3, <2>1
    <3> QED BY <3>1 DEF InTurn
  <2>2. CASE j > Len(bus) /\ i <= Len(bus)
    <3>1. StatusOf(grown[j]).n = n /\ grown[i] = bus[i] /\ i \in 1 .. Len(bus)
      BY <1>3, <1>5, <2>2
    <3> QED BY <3>1
  <2>3. CASE j > Len(bus) /\ i > Len(bus)
    <3>1. StatusOf(grown[j]).n = n /\ StatusOf(grown[i]).n = n
      BY <1>3, <1>5, <2>3
    <3> QED BY <1>6, <3>1
  <2> QED BY <1>3, <2>1, <2>2, <2>3
<1> QED BY <1>7, <1>8 DEF InTurn, grown, s

\* What is behind the first frame is in turn for whoever took that one.
LEMMA TailInTurn ==
  ASSUME NEW via, NEW bus \in Seq(WireFrames), bus # << >>, NEW known, InTurn(via, bus, known),
         NEW now \in {known, StatusOf(bus[1]).n}
  PROVE  InTurn(via, Tail(bus), now)
<1> DEFINE grown == Tail(bus)
<1>1. /\ Len(bus) \in Nat /\ Len(bus) > 0 /\ Len(grown) = Len(bus) - 1
      /\ \A i \in 1 .. Len(grown) : grown[i] = bus[i + 1]
  OBVIOUS
<1> HIDE DEF grown
<1>2. ASSUME NEW i \in 1 .. Len(grown)
      PROVE  Before(via, now, StatusOf(grown[i]).n) /\ (grown[i].id = "fd" => via = "fd")
  <2>1. grown[i] = bus[i + 1] /\ i + 1 \in 1 .. Len(bus) /\ i + 1 \in 1 + 1 .. Len(bus)
        /\ 1 \in 1 .. Len(bus)
    BY <1>1
  <2> QED BY <2>1 DEF InTurn
<1>3. ASSUME NEW i \in 1 .. Len(grown), NEW j \in i + 1 .. Len(grown)
      PROVE  Before(via, StatusOf(grown[i]).n, StatusOf(grown[j]).n)
  <2>1. /\ grown[i] = bus[i + 1] /\ i + 1 \in 1 .. Len(bus)
        /\ grown[j] = bus[j + 1] /\ j + 1 \in (i + 1) + 1 .. Len(bus)
    BY <1>1
  <2> QED BY <2>1 DEF InTurn
<1> QED BY <1>2, <1>3 DEF InTurn, grown

-----------------------------------------------------------------------------
(* What one read of the bridge does to the number it expects.              *)

SameNumber(grown, old) ==
  grown.command = old.command /\ grown.hasExpected = old.hasExpected /\ grown.expected = old.expected

TakesNumber(grown, f) ==
  /\ f.id = "st" /\ grown.command # NoCommand /\ grown.command.st = f
  /\ grown.hasExpected /\ grown.expected = (f.seq + 1) % SeqMod

LEMMA FeedOutcome ==
  ASSUME NEW dec \in Decoders, NEW f, f.id \in {"lat", "lon", "st"}
  PROVE  \/ SameNumber(feed(dec, f), dec)
         \/ TakesNumber(feed(dec, f), f) /\ Paired(dec) /\ ~Replayed(dec, f)
<1> DEFINE d == NoteTime(dec)
<1>1. /\ d \in Decoders /\ d.lat = dec.lat /\ d.lon = dec.lon /\ d.command = dec.command
      /\ d.hasExpected = dec.hasExpected /\ d.expected = dec.expected
  BY DEF NoteTime, Decoders
<1> HIDE DEF d
<1>2. CASE f.id = "lat"
  <2>1. feed(dec, f) = [d EXCEPT !.lat = f, !.event = "STORED"]
    BY <1>2 DEF feed, d
  <2> QED BY <1>1, <2>1 DEF Decoders, SameNumber
<1>3. CASE f.id = "lon"
  <2>1. feed(dec, f) = [d EXCEPT !.lon = f, !.event = "STORED"]
    BY <1>3 DEF feed, d
  <2> QED BY <1>1, <2>1 DEF Decoders, SameNumber
<1>4. CASE f.id = "st" /\ (~Paired(d) \/ Replayed(d, f))
  <2>1. feed(dec, f) = [Cleared(d) EXCEPT !.event = "REJECTED"]
    BY <1>4 DEF feed, d
  <2> QED BY <1>1, <2>1 DEF Decoders, SameNumber, Cleared
<1>5. CASE f.id = "st" /\ Paired(d) /\ ~Replayed(d, f)
  <2>1. feed(dec, f) = Accepted(d, f)
    BY <1>5 DEF feed, d
  <2>2. Paired(dec) /\ ~Replayed(dec, f)
    BY <1>1, <1>5 DEF Paired, Replayed
  <2>3. f # NoFrame
    BY <1>5, NoFrameShape
  <2>4. feed(dec, f).command.st = f /\ NoCommand.st = NoFrame
    BY <2>1 DEF Accepted, NoCommand
  <2>5. feed(dec, f).command # NoCommand
    BY <2>3, <2>4
  <2>6. feed(dec, f).hasExpected /\ feed(dec, f).expected = (f.seq + 1) % SeqMod
    BY <2>1 DEF Accepted
  <2> QED BY <1>5, <2>2, <2>4, <2>5, <2>6 DEF TakesNumber
<1> QED BY <1>2, <1>3, <1>4, <1>5

LEMMA FeedFdOutcome ==
  ASSUME NEW dec \in Decoders, NEW num \in Nat, Keeps(dec, num), NEW f, Batch(f.parts, num)
  PROVE  SameNumber(feed_fd(dec, f), dec) \/ TakesNumber(feed_fd(dec, f), f.parts[3])
<1> DEFINE p == f.parts
           d1 == feed(dec, p[1])
           d2 == feed(d1, p[2])
<1>1. /\ p[1] \in CanFrames /\ p[2] \in CanFrames /\ p[3] \in CanFrames
      /\ Sent(p[1], num) /\ Sent(p[2], num)
      /\ p[1].id = "lat" /\ p[2].id = "lon" /\ p[3].id = "st" /\ Follows(p[1], p[2])
  BY DEF Batch, Follows
<1>2. feed_fd(dec, f) = feed(d2, p[3])
  BY DEF feed_fd
<1> HIDE DEF p
<1>3. Starts(dec, p[1])
  BY <1>1 DEF Starts
<1>4. /\ d1 \in Decoders /\ Keeps(d1, num) /\ Starts(d1, p[2])
      /\ SameNumber(d1, dec) \/ TakesNumber(d1, p[1])
  BY <1>1, <1>3, FeedKeeps, FeedOutcome
<1> HIDE DEF d1
<1>5. d2 \in Decoders /\ (SameNumber(d2, d1) \/ TakesNumber(d2, p[2]))
  BY <1>1, <1>4, FeedKeeps, FeedOutcome
<1> HIDE DEF d2
<1>6. SameNumber(d2, dec)
  BY <1>1, <1>4, <1>5 DEF SameNumber, TakesNumber
<1>7. SameNumber(feed(d2, p[3]), d2) \/ TakesNumber(feed(d2, p[3]), p[3])
  BY <1>1, <1>5, FeedOutcome
<1> QED BY <1>2, <1>6, <1>7 DEF SameNumber, p

\* The watchdog forgets the number together with both halves.
LEMMA PollOutcome ==
  ASSUME NEW dec \in Decoders
  PROVE  LET polled == poll_watchdog(dec)
         IN /\ polled \in Decoders /\ polled.command = dec.command
            /\ \/ SameNumber(polled, dec)
               \/ ~polled.hasExpected /\ ~Paired(polled)
BY NoFrameShape DEF poll_watchdog, NoteTime, Cleared, Decoders, SameNumber, Paired

LEMMA ReadOutcome ==
  ASSUME CanInv, BridgeReads
  PROVE  LET f == canBus[1]
         IN \/ /\ canDec'.command = canDec.command
               /\ canDec'.hasExpected => canDec.hasExpected /\ canDec'.expected = canDec.expected
            \/ /\ TakesNumber(canDec', StatusOf(f))
               /\ f.id # "fd" => ~Replayed(canDec, StatusOf(f))
<1> DEFINE polled == poll_watchdog(canDec)
           f == canBus[1]
           dec == IF f.id = "fd" THEN feed_fd(polled, f) ELSE feed(polled, f)
<1>1. /\ canBus # << >> /\ canBus \in Seq(WireFrames) /\ Ordered(canBus, canDec, canNum)
      /\ canDec \in Decoders /\ canNum \in Nat /\ Keeps(canDec, canNum)
  BY CanNumbers DEF CanInv, CanTypes, Traffic, BridgeReads
<1>2. f = Head(canBus) /\ f \in WireFrames /\ Len(canBus) >= 1
  BY <1>1
<1>3. canDec' = dec
  BY <1>2 DEF BridgeReads, BridgeApplies
<1> HIDE DEF f
<1>4. OnWire(f, canNum)
  BY <1>1, <1>2 DEF Ordered, f
<1>5. /\ polled \in Decoders /\ Keeps(polled, canNum) /\ polled.command = canDec.command
      /\ SameNumber(polled, canDec) \/ (~polled.hasExpected /\ ~Paired(polled))
  BY <1>1, PollKeeps, PollOutcome
<1> HIDE DEF polled
<1>6. CASE f.id = "fd"
  <2>1. SameNumber(dec, polled) \/ TakesNumber(dec, StatusOf(f))
    BY <1>1, <1>4, <1>5, <1>6, FeedFdOutcome DEF OnWire, StatusOf
  <2> HIDE DEF dec
  <2> QED BY <1>3, <1>5, <1>6, <2>1 DEF SameNumber, f
<1>7. CASE f.id # "fd"
  <2>1. dec = feed(polled, f) /\ StatusOf(f) = f /\ f.id \in {"lat", "lon", "st"}
    BY <1>4, <1>7 DEF OnWire, Sent, StatusOf
  <2> HIDE DEF dec
  <2>2. SameNumber(dec, polled) \/ (TakesNumber(dec, f) /\ Paired(polled) /\ ~Replayed(polled, f))
    BY <1>5, <2>1, FeedOutcome
  <2> QED BY <1>3, <1>5, <1>7, <2>1, <2>2 DEF SameNumber, Replayed, f
<1> QED BY <1>6, <1>7

-----------------------------------------------------------------------------
(* The order of the sends is kept.                                         *)

\* Steps that put nothing on the bus.
LEMMA QuietTurns ==
  ASSUME CanInv, Turns, UNCHANGED <<canVia, canBus, canDec>>, canNum' \in Nat, canNum <= canNum',
         canMail' \subseteq canMail, \A i \in 1 .. Len(canTodo') : canTodo'[i].n = canNum'
  PROVE  Turns'
<1>1. canDec.command.st.n \in 0 .. canNum'
  BY BusNumbers DEF Turns
<1> QED BY <1>1 DEF Turns

LEMMA SenderTurns ==
  ASSUME CanInv, Turns, NEW m \in CanMessages,
         \/ SendRefused(m)
         \/ \E k \in 0 .. 3 : SendClassic(m, k)
         \/ \E k \in 0 .. 1 : SendFd(m, k)
         \/ \E ok \in BOOLEAN : SendUdp(m, ok)
         \/ SendZephyr(m)
  PROVE  Turns'
<1>1. /\ canNum \in Nat /\ canNum' = canNum + 1 /\ canNum' \in Nat /\ canSeq \in Int /\ canTodo = << >>
      /\ canVia' = canVia /\ canDec' = canDec /\ canMail' = canMail
  <2>1. canNum \in Nat /\ canSeq \in Int
    BY BusNumbers, CanNumbers DEF CanInv, CanTypes
  <2>2. /\ canNum' = canNum + 1 /\ canTodo = << >> /\ UNCHANGED <<canVia, canMail, bridgeVars>>
    BY DEF SendRefused, SendClassic, SendFd, SendUdp, SendZephyr, MaySend
  <2> QED BY <2>1, <2>2 DEF bridgeVars
<1>2. canDec.command.st.n \in 0 .. canNum /\ canDec.command.st.n \in 0 .. canNum'
  BY <1>1 DEF Turns
<1>3. Encodable(m) => LET b == encode_control_command(m, canNum', canSeq)
                      IN /\ Batch(b, canNum') /\ Len(b) = 3
                         /\ \A i \in 1 .. 3 : b[i].n = canNum'
  <2> SUFFICES ASSUME Encodable(m)
               PROVE  LET b == encode_control_command(m, canNum', canSeq)
                      IN /\ Batch(b, canNum') /\ Len(b) = 3
                         /\ \A i \in 1 .. 3 : b[i].n = canNum'
    OBVIOUS
  <2> DEFINE b == encode_control_command(m, canNum', canSeq)
  <2>1. canNum' > 0
    BY <1>1
  <2>2. Batch(b, canNum') /\ \A i \in 1 .. 3 : b[i].n = canNum'
    BY <1>1, <2>1, EncodedBatch
  <2> HIDE DEF b
  <2>3. Len(b) = 3
    BY <2>2 DEF Batch
  <2> QED BY <2>2, <2>3 DEF b
<1>4. \A i \in 1 .. Len(canBus) : StatusOf(canBus[i]).n < canNum'
  BY <1>1, BusNumbers
<1>5. CASE SendRefused(m)
  <2>1. canTodo' = << >> /\ canBus' = canBus
    BY <1>1, <1>5 DEF SendRefused
  <2> QED BY <1>1, <2>1, QuietTurns
<1>6. CASE \E ok \in BOOLEAN : SendUdp(m, ok)
  <2>1. canTodo' = << >> /\ canBus' = canBus
    BY <1>1, <1>6 DEF SendUdp
  <2> QED BY <1>1, <2>1, QuietTurns
<1>7. CASE SendZephyr(m)
  <2>1. canTodo' = encode_control_command(m, canNum', canSeq) /\ canBus' = canBus /\ Encodable(m)
    BY <1>1, <1>7 DEF SendZephyr
  <2>2. \A i \in 1 .. Len(canTodo') : canTodo'[i].n = canNum'
    BY <1>3, <2>1
  <2> QED BY <1>1, <2>1, <2>2, QuietTurns
<1>8. ASSUME NEW k \in 0 .. 3, SendClassic(m, k) PROVE Turns'
  <2> DEFINE b == encode_control_command(m, canNum', canSeq)
  <2>1. /\ canVia = "socketcan" /\ canBus' = canBus \o SubSeq(b, 1, k) /\ canTodo' = << >>
        /\ canMail' = {} /\ Encodable(m)
    BY <1>1, <1>8 DEF SendClassic, CanInv, Traffic
  <2>2. Batch(b, canNum') /\ b[1].n = canNum'
    BY <1>3, <2>1
  <2> HIDE DEF b
  <2>3. /\ Before(canVia, canDec.command.st.n, canNum')
        /\ \A i \in 1 .. Len(canBus) : Before(canVia, StatusOf(canBus[i]).n, canNum')
    BY <1>1, <1>2, <1>4, <2>1, BusNumbers DEF Before
  <2>4. InTurn(canVia, canBus', canDec.command.st.n)
    <3>1. canVia # "fd" /\ InTurn(canVia, canBus, canDec.command.st.n) /\ canNum' \in Int
      BY <1>1, <2>1 DEF Turns
    <3>2. InTurn(canVia, canBus \o SubSeq(b, 1, k), canDec.command.st.n)
      BY <2>2, <2>3, <3>1, BusNumbers, BatchInTurn
    <3> QED BY <2>1, <3>2
  <2> QED BY <1>1, <1>2, <2>1, <2>4 DEF Turns
<1>9. ASSUME NEW k \in 0 .. 1, SendFd(m, k) PROVE Turns'
  <2> DEFINE f == encode_control_command_fd(m, canNum', canSeq)
  <2>1. /\ canVia = "fd" /\ canBus' \in {canBus, Append(canBus, f)} /\ canTodo' = << >>
        /\ canMail' = {} /\ Encodable(m)
    BY <1>1, <1>9 DEF SendFd, CanInv, Traffic
  <2>2. StatusOf(f).n = canNum' /\ f \in WireFrames
    BY <1>3, <2>1 DEF encode_control_command_fd, StatusOf, Batch, WireFrames
  <2> HIDE DEF f
  <2>3. /\ Before(canVia, canDec.command.st.n, canNum')
        /\ \A i \in 1 .. Len(canBus) : Before(canVia, StatusOf(canBus[i]).n, canNum')
    BY <1>1, <1>2, <1>4, <2>1, BusNumbers DEF Before
  <2>4. InTurn(canVia, canBus', canDec.command.st.n)
    BY <1>1, <2>1, <2>2, <2>3, BusNumbers, AppendInTurn DEF Turns
  <2> QED BY <1>1, <1>2, <2>1, <2>4 DEF Turns
<1> QED BY <1>5, <1>6, <1>7, <1>8, <1>9

LEMMA GatewayTurns ==
  ASSUME CanInv, Turns, NEW d \in canNet, NEW k \in 0 .. 3, NEW again \in BOOLEAN,
         Gateway(d, k, again)
  PROVE  Turns'
<1>1. Batch(d.frames, canNum) /\ canVia = "udp" /\ canMail = {} /\ canTodo = << >>
  BY DEF CanInv, Traffic
<1>2. /\ canBus' \in {canBus, canBus \o SubSeq(d.frames, 1, k)}
      /\ d.frames[1].n > canNum - MaxDelay
      /\ canVia' = canVia /\ canMail' = canMail /\ canTodo' = canTodo /\ canNum' = canNum
      /\ canDec' = canDec
  BY DEF Gateway, senderVars, bridgeVars
<1>3. d.frames[1].n \in Int
  BY <1>1 DEF Batch, Sent
<1>4. canDec.command.st.n \in 0 .. canNum
  BY DEF Turns
<1>5. ASSUME NEW x \in 0 .. canNum PROVE Before(canVia, x, d.frames[1].n)
  <2>1. PICK last \in Nat : last = canNum
    BY BusNumbers
  <2>2. PICK n \in Int : n = d.frames[1].n
    BY <1>3
  <2>3. PICK delay \in Nat : delay = MaxDelay
    BY CanNumbers
  <2>4. x \in Int /\ x <= last
    BY <2>1
  <2>5. x < n + delay
    BY <1>2, <2>1, <2>2, <2>3, <2>4
  <2> QED BY <1>1, <2>2, <2>3, <2>5, Zenon DEF Before
<1>6. InTurn(canVia, canBus', canDec.command.st.n)
  <2>1. \A i \in 1 .. Len(canBus) : Before(canVia, StatusOf(canBus[i]).n, d.frames[1].n)
    BY <1>5, BusNumbers
  <2>2. canVia # "fd" /\ InTurn(canVia, canBus, canDec.command.st.n)
    BY <1>1 DEF Turns
  <2>3. Before(canVia, canDec.command.st.n, d.frames[1].n)
    BY <1>4, <1>5
  <2>4. InTurn(canVia, canBus \o SubSeq(d.frames, 1, k), canDec.command.st.n)
    BY <1>1, <1>3, <2>1, <2>2, <2>3, BusNumbers, BatchInTurn
  <2> QED BY <1>2, <2>2, <2>4
<1> QED BY <1>1, <1>2, <1>4, <1>6 DEF Turns

LEMMA QueueFrameTurns ==
  ASSUME CanInv, Turns, QueueFrame
  PROVE  Turns'
<1> DEFINE f == Head(canTodo)
<1>1. /\ canMail' = canMail \cup {f} /\ canTodo # << >>
      /\ UNCHANGED <<canVia, canNum, canTodo, canBus, canDec>>
  BY DEF QueueFrame, bridgeVars
<1>2. f = canTodo[1] /\ 1 \in 1 .. Len(canTodo)
  BY <1>1, DriverFacts
<1> HIDE DEF f
<1>3. f.n = canNum
  BY <1>2 DEF Turns
<1>4. \A g \in canMail' : /\ canDec.command.st.n <= g.n
                          /\ \A i \in 1 .. Len(canBus) : StatusOf(canBus[i]).n <= g.n
  <2>1. canDec.command.st.n <= f.n /\ \A i \in 1 .. Len(canBus) : StatusOf(canBus[i]).n <= f.n
    BY <1>3, BusNumbers DEF Turns
  <2> QED BY <1>1, <2>1 DEF Turns
<1> QED BY <1>1, <1>4 DEF Turns

LEMMA TxDoneTurns ==
  ASSUME CanInv, Turns, NEW f \in canMail, NEW err \in 0 .. 1, TxDone(f, err)
  PROVE  Turns'
<1>1. /\ canMail' = canMail \ {f} /\ canBus' \in {canBus, Append(canBus, f)} /\ canVia = "zephyr"
      /\ UNCHANGED <<canVia, canNum, canTodo, canDec>>
  BY DriverFacts DEF TxDone, bridgeVars
<1>2. canMail' = {}
  BY <1>1, DriverFacts DEF Driver
<1>3. f \in WireFrames /\ StatusOf(f) = f /\ f.id # "fd"
  BY DriverFacts DEF Driver, Sent, StatusOf, WireFrames
<1>4. /\ Before(canVia, canDec.command.st.n, f.n)
      /\ \A i \in 1 .. Len(canBus) : Before(canVia, StatusOf(canBus[i]).n, f.n)
  BY <1>1 DEF Turns, Before
<1>5. InTurn(canVia, canBus', canDec.command.st.n)
  BY <1>1, <1>3, <1>4, BusNumbers, AppendInTurn DEF Turns
<1> QED BY <1>1, <1>2, <1>5 DEF Turns

LEMMA DriverTurns ==
  ASSUME CanInv, Turns, QueueFails \/ WaitEnds \/ WaitTimesOut
  PROVE  Turns'
<1>1. UNCHANGED <<canVia, canNum, canMail, canBus, canDec>>
  BY DEF QueueFails, WaitEnds, WaitTimesOut, bridgeVars
<1>2. canTodo' = << >> \/ (WaitEnds /\ canTodo' = Tail(canTodo))
  BY DEF QueueFails, WaitEnds, WaitTimesOut, FailBatch
<1>3. CASE canTodo' = << >>
  BY <1>1, <1>3, BusNumbers, QuietTurns
<1>4. CASE WaitEnds /\ canTodo' = Tail(canTodo)
  <2>1. canTodo # << >>
    <3>1. canCtx.state = "Waiting"
      BY <1>4 DEF WaitEnds
    <3> QED BY <3>1, DriverFacts DEF Driver
  <2>2. \A i \in 1 .. Len(canTodo') : canTodo'[i] = canTodo[i + 1] /\ i + 1 \in 1 .. Len(canTodo)
    BY <1>4, <2>1, DriverFacts
  <2>3. \A i \in 1 .. Len(canTodo') : canTodo'[i].n = canNum'
    BY <1>1, <2>2 DEF Turns
  <2> QED BY <1>1, <2>3, BusNumbers, QuietTurns
<1> QED BY <1>2, <1>3, <1>4

LEMMA BridgeTurns ==
  ASSUME CanInv, Turns, BridgeReads \/ BridgeWaits \/ FdLoses \/ CanTicks
  PROVE  Turns'
<1>1. UNCHANGED <<canVia, canNum, canMail, canTodo>>
  BY DEF BridgeReads, BridgeWaits, FdLoses, CanTicks, senderVars
<1>2. CASE BridgeReads \/ FdLoses
  <2> DEFINE now == canDec'.command.st.n
             s == StatusOf(canBus[1]).n
  <2>1. canBus # << >> /\ canBus' = Tail(canBus) /\ canBus \in Seq(WireFrames)
    BY <1>2, BusNumbers DEF BridgeReads, FdLoses
  <2>2. now \in {canDec.command.st.n, s}
    BY <1>2, ReadOutcome DEF TakesNumber, FdLoses, bridgeVars
  <2>3. /\ Len(canBus') = Len(canBus) - 1 /\ 1 \in 1 .. Len(canBus)
        /\ \A i \in 1 .. Len(canBus') : canBus'[i] = canBus[i + 1] /\ i + 1 \in 1 .. Len(canBus)
    BY <2>1, BusNumbers
  <2>4. InTurn(canVia, canBus', now)
    BY <2>1, <2>2, TailInTurn DEF Turns
  <2>5. now \in 0 .. canNum /\ \A f \in canMail : now <= f.n
    BY <2>2, <2>3, BusNumbers DEF Turns
  <2>6. \A f \in canMail : \A i \in 1 .. Len(canBus') : StatusOf(canBus'[i]).n <= f.n
    BY <2>3 DEF Turns
  <2> QED BY <1>1, <2>4, <2>5, <2>6 DEF Turns
<1>3. CASE BridgeWaits \/ CanTicks
  <2>1. canDec \in Decoders
    BY DEF CanInv, CanTypes
  <2>2. canDec'.command = canDec.command
    <3>1. CASE BridgeWaits
      BY <3>1, <2>1, PollOutcome DEF BridgeWaits, BridgeApplies
    <3>2. CASE CanTicks
      BY <3>2, <2>1 DEF CanTicks, Decoders
    <3> QED BY <1>3, <3>1, <3>2
  <2>3. canBus' = canBus
    BY <1>3 DEF BridgeWaits, CanTicks
  <2> QED BY <1>1, <2>2, <2>3 DEF Turns
<1> QED BY <1>2, <1>3

LEMMA NextTurns == CanInv /\ Turns /\ [CanNext]_canVars => Turns'
<1> SUFFICES ASSUME CanInv, Turns, [CanNext]_canVars PROVE Turns'
  OBVIOUS
<1>1. CASE CanNext
  <2>1. ASSUME NEW d \in canNet, Loses(d) PROVE Turns'
    <3>1. UNCHANGED <<canVia, canNum, canMail, canTodo, canBus, canDec>>
      BY <2>1 DEF Loses, senderVars, bridgeVars
    <3> QED BY <3>1 DEF Turns
  <2> QED BY <1>1, <2>1, SenderTurns, GatewayTurns, QueueFrameTurns, TxDoneTurns, DriverTurns,
             BridgeTurns DEF CanNext
<1>2. CASE UNCHANGED canVars
  BY <1>2 DEF canVars, Turns
<1> QED BY <1>1, <1>2

-----------------------------------------------------------------------------
(* The numbers the sends carry, counted without the wrap: A[i] is the      *)
(* count send i was made at, a the count of the next one.                  *)

Counts(A, a, num) ==
  /\ A \in [Nat -> Nat] /\ a \in Nat
  /\ \A i, j \in 1 .. num : i <= j => A[i] <= A[j] /\ A[j] <= A[i] + (j - i)
  /\ \A i \in 1 .. num : A[i] <= a /\ a <= A[i] + (num + 1 - i)

Dated(f, A) ==
  StatusOf(f).id = "st" => StatusOf(f).seq = A[StatusOf(f).n] % SeqMod

Numbered(A, a) ==
  /\ Counts(A, a, canNum) /\ canSeq = a % SeqMod
  /\ canTodo # << >> => canNum > 0 /\ a = A[canNum]
  /\ \A i \in 1 .. Len(canTodo) : Dated(canTodo[i], A)
  /\ \A f \in canMail : Dated(f, A)
  /\ \A i \in 1 .. Len(canBus) : Dated(canBus[i], A)
  /\ \A d \in canNet : Dated(d.frames[3], A)
  /\ canDec.hasExpected =>
       /\ canDec.command # NoCommand /\ canDec.command.st.n \in 1 .. canNum
       /\ canDec.expected = (A[canDec.command.st.n] + 1) % SeqMod

\* The signed distance of two counts survives the wrap of both.
LEMMA Delta ==
  ASSUME NEW a \in Int, NEW b \in Int
  PROVE  seq_delta(a % SeqMod, (b + 1) % SeqMod)
           = ((a - b - 1 + SeqMod \div 2) % SeqMod) - SeqMod \div 2
<1> DEFINE h == SeqMod \div 2
           v == b + 1
           e == v % SeqMod
<1>1. h \in Nat /\ SeqMod \in Nat /\ SeqMod > 0 /\ v \in Int /\ v = b + 1
  BY CanNumbers
<1> HIDE DEF v
<1>2. PICK p \in Int, r \in 0 .. SeqMod - 1 : v = p * SeqMod + r
  BY <1>1, Quotient
<1>3. e = r
  <2>1. SeqMod \in Nat /\ SeqMod > 0 /\ v \in Int
    BY <1>1
  <2> QED BY <1>2, <2>1, Remainder
<1>4. seq_delta(a % SeqMod, e) = (((a % SeqMod) - e + h) % SeqMod) - h
  BY DEF seq_delta
<1>5. a % SeqMod \in Int
  BY <1>1
<1> HIDE DEF h, e
<1> DEFINE k == h - r
           x == a - b - 1 + h
<1>6. k \in Int /\ x \in Int
  BY <1>1, <1>2
<1>7. (a % SeqMod) - e + h = (a % SeqMod) + k
  BY <1>1, <1>2, <1>3, <1>5
<1>8. a + k = x + p * SeqMod
  BY <1>1, <1>2
<1> HIDE DEF k, x
<1>9. ((a % SeqMod) + k) % SeqMod = (a + k) % SeqMod
  BY <1>1, <1>6, ModAdd
<1>10. (a + k) % SeqMod = x % SeqMod
  <2>1. p \in Int /\ SeqMod \in Nat /\ SeqMod > 0 /\ x \in Int
    BY <1>1, <1>2, <1>6
  <2>2. (x + p * SeqMod) % SeqMod = x % SeqMod
    BY <2>1, ModShift, Zenon
  <2> QED BY <1>8, <2>2, Zenon
<1> QED BY <1>4, <1>7, <1>9, <1>10 DEF e, h, v, x

LEMMA DeltaType ==
  ASSUME NEW a \in Int, NEW b \in Int
  PROVE  seq_delta(a % SeqMod, (b + 1) % SeqMod) \in Int
<1> DEFINE x == a - b - 1 + SeqMod \div 2
<1>1. x \in Int /\ SeqMod \in Nat /\ SeqMod > 0 /\ SeqMod \div 2 \in Nat
  BY CanNumbers
<1>2. seq_delta(a % SeqMod, (b + 1) % SeqMod) = (x % SeqMod) - SeqMod \div 2
  BY Delta
<1> HIDE DEF x
<1>3. x % SeqMod \in Int
  BY <1>1
<1> QED BY <1>1, <1>2, <1>3

\* A number that is not ahead, and less than half the range behind, is a replay.
LEMMA NotAheadIsReplay ==
  ASSUME NEW a \in Int, NEW b \in Int, a <= b, b - a < SeqMod \div 2
  PROVE  seq_delta(a % SeqMod, (b + 1) % SeqMod) < 0
<1> DEFINE x == a - b - 1 + SeqMod \div 2
<1>1. x \in Int /\ 0 <= x /\ x < SeqMod /\ x = 0 * SeqMod + x /\ x < SeqMod \div 2
  BY CanNumbers
<1>2. seq_delta(a % SeqMod, (b + 1) % SeqMod) = (x % SeqMod) - SeqMod \div 2
  BY Delta
<1> HIDE DEF x
<1>3. x % SeqMod = x
  BY <1>1, CanNumbers, Remainder
<1> QED BY <1>1, <1>2, <1>3, CanNumbers

\* A number ahead by no more than half the range is not.
LEMMA AheadIsNoReplay ==
  ASSUME NEW a \in Int, NEW b \in Int, a > b, a - b <= SeqMod \div 2
  PROVE  seq_delta(a % SeqMod, (b + 1) % SeqMod) >= 0
<1> DEFINE x == a - b - 1 + SeqMod \div 2
<1>1. x \in Int /\ x >= SeqMod \div 2 /\ x < SeqMod /\ x = 0 * SeqMod + x
  BY CanNumbers
<1>2. seq_delta(a % SeqMod, (b + 1) % SeqMod) = (x % SeqMod) - SeqMod \div 2
  BY Delta
<1> HIDE DEF x
<1>3. x % SeqMod = x
  BY <1>1, CanNumbers, Remainder
<1> QED BY <1>1, <1>2, <1>3, CanNumbers

LEMMA CountsOn ==
  ASSUME NEW num \in Nat, NEW A, NEW a, Counts(A, a, num), NEW next \in {a, a + 1}
  PROVE  Counts([A EXCEPT ![num + 1] = a], next, num + 1)
<1> DEFINE B == [A EXCEPT ![num + 1] = a]
<1>1. A \in [Nat -> Nat] /\ a \in Nat /\ next \in Nat /\ a <= next /\ next <= a + 1
  BY DEF Counts
<1>2. B \in [Nat -> Nat] /\ B[num + 1] = a /\ \A i \in 1 .. num : B[i] = A[i]
  BY <1>1
<1> HIDE DEF B
<1>3. ASSUME NEW i \in 1 .. num + 1, NEW j \in 1 .. num + 1, i <= j
      PROVE  B[i] <= B[j] /\ B[j] <= B[i] + (j - i)
  <2>1. CASE j <= num
    BY <1>2, <1>3, <2>1 DEF Counts
  <2>2. CASE j = num + 1 /\ i <= num
    <3>1. A[i] <= a /\ a <= A[i] + (num + 1 - i)
      BY <2>2 DEF Counts
    <3> QED BY <1>2, <2>2, <3>1
  <2>3. CASE j = num + 1 /\ i = num + 1
    BY <1>1, <1>2, <2>3
  <2> QED BY <1>3, <2>1, <2>2, <2>3
<1>4. ASSUME NEW i \in 1 .. num + 1
      PROVE  B[i] <= next /\ next <= B[i] + (num + 1 + 1 - i)
  <2>1. CASE i <= num
    <3>1. A[i] <= a /\ a <= A[i] + (num + 1 - i) /\ A[i] \in Nat
      BY <1>1, <2>1 DEF Counts
    <3> QED BY <1>1, <1>2, <2>1, <3>1
  <2>2. CASE i = num + 1
    BY <1>1, <1>2, <2>2
  <2> QED BY <2>1, <2>2
<1> QED BY <1>1, <1>2, <1>3, <1>4 DEF Counts, B
LEMMA NextCount ==
  ASSUME NEW a \in Nat
  PROVE  ((a % SeqMod) + 1) % SeqMod = (a + 1) % SeqMod
<1>1. SeqMod \in Nat /\ SeqMod > 0 /\ a \in Int /\ 1 \in Int
  BY CanNumbers
<1>2. (a + 1) % SeqMod = ((a % SeqMod) + 1) % SeqMod
  BY <1>1, ModAdd
<1> QED BY <1>2

\* A batch sent whole: the count of the next send is one more than its own.
LEMMA CountsAdvance ==
  ASSUME NEW num \in Nat, num > 0, NEW A, NEW a, Counts(A, a, num), a = A[num]
  PROVE  Counts(A, a + 1, num)
<1>1. A \in [Nat -> Nat] /\ a \in Nat
  BY DEF Counts
<1>2. ASSUME NEW i \in 1 .. num PROVE A[i] <= a + 1 /\ a + 1 <= A[i] + (num + 1 - i)
  <2>1. A[num] <= A[i] + (num - i) /\ A[i] <= a
    BY DEF Counts
  <2>2. A[i] \in Nat
    BY <1>1
  <2> QED BY <1>1, <2>1, <2>2
<1> QED BY <1>1, <1>2 DEF Counts

\* An old frame keeps its number when a send is counted.
LEMMA DatedOn ==
  ASSUME NEW num \in Nat, NEW A \in [Nat -> Nat], NEW a \in Nat, NEW f,
         StatusOf(f).n \in 1 .. num, Dated(f, A)
  PROVE  Dated(f, [A EXCEPT ![num + 1] = a])
<1>1. [A EXCEPT ![num + 1] = a][StatusOf(f).n] = A[StatusOf(f).n]
  OBVIOUS
<1> QED BY <1>1 DEF Dated

LEMMA CountedAt ==
  ASSUME NEW num \in Nat, NEW A \in [Nat -> Nat], NEW a \in Nat,
         NEW B, B = [A EXCEPT ![num + 1] = a]
  PROVE  B[num + 1] = a /\ \A i \in 1 .. num : B[i] = A[i]
OBVIOUS

\* The sender counts a send; nothing older is renumbered.
LEMMA CountsSend ==
  ASSUME CanInv, Turns, NEW A, NEW a, Numbered(A, a), NEW num, num = canNum,
         NEW B, B = [A EXCEPT ![num + 1] = a],
         NEW next \in {a, a + 1}, canNum' = num + 1, canSeq' = next % SeqMod,
         canDec' = canDec, canMail' = canMail,
         canTodo' # << >> => next = a,
         \A i \in 1 .. Len(canTodo') : Dated(canTodo'[i], B),
         \A i \in 1 .. Len(canBus') : Dated(canBus'[i], B),
         \A d \in canNet' : Dated(d.frames[3], B)
  PROVE  Numbered(B, next)'
<1>1. num \in Nat /\ Counts(A, a, num) /\ A \in [Nat -> Nat] /\ a \in Nat
  BY BusNumbers DEF Numbered, Counts
<1>2. Counts(B, next, num + 1)
  BY <1>1, CountsOn
<1>3. \A f \in canMail' : Dated(f, B)
  <2> SUFFICES ASSUME NEW f \in canMail PROVE Dated(f, B)
    OBVIOUS
  <2>1. StatusOf(f).n \in 1 .. num /\ Dated(f, A)
    BY DriverFacts DEF Driver, Sent, StatusOf, Numbered
  <2> QED BY <1>1, <2>1, DatedOn
<1>4. B[num + 1] = a /\ \A i \in 1 .. num : B[i] = A[i]
  BY <1>1, CountedAt
<1>5. canDec'.hasExpected =>
       /\ canDec'.command # NoCommand /\ canDec'.command.st.n \in 1 .. canNum'
       /\ canDec'.expected = (B[canDec'.command.st.n] + 1) % SeqMod
  <2>1. canDec.hasExpected =>
         /\ canDec.command # NoCommand /\ canDec.command.st.n \in 1 .. num
         /\ canDec.expected = (A[canDec.command.st.n] + 1) % SeqMod
    BY DEF Numbered
  <2>2. \A i \in 1 .. num : i \in 1 .. num + 1
    BY <1>1
  <2> QED BY <1>4, <2>1, <2>2
<1>6. canTodo' # << >> => canNum' > 0 /\ next = B[canNum']
  BY <1>1, <1>4
<1> QED BY <1>2, <1>3, <1>5, <1>6 DEF Numbered

\* What was on the bus and in flight before the send.
LEMMA OldDated ==
  ASSUME CanInv, NEW A, NEW a, Numbered(A, a), NEW num, num = canNum
  PROVE  /\ \A i \in 1 .. Len(canBus) : Dated(canBus[i], [A EXCEPT ![num + 1] = a])
         /\ \A d \in canNet : Dated(d.frames[3], [A EXCEPT ![num + 1] = a])
<1>1. num \in Nat /\ A \in [Nat -> Nat] /\ a \in Nat
  BY BusNumbers DEF Numbered, Counts
<1>2. ASSUME NEW i \in 1 .. Len(canBus) PROVE Dated(canBus[i], [A EXCEPT ![num + 1] = a])
  BY <1>1, BusNumbers, DatedOn DEF Numbered
<1>3. ASSUME NEW d \in canNet PROVE Dated(d.frames[3], [A EXCEPT ![num + 1] = a])
  <2>1. StatusOf(d.frames[3]).n \in 1 .. num
    BY DEF CanInv, Traffic, Batch, Sent, StatusOf
  <2> QED BY <1>1, <2>1, DatedOn DEF Numbered
<1> QED BY <1>2, <1>3

\* The frames of the new send carry its number.
LEMMA NewDated ==
  ASSUME NEW m \in CanMessages, Encodable(m), NEW num \in Nat, NEW A \in [Nat -> Nat],
         NEW a \in Nat, NEW b, b = encode_control_command(m, num + 1, a % SeqMod)
  PROVE  \A i \in 1 .. 3 : Dated(b[i], [A EXCEPT ![num + 1] = a])
<1>1. a % SeqMod \in Int /\ num + 1 > 0 /\ num + 1 \in Nat
  BY CanNumbers
<1>2. Batch(b, num + 1) /\ (\A i \in 1 .. 3 : b[i].n = num + 1) /\ b[3].seq = a % SeqMod
  BY <1>1, EncodedBatch
<1>3. [A EXCEPT ![num + 1] = a][num + 1] = a
  BY <1>1
<1>4. Dated(b[1], [A EXCEPT ![num + 1] = a]) /\ Dated(b[2], [A EXCEPT ![num + 1] = a])
  BY <1>2 DEF Batch, Dated, StatusOf
<1>5. Dated(b[3], [A EXCEPT ![num + 1] = a])
  <2>1. b[3].id = "st" /\ b[3].n = num + 1 /\ b[3].seq = a % SeqMod
    BY <1>2 DEF Batch
  <2>2. StatusOf(b[3]) = b[3]
    BY <2>1 DEF StatusOf
  <2> QED BY <1>3, <2>1, <2>2 DEF Dated
<1> QED BY <1>4, <1>5

LEMMA SenderNumbered ==
  ASSUME CanInv, Turns, NEW A, NEW a, Numbered(A, a), NEW m \in CanMessages,
         NEW num, num = canNum, NEW B, B = [A EXCEPT ![num + 1] = a]
  PROVE  /\ SendRefused(m) => Numbered(B, a)'
         /\ \A k \in 0 .. 3 : SendClassic(m, k) =>
              Numbered(B, IF k = 3 THEN a + 1 ELSE a)'
         /\ \A k \in 0 .. 1 : SendFd(m, k) =>
              Numbered(B, IF k = 1 THEN a + 1 ELSE a)'
         /\ \A ok \in BOOLEAN : SendUdp(m, ok) =>
              Numbered(B, IF ok THEN a + 1 ELSE a)'
         /\ SendZephyr(m) => Numbered(B, a)'
<1> DEFINE b == encode_control_command(m, num + 1, canSeq)
<1>1. num \in Nat /\ A \in [Nat -> Nat] /\ a \in Nat /\ canSeq = a % SeqMod
  BY BusNumbers DEF Numbered, Counts
<1>2. (canSeq + 1) % SeqMod = (a + 1) % SeqMod
  BY <1>1, NextCount
<1>3. Encodable(m) => /\ Batch(b, num + 1) /\ Len(b) = 3 /\ b # << >>
                      /\ \A i \in 1 .. 3 : Dated(b[i], B)
  <2> SUFFICES ASSUME Encodable(m) PROVE /\ Batch(b, num + 1) /\ Len(b) = 3 /\ b # << >>
                                         /\ \A i \in 1 .. 3 : Dated(b[i], B)
    OBVIOUS
  <2>1. num + 1 \in Nat /\ num + 1 > 0 /\ canSeq \in Int
    BY <1>1, CanNumbers
  <2>2. Batch(b, num + 1)
    BY <2>1, EncodedBatch
  <2>3. \A i \in 1 .. 3 : Dated(b[i], B)
    BY <1>1, NewDated
  <2> HIDE DEF b
  <2>4. Len(b) = 3 /\ b \in Seq(CanFrames)
    BY <2>2 DEF Batch
  <2>5. b # << >>
    BY <2>4
  <2> QED BY <2>2, <2>3, <2>4, <2>5
<1>4. /\ \A i \in 1 .. Len(canBus) : Dated(canBus[i], B)
      /\ \A d \in canNet : Dated(d.frames[3], B)
  BY OldDated
<1>5. canBus \in Seq(WireFrames)
  BY BusNumbers
<1>6. ASSUME SendRefused(m) PROVE Numbered(B, a)'
  <2>1. /\ canNum' = num + 1 /\ canSeq' = a % SeqMod /\ canDec' = canDec /\ canMail' = canMail
        /\ canTodo' = << >> /\ canBus' = canBus /\ canNet' = canNet
    BY <1>1, <1>6 DEF SendRefused, MaySend, SequenceAfter, bridgeVars
  <2>2. /\ \A i \in 1 .. Len(canBus') : Dated(canBus'[i], B)
        /\ \A d \in canNet' : Dated(d.frames[3], B)
    BY <1>4, <2>1
  <2>3. \A i \in 1 .. Len(canTodo') : Dated(canTodo'[i], B)
    BY <2>1
  <2>4. a \in {a, a + 1} /\ (canTodo' # << >> => a = a)
    OBVIOUS
  <2> QED BY <2>1, <2>2, <2>3, <2>4, CountsSend
<1>7. ASSUME NEW k \in 0 .. 3, SendClassic(m, k)
      PROVE  Numbered(B, IF k = 3 THEN a + 1 ELSE a)'
  <2>1. /\ canNum' = num + 1 /\ canSeq' = (IF k = 3 THEN a + 1 ELSE a) % SeqMod
        /\ canDec' = canDec /\ canMail' = canMail /\ canTodo' = << >> /\ canNet' = canNet
        /\ canBus' = canBus \o SubSeq(b, 1, k) /\ Encodable(m)
    BY <1>1, <1>2, <1>7 DEF SendClassic, MaySend, SequenceAfter, bridgeVars
  <2>2. \A i \in 1 .. Len(canBus') : Dated(canBus'[i], B)
    <3> DEFINE s == SubSeq(b, 1, k)
    <3>1. s \in Seq(CanFrames) /\ Len(s) = k /\ \A i \in 1 .. k : s[i] = b[i]
      BY <1>3, <2>1, BatchPrefix
    <3>2. s \in Seq(WireFrames)
      BY <3>1 DEF WireFrames
    <3>3. canBus' = canBus \o s
      BY <2>1
    <3> HIDE DEF s, b
    <3> SUFFICES ASSUME NEW i \in 1 .. Len(canBus') PROVE Dated(canBus'[i], B)
      OBVIOUS
    <3>4. CASE i <= Len(canBus)
      <4>1. canBus'[i] = canBus[i] /\ i \in 1 .. Len(canBus)
        BY <1>5, <3>1, <3>2, <3>3, <3>4
      <4> QED BY <1>4, <4>1
    <3>5. CASE i > Len(canBus)
      <4>1. i - Len(canBus) \in 1 .. k /\ canBus'[i] = s[i - Len(canBus)]
        BY <1>5, <3>1, <3>2, <3>3, <3>5
      <4>2. canBus'[i] = b[i - Len(canBus)] /\ i - Len(canBus) \in 1 .. 3
        BY <3>1, <4>1
      <4> QED BY <1>3, <2>1, <4>2
    <3> QED BY <1>5, <3>4, <3>5
  <2> DEFINE next == IF k = 3 THEN a + 1 ELSE a
  <2>3. next \in {a, a + 1} /\ canSeq' = next % SeqMod
    BY <2>1
  <2> HIDE DEF next
  <2>4. \A d \in canNet' : Dated(d.frames[3], B)
    BY <1>4, <2>1
  <2>5. /\ \A i \in 1 .. Len(canTodo') : Dated(canTodo'[i], B)
        /\ canTodo' # << >> => next = a
    BY <2>1
  <2>6. Numbered(B, next)'
    BY <2>1, <2>2, <2>3, <2>4, <2>5, CountsSend
  <2> QED BY <2>6 DEF next
<1>8. ASSUME NEW k \in 0 .. 1, SendFd(m, k)
      PROVE  Numbered(B, IF k = 1 THEN a + 1 ELSE a)'
  <2> DEFINE f == encode_control_command_fd(m, num + 1, canSeq)
  <2>1. /\ canNum' = num + 1 /\ canSeq' = (IF k = 1 THEN a + 1 ELSE a) % SeqMod
        /\ canDec' = canDec /\ canMail' = canMail /\ canTodo' = << >> /\ canNet' = canNet
        /\ canBus' \in {canBus, Append(canBus, f)} /\ Encodable(m)
    BY <1>1, <1>2, <1>8 DEF SendFd, MaySend, SequenceAfter, bridgeVars
  <2>2. StatusOf(f) = b[3] /\ b[3].id = "st"
    BY <1>3, <2>1 DEF encode_control_command_fd, StatusOf, Batch
  <2>3. Dated(f, B)
    <3>1. Dated(b[3], B)
      BY <1>3, <2>1
    <3> HIDE DEF f, b
    <3>2. StatusOf(b[3]) = b[3]
      BY <2>2 DEF StatusOf
    <3> QED BY <2>2, <3>1, <3>2, Zenon DEF Dated
  <2> HIDE DEF f, b
  <2>4. ASSUME NEW i \in 1 .. Len(canBus') PROVE Dated(canBus'[i], B)
    <3>1. CASE canBus' = canBus
      BY <1>4, <3>1
    <3>2. CASE canBus' = Append(canBus, f)
      <4>1. canBus'[i] = f \/ (i \in 1 .. Len(canBus) /\ canBus'[i] = canBus[i])
        BY <1>5, <3>2
      <4> QED BY <1>4, <2>3, <4>1
    <3> QED BY <2>1, <3>1, <3>2
  <2> DEFINE next == IF k = 1 THEN a + 1 ELSE a
  <2>5. next \in {a, a + 1} /\ canSeq' = next % SeqMod
    BY <2>1
  <2> HIDE DEF next
  <2>6. \A d \in canNet' : Dated(d.frames[3], B)
    BY <1>4, <2>1
  <2>7. \A i \in 1 .. Len(canBus') : Dated(canBus'[i], B)
    BY <2>4
  <2>8. /\ \A i \in 1 .. Len(canTodo') : Dated(canTodo'[i], B)
        /\ canTodo' # << >> => next = a
    BY <2>1
  <2>9. Numbered(B, next)'
    BY <2>1, <2>5, <2>6, <2>7, <2>8, CountsSend
  <2> QED BY <2>9 DEF next
<1>9. ASSUME NEW ok \in BOOLEAN, SendUdp(m, ok)
      PROVE  Numbered(B, IF ok THEN a + 1 ELSE a)'
  <2>1. /\ canNum' = num + 1 /\ canSeq' = (IF ok THEN a + 1 ELSE a) % SeqMod
        /\ canDec' = canDec /\ canMail' = canMail /\ canTodo' = << >> /\ canBus' = canBus
        /\ canNet' \subseteq canNet \cup {pack_can_udp_tunnel(b)} /\ Encodable(m)
    BY <1>1, <1>2, <1>9 DEF SendUdp, MaySend, SequenceAfter, bridgeVars
  <2>2. pack_can_udp_tunnel(b).frames = b
    BY DEF pack_can_udp_tunnel
  <2>3. \A d \in canNet' : Dated(d.frames[3], B)
    <3>1. Dated(b[3], B)
      BY <1>3, <2>1
    <3> HIDE DEF b
    <3> QED BY <1>4, <2>1, <2>2, <3>1
  <2> DEFINE next == IF ok THEN a + 1 ELSE a
  <2>4. next \in {a, a + 1} /\ canSeq' = next % SeqMod
    BY <2>1
  <2> HIDE DEF next
  <2>5. \A i \in 1 .. Len(canBus') : Dated(canBus'[i], B)
    BY <1>4, <2>1
  <2>6. /\ \A i \in 1 .. Len(canTodo') : Dated(canTodo'[i], B)
        /\ canTodo' # << >> => next = a
    BY <2>1
  <2>7. Numbered(B, next)'
    BY <2>1, <2>3, <2>4, <2>5, <2>6, CountsSend
  <2> QED BY <2>7 DEF next
<1>10. ASSUME SendZephyr(m) PROVE Numbered(B, a)'
  <2>1. /\ canNum' = num + 1 /\ canSeq' = a % SeqMod /\ canDec' = canDec /\ canMail' = canMail
        /\ canTodo' = b /\ canBus' = canBus /\ canNet' = canNet /\ Encodable(m)
    BY <1>1, <1>10 DEF SendZephyr, bridgeVars
  <2>2. \A i \in 1 .. Len(canTodo') : Dated(canTodo'[i], B)
    BY <1>3, <2>1
  <2>3. /\ \A i \in 1 .. Len(canBus') : Dated(canBus'[i], B)
        /\ \A d \in canNet' : Dated(d.frames[3], B)
    BY <1>4, <2>1
  <2>4. a \in {a, a + 1} /\ (canTodo' # << >> => a = a)
    OBVIOUS
  <2> QED BY <2>1, <2>2, <2>3, <2>4, CountsSend
<1> QED BY <1>6, <1>7, <1>8, <1>9, <1>10
\* Steps that neither count nor renumber, and put on the bus only what is dated.
LEMMA QuietNumbered ==
  ASSUME CanInv, NEW A, NEW a, Numbered(A, a),
         UNCHANGED <<canNum, canSeq, canDec>>, canNet' \subseteq canNet,
         canTodo' = canTodo \/ canTodo' = << >>,
         \A f \in canMail' : Dated(f, A),
         \A i \in 1 .. Len(canBus') : Dated(canBus'[i], A)
  PROVE  Numbered(A, a)'
<1>1. canTodo' # << >> => canNum' > 0 /\ a = A[canNum']
  BY DEF Numbered
<1>2. \A i \in 1 .. Len(canTodo') : Dated(canTodo'[i], A)
  BY DEF Numbered
<1> QED BY <1>1, <1>2 DEF Numbered

LEMMA GatewayNumbered ==
  ASSUME CanInv, NEW A, NEW a, Numbered(A, a), NEW d \in canNet, NEW k \in 0 .. 3,
         NEW again \in BOOLEAN, Gateway(d, k, again)
  PROVE  Numbered(A, a)'
<1> DEFINE s == SubSeq(d.frames, 1, k)
<1>1. /\ UNCHANGED <<canNum, canSeq, canDec, canTodo, canMail>> /\ canNet' \subseteq canNet
      /\ canBus' \in {canBus, canBus \o s}
  BY DEF Gateway, senderVars, bridgeVars
<1>2. Batch(d.frames, canNum)
  BY DEF CanInv, Traffic
<1>3. s \in Seq(CanFrames) /\ Len(s) = k /\ \A i \in 1 .. k : s[i] = d.frames[i]
  BY <1>2, BatchPrefix
<1>4. s \in Seq(WireFrames) /\ canBus \in Seq(WireFrames)
  BY <1>3, BusNumbers DEF WireFrames
<1> HIDE DEF s
<1>5. \A i \in 1 .. 3 : Dated(d.frames[i], A)
  <2>1. Dated(d.frames[1], A) /\ Dated(d.frames[2], A)
    BY <1>2 DEF Batch, Dated, StatusOf
  <2>2. Dated(d.frames[3], A)
    BY DEF Numbered
  <2> QED BY <2>1, <2>2
<1>6. ASSUME NEW i \in 1 .. Len(canBus') PROVE Dated(canBus'[i], A)
  <2>1. CASE canBus' = canBus
    BY <2>1 DEF Numbered
  <2>2. CASE canBus' = canBus \o s /\ i <= Len(canBus)
    <3>1. canBus'[i] = canBus[i] /\ i \in 1 .. Len(canBus)
      BY <1>3, <1>4, <2>2
    <3> QED BY <3>1 DEF Numbered
  <2>3. CASE canBus' = canBus \o s /\ i > Len(canBus)
    <3>1. i - Len(canBus) \in 1 .. k /\ canBus'[i] = s[i - Len(canBus)]
      BY <1>3, <1>4, <2>3
    <3>2. canBus'[i] = d.frames[i - Len(canBus)] /\ i - Len(canBus) \in 1 .. 3
      BY <1>3, <3>1
    <3> QED BY <1>5, <3>2
  <2> QED BY <1>1, <1>4, <2>1, <2>2, <2>3
<1>7. \A f \in canMail' : Dated(f, A)
  BY <1>1 DEF Numbered
<1> QED BY <1>1, <1>6, <1>7, QuietNumbered

LEMMA QueueNumbered ==
  ASSUME CanInv, NEW A, NEW a, Numbered(A, a), QueueFrame \/ QueueFails \/ WaitTimesOut
  PROVE  Numbered(A, a)'
<1>1. /\ UNCHANGED <<canNum, canSeq, canDec, canNet, canBus>>
      /\ canTodo' = canTodo \/ canTodo' = << >>
      /\ canMail' = canMail \/ (canTodo # << >> /\ canMail' = canMail \cup {Head(canTodo)})
  BY DEF QueueFrame, QueueFails, WaitTimesOut, FailBatch, SequenceAfter, bridgeVars
<1>2. canTodo # << >> => Dated(Head(canTodo), A)
  <2>1. canTodo # << >> => Head(canTodo) = canTodo[1] /\ 1 \in 1 .. Len(canTodo)
    BY DriverFacts
  <2> QED BY <2>1 DEF Numbered
<1>3. \A f \in canMail' : Dated(f, A)
  BY <1>1, <1>2 DEF Numbered
<1>4. \A i \in 1 .. Len(canBus') : Dated(canBus'[i], A)
  BY <1>1 DEF Numbered
<1> QED BY <1>1, <1>3, <1>4, QuietNumbered

LEMMA TxDoneNumbered ==
  ASSUME CanInv, NEW A, NEW a, Numbered(A, a), NEW f \in canMail, NEW err \in 0 .. 1, TxDone(f, err)
  PROVE  Numbered(A, a)'
<1>1. /\ UNCHANGED <<canNum, canSeq, canDec, canNet, canTodo>>
      /\ canMail' \subseteq canMail /\ canBus' \in {canBus, Append(canBus, f)}
  BY DEF TxDone, bridgeVars
<1>2. ASSUME NEW i \in 1 .. Len(canBus') PROVE Dated(canBus'[i], A)
  <2>1. canBus'[i] = f \/ (i \in 1 .. Len(canBus) /\ canBus'[i] = canBus[i])
    BY <1>1, BusNumbers
  <2> QED BY <2>1 DEF Numbered
<1>3. \A g \in canMail' : Dated(g, A)
  BY <1>1 DEF Numbered
<1> QED BY <1>1, <1>2, <1>3, QuietNumbered

\* A batch sent whole takes its number.
LEMMA WaitEndsNumbered ==
  ASSUME CanInv, NEW A, NEW a, Numbered(A, a), WaitEnds,
         NEW next, next = IF canCtx.err = 0 /\ Len(canTodo) = 1 THEN a + 1 ELSE a
  PROVE  Numbered(A, next)'
<1>1. /\ UNCHANGED <<canNum, canDec, canNet, canMail, canBus>> /\ canCtx.state = "Waiting"
  BY DEF WaitEnds, bridgeVars
<1>2. /\ canTodo # << >> /\ canTodo \in Seq(CanFrames)
      /\ canNum \in Nat /\ canNum > 0 /\ a = A[canNum] /\ a \in Nat /\ A \in [Nat -> Nat]
      /\ canSeq = a % SeqMod /\ Counts(A, a, canNum)
  BY <1>1, DriverFacts, BusNumbers DEF Driver, Numbered, Counts
<1>3. /\ \A f \in canMail : Dated(f, A)
      /\ \A i \in 1 .. Len(canBus) : Dated(canBus[i], A)
      /\ \A d \in canNet : Dated(d.frames[3], A)
      /\ \A i \in 1 .. Len(canTodo) : Dated(canTodo[i], A)
      /\ canDec.hasExpected =>
           /\ canDec.command # NoCommand /\ canDec.command.st.n \in 1 .. canNum
           /\ canDec.expected = (A[canDec.command.st.n] + 1) % SeqMod
  BY DEF Numbered
<1>4. CASE canCtx.err # 0
  <2>1. next = a /\ canTodo' = << >> /\ canSeq' = canSeq
    BY <1>4 DEF WaitEnds, FailBatch, SequenceAfter
  <2>2. \A i \in 1 .. Len(canTodo') : Dated(canTodo'[i], A)
    BY <2>1
  <2> QED BY <1>1, <1>2, <1>3, <2>1, <2>2 DEF Numbered
<1>5. CASE canCtx.err = 0
  <2>1. /\ canTodo' = Tail(canTodo)
        /\ canSeq' = IF Len(canTodo) = 1 THEN (canSeq + 1) % SeqMod ELSE canSeq
    BY <1>5 DEF WaitEnds, SequenceAfter
  <2>2. /\ Len(canTodo') = Len(canTodo) - 1 /\ Len(canTodo) \in Nat /\ canTodo' \in Seq(CanFrames)
        /\ \A i \in 1 .. Len(canTodo') : canTodo'[i] = canTodo[i + 1] /\ i + 1 \in 1 .. Len(canTodo)
    <3>1. canTodo \in Seq(CanFrames) /\ canTodo # << >>
      BY <1>2
    <3> QED BY <2>1, <3>1
  <2>3. \A i \in 1 .. Len(canTodo') : Dated(canTodo'[i], A)
    BY <1>3, <2>2
  <2>4. CASE Len(canTodo) # 1
    <3>1. next = a /\ canSeq' = canSeq
      BY <1>5, <2>1, <2>4
    <3> QED BY <1>1, <1>2, <1>3, <2>3, <3>1 DEF Numbered
  <2>5. CASE Len(canTodo) = 1
    <3>1. next = a + 1 /\ canSeq' = (canSeq + 1) % SeqMod
      BY <1>5, <2>1, <2>5
    <3>2. canSeq' = next % SeqMod
      BY <1>2, <3>1, NextCount
    <3>3. canTodo' = << >>
      <4>1. Len(canTodo') = 0
        BY <2>2, <2>5
      <4> QED BY <2>2, <4>1, EmptySeq
    <3>4. Counts(A, next, canNum)
      <4>1. Counts(A, a + 1, canNum)
        BY <1>2, CountsAdvance
      <4> QED BY <3>1, <4>1
    <3> QED BY <1>1, <1>3, <2>3, <3>2, <3>3, <3>4 DEF Numbered
  <2> QED BY <2>4, <2>5
<1> QED BY <1>4, <1>5

LEMMA BridgeNumbered ==
  ASSUME CanInv, NEW A, NEW a, Numbered(A, a), BridgeReads \/ BridgeWaits \/ FdLoses \/ CanTicks
  PROVE  Numbered(A, a)'
<1>1. UNCHANGED <<canNum, canSeq, canTodo, canMail, canNet>>
  BY DEF BridgeReads, BridgeWaits, FdLoses, CanTicks, senderVars
<1>2. canBus' = canBus \/ (canBus # << >> /\ canBus' = Tail(canBus))
  BY DEF BridgeReads, BridgeWaits, FdLoses, CanTicks
<1>3. ASSUME NEW i \in 1 .. Len(canBus') PROVE Dated(canBus'[i], A)
  <2>1. CASE canBus' = canBus
    BY <2>1 DEF Numbered
  <2>2. CASE canBus # << >> /\ canBus' = Tail(canBus)
    <3>1. canBus'[i] = canBus[i + 1] /\ i + 1 \in 1 .. Len(canBus)
      BY <2>2, BusNumbers
    <3> QED BY <3>1 DEF Numbered
  <2> QED BY <1>2, <2>1, <2>2
<1>4. A \in [Nat -> Nat] /\ canNum \in Nat /\ canDec \in Decoders
  BY BusNumbers DEF Numbered, Counts, CanInv, CanTypes
<1>5. canDec.hasExpected =>
        /\ canDec.command # NoCommand /\ canDec.command.st.n \in 1 .. canNum
        /\ canDec.expected = (A[canDec.command.st.n] + 1) % SeqMod
  BY DEF Numbered
<1>6. ASSUME canDec'.hasExpected
      PROVE  /\ canDec'.command # NoCommand /\ canDec'.command.st.n \in 1 .. canNum
             /\ canDec'.expected = (A[canDec'.command.st.n] + 1) % SeqMod
  <2>1. CASE /\ canDec'.command = canDec.command
             /\ canDec.hasExpected /\ canDec'.expected = canDec.expected
    BY <1>5, <2>1
  <2>2. CASE BridgeReads /\ TakesNumber(canDec', StatusOf(canBus[1]))
    <3> DEFINE f == StatusOf(canBus[1])
    <3>1. 1 \in 1 .. Len(canBus)
      BY <2>2, BusNumbers DEF BridgeReads
    <3>2. f.n \in 1 .. canNum /\ Dated(canBus[1], A)
      BY <3>1, BusNumbers DEF Numbered
    <3>3. f.id = "st" /\ canDec'.command # NoCommand /\ canDec'.command.st = f
          /\ canDec'.expected = (f.seq + 1) % SeqMod
      BY <2>2 DEF TakesNumber
    <3>4. f.seq = A[f.n] % SeqMod
      BY <3>2, <3>3 DEF Dated
    <3> HIDE DEF f
    <3>5. A[f.n] \in Nat
      BY <1>4, <3>2
    <3>6. (A[f.n] + 1) % SeqMod = ((A[f.n] % SeqMod) + 1) % SeqMod
      BY <3>5, NextCount
    <3> QED BY <3>2, <3>3, <3>4, <3>6
  <2>3. CASE BridgeReads
    BY <1>6, <2>1, <2>2, <2>3, ReadOutcome
  <2>4. CASE BridgeWaits
    <3>1. canDec' = poll_watchdog(canDec)
      BY <2>4 DEF BridgeWaits, BridgeApplies
    <3> QED BY <1>4, <1>6, <2>1, <3>1, PollOutcome DEF SameNumber
  <2>5. CASE FdLoses
    BY <1>6, <2>1, <2>5 DEF FdLoses, bridgeVars
  <2>6. CASE CanTicks
    BY <1>4, <1>6, <2>1, <2>6 DEF CanTicks, Decoders
  <2> QED BY <2>3, <2>4, <2>5, <2>6
<1>7. /\ Counts(A, a, canNum) /\ canSeq = a % SeqMod
      /\ canTodo # << >> => canNum > 0 /\ a = A[canNum]
      /\ \A i \in 1 .. Len(canTodo) : Dated(canTodo[i], A)
      /\ \A f \in canMail : Dated(f, A)
      /\ \A d \in canNet : Dated(d.frames[3], A)
  BY DEF Numbered
<1> QED BY <1>1, <1>3, <1>6, <1>7 DEF Numbered

NumberInv == \E A, a : Numbered(A, a)

LEMMA NextNumbered == CanInv /\ Turns /\ NumberInv /\ [CanNext]_canVars => NumberInv'
<1> SUFFICES ASSUME CanInv, Turns, NumberInv, [CanNext]_canVars PROVE NumberInv'
  OBVIOUS
<1>1. PICK A, a : Numbered(A, a)
  BY DEF NumberInv
<1>2. PICK num : num = canNum
  OBVIOUS
<1>3. PICK B : B = [A EXCEPT ![num + 1] = a]
  OBVIOUS
<1>4. PICK next : next = IF canCtx.err = 0 /\ Len(canTodo) = 1 THEN a + 1 ELSE a
  OBVIOUS
<1>5. ASSUME NEW m \in CanMessages,
             \/ SendRefused(m)
             \/ \E k \in 0 .. 3 : SendClassic(m, k)
             \/ \E k \in 0 .. 1 : SendFd(m, k)
             \/ \E ok \in BOOLEAN : SendUdp(m, ok)
             \/ SendZephyr(m)
      PROVE  NumberInv'
  BY <1>1, <1>2, <1>3, <1>5, SenderNumbered DEF NumberInv
<1>6. ASSUME NEW d \in canNet, Loses(d) PROVE NumberInv'
  <2>1. /\ UNCHANGED <<canNum, canSeq, canDec, canTodo, canMail, canBus>> /\ canNet' \subseteq canNet
    BY <1>6 DEF Loses, senderVars, bridgeVars
  <2>2. Numbered(A, a)'
    BY <1>1, <2>1, QuietNumbered DEF Numbered
  <2> QED BY <2>2 DEF NumberInv
<1>7. ASSUME NEW d \in canNet, NEW k \in 0 .. 3, NEW again \in BOOLEAN, Gateway(d, k, again)
      PROVE  NumberInv'
  BY <1>1, <1>7, GatewayNumbered DEF NumberInv
<1>8. ASSUME QueueFrame \/ QueueFails \/ WaitTimesOut PROVE NumberInv'
  BY <1>1, <1>8, QueueNumbered DEF NumberInv
<1>9. ASSUME WaitEnds PROVE NumberInv'
  BY <1>1, <1>4, <1>9, WaitEndsNumbered DEF NumberInv
<1>10. ASSUME NEW f \in canMail, NEW err \in 0 .. 1, TxDone(f, err) PROVE NumberInv'
  BY <1>1, <1>10, TxDoneNumbered DEF NumberInv
<1>11. ASSUME BridgeReads \/ BridgeWaits \/ FdLoses \/ CanTicks PROVE NumberInv'
  BY <1>1, <1>11, BridgeNumbered DEF NumberInv
<1>12. CASE UNCHANGED canVars
  <2>1. Numbered(A, a)'
    BY <1>1, <1>12 DEF canVars, Numbered
  <2> QED BY <2>1 DEF NumberInv
<1> QED BY <1>5, <1>6, <1>7, <1>8, <1>9, <1>10, <1>11, <1>12 DEF CanNext

LEMMA CanStartsNumbered ==
  ASSUME CanInit
  PROVE  Turns /\ NumberInv
<1>1. /\ canNum = 0 /\ canTodo = << >> /\ canMail = {} /\ canNet = {} /\ canBus = << >>
      /\ canDec.command = NoCommand /\ canDec.hasExpected = FALSE /\ canSeq \in CanStarts
  BY DEF CanInit
<1>2. canSeq \in 0 .. SeqMod - 1
  BY <1>1, CanAssumption DEF CanAssumption
<1>3. Turns
  <2>1. canDec.command.st.n = 0
    BY <1>1, NoFrameShape DEF NoCommand
  <2>2. InTurn(canVia, canBus, canDec.command.st.n)
    BY <1>1 DEF InTurn
  <2> QED BY <1>1, <2>1, <2>2 DEF Turns
<1>4. NumberInv
  <2> DEFINE A == [i \in Nat |-> 0]
  <2>1. canSeq \in Nat /\ canSeq < SeqMod /\ SeqMod \in Nat
    BY <1>2, CanNumbers
  <2>2. canSeq = 0 * SeqMod + canSeq /\ canSeq \in Int /\ SeqMod > 0 /\ 0 <= canSeq
    BY <2>1
  <2>3. canSeq % SeqMod = canSeq
    BY <2>1, <2>2, Remainder
  <2>4. Counts(A, canSeq, canNum)
    BY <1>1, <2>1 DEF Counts
  <2> HIDE DEF A
  <2>5. Numbered(A, canSeq)
    BY <1>1, <2>3, <2>4 DEF Numbered
  <2> QED BY <2>5 DEF NumberInv
<1> QED BY <1>3, <1>4

\* The window of decoder.feed: while a number is expected, what is accepted is
\* a younger send, over any bus and across the wrap of the number.
THEOREM NeverGoesBackwards == CanSpec => NeverBackwards
<1>1. CanInit => CanInv /\ Turns /\ NumberInv
  BY CanStartsSound, CanStartsNumbered
<1>2. ASSUME CanInv, Turns, NumberInv, [CanNext]_canVars
      PROVE  [canDec'.command # canDec.command /\ canDec.hasExpected /\ ~canDec.safe /\ ~canDec'.safe
                => canDec'.command.st.n > canDec.command.st.n]_canVars
  <2> SUFFICES ASSUME CanNext, canDec'.command # canDec.command, canDec.hasExpected
               PROVE  canDec'.command.st.n > canDec.command.st.n
    BY <1>2
  <2>1. BridgeReads
    <3>1. canDec \in Decoders
      BY <1>2 DEF CanInv, CanTypes
    <3>2. ~BridgeWaits
      BY <3>1, PollOutcome DEF BridgeWaits, BridgeApplies
    <3>3. ~CanTicks
      BY <3>1 DEF CanTicks, Decoders
    <3> QED BY <3>2, <3>3
            DEF CanNext, SendRefused, SendClassic, SendFd, SendUdp, SendZephyr, Loses, Gateway,
                QueueFrame, QueueFails, WaitEnds, WaitTimesOut, TxDone, FdLoses, bridgeVars
  <2> DEFINE f == canBus[1]
             s == StatusOf(f)
             known == canDec.command.st.n
  <2>2. /\ TakesNumber(canDec', s)
        /\ f.id # "fd" => ~Replayed(canDec, s)
    BY <1>2, <2>1, ReadOutcome
  <2>3. 1 \in 1 .. Len(canBus) /\ s.n \in 1 .. canNum /\ known \in 0 .. canNum /\ canNum \in Nat
    BY <1>2, <2>1, BusNumbers DEF BridgeReads, Turns
  <2>4. Before(canVia, known, s.n) /\ (f.id = "fd" => canVia = "fd")
    BY <1>2, <2>3 DEF Turns, InTurn
  <2>5. canDec'.command.st = s /\ s.id = "st"
    BY <2>2 DEF TakesNumber
  <2>6. CASE f.id = "fd"
    BY <2>3, <2>4, <2>5, <2>6 DEF Before
  <2>7. CASE f.id # "fd"
    <3>1. PICK A, a : Numbered(A, a)
      BY <1>2 DEF NumberInv
    <3>2. /\ known \in 1 .. canNum /\ canDec.expected = (A[known] + 1) % SeqMod
          /\ s.seq = A[s.n] % SeqMod /\ A \in [Nat -> Nat]
      BY <2>3, <2>5, <3>1 DEF Numbered, Counts, Dated
    <3>3. seq_delta(A[s.n] % SeqMod, (A[known] + 1) % SeqMod) >= 0
      <4>1. ~(seq_delta(s.seq, canDec.expected) < 0)
        BY <2>2, <2>7 DEF Replayed
      <4> HIDE DEF s, known, f
      <4>2. A[s.n] \in Int /\ A[known] \in Int
        <5>1. s.n \in Nat /\ known \in Nat
          BY <2>3
        <5>2. A \in [Nat -> Nat]
          BY <3>2
        <5> HIDE DEF s, known, f
        <5> QED BY <5>1, <5>2
      <4>3. seq_delta(A[s.n] % SeqMod, (A[known] + 1) % SeqMod) \in Int
        BY <4>2, DeltaType
      <4> QED BY <3>2, <4>1, <4>3
    <3> HIDE DEF s, known, f
    <3>4. SUFFICES ASSUME s.n <= known PROVE FALSE
      BY <2>3, <2>5 DEF known
    <3>5. known - s.n < SeqMod \div 2
      BY <2>3, <2>4, <3>4, CanNumbers DEF Before
    <3>6. A[s.n] <= A[known] /\ A[known] <= A[s.n] + (known - s.n)
          /\ A[s.n] \in Int /\ A[known] \in Int
      <4>1. s.n \in 1 .. canNum /\ A[s.n] \in Nat /\ A[known] \in Nat
        <5>1. s.n \in Nat /\ known \in Nat
          BY <2>3
        <5>2. A \in [Nat -> Nat]
          BY <3>2
        <5> QED BY <2>3, <5>1, <5>2
      <4>2. \A i, j \in 1 .. canNum : i <= j => A[i] <= A[j] /\ A[j] <= A[i] + (j - i)
        BY <3>1 DEF Numbered, Counts
      <4> QED BY <3>2, <3>4, <4>1, <4>2
    <3>7. A[known] - A[s.n] < SeqMod \div 2
      BY <2>3, <3>5, <3>6, CanNumbers
    <3>8. seq_delta(A[s.n] % SeqMod, (A[known] + 1) % SeqMod) < 0
      BY <3>6, <3>7, NotAheadIsReplay
    <3>9. seq_delta(A[s.n] % SeqMod, (A[known] + 1) % SeqMod) \in Int
      BY <3>6, DeltaType
    <3> QED BY <3>3, <3>8, <3>9
  <2> QED BY <2>6, <2>7
<1> QED BY <1>1, <1>2, NextCan, NextTurns, NextNumbered, PTL DEF CanSpec, NeverBackwards

-----------------------------------------------------------------------------
(* The commands the decoder takes for replays.                             *)

\* The status frame that is under way to the decoder carries send j.
Abroad(j) ==
  \/ \E i \in 1 .. Len(canBus) : StatusOf(canBus[i]).id = "st" /\ StatusOf(canBus[i]).n = j
  \/ \E f \in canMail : f.id = "st" /\ f.n = j
  \/ \E d \in canNet : d.frames[3].n = j

\* Send j has used up its number, unless its completion was late (T).
Settled(A, a, T, num, rest, j) ==
  /\ j < num => A[j + 1] = A[j] + 1 \/ j \in T
  /\ j = num /\ rest => a = A[j] + 1 \/ j \in T

\* The sends that completed late are T; send r is the last whose number the
\* decoder has met. Each refusal is charged to a late send before r.
Refusals(A, a, T, r) ==
  /\ T \subseteq 1 .. canNum /\ r \in canDec.command.st.n .. canNum
  /\ Cardinality(T) <= canLate /\ canMissed <= Cardinality({t \in T : t < r})
  /\ canVia # "zephyr" => T = {} /\ r = canDec.command.st.n
  /\ \A j \in 1 .. canNum : Abroad(j) \/ j = r => Settled(A, a, T, canNum, canTodo = << >>, j)

\* The driver still has to send frames of the batch.
Unfinished ==
  /\ canTodo # << >>
  /\ ~(canCtx.state = "Waiting" /\ canCtx.sem = 1 /\ canCtx.err = 0 /\ Len(canTodo) = 1)

\* On Zephyr every status frame is of a send of its own, in their order.
Strict(r) ==
  /\ \A i \in 1 .. Len(canBus) : canBus[i].id = "st" =>
       /\ r < canBus[i].n
       /\ \A j \in i + 1 .. Len(canBus) : canBus[j].id = "st" => canBus[i].n < canBus[j].n
       /\ \A f \in canMail : f.id = "st" => canBus[i].n < f.n
       /\ Unfinished => canBus[i].n < canNum
  /\ \A f \in canMail : f.id = "st" =>
       r < f.n /\ (Unfinished /\ canCtx.state # "Waiting" => f.n < canNum)
  /\ Unfinished => r < canNum
  /\ \A i \in 1 .. Len(canTodo) - 1 : canTodo[i].id # "st"

\* A new command that is refused carries the number of the last one accepted.
LEMMA RefusedMeans ==
  ASSUME CanInv, MaxSends <= SeqMod \div 2, NEW A, NEW a, Numbered(A, a),
         canBus # << >>, RefusedNew(poll_watchdog(canDec), canBus[1])
  PROVE  LET n == StatusOf(canBus[1]).n
             known == canDec.command.st.n
         IN known \in 1 .. canNum /\ n \in 1 .. canNum /\ known < n /\ A[n] = A[known]
<1> DEFINE s == StatusOf(canBus[1])
           known == canDec.command.st.n
           polled == poll_watchdog(canDec)
<1>1. 1 \in 1 .. Len(canBus) /\ s.n \in 1 .. canNum /\ canNum \in Nat /\ Dated(canBus[1], A)
  BY BusNumbers DEF Numbered
<1>2. canDec \in Decoders
  BY DEF CanInv, CanTypes
<1>3. s.id = "st" /\ s.n > polled.command.st.n /\ Replayed(polled, s)
      /\ (canBus[1].id = "fd" \/ Paired(polled))
  BY DEF RefusedNew, StatusOf
<1>4. polled.command = canDec.command /\ (SameNumber(polled, canDec) \/ ~polled.hasExpected)
  BY <1>2, PollOutcome
<1>5. canDec.hasExpected /\ known < s.n /\ seq_delta(s.seq, canDec.expected) < 0
  BY <1>3, <1>4 DEF SameNumber, Replayed
<1>6. known \in 1 .. canNum
  BY <1>5 DEF Numbered
<1>7. canDec.expected = (A[known] + 1) % SeqMod /\ s.seq = A[s.n] % SeqMod
  BY <1>1, <1>3, <1>5 DEF Numbered, Dated
<1>8. canNum <= MaxSends /\ MaxSends \in Nat
  BY CanAssumption DEF CanInv, CanTypes, CanAssumption
<1> HIDE DEF s, known
<1>9. \A i, j \in 1 .. canNum : i <= j => A[i] <= A[j] /\ A[j] <= A[i] + (j - i)
  BY DEF Numbered, Counts
<1>10. A[s.n] \in Int /\ A[known] \in Int
  <2>1. s.n \in Nat /\ known \in Nat
    BY <1>1, <1>6
  <2>2. A \in [Nat -> Nat]
    BY DEF Numbered, Counts
  <2> QED BY <2>1, <2>2
<1>11. A[known] <= A[s.n] /\ A[s.n] <= A[known] + (s.n - known)
  <2>1. known \in 1 .. canNum /\ s.n \in 1 .. canNum /\ known <= s.n
    BY <1>1, <1>5, <1>6
  <2> QED BY <1>9, <2>1
<1>12. A[s.n] - A[known] <= SeqMod \div 2
  <2>1. s.n - known <= MaxSends
    BY <1>1, <1>5, <1>6, <1>8
  <2> QED BY <1>1, <1>6, <1>8, <1>10, <1>11, <2>1, CanNumbers
<1>13. ~(A[s.n] > A[known])
  <2> SUFFICES ASSUME A[s.n] > A[known] PROVE FALSE
    OBVIOUS
  <2>1. seq_delta(A[s.n] % SeqMod, (A[known] + 1) % SeqMod) >= 0
    BY <1>10, <1>12, AheadIsNoReplay
  <2>2. seq_delta(A[s.n] % SeqMod, (A[known] + 1) % SeqMod) \in Int
    BY <1>10, DeltaType
  <2>3. seq_delta(A[s.n] % SeqMod, (A[known] + 1) % SeqMod) < 0
    BY <1>5, <1>7
  <2> QED BY <2>1, <2>2, <2>3
<1>14. A[s.n] = A[known]
  BY <1>10, <1>11, <1>13
<1> QED BY <1>1, <1>5, <1>6, <1>14 DEF s, known

LEMMA SettledSend ==
  ASSUME NEW num \in Nat, NEW A, NEW a, Counts(A, a, num), NEW B, B = [A EXCEPT ![num + 1] = a],
         NEW next, NEW T, NEW j \in 1 .. num, Settled(A, a, T, num, TRUE, j), NEW rest
  PROVE  Settled(B, next, T, num + 1, rest, j)
<1>1. A \in [Nat -> Nat] /\ a \in Nat
  BY DEF Counts
<1>2. B[num + 1] = a /\ \A i \in 1 .. num : B[i] = A[i]
  BY <1>1, CountedAt
<1>3. ~(j = num + 1)
  OBVIOUS
<1>4. CASE j < num
  <2>1. j + 1 \in 1 .. num
    BY <1>4
  <2>2. B[j + 1] = A[j + 1] /\ B[j] = A[j]
    BY <1>2, <2>1
  <2> QED BY <1>3, <1>4, <2>2 DEF Settled
<1>5. CASE j = num
  <2>1. B[j + 1] = a /\ B[j] = A[j]
    BY <1>2, <1>5
  <2> QED BY <1>3, <1>5, <2>1 DEF Settled
<1> QED BY <1>4, <1>5

\* A send: what it puts on its way at once has used up its number.
LEMMA SendRefusals ==
  ASSUME CanInv, NEW A, NEW a, NEW T, NEW r, Numbered(A, a), Refusals(A, a, T, r),
         NEW num, num = canNum, NEW B, B = [A EXCEPT ![num + 1] = a], NEW next,
         canTodo = << >>, canNum' = num + 1,
         UNCHANGED <<canVia, canDec, canLate, canMissed>>,
         \A j \in 1 .. num + 1 : Abroad(j)' => (j # num + 1 /\ Abroad(j)) \/ (j = num + 1 /\ next = a + 1)
  PROVE  Refusals(B, next, T, r)'
<1>1. num \in Nat /\ Counts(A, a, num)
  BY BusNumbers DEF Numbered
<1>2. B[num + 1] = a
  BY <1>1, CountedAt DEF Counts
<1>3. T \subseteq 1 .. num /\ r \in canDec.command.st.n .. num
  BY DEF Refusals
<1>4. T \subseteq 1 .. num + 1 /\ r \in canDec.command.st.n .. num + 1 /\ r # num + 1
  <2>1. canDec.command.st.n \in Int
    BY BusNumbers
  <2> QED BY <1>1, <1>3, <2>1
<1>5. ASSUME NEW j \in 1 .. num + 1, Abroad(j)' \/ j = r
      PROVE  Settled(B, next, T, num + 1, canTodo' = << >>, j)
  <2>1. CASE j # num + 1
    <3>1. j \in 1 .. num /\ (Abroad(j) \/ j = r)
      BY <1>1, <1>5, <2>1
    <3>2. Settled(A, a, T, num, TRUE, j)
      BY <3>1 DEF Refusals
    <3> QED BY <1>1, <3>1, <3>2, SettledSend
  <2>2. CASE j = num + 1
    <3>1. next = a + 1
      BY <1>4, <1>5, <2>2
    <3>2. ~(j < num + 1)
      BY <1>1, <2>2
    <3> QED BY <1>2, <2>2, <3>1, <3>2 DEF Settled
  <2> QED BY <2>1, <2>2
<1>6. /\ Cardinality(T) <= canLate' /\ canMissed' <= Cardinality({t \in T : t < r})
      /\ canVia' # "zephyr" => T = {} /\ r = canDec'.command.st.n
  BY DEF Refusals
<1> QED BY <1>4, <1>5, <1>6 DEF Refusals

\* Steps that send nothing new: no number is used.
LEMMA QuietRefusals ==
  ASSUME NEW A, NEW a, NEW T, NEW r, Refusals(A, a, T, r),
         UNCHANGED <<canVia, canNum, canLate, canMissed>>, canDec'.command = canDec.command,
         canTodo' = << >> => canTodo = << >>,
         \A j \in 1 .. canNum : Abroad(j)' => Abroad(j) \/ (j = canNum /\ canTodo' # << >>)
  PROVE  Refusals(A, a, T, r)'
<1>1. ASSUME NEW j \in 1 .. canNum, Abroad(j)' \/ j = r
      PROVE  Settled(A, a, T, canNum, canTodo' = << >>, j)
  <2>1. CASE Abroad(j) \/ j = r
    <3>1. Settled(A, a, T, canNum, canTodo = << >>, j)
      BY <2>1 DEF Refusals
    <3> QED BY <3>1 DEF Settled
  <2>2. CASE j = canNum /\ canTodo' # << >>
    <3>1. ~(j < canNum)
      BY <2>2
    <3> QED BY <2>2, <3>1 DEF Settled
  <2> QED BY <1>1, <2>1, <2>2
<1> QED BY <1>1 DEF Refusals

LEMMA PrefixStatus ==
  ASSUME NEW bus \in Seq(WireFrames), NEW b, NEW num, Batch(b, num), NEW k \in 0 .. 3
  PROVE  LET grown == bus \o SubSeq(b, 1, k)
         IN \A i \in 1 .. Len(grown) : StatusOf(grown[i]).id = "st" =>
              (i \in 1 .. Len(bus) /\ grown[i] = bus[i]) \/ (k = 3 /\ grown[i] = b[3])
<1> DEFINE grown == bus \o SubSeq(b, 1, k)
<1> SUFFICES ASSUME NEW i \in 1 .. Len(grown), StatusOf(grown[i]).id = "st"
             PROVE  (i \in 1 .. Len(bus) /\ grown[i] = bus[i]) \/ (k = 3 /\ grown[i] = b[3])
  OBVIOUS
<1> DEFINE s == SubSeq(b, 1, k)
<1>1. s \in Seq(CanFrames) /\ Len(s) = k /\ \A x \in 1 .. k : s[x] = b[x]
  BY BatchPrefix
<1>2. s \in Seq(WireFrames) /\ grown = bus \o s /\ Len(bus) \in Nat
  BY <1>1 DEF WireFrames
<1> HIDE DEF s
<1>3. Len(grown) = Len(bus) + k
  BY <1>1, <1>2
<1>4. CASE i <= Len(bus)
  BY <1>1, <1>2, <1>4
<1>5. CASE i > Len(bus)
  <2>1. i - Len(bus) \in 1 .. k /\ grown[i] = s[i - Len(bus)]
    BY <1>1, <1>2, <1>3, <1>5
  <2>2. i - Len(bus) \in {1, 2, 3} /\ grown[i] = b[i - Len(bus)]
    BY <1>1, <2>1
  <2>3. StatusOf(b[1]).id # "st" /\ StatusOf(b[2]).id # "st"
    BY DEF Batch, StatusOf
  <2>4. i - Len(bus) = 3
    BY <2>2, <2>3
  <2> QED BY <2>1, <2>2, <2>4
<1> QED BY <1>2, <1>4, <1>5

\* The numbers of what is on its way, and of what has been accepted.
LEMMA AbroadNumbers ==
  ASSUME CanInv, NEW j, Abroad(j)
  PROVE  j \in 1 .. canNum
<1>1. CASE \E i \in 1 .. Len(canBus) : StatusOf(canBus[i]).id = "st" /\ StatusOf(canBus[i]).n = j
  BY <1>1, BusNumbers
<1>2. CASE \E f \in canMail : f.id = "st" /\ f.n = j
  BY <1>2, DriverFacts DEF Driver, Sent
<1>3. CASE \E d \in canNet : d.frames[3].n = j
  BY <1>3 DEF CanInv, Traffic, Batch, Sent
<1> QED BY <1>1, <1>2, <1>3 DEF Abroad

LEMMA SenderRefusals ==
  ASSUME CanInv, NEW A, NEW a, NEW T, NEW r, Numbered(A, a), Refusals(A, a, T, r),
         NEW m \in CanMessages, NEW num, num = canNum, NEW B, B = [A EXCEPT ![num + 1] = a]
  PROVE  /\ SendRefused(m) => Refusals(B, a, T, r)'
         /\ \A k \in 0 .. 3 : SendClassic(m, k) => Refusals(B, IF k = 3 THEN a + 1 ELSE a, T, r)'
         /\ \A k \in 0 .. 1 : SendFd(m, k) => Refusals(B, IF k = 1 THEN a + 1 ELSE a, T, r)'
         /\ \A ok \in BOOLEAN : SendUdp(m, ok) => Refusals(B, IF ok THEN a + 1 ELSE a, T, r)'
         /\ SendZephyr(m) => Refusals(B, a, T, r)'
<1> DEFINE b == encode_control_command(m, num + 1, canSeq)
<1>1. num \in Nat /\ canSeq \in Int /\ canBus \in Seq(WireFrames)
  BY BusNumbers, CanNumbers DEF CanInv, CanTypes
<1>2. Encodable(m) => Batch(b, num + 1) /\ b[3].n = num + 1
  <2> SUFFICES ASSUME Encodable(m) PROVE Batch(b, num + 1) /\ b[3].n = num + 1
    OBVIOUS
  <2>1. num + 1 \in Nat /\ num + 1 > 0
    BY <1>1
  <2> QED BY <1>1, <2>1, EncodedBatch
<1>3. \A j : Abroad(j) => j # num + 1
  BY <1>1, AbroadNumbers
<1>4. ASSUME SendRefused(m) \/ SendZephyr(m) PROVE Refusals(B, a, T, r)'
  <2>1. /\ canTodo = << >> /\ canNum' = num + 1 /\ UNCHANGED <<canVia, canDec, canLate, canMissed>>
        /\ UNCHANGED <<canBus, canMail, canNet>>
    BY <1>4 DEF SendRefused, SendZephyr, MaySend, bridgeVars
  <2>2. \A j \in 1 .. num + 1 : Abroad(j)' => (j # num + 1 /\ Abroad(j)) \/ (j = num + 1 /\ a = a + 1)
    BY <1>3, <2>1 DEF Abroad
  <2> QED BY <2>1, <2>2, SendRefusals
<1>5. ASSUME NEW k \in 0 .. 3, SendClassic(m, k)
      PROVE  Refusals(B, IF k = 3 THEN a + 1 ELSE a, T, r)'
  <2>1. /\ canTodo = << >> /\ canNum' = num + 1 /\ UNCHANGED <<canVia, canDec, canLate, canMissed>>
        /\ UNCHANGED <<canMail, canNet>> /\ canBus' = canBus \o SubSeq(b, 1, k) /\ Encodable(m)
    BY <1>5 DEF SendClassic, MaySend, bridgeVars
  <2> DEFINE next == IF k = 3 THEN a + 1 ELSE a
  <2>2. Batch(b, num + 1) /\ b[3].n = num + 1 /\ b[3].id = "st" /\ (k = 3 => next = a + 1)
    BY <1>2, <2>1 DEF Batch
  <2> HIDE DEF b, next
  <2>3. ASSUME NEW i \in 1 .. Len(canBus'), StatusOf(canBus'[i]).id = "st"
        PROVE  \/ i \in 1 .. Len(canBus) /\ canBus'[i] = canBus[i]
               \/ StatusOf(canBus'[i]).n = num + 1 /\ next = a + 1
    <3> DEFINE grown == canBus \o SubSeq(b, 1, k)
    <3>1. i \in 1 .. Len(grown) /\ StatusOf(grown[i]).id = "st" /\ canBus' = grown
      BY <2>1, <2>3
    <3>4. \A x \in 1 .. Len(grown) : StatusOf(grown[x]).id = "st" =>
            (x \in 1 .. Len(canBus) /\ grown[x] = canBus[x]) \/ (k = 3 /\ grown[x] = b[3])
      BY <1>1, <2>2, PrefixStatus
    <3> HIDE DEF grown
    <3>2. (i \in 1 .. Len(canBus) /\ grown[i] = canBus[i]) \/ (k = 3 /\ grown[i] = b[3])
      BY <3>1, <3>4
    <3>3. StatusOf(b[3]) = b[3]
      BY <2>2 DEF StatusOf
    <3> QED BY <2>2, <3>1, <3>2, <3>3
  <2>4. \A j \in 1 .. num + 1 :
          Abroad(j)' => (j # num + 1 /\ Abroad(j)) \/ (j = num + 1 /\ next = a + 1)
    BY <1>3, <2>1, <2>3 DEF Abroad
  <2>5. Refusals(B, next, T, r)'
    BY <2>1, <2>4, SendRefusals
  <2> QED BY <2>5 DEF next
<1>6. ASSUME NEW k \in 0 .. 1, SendFd(m, k)
      PROVE  Refusals(B, IF k = 1 THEN a + 1 ELSE a, T, r)'
  <2> DEFINE f == encode_control_command_fd(m, num + 1, canSeq)
             next == IF k = 1 THEN a + 1 ELSE a
  <2>1. /\ canTodo = << >> /\ canNum' = num + 1 /\ UNCHANGED <<canVia, canDec, canLate, canMissed>>
        /\ UNCHANGED <<canMail, canNet>> /\ Encodable(m)
        /\ (canBus' = canBus \/ (canBus' = Append(canBus, f) /\ next = a + 1))
    BY <1>6 DEF SendFd, MaySend, bridgeVars
  <2>2. StatusOf(f).n = num + 1
    BY <1>2, <2>1 DEF encode_control_command_fd, StatusOf
  <2> HIDE DEF f, next
  <2>3. ASSUME NEW i \in 1 .. Len(canBus')
        PROVE  \/ i \in 1 .. Len(canBus) /\ canBus'[i] = canBus[i]
               \/ canBus'[i] = f /\ next = a + 1
    BY <1>1, <2>1
  <2>4. \A j \in 1 .. num + 1 :
          Abroad(j)' => (j # num + 1 /\ Abroad(j)) \/ (j = num + 1 /\ next = a + 1)
    BY <1>3, <2>1, <2>2, <2>3 DEF Abroad
  <2>5. Refusals(B, next, T, r)'
    BY <2>1, <2>4, SendRefusals
  <2> QED BY <2>5 DEF next
<1>7. ASSUME NEW ok \in BOOLEAN, SendUdp(m, ok)
      PROVE  Refusals(B, IF ok THEN a + 1 ELSE a, T, r)'
  <2> DEFINE d == pack_can_udp_tunnel(b)
             next == IF ok THEN a + 1 ELSE a
  <2>1. /\ canTodo = << >> /\ canNum' = num + 1 /\ UNCHANGED <<canVia, canDec, canLate, canMissed>>
        /\ UNCHANGED <<canMail, canBus>> /\ Encodable(m)
        /\ (canNet' = canNet \/ (canNet' = canNet \cup {d} /\ next = a + 1))
    BY <1>7 DEF SendUdp, MaySend, bridgeVars
  <2>2. d.frames[3].n = num + 1
    BY <1>2, <2>1 DEF pack_can_udp_tunnel
  <2> HIDE DEF d, next
  <2>3. \A j \in 1 .. num + 1 :
          Abroad(j)' => (j # num + 1 /\ Abroad(j)) \/ (j = num + 1 /\ next = a + 1)
    BY <1>3, <2>1, <2>2 DEF Abroad
  <2>4. Refusals(B, next, T, r)'
    BY <2>1, <2>3, SendRefusals
  <2> QED BY <2>4 DEF next
<1> QED BY <1>4, <1>5, <1>6, <1>7

LEMMA WireRefusals ==
  ASSUME CanInv, NEW A, NEW a, NEW T, NEW r, Refusals(A, a, T, r),
         \/ \E d \in canNet : Loses(d) \/ \E k \in 0 .. 3, again \in BOOLEAN : Gateway(d, k, again)
         \/ \E f \in canMail, err \in 0 .. 1 : TxDone(f, err)
         \/ FdLoses \/ BridgeWaits \/ CanTicks
  PROVE  Refusals(A, a, T, r)'
<1>1. /\ UNCHANGED <<canVia, canNum, canLate, canMissed, canTodo>>
  BY DEF Loses, Gateway, TxDone, FdLoses, BridgeWaits, CanTicks, senderVars, bridgeVars
<1>2. canDec'.command = canDec.command
  <2>1. canDec \in Decoders
    BY DEF CanInv, CanTypes
  <2>2. CASE BridgeWaits
    BY <2>1, <2>2, PollOutcome DEF BridgeWaits, BridgeApplies
  <2>3. CASE CanTicks
    BY <2>1, <2>3 DEF CanTicks, Decoders
  <2> QED BY <2>2, <2>3 DEF Loses, Gateway, TxDone, FdLoses, bridgeVars
<1>3. canBus \in Seq(WireFrames)
  BY BusNumbers
<1>4. ASSUME NEW j, Abroad(j)' PROVE Abroad(j)
  <2>1. CASE \E d \in canNet : Loses(d)
    <3>1. canNet' \subseteq canNet /\ canBus' = canBus /\ canMail' = canMail
      BY <2>1 DEF Loses, senderVars
    <3> QED BY <1>4, <3>1 DEF Abroad
  <2>2. ASSUME NEW d \in canNet, NEW k \in 0 .. 3, NEW again \in BOOLEAN, Gateway(d, k, again)
        PROVE  Abroad(j)
    <3>1. /\ canNet' \subseteq canNet /\ canMail' = canMail
          /\ canBus' \in {canBus, canBus \o SubSeq(d.frames, 1, k)}
      BY <2>2 DEF Gateway, senderVars
    <3>2. Batch(d.frames, canNum)
      BY DEF CanInv, Traffic
    <3>3. ASSUME NEW i \in 1 .. Len(canBus'), StatusOf(canBus'[i]).id = "st"
          PROVE  \/ i \in 1 .. Len(canBus) /\ canBus'[i] = canBus[i]
                 \/ StatusOf(canBus'[i]).n = d.frames[3].n
      <4>1. CASE canBus' = canBus
        BY <4>1
      <4>2. CASE canBus' = canBus \o SubSeq(d.frames, 1, k)
        <5> DEFINE b == d.frames
                   grown == canBus \o SubSeq(b, 1, k)
        <5>1. i \in 1 .. Len(grown) /\ StatusOf(grown[i]).id = "st" /\ canBus' = grown
          BY <3>3, <4>2
        <5>2. StatusOf(b[3]) = b[3]
          BY <3>2 DEF Batch, StatusOf
        <5>4. \A x \in 1 .. Len(grown) : StatusOf(grown[x]).id = "st" =>
                (x \in 1 .. Len(canBus) /\ grown[x] = canBus[x]) \/ (k = 3 /\ grown[x] = b[3])
          BY <1>3, <3>2, PrefixStatus
        <5> HIDE DEF grown
        <5>3. (i \in 1 .. Len(canBus) /\ grown[i] = canBus[i]) \/ (k = 3 /\ grown[i] = b[3])
          BY <5>1, <5>4
        <5> QED BY <5>1, <5>2, <5>3
      <4> QED BY <3>1, <4>1, <4>2
    <3> QED BY <1>4, <3>1, <3>3 DEF Abroad
  <2>3. ASSUME NEW f \in canMail, NEW err \in 0 .. 1, TxDone(f, err) PROVE Abroad(j)
    <3>1. canNet' = canNet /\ canMail' \subseteq canMail /\ canBus' \in {canBus, Append(canBus, f)}
      BY <2>3 DEF TxDone
    <3>2. StatusOf(f) = f
      BY DriverFacts DEF Driver, Sent, StatusOf
    <3>3. \A i \in 1 .. Len(canBus') : (i \in 1 .. Len(canBus) /\ canBus'[i] = canBus[i]) \/ canBus'[i] = f
      BY <1>3, <3>1
    <3> QED BY <1>4, <3>1, <3>2, <3>3 DEF Abroad
  <2>4. CASE FdLoses
    <3>1. /\ canNet' = canNet /\ canMail' = canMail
          /\ \A i \in 1 .. Len(canBus') : canBus'[i] = canBus[i + 1] /\ i + 1 \in 1 .. Len(canBus)
      BY <1>3, <2>4 DEF FdLoses, senderVars
    <3> QED BY <1>4, <3>1 DEF Abroad
  <2>5. CASE BridgeWaits \/ CanTicks
    <3>1. UNCHANGED <<canNet, canBus, canMail>>
      BY <2>5 DEF BridgeWaits, CanTicks, senderVars
    <3> QED BY <1>4, <3>1 DEF Abroad
  <2> QED BY <2>1, <2>2, <2>3, <2>4, <2>5
<1>5. canTodo' = canTodo /\ \A j \in 1 .. canNum : Abroad(j)' => Abroad(j)
  BY <1>1, <1>4
<1> QED BY <1>1, <1>2, <1>5, QuietRefusals

\* While the batch is unfinished, nothing of it has reached a status frame.
LEMMA NotAbroad ==
  ASSUME CanInv, Turns, NEW r, Strict(r), Unfinished, canVia = "zephyr",
         canCtx.state # "Waiting" \/ \A f \in canMail : f.id # "st",
         r \in Int
  PROVE  ~Abroad(canNum) /\ r # canNum
<1>1. canNum \in Nat /\ canNet = {}
  BY BusNumbers DEF CanInv, Traffic
<1>2. ~(canNum < canNum)
  BY <1>1
<1>3. r # canNum
  BY <1>1, <1>2 DEF Strict
<1>4. \A i \in 1 .. Len(canBus) : StatusOf(canBus[i]) = canBus[i]
  BY DEF Turns, InTurn, StatusOf
<1>5. ~\E i \in 1 .. Len(canBus) : StatusOf(canBus[i]).id = "st" /\ StatusOf(canBus[i]).n = canNum
  BY <1>2, <1>4 DEF Strict
<1>6. ~\E f \in canMail : f.id = "st" /\ f.n = canNum
  BY <1>2 DEF Strict
<1> QED BY <1>1, <1>3, <1>5, <1>6 DEF Abroad

\* The end of a batch, whole or not.
LEMMA EndRefusals ==
  ASSUME NEW A, NEW a, NEW T, NEW r, Refusals(A, a, T, r), NEW T2, NEW next,
         UNCHANGED <<canVia, canNum, canMissed>>, canDec' = canDec, canVia = "zephyr",
         T \subseteq T2, T2 \subseteq 1 .. canNum, Cardinality(T2) <= canLate',
         \A j \in 1 .. canNum : Abroad(j)' => Abroad(j),
         canNum \in Nat, canMissed \in Nat, canTodo' = << >>,
         Abroad(canNum) \/ r = canNum => next = A[canNum] + 1 \/ canNum \in T2
  PROVE  Refusals(A, next, T2, r)'
<1>1. ASSUME NEW j \in 1 .. canNum, Abroad(j)' \/ j = r
      PROVE  Settled(A, next, T2, canNum, canTodo' = << >>, j)
  <2>1. Abroad(j) \/ j = r
    BY <1>1
  <2>2. Settled(A, a, T, canNum, canTodo = << >>, j)
    BY <2>1 DEF Refusals
  <2> QED BY <2>1, <2>2 DEF Settled
<1>2. canMissed <= Cardinality({t \in T2 : t < r})
  <2> DEFINE old == {t \in T : t < r}
             grown == {t \in T2 : t < r}
  <2>1. IsFiniteSet(T2)
    <3>1. IsFiniteSet(1 .. canNum)
      BY FS_Interval
    <3> QED BY <3>1, FS_Subset
  <2>2. IsFiniteSet(grown) /\ old \subseteq grown
    BY <2>1, FS_Subset
  <2>3. Cardinality(old) <= Cardinality(grown) /\ IsFiniteSet(old)
    BY <2>2, FS_Subset
  <2>4. Cardinality(old) \in Nat /\ Cardinality(grown) \in Nat
    BY <2>2, <2>3, FS_CardinalityType
  <2>5. canMissed <= Cardinality(old)
    BY DEF Refusals
  <2> HIDE DEF old, grown
  <2>6. canMissed <= Cardinality(grown)
    BY <2>3, <2>4, <2>5
  <2> QED BY <2>6 DEF grown
<1> QED BY <1>1, <1>2 DEF Refusals

LEMMA DriverRefusals ==
  ASSUME CanInv, Turns, NEW A, NEW a, NEW T, NEW r, Numbered(A, a), Refusals(A, a, T, r),
         canVia = "zephyr" => Strict(r),
         NEW next, next = IF canCtx.err = 0 /\ Len(canTodo) = 1 THEN a + 1 ELSE a
  PROVE  /\ QueueFrame \/ QueueFails => Refusals(A, a, T, r)'
         /\ WaitEnds => Refusals(A, next, T, r)'
         /\ WaitTimesOut => \E T2 : Refusals(A, a, T2, r)'
<1>1. /\ canNum \in Nat /\ canTodo \in Seq(CanFrames) /\ canMissed \in Nat /\ canLate \in Nat
      /\ r \in Int /\ T \subseteq 1 .. canNum /\ IsFiniteSet(T) /\ Cardinality(T) \in Nat
      /\ Cardinality(T) <= canLate
  <2>1. canDec.command.st.n \in Int /\ canNum \in Nat
    BY BusNumbers
  <2>2. T \subseteq 1 .. canNum /\ r \in Int /\ Cardinality(T) <= canLate
    BY <2>1 DEF Refusals
  <2>3. IsFiniteSet(T)
    <3>1. IsFiniteSet(1 .. canNum)
      BY <2>1, FS_Interval
    <3> QED BY <2>2, <3>1, FS_Subset
  <2> QED BY <2>1, <2>2, <2>3, FS_CardinalityType DEF CanInv, CanTypes
<1>2. ASSUME QueueFrame PROVE Refusals(A, a, T, r)'
  <2>1. /\ canTodo # << >> /\ canMail' = canMail \cup {Head(canTodo)}
        /\ UNCHANGED <<canVia, canNum, canTodo, canNet, canBus, canLate, canDec, canMissed>>
    BY <1>2 DEF QueueFrame, bridgeVars
  <2>2. Head(canTodo) = canTodo[1] /\ 1 \in 1 .. Len(canTodo)
    BY <1>1, <2>1
  <2>3. Head(canTodo).n = canNum
    BY <2>2 DEF Turns
  <2>4. \A j \in 1 .. canNum : Abroad(j)' => Abroad(j) \/ (j = canNum /\ canTodo' # << >>)
    BY <2>1, <2>3 DEF Abroad
  <2> QED BY <2>1, <2>4, QuietRefusals
<1>3. ASSUME canTodo # << >> PROVE canVia = "zephyr" /\ Strict(r)
  BY <1>3 DEF CanInv, Traffic
<1>4. ASSUME QueueFails PROVE Refusals(A, a, T, r)'
  <2>1. /\ canTodo # << >> /\ canCtx.state # "Waiting" /\ canTodo' = << >>
        /\ UNCHANGED <<canVia, canNum, canMail, canNet, canBus, canLate, canDec, canMissed>>
    BY <1>4 DEF QueueFails, FailBatch, bridgeVars
  <2>2. Unfinished
    BY <2>1 DEF Unfinished
  <2>3. ~Abroad(canNum) /\ r # canNum
    BY <1>1, <1>3, <2>1, <2>2, NotAbroad
  <2>4. \A j \in 1 .. canNum : Abroad(j)' => Abroad(j)
    BY <2>1 DEF Abroad
  <2> QED BY <1>1, <1>3, <2>1, <2>3, <2>4, EndRefusals
<1>5. ASSUME WaitEnds PROVE Refusals(A, next, T, r)'
  <2>1. /\ canCtx.state = "Waiting" /\ canCtx.sem = 1
        /\ UNCHANGED <<canVia, canNum, canMail, canNet, canBus, canLate, canDec, canMissed>>
    BY <1>5 DEF WaitEnds, bridgeVars
  <2>2. canTodo # << >> /\ canMail = {} /\ Len(canTodo) \in Nat
    BY <1>1, <2>1, DriverFacts DEF Driver
  <2>3. \A j \in 1 .. canNum : Abroad(j)' => Abroad(j)
    BY <2>1 DEF Abroad
  <2>4. CASE canCtx.err # 0
    <3>1. canTodo' = << >> /\ next = a
      BY <1>5, <2>4 DEF WaitEnds, FailBatch
    <3>2. Unfinished
      BY <2>2, <2>4 DEF Unfinished
    <3>3. ~Abroad(canNum) /\ r # canNum
      BY <1>1, <1>3, <2>2, <3>2, NotAbroad
    <3> QED BY <1>1, <1>3, <2>1, <2>2, <2>3, <3>1, <3>3, EndRefusals
  <2>5. CASE canCtx.err = 0 /\ Len(canTodo) = 1
    <3>1. canTodo' = Tail(canTodo) /\ next = a + 1
      BY <1>5, <2>5 DEF WaitEnds
    <3>2. canTodo' = << >>
      <4>1. canTodo' \in Seq(CanFrames) /\ Len(canTodo') = 0
        BY <1>1, <2>2, <2>5, <3>1
      <4> QED BY <4>1, EmptySeq
    <3>3. a = A[canNum]
      BY <2>2 DEF Numbered
    <3> QED BY <1>1, <1>3, <2>1, <2>2, <2>3, <3>1, <3>2, <3>3, EndRefusals
  <2>6. CASE canCtx.err = 0 /\ Len(canTodo) # 1
    <3>1. next = a
      BY <2>6
    <3>2. canTodo' = Tail(canTodo)
      BY <1>5, <2>6 DEF WaitEnds
    <3>3. canTodo' # << >>
      <4>1. Len(canTodo) # 1
        BY <2>6
      <4>2. Len(Tail(canTodo)) = Len(canTodo) - 1 /\ Len(canTodo) \in Nat
        BY <1>1, <2>2
      <4>3. Len(canTodo') # 0
        BY <3>2, <4>1, <4>2
      <4> QED BY <4>3
    <3>4. Refusals(A, a, T, r)'
      BY <2>1, <2>3, <3>3, QuietRefusals
    <3> QED BY <3>1, <3>4
  <2> QED BY <2>4, <2>5, <2>6
<1>6. ASSUME WaitTimesOut PROVE \E T2 : Refusals(A, a, T2, r)'
  <2>1. /\ canCtx.state = "Waiting" /\ canCtx.sem = 0 /\ canTodo' = << >>
        /\ canLate' = canLate + IF Head(canTodo).id = "st" THEN 1 ELSE 0
        /\ UNCHANGED <<canVia, canNum, canMail, canNet, canBus, canDec, canMissed>>
    BY <1>6 DEF WaitTimesOut, FailBatch, bridgeVars
  <2>2. canTodo # << >> /\ canMail = {canTodo[1]} /\ Head(canTodo) = canTodo[1]
    BY <1>1, <2>1, DriverFacts DEF Driver
  <2>3. Unfinished
    BY <2>1, <2>2 DEF Unfinished
  <2>4. \A j \in 1 .. canNum : Abroad(j)' => Abroad(j)
    BY <2>1 DEF Abroad
  <2>5. CASE Head(canTodo).id = "st"
    <3> PICK T2 : T2 = T \cup {canNum}
      OBVIOUS
    <3>1. Cardinality(T2) <= canLate'
      <4>1. Cardinality(T2) = Cardinality(T) \/ Cardinality(T2) = Cardinality(T) + 1
        BY <1>1, FS_AddElement
      <4>2. canLate' = canLate + 1
        BY <2>1, <2>5
      <4> QED BY <1>1, <4>1, <4>2
    <3>2. T \subseteq T2 /\ canNum \in T2 /\ T2 \subseteq 1 .. canNum
      <4>1. canNum > 0
        BY <2>2 DEF Numbered
      <4> QED BY <1>1, <4>1
    <3>3. Refusals(A, a, T2, r)'
      BY <1>1, <1>3, <2>1, <2>2, <2>4, <3>1, <3>2, EndRefusals
    <3> QED BY <3>3
  <2>6. CASE Head(canTodo).id # "st"
    <3>1. ~Abroad(canNum) /\ r # canNum
      BY <1>1, <1>3, <2>2, <2>3, <2>6, NotAbroad
    <3>2. Cardinality(T) <= canLate'
      BY <1>1, <2>1, <2>6
    <3>3. Refusals(A, a, T, r)'
      BY <1>1, <1>3, <2>1, <2>2, <2>4, <3>1, <3>2, EndRefusals
    <3> QED BY <3>3
  <2> QED BY <2>5, <2>6
<1> QED BY <1>2, <1>4, <1>5, <1>6

\* What the driver and the sender do keeps the status frames apart.
LEMMA SenderStrict ==
  ASSUME CanInv, Turns, canVia = "zephyr", NEW r \in 0 .. canNum, Strict(r),
         \/ \E m \in CanMessages : SendRefused(m) \/ SendZephyr(m)
         \/ QueueFails \/ WaitEnds \/ WaitTimesOut
  PROVE  Strict(r)'
<1>1. UNCHANGED <<canMail, canBus>> /\ canNum \in Nat /\ canNum' \in {canNum, canNum + 1}
  BY BusNumbers DEF SendRefused, SendZephyr, QueueFails, WaitEnds, WaitTimesOut
<1>2. /\ \A i \in 1 .. Len(canBus) : canBus[i].id = "st" =>
           /\ r < canBus[i].n
           /\ \A j \in i + 1 .. Len(canBus) : canBus[j].id = "st" => canBus[i].n < canBus[j].n
           /\ \A f \in canMail : f.id = "st" => canBus[i].n < f.n
      /\ \A f \in canMail : f.id = "st" => r < f.n
  BY DEF Strict
<1>3. CASE \E m \in CanMessages : SendRefused(m) \/ SendZephyr(m)
  <2>1. canNum' = canNum + 1
    BY <1>3 DEF SendRefused, SendZephyr
  <2>2. \A i \in 1 .. Len(canBus) : canBus[i].id = "st" => canBus[i].n < canNum'
    <3> SUFFICES ASSUME NEW i \in 1 .. Len(canBus), canBus[i].id = "st" PROVE canBus[i].n < canNum'
      OBVIOUS
    <3>1. StatusOf(canBus[i]) = canBus[i]
      BY DEF StatusOf
    <3>2. canBus[i].n \in 1 .. canNum
      BY <3>1, BusNumbers
    <3> QED BY <1>1, <2>1, <3>2
  <2>3. \A f \in canMail : f.n < canNum'
    BY <1>1, <2>1, DriverFacts DEF Driver, Sent
  <2>4. r < canNum'
    BY <1>1, <2>1
  <2>5. \A i \in 1 .. Len(canTodo') - 1 : canTodo'[i].id # "st"
    <3>1. CASE \E m \in CanMessages : SendRefused(m)
      BY <3>1 DEF SendRefused, MaySend
    <3>2. ASSUME NEW m \in CanMessages, SendZephyr(m)
          PROVE  \A i \in 1 .. Len(canTodo') - 1 : canTodo'[i].id # "st"
      <4> DEFINE b == encode_control_command(m, canNum + 1, canSeq)
      <4>1. canTodo' = b /\ Encodable(m)
        BY <3>2 DEF SendZephyr
      <4>2. canNum + 1 \in Nat /\ canNum + 1 > 0 /\ canSeq \in Int
        BY <1>1, CanNumbers DEF CanInv, CanTypes
      <4>3. Batch(b, canNum + 1)
        BY <4>1, <4>2, EncodedBatch
      <4> HIDE DEF b
      <4>4. Len(canTodo') = 3 /\ canTodo'[1].id # "st" /\ canTodo'[2].id # "st"
        BY <4>1, <4>3 DEF Batch
      <4>5. \A i \in 1 .. Len(canTodo') - 1 : i \in {1, 2}
        BY <4>4
      <4> QED BY <4>4, <4>5
    <3> QED BY <1>3, <3>1, <3>2
  <2> QED BY <1>1, <1>2, <2>2, <2>3, <2>4, <2>5 DEF Strict
<1>4. CASE QueueFails \/ WaitEnds \/ WaitTimesOut
  <2>1. canNum' = canNum /\ (canTodo' = << >> \/ (WaitEnds /\ canCtx.err = 0 /\ canTodo' = Tail(canTodo)))
    BY <1>4 DEF QueueFails, WaitEnds, WaitTimesOut, FailBatch
  <2>2. CASE canTodo' = << >>
    <3>1. ~Unfinished'
      BY <2>2 DEF Unfinished
    <3>2. \A i \in 1 .. Len(canTodo') - 1 : canTodo'[i].id # "st"
      BY <2>2
    <3> QED BY <1>1, <1>2, <3>1, <3>2 DEF Strict
  <2>3. CASE canTodo' # << >> /\ WaitEnds /\ canCtx.err = 0 /\ canTodo' = Tail(canTodo)
    <3>1. canCtx.state = "Waiting" /\ canCtx.sem = 1
      BY <2>3 DEF WaitEnds
    <3>2. canTodo # << >> /\ canMail = {} /\ canTodo \in Seq(CanFrames)
      BY <3>1, DriverFacts DEF Driver
    <3>3. Len(canTodo') = Len(canTodo) - 1 /\ Len(canTodo) \in Nat
          /\ \A i \in 1 .. Len(canTodo') - 1 : canTodo'[i] = canTodo[i + 1] /\ i + 1 \in 1 .. Len(canTodo) - 1
      BY <2>3, <3>2
    <3>4. Len(canTodo) # 1
      <4>1. ASSUME Len(canTodo) = 1 PROVE FALSE
        <5>1. canTodo' \in Seq(CanFrames) /\ Len(canTodo') = 0
          BY <2>3, <3>2, <3>3, <4>1
        <5> QED BY <2>3, <5>1, EmptySeq
      <4> QED BY <4>1
    <3>5. Unfinished
      BY <3>2, <3>4 DEF Unfinished
    <3>6. \A i \in 1 .. Len(canTodo') - 1 : canTodo'[i].id # "st"
      BY <3>3 DEF Strict
    <3>7. r < canNum /\ \A i \in 1 .. Len(canBus) : canBus[i].id = "st" => canBus[i].n < canNum
      BY <3>5 DEF Strict
    <3> QED BY <1>1, <1>2, <2>1, <3>2, <3>6, <3>7 DEF Strict
  <2> QED BY <2>1, <2>2, <2>3
<1> QED BY <1>3, <1>4

LEMMA QueueStrict ==
  ASSUME CanInv, Turns, canVia = "zephyr", NEW r \in 0 .. canNum, Strict(r), QueueFrame
  PROVE  Strict(r)'
<1>1. /\ canTodo # << >> /\ canCtx.state # "Waiting" /\ ContextFree
      /\ canMail' = canMail \cup {Head(canTodo)} /\ UNCHANGED <<canBus, canNum, canTodo>>
  BY DEF QueueFrame, bridgeVars
<1>2. canMail = {}
  BY <1>1, DriverFacts DEF Driver, ContextFree
<1>3. Head(canTodo) = canTodo[1] /\ 1 \in 1 .. Len(canTodo)
  BY <1>1, DriverFacts
<1>4. canMail' = {canTodo[1]} /\ canTodo[1].n = canNum
  BY <1>1, <1>2, <1>3 DEF Turns
<1>5. Unfinished
  BY <1>1 DEF Unfinished
<1>6. r < canNum /\ \A i \in 1 .. Len(canBus) : canBus[i].id = "st" => canBus[i].n < canNum
  BY <1>5 DEF Strict
<1>7. canCtx'.state = "Waiting"
  BY DEF QueueFrame
<1> QED BY <1>1, <1>4, <1>6, <1>7 DEF Strict

LEMMA TxDoneStrict ==
  ASSUME CanInv, Turns, canVia = "zephyr", NEW r \in 0 .. canNum, Strict(r),
         NEW f \in canMail, NEW err \in 0 .. 1, TxDone(f, err)
  PROVE  Strict(r)'
<1>1. /\ canMail' = canMail \ {f} /\ canBus' = IF err = 0 THEN Append(canBus, f) ELSE canBus
      /\ canCtx' = [canCtx EXCEPT !.err = err, !.sem = 1] /\ UNCHANGED <<canNum, canTodo>>
  BY DEF TxDone
<1>2. canMail' = {} /\ canBus \in Seq(WireFrames)
  BY <1>1, DriverFacts, BusNumbers DEF Driver
<1>3. canCtx \in [state : {"Idle", "Waiting", "TimedOut"}, sem : 0 .. 1, err : 0 .. 1]
  BY DEF CanInv, CanTypes
<1>4. canCtx'.state = canCtx.state /\ canCtx'.sem = 1 /\ canCtx'.err = err
  BY <1>1, <1>3
<1>5. Unfinished' => Unfinished
  <2>1. canCtx.state = "Waiting" => canCtx.sem = 0
    BY <1>3, DriverFacts DEF Driver
  <2> QED BY <1>1, <2>1 DEF Unfinished
<1>6. f.id = "st" => r < f.n /\ \A i \in 1 .. Len(canBus) : canBus[i].id = "st" => canBus[i].n < f.n
  BY DEF Strict
<1>7. f.id = "st" /\ err = 0 /\ Unfinished' => f.n < canNum
  <2> SUFFICES ASSUME f.id = "st", err = 0, Unfinished' PROVE f.n < canNum
    OBVIOUS
  <2>1. CASE canCtx.state # "Waiting"
    BY <1>5, <2>1 DEF Strict
  <2>2. CASE canCtx.state = "Waiting"
    <3>1. canCtx.sem = 0 /\ canTodo # << >> /\ f = canTodo[1] /\ Len(canTodo) \in Nat
      BY <1>3, <2>2, DriverFacts DEF Driver
    <3>2. Len(canTodo) # 1
      BY <1>1, <1>4, <2>2 DEF Unfinished
    <3>3. 1 \in 1 .. Len(canTodo) - 1
      <4>1. canTodo \in Seq(CanFrames) /\ canTodo # << >>
        BY <3>1, DriverFacts
      <4>2. Len(canTodo) # 0
        BY <4>1, EmptySeq
      <4> PICK size : size = Len(canTodo)
        OBVIOUS
      <4>3. size \in Nat /\ size # 1 /\ size # 0
        BY <3>1, <3>2, <4>2
      <4>4. 1 \in 1 .. size - 1
        BY <4>3
      <4> QED BY <4>4
    <3> QED BY <3>1, <3>3 DEF Strict
  <2> QED BY <2>1, <2>2
<1>8. ASSUME NEW i \in 1 .. Len(canBus'), canBus'[i].id = "st"
      PROVE  /\ r < canBus'[i].n
             /\ \A j \in i + 1 .. Len(canBus') : canBus'[j].id = "st" => canBus'[i].n < canBus'[j].n
             /\ Unfinished' => canBus'[i].n < canNum
  <2>1. CASE err # 0
    BY <1>1, <1>5, <1>8, <2>1 DEF Strict
  <2>2. CASE err = 0
    <3>1. canBus' = Append(canBus, f) /\ Len(canBus') = Len(canBus) + 1 /\ Len(canBus) \in Nat
          /\ canBus'[Len(canBus) + 1] = f /\ \A x \in 1 .. Len(canBus) : canBus'[x] = canBus[x]
      BY <1>1, <1>2, <2>2
    <3>2. CASE i \in 1 .. Len(canBus)
      <4>1. canBus'[i] = canBus[i]
        BY <3>1, <3>2
      <4>2. ASSUME NEW j \in i + 1 .. Len(canBus'), canBus'[j].id = "st"
            PROVE  canBus[i].n < canBus'[j].n
        <5>1. CASE j \in i + 1 .. Len(canBus)
          <6>1. canBus'[j] = canBus[j]
            BY <3>1, <3>2, <5>1
          <6> QED BY <1>8, <3>2, <4>1, <4>2, <5>1, <6>1 DEF Strict
        <5>2. CASE j = Len(canBus) + 1
          BY <1>6, <1>8, <3>1, <3>2, <4>1, <4>2, <5>2
        <5> QED BY <3>1, <3>2, <5>1, <5>2
      <4> QED BY <1>5, <1>8, <3>2, <4>1, <4>2 DEF Strict
    <3>3. CASE i = Len(canBus) + 1
      <4>1. canBus'[i] = f /\ ~\E j : j \in i + 1 .. Len(canBus')
        BY <3>1, <3>3
      <4> QED BY <1>6, <1>7, <1>8, <2>2, <4>1
    <3> QED BY <3>1, <3>2, <3>3
  <2> QED BY <2>1, <2>2
<1>9. (Unfinished' => r < canNum) /\ \A i \in 1 .. Len(canTodo) - 1 : canTodo[i].id # "st"
  BY <1>5 DEF Strict
<1> QED BY <1>1, <1>2, <1>8, <1>9 DEF Strict

\* A refused command is charged to the last send the decoder met: its
\* completion was late.
LEMMA RefusedCharged ==
  ASSUME CanInv, Turns, MaxSends <= SeqMod \div 2,
         NEW A, NEW a, NEW T, NEW r, Numbered(A, a), Refusals(A, a, T, r),
         canVia = "zephyr" => Strict(r),
         canBus # << >>, RefusedNew(poll_watchdog(canDec), canBus[1])
  PROVE  /\ r \in T /\ r \in 1 .. canNum /\ r < StatusOf(canBus[1]).n /\ canVia = "zephyr"
         /\ Replayed(canDec, StatusOf(canBus[1])) /\ StatusOf(canBus[1]).id = "st"
<1> DEFINE s == StatusOf(canBus[1])
           known == canDec.command.st.n
<1>1. 1 \in 1 .. Len(canBus) /\ canNum \in Nat
  BY BusNumbers
<1>2. known \in 1 .. canNum /\ s.n \in 1 .. canNum /\ known < s.n /\ A[s.n] = A[known]
  BY RefusedMeans
<1>3. s.id = "st" /\ Replayed(canDec, s)
  <2>1. s.id = "st" /\ Replayed(poll_watchdog(canDec), s)
    BY DEF RefusedNew, StatusOf
  <2>2. SameNumber(poll_watchdog(canDec), canDec) \/ ~poll_watchdog(canDec).hasExpected
    BY PollOutcome DEF CanInv, CanTypes
  <2> QED BY <2>1, <2>2 DEF SameNumber, Replayed
<1>4. r < s.n
  <2>1. CASE canVia = "zephyr"
    <3>1. canBus[1] = s
      BY <1>1, <2>1 DEF Turns, InTurn, StatusOf
    <3> QED BY <1>1, <1>3, <2>1, <3>1 DEF Strict
  <2>2. CASE canVia # "zephyr"
    BY <1>2, <2>2 DEF Refusals
  <2> QED BY <2>1, <2>2
<1>5. r \in known .. canNum
  BY DEF Refusals
<1>6. \A i, j \in 1 .. canNum : i <= j => A[i] <= A[j] /\ A[j] <= A[i] + (j - i)
  BY DEF Numbered, Counts
<1>7. A \in [Nat -> Nat]
  BY DEF Numbered, Counts
<1> HIDE DEF s, known
<1>8. r \in 1 .. canNum /\ r + 1 \in 1 .. canNum /\ r < canNum
  BY <1>1, <1>2, <1>4, <1>5
<1>9. A[known] <= A[r] /\ A[r] <= A[r + 1] /\ A[r + 1] <= A[s.n]
  <2>1. known <= r /\ r <= r + 1 /\ r + 1 <= s.n
    BY <1>1, <1>2, <1>4, <1>5, <1>8
  <2> QED BY <1>2, <1>6, <1>8, <2>1
<1>10. A[r + 1] # A[r] + 1
  <2>1. known \in Nat /\ r \in Nat /\ r + 1 \in Nat /\ s.n \in Nat
    BY <1>1, <1>2, <1>8
  <2>2. \A x \in Nat : A[x] \in Int
    BY <1>7
  <2>3. A[known] \in Int /\ A[r] \in Int /\ A[r + 1] \in Int /\ A[s.n] \in Int
    BY <2>1, <2>2
  <2> QED BY <1>2, <1>9, <2>3
<1>11. r \in T
  BY <1>8, <1>10 DEF Refusals, Settled
<1>12. canVia = "zephyr"
  BY <1>11 DEF Refusals
<1> QED BY <1>3, <1>4, <1>8, <1>11, <1>12 DEF s

\* A read leaves the status frames that follow apart from the one met.
LEMMA ReadStrict ==
  ASSUME CanInv, Turns, canVia = "zephyr", NEW r \in 0 .. canNum, Strict(r), canBus # << >>,
         canBus' = Tail(canBus), UNCHANGED <<canNum, canMail, canTodo, canCtx>>,
         NEW r2, r2 = r \/ (canBus[1].id = "st" /\ r2 = canBus[1].n)
  PROVE  Strict(r2)'
<1>1. /\ Len(canBus') = Len(canBus) - 1 /\ 1 \in 1 .. Len(canBus) /\ Len(canBus) \in Nat
      /\ \A i \in 1 .. Len(canBus') : canBus'[i] = canBus[i + 1] /\ i + 1 \in 1 .. Len(canBus)
  BY BusNumbers
<1>2. Unfinished' <=> Unfinished
  BY DEF Unfinished
<1>3. ASSUME NEW i \in 1 .. Len(canBus'), canBus'[i].id = "st"
      PROVE  /\ r2 < canBus'[i].n
             /\ \A j \in i + 1 .. Len(canBus') : canBus'[j].id = "st" => canBus'[i].n < canBus'[j].n
             /\ \A f \in canMail : f.id = "st" => canBus'[i].n < f.n
             /\ Unfinished => canBus'[i].n < canNum
  <2>1. canBus'[i] = canBus[i + 1] /\ i + 1 \in 1 .. Len(canBus) /\ i + 1 \in 1 + 1 .. Len(canBus)
    BY <1>1
  <2>2. \A j \in i + 1 .. Len(canBus') : canBus'[j] = canBus[j + 1] /\ j + 1 \in i + 1 + 1 .. Len(canBus)
    BY <1>1
  <2>3. r2 < canBus'[i].n
    BY <1>1, <1>3, <2>1 DEF Strict
  <2>4. \A j \in i + 1 .. Len(canBus') : canBus'[j].id = "st" => canBus'[i].n < canBus'[j].n
    BY <1>3, <2>1, <2>2 DEF Strict
  <2> QED BY <1>3, <2>1, <2>3, <2>4 DEF Strict
<1>4. /\ \A f \in canMail : f.id = "st" =>
           r2 < f.n /\ (Unfinished /\ canCtx.state # "Waiting" => f.n < canNum)
      /\ Unfinished => r2 < canNum
  BY <1>1 DEF Strict
<1>5. \A i \in 1 .. Len(canTodo) - 1 : canTodo[i].id # "st"
  BY DEF Strict
<1> QED BY <1>2, <1>3, <1>4, <1>5 DEF Strict

LEMMA ReadRefusals ==
  ASSUME CanInv, Turns, MaxSends <= SeqMod \div 2,
         NEW A, NEW a, NEW T, NEW r, Numbered(A, a), Refusals(A, a, T, r),
         canVia = "zephyr" => Strict(r), BridgeReads
  PROVE  \E r2 : Refusals(A, a, T, r2)' /\ (canVia' = "zephyr" => Strict(r2)')
<1> DEFINE refused == RefusedNew(poll_watchdog(canDec), canBus[1])
<1>1. /\ canBus # << >> /\ canBus' = Tail(canBus) /\ 1 \in 1 .. Len(canBus)
      /\ UNCHANGED <<canVia, canNum, canMail, canTodo, canCtx, canNet, canLate>>
  BY BusNumbers DEF BridgeReads, senderVars
<1>2. canMissed' = canMissed + IF refused THEN 1 ELSE 0
  <2>1. Head(canBus) = canBus[1]
    BY <1>1, BusNumbers
  <2> QED BY <2>1 DEF BridgeReads
<1>3. PICK s : s = StatusOf(canBus[1])
  OBVIOUS
<1>4. /\ canNum \in Nat /\ canMissed \in Nat /\ canDec.command.st.n \in 0 .. canNum
      /\ s.n \in 1 .. canNum /\ r \in canDec.command.st.n .. canNum
  BY <1>1, <1>3, BusNumbers DEF Turns, Refusals, CanInv, CanTypes
<1>4a. r \in Int /\ s.n \in Int /\ T \subseteq Int
  <2>1. T \subseteq 1 .. canNum
    BY DEF Refusals
  <2> QED BY <1>4, <2>1
<1>5. canVia = "zephyr" => s = canBus[1]
  BY <1>1, <1>3 DEF Turns, InTurn, StatusOf
<1>6. s.id = "st" => Abroad(s.n)
  BY <1>1, <1>3 DEF Abroad
<1>7. ASSUME NEW j, Abroad(j)' PROVE Abroad(j)
  <2>1. \A i \in 1 .. Len(canBus') : canBus'[i] = canBus[i + 1] /\ i + 1 \in 1 .. Len(canBus)
    BY <1>1, BusNumbers
  <2> QED BY <1>1, <1>7, <2>1 DEF Abroad
<1>8. ASSUME NEW r2, r2 = r \/ (s.id = "st" /\ r2 = s.n),
             r2 \in canDec'.command.st.n .. canNum,
             canMissed' <= Cardinality({t \in T : t < r2}),
             canVia # "zephyr" => r2 = canDec'.command.st.n
      PROVE  \E x : Refusals(A, a, T, x)' /\ (canVia' = "zephyr" => Strict(x)')
  <2>1. canVia = "zephyr" => Strict(r2)'
    <3>1. r \in 0 .. canNum
      BY <1>4
    <3>2. canVia = "zephyr" => (r2 = r \/ (canBus[1].id = "st" /\ r2 = canBus[1].n))
      BY <1>5, <1>8
    <3> QED BY <1>1, <3>1, <3>2, ReadStrict
  <2>2. ASSUME NEW j \in 1 .. canNum, Abroad(j)' \/ j = r2
        PROVE  Settled(A, a, T, canNum, canTodo = << >>, j)
    <3>1. Abroad(j) \/ j = r
      BY <1>6, <1>7, <1>8, <2>2
    <3> QED BY <3>1 DEF Refusals
  <2>3. /\ T \subseteq 1 .. canNum /\ Cardinality(T) <= canLate /\ (canVia # "zephyr" => T = {})
    BY DEF Refusals
  <2>4. Refusals(A, a, T, r2)'
    BY <1>1, <1>8, <2>2, <2>3 DEF Refusals
  <2> QED BY <1>1, <2>1, <2>4
<1>9. IsFiniteSet(T)
  <2>1. IsFiniteSet(1 .. canNum)
    BY <1>4, FS_Interval
  <2> QED BY <2>1, FS_Subset DEF Refusals
<1>10. canMissed <= Cardinality({t \in T : t < r})
  BY DEF Refusals
<1>11. ASSUME NEW q \in Int, r <= q
       PROVE  Cardinality({t \in T : t < r}) <= Cardinality({t \in T : t < q})
              /\ Cardinality({t \in T : t < r}) \in Nat /\ Cardinality({t \in T : t < q}) \in Nat
  <2> DEFINE old == {t \in T : t < r}
             grown == {t \in T : t < q}
  <2>1. old \subseteq grown
    <3>1. \A t \in T : t < r => t < q
      BY <1>4a, <1>11
    <3> QED BY <3>1
  <2>2. IsFiniteSet(grown)
    BY <1>9, FS_Subset
  <2> HIDE DEF old, grown
  <2>3. Cardinality(old) <= Cardinality(grown) /\ IsFiniteSet(old)
    BY <2>1, <2>2, FS_Subset
  <2>4. Cardinality(old) \in Nat /\ Cardinality(grown) \in Nat
    BY <2>2, <2>3, FS_CardinalityType
  <2> QED BY <2>3, <2>4 DEF old, grown
<1>12. CASE refused
  <2>1. /\ r \in T /\ r < s.n /\ canVia = "zephyr" /\ Replayed(canDec, s) /\ s.id = "st"
    BY <1>1, <1>3, <1>12, RefusedCharged
  <2>2. canDec'.command = canDec.command
    <3>1. canBus[1].id # "fd"
      BY <1>5, <2>1
    <3> QED BY <1>3, <2>1, <3>1, ReadOutcome
  <2>3. canMissed' <= Cardinality({t \in T : t < s.n})
    <3> DEFINE old == {t \in T : t < r}
               grown == {t \in T : t < s.n}
               more == old \cup {r}
    <3>1. IsFiniteSet(old) /\ r \notin old
      BY <1>4a, <1>9, FS_Subset
    <3>2. IsFiniteSet(grown)
      BY <1>9, FS_Subset
    <3>3. more \subseteq grown
      <4>1. \A t \in T : t < r => t < s.n
        BY <1>4a, <2>1
      <4> QED BY <2>1, <4>1
    <3> HIDE DEF old, grown
    <3>4. Cardinality(more) = Cardinality(old) + 1
      BY <3>1, FS_AddElement
    <3> HIDE DEF more
    <3>5. Cardinality(more) <= Cardinality(grown)
      BY <3>2, <3>3, FS_Subset
    <3>6. Cardinality(old) \in Nat /\ Cardinality(grown) \in Nat
      BY <3>1, <3>2, FS_CardinalityType
    <3>7. canMissed <= Cardinality(old)
      BY <1>10 DEF old
    <3>8. canMissed' <= Cardinality(grown)
      BY <1>2, <1>4, <1>12, <3>4, <3>5, <3>6, <3>7
    <3> QED BY <3>8 DEF grown
  <2>4. s.n \in canDec'.command.st.n .. canNum
    BY <1>4, <2>1, <2>2
  <2> QED BY <1>8, <2>1, <2>3, <2>4
<1>13. CASE ~refused /\ TakesNumber(canDec', s)
  <2>1. canMissed' = canMissed
    BY <1>2, <1>4, <1>13
  <2>2. s.id = "st" /\ canDec'.command.st.n = s.n
    BY <1>13 DEF TakesNumber
  <2>3. canMissed' <= Cardinality({t \in T : t < s.n})
    <3>1. CASE canVia = "zephyr"
      <4>1. r < s.n
        BY <1>1, <1>5, <2>2, <3>1 DEF Strict
      <4>2. r <= s.n
        BY <1>4a, <4>1
      <4>3. Cardinality({t \in T : t < r}) <= Cardinality({t \in T : t < s.n})
            /\ Cardinality({t \in T : t < r}) \in Nat /\ Cardinality({t \in T : t < s.n}) \in Nat
        BY <1>11, <1>4a, <4>2
      <4> QED BY <1>4, <1>10, <2>1, <4>3
    <3>2. CASE canVia # "zephyr"
      <4>1. T = {}
        BY <3>2 DEF Refusals
      <4>2. {t \in T : t < r} = {t \in T : t < s.n}
        BY <4>1
      <4> QED BY <1>10, <2>1, <4>2
    <3> QED BY <3>1, <3>2
  <2>4. s.n \in canDec'.command.st.n .. canNum
    BY <1>4, <2>2
  <2> QED BY <1>8, <2>2, <2>3, <2>4
<1>14. CASE ~refused /\ canDec'.command = canDec.command
  <2>1. canMissed' = canMissed
    BY <1>2, <1>4, <1>14
  <2>2. canVia # "zephyr" => r = canDec'.command.st.n
    BY <1>14 DEF Refusals
  <2>3. r \in canDec'.command.st.n .. canNum
    BY <1>4, <1>14
  <2> QED BY <1>8, <1>10, <2>1, <2>2, <2>3
<1>15. TakesNumber(canDec', s) \/ canDec'.command = canDec.command
  BY <1>3, ReadOutcome
<1> QED BY <1>12, <1>13, <1>14, <1>15

RefusalInv ==
  \E A, a, T, r : Numbered(A, a) /\ Refusals(A, a, T, r) /\ (canVia = "zephyr" => Strict(r))

LEMMA CanStartsRefusing ==
  ASSUME CanInit, NumberInv
  PROVE  RefusalInv
<1>1. PICK A, a : Numbered(A, a)
  BY DEF NumberInv
<1>2. /\ canNum = 0 /\ canTodo = << >> /\ canMail = {} /\ canBus = << >> /\ canLate = 0
      /\ canMissed = 0 /\ canDec.command.st.n = 0
  BY NoFrameShape DEF CanInit, NoCommand
<1>3. Cardinality({}) = 0 /\ {t \in {} : t < 0} = {}
  BY FS_EmptySet
<1>4. Refusals(A, a, {}, 0)
  BY <1>2, <1>3 DEF Refusals
<1>5. Strict(0)
  BY <1>2 DEF Strict, Unfinished
<1> QED BY <1>1, <1>4, <1>5 DEF RefusalInv

LEMMA NextRefusals ==
  ASSUME CanInv, Turns, RefusalInv, [CanNext]_canVars, MaxSends <= SeqMod \div 2
  PROVE  RefusalInv'
<1>1. PICK A, a, T, r : Numbered(A, a) /\ Refusals(A, a, T, r) /\ (canVia = "zephyr" => Strict(r))
  BY DEF RefusalInv
<1>2. r \in 0 .. canNum
  <2>1. canDec.command.st.n \in 0 .. canNum /\ canNum \in Nat
    BY BusNumbers DEF Turns
  <2>2. r \in canDec.command.st.n .. canNum
    BY <1>1 DEF Refusals
  <2> QED BY <2>1, <2>2
<1>3. PICK num : num = canNum
  OBVIOUS
<1>4. PICK B : B = [A EXCEPT ![num + 1] = a]
  OBVIOUS
<1>5. PICK next : next = IF canCtx.err = 0 /\ Len(canTodo) = 1 THEN a + 1 ELSE a
  OBVIOUS
<1>6. ASSUME NEW m \in CanMessages,
             \/ SendRefused(m)
             \/ \E k \in 0 .. 3 : SendClassic(m, k)
             \/ \E k \in 0 .. 1 : SendFd(m, k)
             \/ \E ok \in BOOLEAN : SendUdp(m, ok)
             \/ SendZephyr(m)
      PROVE  RefusalInv'
  <2>1. canVia' = canVia
    BY <1>6 DEF SendRefused, SendClassic, SendFd, SendUdp, SendZephyr
  <2>2. \E x : Numbered(B, x)' /\ Refusals(B, x, T, r)'
    <3>1. /\ SendRefused(m) \/ SendZephyr(m) => Numbered(B, a)'
          /\ \A k \in 0 .. 3 : SendClassic(m, k) => Numbered(B, IF k = 3 THEN a + 1 ELSE a)'
          /\ \A k \in 0 .. 1 : SendFd(m, k) => Numbered(B, IF k = 1 THEN a + 1 ELSE a)'
          /\ \A ok \in BOOLEAN : SendUdp(m, ok) => Numbered(B, IF ok THEN a + 1 ELSE a)'
      BY <1>1, <1>3, <1>4, SenderNumbered
    <3>2. /\ SendRefused(m) \/ SendZephyr(m) => Refusals(B, a, T, r)'
          /\ \A k \in 0 .. 3 : SendClassic(m, k) => Refusals(B, IF k = 3 THEN a + 1 ELSE a, T, r)'
          /\ \A k \in 0 .. 1 : SendFd(m, k) => Refusals(B, IF k = 1 THEN a + 1 ELSE a, T, r)'
          /\ \A ok \in BOOLEAN : SendUdp(m, ok) => Refusals(B, IF ok THEN a + 1 ELSE a, T, r)'
      BY <1>1, <1>3, <1>4, SenderRefusals
    <3>3. ASSUME NEW k \in 0 .. 3, SendClassic(m, k) PROVE \E x : Numbered(B, x)' /\ Refusals(B, x, T, r)'
      <4> PICK x : x = IF k = 3 THEN a + 1 ELSE a
        OBVIOUS
      <4>1. Numbered(B, x)' /\ Refusals(B, x, T, r)'
        BY <3>1, <3>2, <3>3
      <4> QED BY <4>1
    <3>4. ASSUME NEW k \in 0 .. 1, SendFd(m, k) PROVE \E x : Numbered(B, x)' /\ Refusals(B, x, T, r)'
      <4> PICK x : x = IF k = 1 THEN a + 1 ELSE a
        OBVIOUS
      <4>1. Numbered(B, x)' /\ Refusals(B, x, T, r)'
        BY <3>1, <3>2, <3>4
      <4> QED BY <4>1
    <3>5. ASSUME NEW ok \in BOOLEAN, SendUdp(m, ok) PROVE \E x : Numbered(B, x)' /\ Refusals(B, x, T, r)'
      <4> PICK x : x = IF ok THEN a + 1 ELSE a
        OBVIOUS
      <4>1. Numbered(B, x)' /\ Refusals(B, x, T, r)'
        BY <3>1, <3>2, <3>5
      <4> QED BY <4>1
    <3> QED BY <1>6, <3>1, <3>2, <3>3, <3>4, <3>5
  <2>3. canVia = "zephyr" => Strict(r)'
    <3>1. canVia = "zephyr" => SendRefused(m) \/ SendZephyr(m)
      BY <1>6 DEF SendClassic, SendFd, SendUdp
    <3> QED BY <1>1, <1>2, <3>1, SenderStrict
  <2> QED BY <2>1, <2>2, <2>3 DEF RefusalInv
<1>7. ASSUME \/ \E d \in canNet : Loses(d) \/ \E k \in 0 .. 3, again \in BOOLEAN : Gateway(d, k, again)
             \/ \E f \in canMail, err \in 0 .. 1 : TxDone(f, err)
             \/ FdLoses \/ BridgeWaits \/ CanTicks
      PROVE  RefusalInv'
  <2>1. Refusals(A, a, T, r)'
    BY <1>1, <1>7, WireRefusals
  <2>2. Numbered(A, a)'
    <3>1. ASSUME NEW d \in canNet, Loses(d) PROVE Numbered(A, a)'
      <4>1. /\ UNCHANGED <<canNum, canSeq, canDec, canTodo, canMail, canBus>> /\ canNet' \subseteq canNet
        BY <3>1 DEF Loses, senderVars, bridgeVars
      <4> QED BY <1>1, <4>1, QuietNumbered DEF Numbered
    <3> QED BY <1>1, <1>7, <3>1, GatewayNumbered, TxDoneNumbered, BridgeNumbered
  <2>3. canVia' = canVia
    BY <1>7 DEF Loses, Gateway, TxDone, FdLoses, BridgeWaits, CanTicks
  <2>4. ASSUME canVia = "zephyr" PROVE Strict(r)'
    <3>1. canNet = {} /\ ~FdLoses
      BY <2>4 DEF CanInv, Traffic, FdLoses
    <3>2. CASE \E f \in canMail, err \in 0 .. 1 : TxDone(f, err)
      BY <1>1, <1>2, <2>4, <3>2, TxDoneStrict
    <3>3. CASE BridgeWaits \/ CanTicks
      <4>1. UNCHANGED <<canNum, canTodo, canCtx, canMail, canBus>>
        BY <3>3 DEF BridgeWaits, CanTicks, senderVars
      <4> QED BY <1>1, <2>4, <4>1 DEF Strict, Unfinished
    <3> QED BY <1>7, <3>1, <3>2, <3>3
  <2> QED BY <2>1, <2>2, <2>3, <2>4 DEF RefusalInv
<1>8. ASSUME QueueFrame \/ QueueFails \/ WaitTimesOut PROVE RefusalInv'
  <2>1. Numbered(A, a)'
    BY <1>1, <1>8, QueueNumbered
  <2>2. \E x : Refusals(A, a, x, r)'
    BY <1>1, <1>5, <1>8, DriverRefusals
  <2>3. canVia' = canVia
    BY <1>8 DEF QueueFrame, QueueFails, WaitTimesOut
  <2>4. canVia = "zephyr" => Strict(r)'
    BY <1>1, <1>2, <1>8, SenderStrict, QueueStrict
  <2> QED BY <2>1, <2>2, <2>3, <2>4 DEF RefusalInv
<1>9. ASSUME WaitEnds PROVE RefusalInv'
  <2>1. Numbered(A, next)'
    BY <1>1, <1>5, <1>9, WaitEndsNumbered
  <2>2. Refusals(A, next, T, r)'
    BY <1>1, <1>5, <1>9, DriverRefusals
  <2>3. canVia' = canVia
    BY <1>9 DEF WaitEnds
  <2>4. canVia = "zephyr" => Strict(r)'
    BY <1>1, <1>2, <1>9, SenderStrict
  <2> QED BY <2>1, <2>2, <2>3, <2>4 DEF RefusalInv
<1>10. ASSUME BridgeReads PROVE RefusalInv'
  <2>1. Numbered(A, a)'
    BY <1>1, <1>10, BridgeNumbered
  <2>2. \E r2 : Refusals(A, a, T, r2)' /\ (canVia' = "zephyr" => Strict(r2)')
    BY <1>1, <1>10, ReadRefusals
  <2> QED BY <2>1, <2>2 DEF RefusalInv
<1>11. CASE UNCHANGED canVars
  <2>1. Numbered(A, a)'
    BY <1>1, <1>11 DEF canVars, Numbered
  <2>2. \A j : Abroad(j)' <=> Abroad(j)
    BY <1>11 DEF canVars, Abroad
  <2>3. Refusals(A, a, T, r)'
    BY <1>1, <1>11, <2>2, QuietRefusals DEF canVars
  <2>4. canVia' = "zephyr" => Strict(r)'
    BY <1>1, <1>11 DEF canVars, Strict, Unfinished
  <2> QED BY <2>1, <2>3, <2>4 DEF RefusalInv
<1> QED BY <1>6, <1>7, <1>8, <1>9, <1>10, <1>11 DEF CanNext

\* CanSound for runs of at most half the range of sequence numbers: the model
\* leaves open how many sends pass while the bus or the network drops every
\* frame, and past half the range a number that is ahead looks behind.
THEOREM CanAlwaysSound ==
  ASSUME MaxSends <= SeqMod \div 2
  PROVE  CanSpec => []CanSound
<1>1. CanInit => CanInv /\ Turns /\ RefusalInv
  BY CanStartsSound, CanStartsNumbered, CanStartsRefusing
<1>2. CanInv /\ Turns /\ RefusalInv /\ [CanNext]_canVars => CanInv' /\ Turns' /\ RefusalInv'
  BY NextCan, NextTurns, NextRefusals
<1>3. CanInv /\ RefusalInv => RefusedOnlyAfterLate
  <2> SUFFICES ASSUME CanInv, RefusalInv PROVE RefusedOnlyAfterLate
    OBVIOUS
  <2>1. PICK A, a, T, r : Refusals(A, a, T, r)
    BY DEF RefusalInv
  <2> DEFINE old == {t \in T : t < r}
  <2>2. Cardinality(T) <= canLate /\ canMissed <= Cardinality(old) /\ T \subseteq 1 .. canNum
    BY <2>1 DEF Refusals
  <2>3. canLate \in Nat /\ canMissed \in Nat /\ canNum \in Int
    BY CanNumbers DEF CanInv, CanTypes
  <2>4. IsFiniteSet(T)
    <3>1. IsFiniteSet(1 .. canNum)
      BY <2>3, FS_Interval
    <3> QED BY <2>2, <3>1, FS_Subset
  <2>5. old \subseteq T
    OBVIOUS
  <2> HIDE DEF old
  <2>6. Cardinality(old) <= Cardinality(T) /\ IsFiniteSet(old)
    BY <2>4, <2>5, FS_Subset
  <2>7. Cardinality(old) \in Nat /\ Cardinality(T) \in Nat
    BY <2>4, <2>6, FS_CardinalityType
  <2> QED BY <2>2, <2>3, <2>6, <2>7 DEF RefusedOnlyAfterLate
<1>4. CanSpec => []RefusedOnlyAfterLate
  BY <1>1, <1>2, <1>3, PTL DEF CanSpec
<1>5. CanSpec => [](CanTypeOK /\ AcceptedWhole /\ NoOldDrive /\ OneCompletion)
  BY CanAlwaysWhole
<1>6. (CanTypeOK /\ AcceptedWhole /\ NoOldDrive /\ OneCompletion) /\ RefusedOnlyAfterLate => CanSound
  BY DEF CanSound
<1> QED BY <1>4, <1>5, <1>6, PTL
=============================================================================
