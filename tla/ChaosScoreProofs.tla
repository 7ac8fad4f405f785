--------------------------- MODULE ChaosScoreProofs ---------------------------
(***************************************************************************)
(* Proofs about the chaos scoring, for any number of runs, samples and     *)
(* restarts, any times, and any latencies that are powers of two: a        *)
(* recovery time is measured between a start and an end, and a completed   *)
(* run is scored.                                                          *)
(***************************************************************************)
EXTENDS ChaosScore, FiniteSetTheorems, NaturalsInduction, WellFoundedInduction, TLAPS

Readings == {0} \cup Latencies
Samples == {v \in Latencies : v > 0 /\ v <= MaxLatency}
Sessions ==
  [app : Seq(Samples), kernel : Seq(Samples), chaosStart : Nat, chaosEnd : Nat, baseline : Readings, stress : Readings]
Snaps ==
  [complete : BOOLEAN, p99 : Readings, chaosEnd : Nat, baseline : Readings, stress : Readings,
   recovery : Int, tail : Int, resilience : Int]

\* The times of bench.events are positive, and no start is at the time of an end.
Timed(T) ==
  /\ \A m \in T : m.type \in {"chaos_start", "chaos_end"} => m.at \in Nat /\ m.at > 0
  /\ \A s, e \in T : s.type = "chaos_start" /\ e.type = "chaos_end" => s.at # e.at

ScoreTypes ==
  /\ Timed(topic) /\ unread \subseteq topic /\ uncommitted \subseteq topic /\ written \subseteq topic
  /\ evpc \in {"read", "lock", "p99", "failed"}
  /\ evpc \in {"lock", "p99"} => msg \in topic /\ msg.type \in {"chaos_start", "chaos_end"}
  /\ session \in Sessions /\ snap \in Snaps
  /\ pc \in {"idle", "compute", "chaosEnd", "baseline", "run", "recovery", "publish"}

Sampled == session.app # <<>> \/ session.kernel # <<>>
Started(v) == \E s \in OfType("chaos_start") : s.at = v
Ended(v) == \E e \in OfType("chaos_end") : e.at = v

\* What the chaos fields tell: HandleChaosEvent sets the reading after the
\* timestamp.
Fields ==
  /\ evpc = "p99" => msg \in written /\ (msg.type = "chaos_start" => session.chaosStart = msg.at)
  /\ session.chaosEnd > 0 => Ended(session.chaosEnd)
  /\ session.baseline > 0 => Sampled /\ Started(session.chaosStart)

\* What Compute has read by then, and what it can rely on from there.
Computing ==
  /\ pc \in {"baseline", "run", "recovery"} => session.chaosEnd > 0 /\ Ended(snap.chaosEnd)
  /\ pc \in {"run", "recovery"} => session.baseline > 0 /\ snap.baseline > 0
  /\ pc \in {"chaosEnd", "baseline", "run", "recovery"} /\ snap.complete => session.chaosEnd > 0 /\ session.baseline > 0

IInv ==
  /\ ScoreTypes /\ Fields /\ Computing
  /\ RecoveryIsMeasured /\ CompletedRunIsScored

-----------------------------------------------------------------------------
(* The histograms                                                          *)

\* A set of natural numbers that is not empty has a least element.
LEMMA LeastNatural ==
  ASSUME NEW S, S \subseteq Nat, S # {}
  PROVE  \E x \in S : \A y \in S : x <= y
<1> DEFINE R == OpToRel(<, Nat)
<1>1. \A x, y \in Nat : y < x => <<y, x>> \in R
  BY DEF OpToRel
<1>2. PICK x \in S : \A y \in S : ~(<<y, x>> \in R)
  BY NatLessThanWellFounded, WFMin
<1> HIDE DEF R
<1>3. \A y \in S : ~(y < x)
  BY <1>1, <1>2
<1> QED BY <1>3

\* The percentile of a histogram with samples is one of them.
LEMMA QuantileIsSample ==
  ASSUME NEW h \in Seq(Samples), h # <<>>
  PROVE  ValueAtQuantile(h, 990) \in Samples
<1> DEFINE target == (990 * Len(h) + 500) \div 1000
           rank == IF target < 1 THEN 1 ELSE target
           UpTo(v) == Cardinality({i \in DOMAIN h : h[i] <= v})
           Q == {h[i] : i \in {j \in DOMAIN h : UpTo(h[j]) >= rank}}
<1>1. Len(h) \in Nat /\ Len(h) > 0 /\ DOMAIN h = 1 .. Len(h) /\ \A i \in DOMAIN h : h[i] \in Samples
  OBVIOUS
<1>2. \A v \in Samples : v \in Nat /\ v <= MaxLatency /\ MaxLatency \in Nat
  BY LatenciesAssumption DEF Samples, MaxLatency
<1>3. rank <= Len(h)
  BY <1>1
<1>4. Q \subseteq Samples
  <2> HIDE DEF UpTo, rank
  <2> QED BY <1>1
<1>5. PICK k \in DOMAIN h : \A i \in DOMAIN h : h[i] <= h[k]
  <2> DEFINE D == {MaxLatency - h[i] : i \in DOMAIN h}
  <2>1. D \subseteq Nat /\ D # {}
    BY <1>1, <1>2
  <2>2. PICK d \in D : \A e \in D : d <= e
    <3> HIDE DEF D
    <3> QED BY <2>1, LeastNatural
  <2>3. PICK k \in DOMAIN h : d = MaxLatency - h[k]
    OBVIOUS
  <2>4. ASSUME NEW i \in DOMAIN h PROVE h[i] <= h[k]
    <3>1. MaxLatency - h[k] <= MaxLatency - h[i]
      BY <2>2, <2>3
    <3>2. h[i] \in Nat /\ h[k] \in Nat /\ MaxLatency \in Nat
      BY <1>1, <1>2
    <3> QED BY <3>1, <3>2
  <2> QED BY <2>4
<1>6. UpTo(h[k]) = Len(h)
  <2>1. {i \in DOMAIN h : h[i] <= h[k]} = 1 .. Len(h)
    BY <1>1, <1>5
  <2>2. Cardinality(1 .. Len(h)) = Len(h)
    <3>1. Len(h) \in Nat /\ Len(h) \in Int /\ 1 \in Int
      BY <1>1
    <3>2. Cardinality(1 .. Len(h)) = IF 1 > Len(h) THEN 0 ELSE Len(h) - 1 + 1
      BY <3>1, FS_Interval
    <3> QED BY <3>1, <3>2
  <2> QED BY <2>1, <2>2
<1>7. Q # {}
  <2> HIDE DEF UpTo, rank
  <2> QED BY <1>1, <1>3, <1>5, <1>6
<1>8. ValueAtQuantile(h, 990) = Min(Q)
  BY DEF ValueAtQuantile
<1> HIDE DEF Q
<1>9. Q \subseteq Nat
  BY <1>2, <1>4
<1>10. Min(Q) \in Q
  BY <1>7, <1>9, LeastNatural DEF Min
<1> QED BY <1>4, <1>8, <1>10

\* KernelPercentiles is 0 only for a session without samples.
LEMMA PercentileOfSession ==
  ASSUME NEW s \in Sessions
  PROVE  /\ KernelPercentiles(s) \in Readings
         /\ s.app # <<>> \/ s.kernel # <<>> => KernelPercentiles(s) > 0
<1> DEFINE h == IF s.kernel = <<>> THEN s.app ELSE s.kernel
<1>1. h \in Seq(Samples)
  BY DEF Sessions
<1>2. KernelPercentiles(s) = ValueAtQuantile(h, 990) /\ (s.app # <<>> \/ s.kernel # <<>> => h # <<>>)
  BY DEF KernelPercentiles
<1> HIDE DEF h
<1>3. CASE h = <<>>
  BY <1>2, <1>3 DEF ValueAtQuantile, Readings
<1>4. CASE h # <<>>
  <2>1. ValueAtQuantile(h, 990) \in Samples
    BY <1>1, <1>4, QuantileIsSample
  <2> QED BY <1>2, <2>1 DEF Samples, Readings
<1> QED BY <1>3, <1>4

\* What is recorded is a sample.
LEMMA RecordIsSample ==
  ASSUME NEW h \in Seq(Samples), NEW v \in Latencies
  PROVE  Record(h, v) \in Seq(Samples) /\ (h # <<>> => Record(h, v) # <<>>)
<1>1. CASE v > 0 /\ v <= MaxLatency
  BY <1>1 DEF Record, Samples
<1>2. CASE ~(v > 0 /\ v <= MaxLatency)
  BY <1>2 DEF Record
<1> QED BY <1>1, <1>2

-----------------------------------------------------------------------------
(* The scores                                                              *)

\* normalizeTailLatency stays in range for any reading.
LEMMA TailInRange ==
  ASSUME NEW p99 \in Readings
  PROVE  normalizeTailLatency(p99) \in 0 .. 100
<1> DEFINE log2 == CHOOSE k \in 0 .. 30 : p99 = 2 ^ k
<1>1. CASE p99 <= 0
  BY <1>1 DEF normalizeTailLatency
<1>2. CASE ~(p99 <= 0)
  <2>1. \E k \in 0 .. 30 : p99 = 2 ^ k
    BY <1>2, LatenciesAssumption DEF Readings
  <2>2. log2 \in 0 .. 30
    BY <2>1
  <2>3. normalizeTailLatency(p99) = AtMost(100, AtLeast(0, 100 - (602 * log2) \div 100))
    BY <1>2 DEF normalizeTailLatency
  <2> HIDE DEF log2
  <2> QED BY <2>2, <2>3 DEF AtMost, AtLeast
<1> QED BY <1>1, <1>2

\* normalizeResilience stays in range for any recovery time, a negative one
\* included, as long as the baseline is positive.
LEMMA ResilienceInRange ==
  ASSUME NEW recovery \in Int, NEW stress \in Nat, NEW baseline \in Nat, baseline > 0
  PROVE  normalizeResilience(recovery, stress, baseline) \in 0 .. 100
<1> DEFINE r == normalizeLinear(recovery, 0, 5000)
           x == AtLeast(0, stress - baseline)
           y == (x * 50) \div baseline
           d == AtLeast(0, 100 - y)
<1>1. r \in 0 .. 100
  BY DEF normalizeLinear, AtMost, AtLeast
<1>2. x \in Nat
  BY DEF AtLeast
<1>3. y \in Nat
  <2> HIDE DEF x
  <2> QED BY <1>2
<1>4. d \in 0 .. 100
  <2> HIDE DEF y
  <2> QED BY <1>3 DEF AtLeast
<1>5. normalizeResilience(recovery, stress, baseline) = IF recovery = 0 THEN 85 ELSE ((100 - r) + d) \div 2
  BY DEF normalizeResilience
<1> HIDE DEF r, d
<1> QED BY <1>1, <1>4, <1>5

-----------------------------------------------------------------------------
(* bench.events                                                            *)

\* Two events of a behaviour have different times.
LEMMA TopicsAreTimed ==
  ASSUME NEW T \in Topics
  PROVE  Timed(T)
<1>1. PICK t \in [Events -> 1 .. (2 * MaxRuns)] :
        /\ \A d, e \in Events : t[d] = t[e] => d = e
        /\ T = {[type |-> e[1], run |-> e[2], at |-> StepMS * t[e]] : e \in {e \in Events : t[e] <= MaxEvents}} \cup {[type |-> "other"]}
  BY DEF Topics
<1>2. StepMS \in Nat /\ StepMS > 0 /\ MaxRuns \in Nat
  BY BoundsAssumption
<1>3. \A e \in Events : t[e] \in Nat /\ t[e] > 0
  BY <1>1, <1>2
<1>4. \A a, b \in Nat : a > 0 => StepMS * a \in Nat /\ StepMS * a > 0
  BY <1>2
<1>5. \A a, b \in Nat : a < b => StepMS * a < StepMS * b
  BY <1>2
<1>6. \A a, b \in Nat : StepMS * a = StepMS * b => a = b
  <2>1. SUFFICES ASSUME NEW a \in Nat, NEW b \in Nat, StepMS * a = StepMS * b PROVE a = b
    OBVIOUS
  <2>2. ~(a < b) /\ ~(b < a)
    BY <1>2, <1>5, <2>1
  <2> QED BY <2>2
<1>7. \A m \in T : m.type \in {"chaos_start", "chaos_end"} => \E e \in Events : m.type = e[1] /\ m.at = StepMS * t[e]
  <2>1. SUFFICES ASSUME NEW m \in T, m.type \in {"chaos_start", "chaos_end"}
                 PROVE  \E e \in Events : m.type = e[1] /\ m.at = StepMS * t[e]
    OBVIOUS
  <2>2. m # [type |-> "other"]
    BY <2>1
  <2>3. PICK e \in Events : m = [type |-> e[1], run |-> e[2], at |-> StepMS * t[e]]
    BY <1>1, <2>2
  <2> QED BY <2>3
<1>8. ASSUME NEW m \in T, m.type \in {"chaos_start", "chaos_end"} PROVE m.at \in Nat /\ m.at > 0
  BY <1>3, <1>4, <1>7, <1>8
<1>9. ASSUME NEW s \in T, NEW e \in T, s.type = "chaos_start", e.type = "chaos_end" PROVE s.at # e.at
  <2>1. PICK d \in Events : d[1] = "chaos_start" /\ s.at = StepMS * t[d]
    BY <1>7, <1>9
  <2>2. PICK g \in Events : g[1] = "chaos_end" /\ e.at = StepMS * t[g]
    BY <1>7, <1>9
  <2>3. t[d] # t[g]
    BY <1>1, <2>1, <2>2
  <2> QED BY <1>3, <1>6, <2>1, <2>2, <2>3
<1> QED BY <1>8, <1>9 DEF Timed

\* Initially nothing is known of a chaos run.
LEMMA InitInv == Init => IInv
<1> SUFFICES ASSUME Init PROVE IInv
  OBVIOUS
<1>1. Timed(topic)
  BY TopicsAreTimed DEF Init
<1>2. session \in Sessions
  BY DEF Init, Fresh, Sessions, Readings
<1>3. snap \in Snaps
  BY DEF Init, NoSnap, Snaps, Readings
<1>4. ScoreTypes
  BY <1>1, <1>2, <1>3 DEF Init, ScoreTypes
<1>5. Fields /\ Computing
  BY DEF Init, Fresh, Fields, Computing
<1>6. RecoveryIsMeasured /\ CompletedRunIsScored
  BY DEF Init, RecoveryIsMeasured, CompletedRunIsScored, Ready
<1> QED BY <1>4, <1>5, <1>6 DEF IInv

\* A score that is about to be published stays what it is.
LEMMA ScoreStays ==
  ASSUME RecoveryIsMeasured, CompletedRunIsScored, UNCHANGED snap, written \subseteq written',
         pc' = "publish" => pc = "publish"
  PROVE  RecoveryIsMeasured' /\ CompletedRunIsScored'
<1>1. \A t : OfType(t) \subseteq OfType(t)'
  BY DEF OfType
<1> QED BY <1>1 DEF RecoveryIsMeasured, CompletedRunIsScored, Ready

-----------------------------------------------------------------------------
(* The steps                                                               *)

\* A step that only reads from the topic or commits.
LEMMA ReadStep ==
  ASSUME IInv, Commit \/ (\E m \in unread : ReadEvent(m)) \/ ReadFails \/ UNCHANGED vars
  PROVE  IInv'
<1>1. /\ UNCHANGED <<topic, session, pc, snap, written>>
      /\ unread' \subseteq topic /\ uncommitted' \subseteq topic
  BY DEF IInv, ScoreTypes, Commit, ReadEvent, ReadFails, vars, eventVars, computeVars
<1>2. \/ UNCHANGED <<evpc, msg>> \/ evpc' = "failed"
      \/ (evpc = "read" /\ evpc' = "lock" /\ msg' \in topic /\ msg'.type \in {"chaos_start", "chaos_end"})
  BY DEF IInv, ScoreTypes, Commit, ReadEvent, ReadFails, vars, eventVars
<1>3. ScoreTypes'
  BY <1>1, <1>2 DEF IInv, ScoreTypes, Timed
<1>4. Fields'
  BY <1>1, <1>2 DEF IInv, Fields, Sampled, Started, Ended, OfType
<1>5. Computing'
  BY <1>1 DEF IInv, Computing, Ended, OfType
<1>6. RecoveryIsMeasured' /\ CompletedRunIsScored'
  BY <1>1, ScoreStays DEF IInv
<1> QED BY <1>3, <1>4, <1>5, <1>6 DEF IInv

\* HandleChaosEvent's timestamp belongs to the message in hand.
LEMMA StampStep == IInv /\ HandleStamp => IInv'
<1> SUFFICES ASSUME IInv, HandleStamp PROVE IInv'
  OBVIOUS
<1>1. /\ evpc = "lock" /\ evpc' = "p99" /\ written' = written \cup {msg}
      /\ UNCHANGED <<topic, unread, uncommitted, msg, pc, snap>>
  BY DEF HandleStamp, computeVars
<1>2. /\ session \in Sessions /\ msg \in topic /\ msg.type \in {"chaos_start", "chaos_end"} /\ Timed(topic)
      /\ ScoreTypes /\ Fields /\ Computing
  BY <1>1 DEF IInv, ScoreTypes
<1>3. msg.at \in Nat /\ msg.at > 0
  BY <1>2 DEF Timed
<1>4. written \subseteq written' /\ msg \in written'
  BY <1>1
<1>5. /\ session' \in Sessions
      /\ UNCHANGED <<session.app, session.kernel, session.baseline>>
      /\ msg.type = "chaos_start" => session'.chaosStart = msg.at /\ session'.chaosEnd = session.chaosEnd
      /\ msg.type = "chaos_end" => session'.chaosEnd = msg.at /\ session'.chaosStart = session.chaosStart
  BY <1>2, <1>3 DEF HandleStamp, Sessions
<1>6. (msg.type = "chaos_start" => Started(msg.at)') /\ (msg.type = "chaos_end" => Ended(msg.at)')
  BY <1>1, <1>4 DEF Started, Ended, OfType
<1>7. ScoreTypes'
  BY <1>1, <1>2, <1>5 DEF ScoreTypes, Timed
<1>8. Fields'
  <2>1. evpc' = "p99" => msg' \in written' /\ (msg'.type = "chaos_start" => session'.chaosStart = msg'.at)
    BY <1>1, <1>4, <1>5
  <2>2. session'.chaosEnd > 0 => Ended(session.chaosEnd)'
    <3>1. CASE msg.type = "chaos_start"
      <4>1. session'.chaosEnd > 0 => Ended(session.chaosEnd)
        BY <1>2, <1>5, <3>1 DEF Fields
      <4> QED BY <1>1, <1>5, <3>1, <4>1 DEF Ended, OfType
    <3>2. CASE msg.type = "chaos_end"
      BY <1>1, <1>4, <1>5, <3>2 DEF Ended, OfType
    <3> QED BY <1>2, <3>1, <3>2
  <2>3. session'.baseline > 0 => Sampled' /\ Started(session.chaosStart)'
    <3>1. session'.baseline > 0 => Sampled /\ Started(session.chaosStart)
      BY <1>2, <1>5 DEF Fields
    <3>2. Sampled => Sampled'
      BY <1>5 DEF Sampled
    <3>3. CASE msg.type = "chaos_start"
      BY <1>1, <1>4, <1>5, <3>1, <3>2, <3>3 DEF Started, OfType
    <3>4. CASE msg.type = "chaos_end"
      BY <1>1, <1>5, <3>1, <3>2, <3>4 DEF Started, OfType
    <3> QED BY <1>2, <3>3, <3>4
  <2> QED BY <2>1, <2>2, <2>3 DEF Fields
<1>9. Computing'
  <2>1. session.chaosEnd > 0 => session'.chaosEnd > 0
    BY <1>2, <1>3, <1>5
  <2>2. Ended(snap.chaosEnd) => Ended(snap.chaosEnd)'
    BY <1>1 DEF Ended, OfType
  <2> QED BY <1>1, <1>2, <1>5, <2>1, <2>2 DEF Computing
<1>10. RecoveryIsMeasured' /\ CompletedRunIsScored'
  BY <1>1, <1>4, ScoreStays DEF IInv
<1> QED BY <1>7, <1>8, <1>9, <1>10 DEF IInv

\* The reading comes after its timestamp, and a baseline once measured stays.
LEMMA ReadingStep == IInv /\ HandleReading => IInv'
<1> SUFFICES ASSUME IInv, HandleReading PROVE IInv'
  OBVIOUS
<1>1. /\ evpc = "p99" /\ evpc' = "read"
      /\ UNCHANGED <<topic, unread, uncommitted, pc, snap, written>>
  BY DEF HandleReading, computeVars
<1>2. /\ session \in Sessions /\ msg \in topic /\ msg.type \in {"chaos_start", "chaos_end"}
      /\ ScoreTypes /\ Fields /\ Computing
  BY <1>1 DEF IInv, ScoreTypes
<1> DEFINE p == KernelPercentiles(session)
<1>3. p \in Readings /\ (Sampled => p > 0)
  BY <1>2, PercentileOfSession DEF Sampled
<1>4. /\ msg.type = "chaos_start" => session' = [session EXCEPT !.baseline = p]
      /\ msg.type = "chaos_end" => session' = [session EXCEPT !.stress = p]
  BY DEF HandleReading
<1>5. p > 0 => Sampled
  BY DEF Sampled, KernelPercentiles, ValueAtQuantile
<1> HIDE DEF p
<1>6. /\ session' \in Sessions
      /\ UNCHANGED <<session.app, session.kernel, session.chaosStart, session.chaosEnd>>
      /\ msg.type = "chaos_start" => session'.baseline = p
      /\ msg.type = "chaos_end" => session'.baseline = session.baseline
  BY <1>2, <1>3, <1>4 DEF Sessions
<1>7. ScoreTypes'
  BY <1>1, <1>2, <1>6 DEF ScoreTypes, Timed
<1>8. Fields'
  <2>1. session'.chaosEnd > 0 => Ended(session.chaosEnd)'
    BY <1>1, <1>2, <1>6 DEF Fields, Ended, OfType
  <2>2. session'.baseline > 0 => Sampled' /\ Started(session.chaosStart)'
    <3>1. CASE msg.type = "chaos_start"
      <4>1. msg \in written /\ session.chaosStart = msg.at
        BY <1>1, <1>2, <3>1 DEF Fields
      <4> QED BY <1>1, <1>5, <1>6, <3>1, <4>1 DEF Sampled, Started, OfType
    <3>2. CASE msg.type = "chaos_end"
      BY <1>1, <1>2, <1>6, <3>2 DEF Fields, Sampled, Started, OfType
    <3> QED BY <1>2, <3>1, <3>2
  <2> QED BY <1>1, <2>1, <2>2 DEF Fields
<1>9. Computing'
  <2>1. session.baseline > 0 => session'.baseline > 0
    BY <1>2, <1>3, <1>6 DEF Fields
  <2> QED BY <1>1, <1>2, <1>6, <2>1 DEF Computing, Ended, OfType
<1>10. RecoveryIsMeasured' /\ CompletedRunIsScored'
  BY <1>1, ScoreStays DEF IInv
<1> QED BY <1>7, <1>8, <1>9, <1>10 DEF IInv

\* Handle adds a sample at most.
LEMMA HandleStep ==
  ASSUME IInv, NEW t \in Readers, NEW v \in Latencies, Handle(t, v)
  PROVE  IInv'
<1>1. /\ UNCHANGED <<topic, unread, uncommitted, evpc, msg, written, snap>>
      /\ pc' = IF pc = "idle" THEN "compute" ELSE pc
  BY DEF Handle, eventVars
<1>2. session \in Sessions /\ session.app \in Seq(Samples) /\ session.kernel \in Seq(Samples)
  BY DEF IInv, ScoreTypes, Sessions
<1>3. /\ Record(session.app, v) \in Seq(Samples) /\ (session.app # <<>> => Record(session.app, v) # <<>>)
      /\ Record(session.kernel, v) \in Seq(Samples) /\ (session.kernel # <<>> => Record(session.kernel, v) # <<>>)
  BY <1>2, RecordIsSample
<1>4. \/ session' = [session EXCEPT !.app = Record(session.app, v)]
      \/ session' = [session EXCEPT !.kernel = Record(session.kernel, v)]
  BY DEF Handle
<1>5. /\ session' \in Sessions /\ (Sampled => Sampled')
      /\ UNCHANGED <<session.chaosStart, session.chaosEnd, session.baseline>>
  BY <1>2, <1>3, <1>4 DEF Sessions, Sampled
<1>6. ScoreTypes'
  BY <1>1, <1>5 DEF IInv, ScoreTypes, Timed
<1>7. Fields'
  BY <1>1, <1>5 DEF IInv, Fields, Started, Ended, OfType
<1>8. Computing'
  BY <1>1, <1>5 DEF IInv, Computing, Ended, OfType
<1>9. RecoveryIsMeasured' /\ CompletedRunIsScored'
  BY <1>1, ScoreStays DEF IInv
<1> QED BY <1>6, <1>7, <1>8, <1>9 DEF IInv

\* A restart forgets everything but the topic.
LEMMA RestartStep == IInv /\ Restart => IInv'
<1> SUFFICES ASSUME IInv, Restart PROVE IInv'
  OBVIOUS
<1>1. /\ UNCHANGED <<topic, uncommitted>> /\ unread' = uncommitted /\ evpc' = "read" /\ session' = Fresh
      /\ pc' = "idle" /\ snap' = NoSnap /\ written' = {}
  BY DEF Restart
<1>2. Fresh \in Sessions /\ NoSnap \in Snaps
  BY DEF Fresh, Sessions, NoSnap, Snaps, Readings
<1>3. ScoreTypes'
  BY <1>1, <1>2 DEF IInv, ScoreTypes, Timed
<1>4. Fields' /\ Computing'
  BY <1>1 DEF Fields, Computing, Fresh
<1>5. RecoveryIsMeasured' /\ CompletedRunIsScored'
  BY <1>1 DEF RecoveryIsMeasured, CompletedRunIsScored, Ready
<1> QED BY <1>3, <1>4, <1>5 DEF IInv

\* Readings are natural numbers.
LEMMA ReadingsAreNatural == Readings \subseteq Nat
<1>1. Latencies \subseteq Nat
  BY LatenciesAssumption
<1> QED BY <1>1 DEF Readings

\* Compute changes nothing but its own state.
LEMMA ComputeKeeps ==
  ASSUME IInv, UNCHANGED <<eventVars, session>>, snap' \in Snaps,
         pc' \in {"idle", "compute", "chaosEnd", "baseline", "run", "recovery", "publish"}
  PROVE  ScoreTypes' /\ Fields'
<1>1. UNCHANGED <<topic, unread, uncommitted, evpc, msg, written, session>>
  BY DEF eventVars
<1>2. ScoreTypes'
  BY <1>1 DEF IInv, ScoreTypes, Timed
<1>3. Fields'
  BY <1>1 DEF IInv, Fields, Sampled, Started, Ended, OfType
<1> QED BY <1>2, <1>3

\* What the score of a reading, a recovery time and a ratio looks like.
LEMMA ScoreIsTyped ==
  ASSUME snap \in Snaps, NEW p99 \in Readings, NEW recovery \in Int, NEW stress \in Nat,
         NEW baseline \in Nat, baseline > 0
  PROVE  /\ Score(p99, recovery, stress, baseline) \in Snaps
         /\ Score(p99, recovery, stress, baseline).recovery = recovery
<1> DEFINE a == normalizeTailLatency(p99)
           b == normalizeResilience(recovery, stress, baseline)
           c == snap.complete
           score == Score(p99, recovery, stress, baseline)
<1>1. a \in 0 .. 100 /\ b \in 0 .. 100
  BY TailInRange, ResilienceInRange
<1>2. c \in BOOLEAN
  BY DEF Snaps
<1>3. score = [NoSnap EXCEPT !.complete = c, !.recovery = recovery, !.tail = a, !.resilience = b]
  BY DEF Score
<1> HIDE DEF a, b, c, score
<1>4. score = [complete |-> c, p99 |-> 0, chaosEnd |-> 0, baseline |-> 0, stress |-> 0,
               recovery |-> recovery, tail |-> a, resilience |-> b]
  BY <1>3 DEF NoSnap
<1>5. score.recovery = recovery
  BY <1>4
<1>6. score \in Snaps
  BY <1>1, <1>2, <1>4 DEF Snaps, Readings
<1> QED BY <1>1, <1>5, <1>6 DEF score

\* A score keeps the note of what was complete.
LEMMA ScoreKeepsNote ==
  ASSUME NEW p99, NEW recovery, NEW stress, NEW baseline
  PROVE  Score(p99, recovery, stress, baseline).complete = snap.complete
<1> DEFINE a == normalizeTailLatency(p99)
           b == normalizeResilience(recovery, stress, baseline)
           c == snap.complete
<1>1. Score(p99, recovery, stress, baseline) = [NoSnap EXCEPT !.complete = c, !.recovery = recovery, !.tail = a, !.resilience = b]
  BY DEF Score
<1> HIDE DEF a, b, c
<1>2. Score(p99, recovery, stress, baseline).complete = c
  BY <1>1 DEF NoSnap
<1> QED BY <1>2 DEF c

\* A score without a chaos run is only for a run that was not complete.
LEMMA UnscoredStep ==
  ASSUME IInv, NEW p99 \in Readings, ~snap.complete, snap' = Score(p99, 0, 1, 1), pc' = "publish",
         UNCHANGED <<eventVars, session>>
  PROVE  IInv'
<1>1. snap \in Snaps
  BY DEF IInv, ScoreTypes
<1>2. /\ snap' \in Snaps /\ snap'.complete = snap.complete /\ snap'.recovery = 0
  <2>1. 0 \in Int /\ 1 \in Nat /\ 1 > 0
    OBVIOUS
  <2>2. /\ Score(p99, 0, 1, 1) \in Snaps /\ Score(p99, 0, 1, 1).recovery = 0
    BY <1>1, <2>1, ScoreIsTyped, ZenonT(60)
  <2>3. Score(p99, 0, 1, 1).complete = snap.complete
    BY ScoreKeepsNote
  <2> QED BY <2>2, <2>3
<1>3. ScoreTypes' /\ Fields'
  BY <1>2, ComputeKeeps
<1>4. Computing'
  BY DEF Computing
<1>5. RecoveryIsMeasured' /\ CompletedRunIsScored'
  BY <1>2 DEF RecoveryIsMeasured, CompletedRunIsScored
<1> QED BY <1>3, <1>4, <1>5 DEF IInv

\* While Compute reads there is no score yet.
LEMMA NoScoreYet ==
  ASSUME pc' # "publish"
  PROVE  RecoveryIsMeasured' /\ CompletedRunIsScored'
  BY DEF RecoveryIsMeasured, CompletedRunIsScored, Ready

\* The loads of Compute's condition.
LEMMA LoadStep == IInv /\ (ComputeLookup \/ ComputeChaosEnd \/ ComputeBaseline) => IInv'
<1> SUFFICES ASSUME IInv, ComputeLookup \/ ComputeChaosEnd \/ ComputeBaseline PROVE IInv'
  OBVIOUS
<1>1. /\ session \in Sessions /\ snap \in Snaps /\ Fields /\ Computing
      /\ session.chaosEnd \in Nat /\ session.baseline \in Readings
  BY DEF IInv, ScoreTypes, Sessions
<1>2. KernelPercentiles(session) \in Readings /\ snap.p99 \in Readings
  BY <1>1, PercentileOfSession DEF Snaps
<1>3. CASE ComputeLookup
  <2>1. UNCHANGED <<eventVars, session>> /\ pc' = "chaosEnd"
    BY <1>3 DEF ComputeLookup
  <2>2. snap' \in Snaps /\ (snap'.complete => session.chaosEnd > 0 /\ session.baseline > 0)
    <3> DEFINE c == session.chaosEnd > 0 /\ session.baseline > 0
    <3>1. snap' = [NoSnap EXCEPT !.complete = c]
      BY <1>3 DEF ComputeLookup
    <3>0. c \in BOOLEAN
      OBVIOUS
    <3> HIDE DEF c
    <3>2. snap' = [complete |-> c, p99 |-> 0, chaosEnd |-> 0, baseline |-> 0, stress |-> 0,
                   recovery |-> 0, tail |-> 0, resilience |-> 0]
      BY <3>1 DEF NoSnap
    <3>3. snap'.complete = c
      BY <3>2
    <3>4. snap' \in Snaps
      BY <3>0, <3>2 DEF Snaps, Readings
    <3> QED BY <3>3, <3>4 DEF c
  <2>3. ScoreTypes' /\ Fields'
    BY <2>1, <2>2, ComputeKeeps
  <2>4. Computing'
    BY <2>1, <2>2 DEF Computing
  <2> QED BY <2>1, <2>3, <2>4, NoScoreYet DEF IInv
<1>4. CASE ComputeChaosEnd /\ ~(session.chaosEnd > 0)
  <2>1. /\ snap' = Score(KernelPercentiles(session), 0, 1, 1) /\ pc = "chaosEnd" /\ pc' = "publish"
        /\ UNCHANGED <<eventVars, session>>
    BY <1>4 DEF ComputeChaosEnd
  <2>2. ~snap.complete
    BY <1>1, <1>4, <2>1 DEF Computing
  <2> QED BY <1>2, <2>1, <2>2, UnscoredStep
<1>5. CASE ComputeChaosEnd /\ session.chaosEnd > 0
  <2>1. /\ UNCHANGED <<eventVars, session>> /\ pc = "chaosEnd" /\ pc' = "baseline"
        /\ snap' = [snap EXCEPT !.p99 = KernelPercentiles(session), !.chaosEnd = session.chaosEnd]
    BY <1>5 DEF ComputeChaosEnd
  <2>2. snap' \in Snaps /\ snap'.complete = snap.complete /\ snap'.chaosEnd = session.chaosEnd
    BY <1>1, <1>2, <2>1 DEF Snaps
  <2>3. ScoreTypes' /\ Fields'
    BY <2>1, <2>2, ComputeKeeps
  <2>4. Computing'
    BY <1>1, <1>5, <2>1, <2>2, <2>3 DEF Computing, Fields, Ended, OfType
  <2> QED BY <2>1, <2>3, <2>4, NoScoreYet DEF IInv
<1>6. CASE ComputeBaseline /\ ~(session.baseline > 0)
  <2>1. /\ snap' = Score(snap.p99, 0, 1, 1) /\ pc = "baseline" /\ pc' = "publish"
        /\ UNCHANGED <<eventVars, session>>
    BY <1>6 DEF ComputeBaseline
  <2>2. ~snap.complete
    BY <1>1, <1>6, <2>1 DEF Computing
  <2> QED BY <1>2, <2>1, <2>2, UnscoredStep
<1>7. CASE ComputeBaseline /\ session.baseline > 0
  <2>1. /\ UNCHANGED <<eventVars, session>> /\ pc = "baseline" /\ pc' = "run"
        /\ snap' = [snap EXCEPT !.baseline = session.baseline]
    BY <1>7 DEF ComputeBaseline
  <2>2. snap' \in Snaps /\ snap'.complete = snap.complete /\ snap'.chaosEnd = snap.chaosEnd /\ snap'.baseline = session.baseline
    BY <1>1, <2>1 DEF Snaps
  <2>3. ScoreTypes' /\ Fields'
    BY <2>1, <2>2, ComputeKeeps
  <2>4. UNCHANGED <<session, written>>
    BY <2>1 DEF eventVars
  <2>5. Computing'
    BY <1>1, <1>7, <2>1, <2>2, <2>4 DEF Computing, Ended, OfType
  <2> QED BY <2>1, <2>3, <2>5, NoScoreYet DEF IInv
<1> QED BY <1>3, <1>4, <1>5, <1>6, <1>7

\* The ratio divides by a baseline that is positive, whichever load it is.
LEMMA RatioStep == IInv /\ ComputeRatio => IInv'
<1> SUFFICES ASSUME IInv, ComputeRatio PROVE IInv'
  OBVIOUS
<1>1. session \in Sessions /\ snap \in Snaps /\ Computing
  BY DEF IInv, ScoreTypes
<1>2. pc = "run" /\ pc' = "recovery" /\ UNCHANGED <<eventVars, session>> /\ UNCHANGED <<session, written>>
  BY DEF ComputeRatio, eventVars
<1>3. PICK b \in {snap.baseline, session.baseline} : snap' = [snap EXCEPT !.baseline = b, !.stress = session.stress]
  BY DEF ComputeRatio
<1>4. b \in Readings /\ session.stress \in Readings /\ b > 0
  BY <1>1, <1>2 DEF Sessions, Snaps, Computing
<1>5. snap' \in Snaps /\ snap'.complete = snap.complete /\ snap'.chaosEnd = snap.chaosEnd /\ snap'.baseline = b
  BY <1>1, <1>3, <1>4 DEF Snaps
<1>6. ScoreTypes' /\ Fields'
  BY <1>2, <1>5, ComputeKeeps
<1>7. Computing'
  BY <1>1, <1>2, <1>4, <1>5 DEF Computing, Ended, OfType
<1> QED BY <1>2, <1>6, <1>7, NoScoreYet DEF IInv

\* The recovery time is from a start to an end, hence never 0.
LEMMA RecoveryStep == IInv /\ ComputeRecovery => IInv'
<1> SUFFICES ASSUME IInv, ComputeRecovery PROVE IInv'
  OBVIOUS
<1>1. session \in Sessions /\ snap \in Snaps /\ Computing /\ Fields /\ Timed(topic) /\ written \subseteq topic
  BY DEF IInv, ScoreTypes
<1>2. pc = "recovery" /\ pc' = "publish" /\ UNCHANGED <<eventVars, session>> /\ UNCHANGED <<session, written>>
  BY DEF ComputeRecovery, eventVars
<1>3. PICK v \in {snap.chaosEnd, session.chaosEnd} : snap' = Score(snap.p99, v - session.chaosStart, snap.stress, snap.baseline)
  BY DEF ComputeRecovery
<1>4. Ended(v) /\ Started(session.chaosStart)
  BY <1>1, <1>2 DEF Computing, Fields
<1>5. PICK e \in OfType("chaos_end") : e.at = v
  BY <1>4 DEF Ended
<1>6. PICK s \in OfType("chaos_start") : s.at = session.chaosStart
  BY <1>4 DEF Started
<1>7. e.at \in Nat /\ s.at \in Nat /\ e.at # s.at
  BY <1>1, <1>5, <1>6 DEF OfType, Timed
<1> DEFINE r == v - session.chaosStart
<1>8. r \in Int /\ r # 0 /\ r = e.at - s.at
  BY <1>5, <1>6, <1>7
<1>9. snap.p99 \in Readings /\ snap.stress \in Nat /\ snap.baseline \in Nat /\ snap.baseline > 0
  BY <1>1, <1>2, ReadingsAreNatural DEF Snaps, Computing
<1>10. snap' = Score(snap.p99, r, snap.stress, snap.baseline)
  BY <1>3
<1> HIDE DEF r
<1>11. /\ snap' \in Snaps /\ snap'.recovery = r
   <2> DEFINE p == snap.p99
             q == snap.stress
             b == snap.baseline
  <2>1. r \in Int /\ p \in Readings /\ q \in Nat /\ b \in Nat /\ b > 0
    BY <1>8, <1>9
  <2>2. snap' = Score(p, r, q, b)
    BY <1>10
  <2>3. snap \in Snaps
    BY <1>1
  <2> HIDE DEF p, q, b
  <2>4. /\ Score(p, r, q, b) \in Snaps /\ Score(p, r, q, b).recovery = r
    BY ONLY <2>1, <2>3, ScoreIsTyped
  <2> QED BY <2>2, <2>4
<1>12. ScoreTypes' /\ Fields'
  BY <1>2, <1>11, ComputeKeeps
<1>13. Computing'
  BY <1>2 DEF Computing
<1>14. RecoveryIsMeasured'
  <2>1. e \in OfType("chaos_end")' /\ s \in OfType("chaos_start")'
    BY <1>2, <1>5, <1>6 DEF OfType
  <2> QED BY <1>8, <1>11, <2>1 DEF RecoveryIsMeasured
<1>15. CompletedRunIsScored'
  BY <1>8, <1>11 DEF CompletedRunIsScored
<1> QED BY <1>12, <1>13, <1>14, <1>15 DEF IInv

\* After the score there is nothing to rely on.
LEMMA PublishStep == IInv /\ Publish => IInv'
<1> SUFFICES ASSUME IInv, Publish PROVE IInv'
  OBVIOUS
<1>1. pc' = "idle" /\ UNCHANGED <<eventVars, session>> /\ snap' = NoSnap
  BY DEF Publish
<1>2. NoSnap \in Snaps
  BY DEF NoSnap, Snaps, Readings
<1>3. ScoreTypes' /\ Fields'
  BY <1>1, <1>2, ComputeKeeps
<1>4. Computing'
  BY <1>1 DEF Computing
<1> QED BY <1>1, <1>3, <1>4, NoScoreYet DEF IInv

\* Every step keeps the invariant.
LEMMA NextInv == IInv /\ [Next]_vars => IInv'
<1> SUFFICES ASSUME IInv, [Next]_vars PROVE IInv'
  OBVIOUS
<1>1. CASE Compute
  BY <1>1, LoadStep, RatioStep, RecoveryStep, PublishStep DEF Compute
<1>2. CASE readEvents
  BY <1>2, ReadStep, StampStep, ReadingStep DEF readEvents, handleEvents
<1>3. CASE \E t \in Readers, v \in Latencies : Handle(t, v)
  BY <1>3, HandleStep
<1>4. CASE Commit \/ UNCHANGED vars
  BY <1>4, ReadStep
<1>5. CASE Restart
  BY <1>5, RestartStep
<1> QED BY <1>1, <1>2, <1>3, <1>4, <1>5 DEF Next

-----------------------------------------------------------------------------

\* The invariant holds in every reachable state.
LEMMA InductiveInv == Spec => []IInv
  BY InitInv, NextInv, PTL DEF Spec

\* Compute measures a recovery time only from a chaos_start and a chaos_end
\* that HandleChaosEvent of this process has seen, in whatever order they
\* arrived, whichever field is loaded twice and whatever a restart forgot.
THEOREM RecoveriesAreMeasured == Spec => []RecoveryIsMeasured
<1>1. IInv => RecoveryIsMeasured
  BY DEF IInv
<1> QED BY <1>1, InductiveInv, PTL

\* A Compute whose lookup found a chaos run with a baseline and an end gives it
\* a recovery time: HandleChaosEvent never takes back what it has told, although
\* Compute reads the fields without the mutex.
THEOREM CompletedRunsAreScored == Spec => []CompletedRunIsScored
<1>1. IInv => CompletedRunIsScored
  BY DEF IInv
<1> QED BY <1>1, InductiveInv, PTL

===============================================================================
