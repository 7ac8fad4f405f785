--------------------------- MODULE TelemetryProofs ---------------------------
(***************************************************************************)
(* Proofs about the telemetry service.                                     *)
(*                                                                         *)
(* Telemetry, for any sessions, metrics, batch size and failing writes:    *)
(* every metric is counted once, and no session is left without a score.   *)
(*                                                                         *)
(* Store, for any capacity and any number of calls: the tables follow the  *)
(* queue, and connecting ends in time.                                     *)
(***************************************************************************)
EXTENDS Telemetry, Store, FiniteSetTheorems, SequenceTheorems, NaturalsInduction, WellFoundedInduction, TLAPS

-----------------------------------------------------------------------------
(* The readers and the score engine.                                       *)

Applying == {"lock", "apply", "applyRest"}
Computing == {"computeCorrect", "history", "publish"}
Labels == Applying \cup Computing \cup {"loop", "reading", "compute", "computeTotal", "failed", "exit"}
Scores ==
  [session : Sessions \cup {"none"}, orders : Nat, total : Nat, correct : Nat, at : Nat, history : Seq(Nat)]

\* The sessions of a sequence of metrics.
SessionSet(ms) == {ms[i].session : i \in DOMAIN ms}

ReaderTypes ==
  /\ topic \in [Threads -> Seq(Metrics)] /\ work \in [Threads -> Seq(Metrics)] /\ batch \in Seq(Metrics)
  /\ todo \in [Threads -> Seq(Sessions)] /\ pc \in [Threads -> Labels]
  /\ orders \in [Sessions -> Nat] /\ total \in [Sessions -> Nat] /\ correct \in [Sessions -> Nat]
  /\ history \in [Sessions -> Seq(Nat)] /\ clock \in Nat
  /\ snap \in [Threads -> Scores] /\ scores \in Seq(Scores)
  /\ taken \in [Sessions -> Nat]

\* What a thread has in its hands, by where it is.
Hands(t) ==
  /\ pc[t] \in Applying => SessionSet(work[t]) \subseteq ToSet(todo[t])
  /\ pc[t] = "applyRest" => work[t] # <<>>
  /\ pc[t] \notin Applying => work[t] = <<>> \/ Stopped
  /\ pc[t] \in Computing \cup {"computeTotal"} => todo[t] # <<>>

\* A published score with the counters of session s as they are.
Scored(s) ==
  \E i \in DOMAIN scores :
    scores[i].session = s /\ scores[i].orders = orders[s] /\ scores[i].total = total[s] /\ scores[i].correct = correct[s]

\* Thread t will publish the counters of session s, unless they change: it has
\* the load before it, or it has loaded what they still are.
Owes(t, s) ==
  \/ pc[t] \in Applying \cup {"compute", "computeTotal"} /\ s \in ToSet(todo[t])
  \/ pc[t] \in Computing /\ s \in ToSet(Tail(todo[t]))
  \/ /\ pc[t] \in Computing /\ s = Head(todo[t])
     /\ snap[t].session = s /\ snap[t].orders = orders[s] /\ snap[t].total = total[s]
     /\ pc[t] # "computeCorrect" => snap[t].correct = correct[s]

\* The counters of a session were published, or some thread will do it.
Accounted ==
  ~done /\ ~Stopped => \A s \in Sessions \ unscored :
    orders[s] > 0 => Scored(s) \/ \E t \in Threads : Owes(t, s)

IInv ==
  /\ ReaderTypes /\ EachMetricCountedOnce /\ Accounted
  /\ \A t \in Threads : Hands(t)

-----------------------------------------------------------------------------
(* Sequences of metrics                                                    *)

\* A set of natural numbers that is not empty has a least element.
LEMMA LeastNatural ==
  ASSUME NEW S, S \subseteq Nat, S # {}
  PROVE  \E x \in S : \A y \in S : x <= y
<1> DEFINE R == OpToRel(<, Nat)
<1>1. \A x, y \in Nat : y < x => <<y, x>> \in R
  BY DEF OpToRel
<1>2. PICK x \in S : \A y \in S : ~(<<y, x>> \in R)
  BY NatLessThanWellFounded, WFMin
<1> HIDE DEF R
<1>3. \A y \in S : ~(y < x)
  BY <1>1, <1>2
<1> QED BY <1>3

\* The elements of a sequence: the first and those of the rest.
LEMMA HeadAndTail ==
  ASSUME NEW S, NEW q \in Seq(S), q # <<>>
  PROVE  /\ Head(q) \in S /\ Tail(q) \in Seq(S)
         /\ ToSet(q) = {Head(q)} \cup ToSet(Tail(q))
<1>1. Len(q) \in Nat /\ Len(q) > 0 /\ DOMAIN q = 1 .. Len(q) /\ Head(q) = q[1] /\ Head(q) \in S
  OBVIOUS
<1>2. /\ Tail(q) \in Seq(S) /\ DOMAIN Tail(q) = 1 .. (Len(q) - 1)
      /\ \A i \in 1 .. (Len(q) - 1) : Tail(q)[i] = q[i + 1]
  OBVIOUS
<1>3. \A i \in 1 .. Len(q) : i # 1 => i - 1 \in 1 .. (Len(q) - 1) /\ q[i] = Tail(q)[i - 1]
  BY <1>1, <1>2
<1>4. ToSet(q) \subseteq {Head(q)} \cup ToSet(Tail(q))
  <2>1. SUFFICES ASSUME NEW i \in 1 .. Len(q) PROVE q[i] \in {Head(q)} \cup ToSet(Tail(q))
    BY <1>1 DEF ToSet
  <2> QED BY <1>1, <1>2, <1>3 DEF ToSet
<1>5. {Head(q)} \cup ToSet(Tail(q)) \subseteq ToSet(q)
  BY <1>1, <1>2 DEF ToSet
<1> QED BY <1>1, <1>2, <1>4, <1>5

\* The sessions of a batch after its first metric are sessions of the batch.
LEMMA SessionsOfTail ==
  ASSUME NEW ms \in Seq(Metrics), ms # <<>>
  PROVE  Head(ms).session \in SessionSet(ms) /\ SessionSet(Tail(ms)) \subseteq SessionSet(ms)
<1>1. Len(ms) \in Nat /\ Len(ms) > 0 /\ DOMAIN ms = 1 .. Len(ms) /\ Head(ms) = ms[1]
  OBVIOUS
<1>2. /\ DOMAIN Tail(ms) = 1 .. (Len(ms) - 1)
      /\ \A i \in 1 .. (Len(ms) - 1) : Tail(ms)[i] = ms[i + 1]
  OBVIOUS
<1> QED BY <1>1, <1>2 DEF SessionSet

\* Handle scores every session of the batch, and nothing else.
LEMMA EverySessionIsScored ==
  ASSUME NEW ms \in Seq(Metrics)
  PROVE  SessionsOf(ms) \in Seq(Sessions) /\ SessionSet(ms) \subseteq ToSet(SessionsOf(ms))
<1> DEFINE Firsts == {i \in DOMAIN ms : \A j \in 1 .. (i - 1) : ms[j].session # ms[i].session}
           UpTo(i) == {j \in Firsts : j <= i}
           Rank(i) == Cardinality(UpTo(i))
           n == Cardinality(Firsts)
           f == [i \in Firsts |-> Rank(i)]
<1>1. Len(ms) \in Nat /\ DOMAIN ms = 1 .. Len(ms) /\ \A i \in DOMAIN ms : ms[i].session \in Sessions
  <2>1. Len(ms) \in Nat /\ DOMAIN ms = 1 .. Len(ms) /\ \A i \in DOMAIN ms : ms[i] \in Metrics
    OBVIOUS
  <2>2. \A m \in Metrics : m.session \in Sessions
    BY DEF Metrics
  <2> QED BY <2>1, <2>2
<1>2. Firsts \subseteq 1 .. Len(ms) /\ Firsts \subseteq Nat
  BY <1>1
<1>3. IsFiniteSet(Firsts) /\ n \in Nat
  <2>1. IsFiniteSet(1 .. Len(ms))
    BY <1>1, FS_Interval
  <2>2. IsFiniteSet(Firsts)
    BY <1>2, <2>1, FS_Subset
  <2> QED BY <2>2, FS_CardinalityType
<1>4. SessionsOf(ms) = [k \in 1 .. n |-> ms[CHOOSE i \in Firsts : Rank(i) = k].session]
  BY DEF SessionsOf
<1>5. \A m \in SessionSet(ms) : \E i \in Firsts : ms[i].session = m
  <2>1. SUFFICES ASSUME NEW d \in DOMAIN ms PROVE \E i \in Firsts : ms[i].session = ms[d].session
    BY SMTT(60) DEF SessionSet
  <2> DEFINE S == {i \in DOMAIN ms : ms[i].session = ms[d].session}
  <2>2. S \subseteq Nat /\ S # {}
    BY <1>1
  <2>3. PICK i \in S : \A j \in S : i <= j
    <3> HIDE DEF S
    <3> QED BY <2>2, LeastNatural
  <2>4. \A j \in 1 .. (i - 1) : j \in DOMAIN ms /\ ~(i <= j)
    BY <1>1
  <2> QED BY <2>3, <2>4
<1> HIDE DEF Firsts, n
<1>6. \A i \in Firsts : IsFiniteSet(UpTo(i)) /\ Rank(i) \in Nat /\ Rank(i) <= n /\ Rank(i) # 0
  <2>1. SUFFICES ASSUME NEW i \in Firsts PROVE IsFiniteSet(UpTo(i)) /\ Rank(i) \in Nat /\ Rank(i) <= n /\ Rank(i) # 0
    OBVIOUS
  <2>2. UpTo(i) \subseteq Firsts /\ i \in UpTo(i)
    BY <1>2
  <2> HIDE DEF UpTo
  <2>3. IsFiniteSet(UpTo(i)) /\ Rank(i) <= n
    BY <1>3, <2>2, FS_Subset DEF n
  <2>4. Rank(i) \in Nat /\ Rank(i) # 0
    BY <2>2, <2>3, FS_CardinalityType, FS_EmptySet
  <2> QED BY <2>3, <2>4
<1>7. \A i, j \in Firsts : Rank(i) = Rank(j) => i = j
  <2>1. \A i, j \in Firsts : i < j => Rank(i) # Rank(j)
    <3>1. SUFFICES ASSUME NEW i \in Firsts, NEW j \in Firsts, i < j, Rank(i) = Rank(j) PROVE FALSE
      OBVIOUS
    <3>2. i \in Nat /\ j \in Nat /\ \A x \in Firsts : x \in Nat
      BY <1>2
    <3>3. \A x \in Firsts : x <= i => x <= j
      BY <3>1, <3>2
    <3>4. UpTo(i) \subseteq UpTo(j)
      BY <3>3
    <3>5. j \in UpTo(j) /\ j \notin UpTo(i)
      BY <3>1, <3>2
    <3> HIDE DEF UpTo
    <3> QED BY <1>6, <3>1, <3>4, <3>5, FS_Subset
  <2>2. SUFFICES ASSUME NEW i \in Firsts, NEW j \in Firsts, Rank(i) = Rank(j) PROVE i = j
    OBVIOUS
  <2>3. i \in Nat /\ j \in Nat
    BY <1>2
  <2> HIDE DEF Rank
  <2> QED BY <2>1, <2>2, <2>3
<1> HIDE DEF Rank
<1>8. f \in Injection(Firsts, 1 .. n)
  <2>1. \A i \in Firsts : Rank(i) \in 1 .. n
    <3>1. SUFFICES ASSUME NEW i \in Firsts PROVE Rank(i) \in 1 .. n
      OBVIOUS
    <3>2. Rank(i) \in Nat /\ Rank(i) <= n /\ Rank(i) # 0
      BY <1>6
    <3> QED BY <1>3, <3>2
  <2>2. f \in [Firsts -> 1 .. n]
    BY <2>1
  <2> QED BY <1>7, <2>2 DEF Injection, IsInjective
<1>9. \A k \in 1 .. n : \E i \in Firsts : Rank(i) = k
  <2>1. IsFiniteSet(1 .. n) /\ Cardinality(1 .. n) = n
    BY <1>3, FS_Interval
  <2> HIDE DEF f
  <2>2. f \in Surjection(Firsts, 1 .. n)
    BY <1>8, <2>1, FS_Injection DEF n
  <2> QED BY <2>2 DEF Surjection, f
<1>10. \A k \in 1 .. n : (CHOOSE i \in Firsts : Rank(i) = k) \in Firsts /\ Rank(CHOOSE i \in Firsts : Rank(i) = k) = k
  BY <1>9
<1> DEFINE Pick(k) == CHOOSE i \in Firsts : Rank(i) = k
<1>11. /\ SessionsOf(ms) = [k \in 1 .. n |-> ms[Pick(k)].session]
       /\ \A k \in 1 .. n : Pick(k) \in Firsts /\ Rank(Pick(k)) = k
  BY <1>4, <1>10
<1> HIDE DEF Pick
<1>12. SessionsOf(ms) \in Seq(Sessions)
  <2>1. \A k \in 1 .. n : ms[Pick(k)].session \in Sessions
    BY <1>1, <1>2, <1>11
  <2>2. SessionsOf(ms) \in [1 .. n -> Sessions]
    BY <1>11, <2>1
  <2> QED BY <1>3, <2>2
<1>13. \A i \in Firsts : ms[i].session \in ToSet(SessionsOf(ms))
  <2>1. SUFFICES ASSUME NEW i \in Firsts PROVE ms[i].session \in ToSet(SessionsOf(ms))
    OBVIOUS
  <2>2. Rank(i) \in 1 .. n
    <3>1. Rank(i) \in Nat /\ Rank(i) <= n /\ Rank(i) # 0
      BY <1>6
    <3> QED BY <1>3, <3>1
  <2>3. Pick(Rank(i)) = i
    BY <1>7, <1>11, <2>2
  <2> QED BY <1>11, <2>2, <2>3 DEF ToSet
<1> QED BY <1>5, <1>12, <1>13

\* A message is one more of its session ...
LEMMA CountAppend ==
  ASSUME NEW ms \in Seq(Metrics), NEW m \in Metrics, NEW s
  PROVE  /\ NumOf(ms, s) \in Nat
         /\ NumOf(Append(ms, m), s) = NumOf(ms, s) + (IF m.session = s THEN 1 ELSE 0)
<1> DEFINE N == {i \in DOMAIN ms : ms[i].session = s}
           A == Append(ms, m)
           P == {i \in DOMAIN A : A[i].session = s}
<1>1. Len(ms) \in Nat /\ DOMAIN ms = 1 .. Len(ms)
  OBVIOUS
<1>2. /\ DOMAIN A = 1 .. (Len(ms) + 1) /\ A[Len(ms) + 1] = m
      /\ \A i \in 1 .. Len(ms) : A[i] = ms[i]
  OBVIOUS
<1>3. IsFiniteSet(N) /\ Cardinality(N) \in Nat
  <2>1. IsFiniteSet(1 .. Len(ms)) /\ N \subseteq 1 .. Len(ms)
    BY <1>1, FS_Interval
  <2> HIDE DEF N
  <2>2. IsFiniteSet(N)
    BY <2>1, FS_Subset
  <2> QED BY <2>2, FS_CardinalityType
<1>4. P = IF m.session = s THEN N \cup {Len(ms) + 1} ELSE N
  <2> HIDE DEF A
  <2> QED BY <1>1, <1>2
<1>5. Len(ms) + 1 \notin N
  BY <1>1
<1>6. NumOf(ms, s) = Cardinality(N) /\ NumOf(A, s) = Cardinality(P)
  BY DEF NumOf
<1> HIDE DEF N, P, A
<1>7. Cardinality(N \cup {Len(ms) + 1}) = Cardinality(N) + 1
  BY <1>3, <1>5, FS_AddElement
<1> QED BY <1>3, <1>4, <1>6, <1>7 DEF A

\* ... and an empty batch has none.
LEMMA CountEmpty ==
  ASSUME NEW s
  PROVE  NumOf(<<>>, s) = 0
<1>1. {i \in DOMAIN <<>> : <<>>[i].session = s} = {}
  OBVIOUS
<1> QED BY <1>1, FS_EmptySet DEF NumOf

\* A single message.
LEMMA CountOne ==
  ASSUME NEW m \in Metrics, NEW s
  PROVE  NumOf(<<m>>, s) = IF m.session = s THEN 1 ELSE 0
<1>1. <<>> \in Seq(Metrics) /\ <<m>> = Append(<<>>, m)
  OBVIOUS
<1>2. NumOf(<<>>, s) \in Nat /\ NumOf(Append(<<>>, m), s) = NumOf(<<>>, s) + (IF m.session = s THEN 1 ELSE 0)
  BY <1>1, CountAppend
<1> QED BY <1>1, <1>2, CountEmpty

\* Handling the first metric leaves one less of its session.
LEMMA CountTail ==
  ASSUME NEW ms \in Seq(Metrics), ms # <<>>, NEW s
  PROVE  /\ NumOf(Tail(ms), s) \in Nat
         /\ NumOf(ms, s) = NumOf(Tail(ms), s) + (IF Head(ms).session = s THEN 1 ELSE 0)
<1> DEFINE N == {i \in DOMAIN ms : ms[i].session = s}
           T == Tail(ms)
           P == {i \in DOMAIN T : T[i].session = s}
           g == [i \in P |-> i + 1]
<1>1. Len(ms) \in Nat /\ Len(ms) > 0 /\ DOMAIN ms = 1 .. Len(ms) /\ Head(ms) = ms[1]
  OBVIOUS
<1>2. /\ T \in Seq(Metrics) /\ DOMAIN T = 1 .. (Len(ms) - 1)
      /\ \A i \in 1 .. (Len(ms) - 1) : T[i] = ms[i + 1]
  OBVIOUS
<1> HIDE DEF T
<1>3. IsFiniteSet(P) /\ Cardinality(P) \in Nat
  <2>1. IsFiniteSet(1 .. (Len(ms) - 1)) /\ P \subseteq 1 .. (Len(ms) - 1)
    BY <1>1, <1>2, FS_Interval
  <2> HIDE DEF P
  <2>2. IsFiniteSet(P)
    BY <2>1, FS_Subset
  <2> QED BY <2>2, FS_CardinalityType
<1>4. \A i \in P : i \in Nat /\ i + 1 \in N \ {1}
  BY <1>1, <1>2
<1>5. \A j \in N \ {1} : j - 1 \in P /\ (j - 1) + 1 = j
  BY <1>1, <1>2
<1>6. (1 \in N) <=> Head(ms).session = s
  BY <1>1
<1>7. NumOf(ms, s) = Cardinality(N) /\ NumOf(T, s) = Cardinality(P)
  BY DEF NumOf
<1> HIDE DEF N, P
<1>8. g \in Bijection(P, N \ {1})
  <2>1. g \in [P -> N \ {1}]
    BY <1>4
  <2>2. \A i, j \in P : g[i] = g[j] => i = j
    BY <1>4
  <2>3. \A j \in N \ {1} : \E i \in P : g[i] = j
    BY <1>5
  <2> QED BY <2>1, <2>2, <2>3 DEF Bijection, Injection, Surjection, IsInjective
<1>9. IsFiniteSet(N \ {1}) /\ Cardinality(N \ {1}) = Cardinality(P)
  <2>1. ExistsBijection(P, N \ {1})
    BY <1>8 DEF ExistsBijection
  <2> QED BY <1>3, <2>1, FS_Bijection
<1>10. CASE 1 \in N
  <2>1. N = (N \ {1}) \cup {1} /\ 1 \notin N \ {1}
    BY <1>10
  <2>2. Cardinality(N) = Cardinality(N \ {1}) + 1
    BY <1>9, <2>1, FS_AddElement
  <2> QED BY <1>3, <1>6, <1>7, <1>9, <1>10, <2>2 DEF T
<1>11. CASE 1 \notin N
  <2>1. N \ {1} = N
    BY <1>11
  <2>2. Cardinality(N) = Cardinality(P)
    BY <1>9, <2>1
  <2>3. NumOf(ms, s) = NumOf(T, s) /\ NumOf(T, s) \in Nat /\ Head(ms).session # s
    BY <1>3, <1>6, <1>7, <1>11, <2>2
  <2> QED BY <2>3 DEF T
<1> QED BY <1>10, <1>11

-----------------------------------------------------------------------------
(* What a step leaves as it was                                            *)

\* Initially there is nothing to count.
LEMMA InitInv == Init => IInv
<1> SUFFICES ASSUME Init PROVE IInv
  OBVIOUS
<1>1. NoScore \in Scores
  BY DEF NoScore, Scores
<1>2. ReaderTypes
  BY <1>1 DEF Init, ReaderTypes, Zero, Labels
<1>3. EachMetricCountedOnce
  BY CountEmpty DEF Init, EachMetricCountedOnce, Zero, Threads
<1>4. Accounted
  BY DEF Init, Accounted, Zero
<1>5. \A t \in Threads : Hands(t)
  BY DEF Init, Hands, Applying, Computing
<1> QED BY <1>2, <1>3, <1>4, <1>5 DEF IInv

\* A thread that did nothing owes what it owed.
LEMMA OwesStays ==
  ASSUME NEW t, NEW s, pc'[t] = pc[t], todo'[t] = todo[t], snap'[t] = snap[t],
         orders'[s] = orders[s], total'[s] = total[s], correct'[s] = correct[s], Owes(t, s)
  PROVE  Owes(t, s)'
  BY DEF Owes

\* A published score stays published.
LEMMA ScoredStays ==
  ASSUME scores \in Seq(Scores), NEW s, Scored(s),
         orders'[s] = orders[s], total'[s] = total[s], correct'[s] = correct[s],
         scores' = scores \/ \E m \in Scores : scores' = Append(scores, m)
  PROVE  Scored(s)'
<1>1. PICK i \in DOMAIN scores :
        scores[i].session = s /\ scores[i].orders = orders[s] /\ scores[i].total = total[s] /\ scores[i].correct = correct[s]
  BY DEF Scored
<1>2. i \in DOMAIN scores' /\ scores'[i] = scores[i]
  BY SMTT(60)
<1> QED BY <1>1, <1>2 DEF Scored

\* A step of thread t that counts nothing, if t settles or keeps what it owes.
LEMMA AccountedStays ==
  ASSUME IInv, NEW t \in Threads, UNCHANGED <<orders, total, correct, done>>,
         pc[t] # "exit", unscored \subseteq unscored',
         scores' = scores \/ \E m \in Scores : scores' = Append(scores, m),
         \A u \in Threads \ {t} : pc'[u] = pc[u] /\ todo'[u] = todo[u] /\ snap'[u] = snap[u],
         \A s \in Sessions \ unscored' : Owes(t, s) => Owes(t, s)' \/ Scored(s)'
  PROVE  Accounted'
<1>1. SUFFICES ASSUME ~done', NEW s \in Sessions \ unscored', orders'[s] > 0
               PROVE  Scored(s)' \/ \E u \in Threads : Owes(u, s)'
  BY DEF Accounted
<1>2. ~done /\ ~Stopped /\ s \in Sessions \ unscored /\ orders[s] > 0
  BY <1>1 DEF Stopped
<1>3. Scored(s) \/ \E u \in Threads : Owes(u, s)
  BY <1>2 DEF IInv, Accounted
<1>4. orders'[s] = orders[s] /\ total'[s] = total[s] /\ correct'[s] = correct[s]
  OBVIOUS
<1>5. CASE Scored(s)
  <2>1. scores \in Seq(Scores)
    BY DEF IInv, ReaderTypes
  <2> QED BY <1>4, <1>5, <2>1, ScoredStays
<1>6. ASSUME NEW u \in Threads, Owes(u, s) PROVE Scored(s)' \/ \E v \in Threads : Owes(v, s)'
  <2>1. CASE u = t
    BY <1>1, <1>6, <2>1
  <2>2. CASE u # t
    BY <1>4, <1>6, <2>2, OwesStays
  <2> QED BY <2>1, <2>2
<1> QED BY <1>3, <1>5, <1>6

\* A step of thread t that counts a metric of session r, which t has to score.
LEMMA AccountedCounting ==
  ASSUME IInv, NEW t \in Threads, NEW r \in ToSet(todo[t]), pc[t] \in Applying, pc' = [pc EXCEPT ![t] = pc'[t]],
         pc'[t] \in Applying, UNCHANGED <<todo, snap, scores, unscored, done>>,
         \A s \in Sessions \ {r} : orders'[s] = orders[s] /\ total'[s] = total[s] /\ correct'[s] = correct[s]
  PROVE  Accounted'
<1>1. SUFFICES ASSUME ~done', NEW s \in Sessions \ unscored', orders'[s] > 0
               PROVE  Scored(s)' \/ \E u \in Threads : Owes(u, s)'
  BY DEF Accounted
<1>2. CASE s = r
  <2>1. Owes(t, s)'
    BY <1>2 DEF Owes
  <2> QED BY <2>1
<1>3. CASE s # r
  <2>1. orders'[s] = orders[s] /\ total'[s] = total[s] /\ correct'[s] = correct[s]
    BY <1>1, <1>3
  <2>2. ~done /\ ~Stopped /\ s \in Sessions \ unscored /\ orders[s] > 0
    BY <1>1, <2>1 DEF Stopped, Applying
  <2>3. Scored(s) \/ \E u \in Threads : Owes(u, s)
    BY <2>2 DEF IInv, Accounted
  <2>4. CASE Scored(s)
    <3>1. scores \in Seq(Scores)
      BY DEF IInv, ReaderTypes
    <3> QED BY <2>1, <2>4, <3>1, ScoredStays
  <2>5. ASSUME NEW u \in Threads, Owes(u, s) PROVE Owes(u, s)'
    <3>1. CASE u = t
      <4>1. s \in ToSet(todo[t])
        BY <2>5, <3>1 DEF Owes, Applying, Computing
      <4> QED BY <3>1, <4>1 DEF Owes
    <3>2. CASE u # t
      <4>1. pc'[u] = pc[u]
        BY <3>2 DEF IInv, ReaderTypes
      <4> QED BY <2>1, <2>5, <4>1, OwesStays
    <3> QED BY <3>1, <3>2
  <2> QED BY <2>3, <2>4, <2>5
<1> QED BY <1>2, <1>3

\* The readers are two, and what they hold is counted in natural numbers.
LEMMA CountsAreNatural ==
  ASSUME ReaderTypes, NEW s \in Sessions
  PROVE  /\ NumOf(work["metrics"], s) \in Nat /\ NumOf(work["ebpf"], s) \in Nat /\ NumOf(batch, s) \in Nat
         /\ orders[s] \in Nat /\ taken[s] \in Nat
<1>1. work["metrics"] \in Seq(Metrics) /\ work["ebpf"] \in Seq(Metrics) /\ batch \in Seq(Metrics)
  BY DEF ReaderTypes, Threads
<1>2. \A ms \in Seq(Metrics) : NumOf(ms, s) \in Nat
  <2>1. SUFFICES ASSUME NEW ms \in Seq(Metrics) PROVE NumOf(ms, s) \in Nat
    OBVIOUS
  <2>2. CASE ms = <<>>
    BY <2>2, CountEmpty
  <2>3. CASE ms # <<>>
    <3>1. /\ NumOf(Tail(ms), s) \in Nat
          /\ NumOf(ms, s) = NumOf(Tail(ms), s) + (IF Head(ms).session = s THEN 1 ELSE 0)
      BY <2>3, CountTail
    <3> QED BY <3>1
  <2> QED BY <2>2, <2>3
<1> QED BY <1>1, <1>2 DEF ReaderTypes

-----------------------------------------------------------------------------
(* The steps                                                               *)

\* Producers, the ticker and the signal touch nothing of the readers.
LEMMA OutsideStep ==
  ASSUME IInv, (\E t \in Threads, m \in Metrics : Produce(t, m)) \/ Tick \/ Cancel \/ UNCHANGED vars
  PROVE  IInv'
<1>1. /\ UNCHANGED <<pc, batch, work, todo, orders, total, correct, history, clock, snap, scores, taken, unscored>>
      /\ done => done'
  BY DEF Produce, Tick, Cancel, vars, inputVars, countVars
<1>2. topic' \in [Threads -> Seq(Metrics)]
  <2>1. topic \in [Threads -> Seq(Metrics)]
    BY DEF IInv, ReaderTypes
  <2>2. ASSUME NEW t \in Threads, NEW m \in Metrics, Produce(t, m) PROVE topic' \in [Threads -> Seq(Metrics)]
    <3>1. topic' = [topic EXCEPT ![t] = Append(topic[t], m)] /\ Append(topic[t], m) \in Seq(Metrics)
      BY <2>1, <2>2 DEF Produce
    <3> QED BY <2>1, <3>1
  <2> QED BY <2>1, <2>2 DEF Tick, Cancel, vars, inputVars
<1>3. ReaderTypes'
  BY <1>1, <1>2 DEF IInv, ReaderTypes
<1>4. EachMetricCountedOnce'
  BY <1>1 DEF IInv, EachMetricCountedOnce, Stopped, NumOf
<1>5. Accounted'
  <2>1. \A s : Scored(s)' <=> Scored(s)
    BY <1>1 DEF Scored
  <2>2. \A t, s : Owes(t, s)' <=> Owes(t, s)
    BY <1>1 DEF Owes
  <2> QED BY <1>1, <2>1, <2>2 DEF IInv, Accounted, Stopped
<1>6. \A t \in Threads : Hands(t)'
  BY <1>1 DEF IInv, Hands, Stopped
<1> QED BY <1>3, <1>4, <1>5, <1>6 DEF IInv

\* The end of the process ends what was promised.
LEMMA EndStep == IInv /\ (Exit \/ Abort) => IInv'
<1> SUFFICES ASSUME IInv, Exit \/ Abort PROVE IInv'
  OBVIOUS
<1>1. /\ UNCHANGED <<topic, batch, work, todo, orders, total, correct, history, clock, snap, scores, taken>>
      /\ pc' = [t \in Threads |-> "exit"]
  BY DEF Exit, Abort, inputVars, countVars
<1>2. Stopped'
  BY <1>1 DEF Stopped
<1>3. ReaderTypes'
  BY <1>1 DEF IInv, ReaderTypes, Labels
<1>4. \A t \in Threads : Hands(t)'
  BY <1>1, <1>2 DEF Hands, Applying, Computing
<1> QED BY <1>2, <1>3, <1>4 DEF IInv, EachMetricCountedOnce, Accounted

\* A step of thread t that only moves it.
LEMMA MoveStep ==
  ASSUME IInv, NEW t \in Threads, NEW l \in Labels, pc' = [pc EXCEPT ![t] = l],
         topic' \in [Threads -> Seq(Metrics)],
         UNCHANGED <<batch, work, todo, orders, total, correct, history, clock, snap, scores, taken, unscored, done>>,
         \/ pc[t] = "lock" /\ l = "apply"
         \/ pc[t] = "apply" /\ work[t] = <<>> /\ l = "compute"
         \/ pc[t] = "compute" /\ todo[t] # <<>> /\ l = "computeTotal"
         \/ pc[t] \in {"loop", "reading"} /\ l \in {"loop", "reading", "failed", "exit"}
  PROVE  IInv'
<1>1. /\ pc \in [Threads -> Labels] /\ pc' \in [Threads -> Labels]
      /\ pc'[t] = l /\ \A u \in Threads \ {t} : pc'[u] = pc[u]
  BY DEF IInv, ReaderTypes
<1>2. ~Stopped
  BY DEF Stopped
<1>3. ReaderTypes'
  BY <1>1 DEF IInv, ReaderTypes
<1>4. EachMetricCountedOnce'
  <2>1. pc'["metrics"] \in {"loop", "reading", "failed", "exit"} <=> pc["metrics"] \in {"loop", "reading", "failed", "exit"}
    BY <1>1 DEF Threads
  <2> QED BY <1>2, <2>1 DEF IInv, EachMetricCountedOnce, NumOf
<1>5. Accounted'
  <2>1. \A s \in Sessions \ unscored' : Owes(t, s) => Owes(t, s)'
    <3>1. CASE pc[t] \in {"loop", "reading"}
      BY <3>1 DEF Owes, Applying, Computing
    <3>2. CASE pc[t] \notin {"loop", "reading"}
      BY <1>1, <3>2 DEF Owes, Applying, Computing
    <3> QED BY <3>1, <3>2
  <2>2. pc[t] # "exit"
    OBVIOUS
  <2> QED BY <1>1, <2>1, <2>2, AccountedStays
<1>6. ASSUME NEW u \in Threads PROVE Hands(u)'
  <2>1. Hands(u)
    BY DEF IInv
  <2>2. CASE u = t
    BY <1>1, <1>2, <2>1, <2>2 DEF Hands, Applying, Computing
  <2>3. CASE u # t
    BY <1>1, <1>2, <2>1, <2>3 DEF Hands
  <2> QED BY <2>2, <2>3
<1> QED BY <1>3, <1>4, <1>5, <1>6 DEF IInv

\* totalFills is of a session that has still to be scored.
LEMMA ApplyTotalStep ==
  ASSUME IInv, NEW t \in Threads, ApplyTotal(t)
  PROVE  IInv'
<1> DEFINE m == Head(work[t])
<1>1. /\ pc[t] = "apply" /\ work[t] # <<>> /\ work[t] \in Seq(Metrics) /\ pc' = [pc EXCEPT ![t] = "applyRest"]
      /\ pc \in [Threads -> Labels] /\ Hands(t)
      /\ UNCHANGED <<topic, batch, work, todo, orders, correct, history, clock, snap, scores, taken, unscored, done>>
  BY DEF ApplyTotal, Goto, inputVars, IInv, ReaderTypes
<1>2. m \in Metrics /\ m.session \in Sessions /\ m.session \in ToSet(todo[t])
  <2>1. m \in Metrics
    BY <1>1
  <2>2. m.session \in SessionSet(work[t])
    BY <1>1, SessionsOfTail
  <2> QED BY <1>1, <2>1, <2>2 DEF Hands, Applying, Metrics
<1>3. total' = IF IsFill(m) THEN [total EXCEPT ![m.session] = @ + 1] ELSE total
  BY DEF ApplyTotal
<1> HIDE DEF m
<1>4. total \in [Sessions -> Nat]
  BY DEF IInv, ReaderTypes
<1>5. total' \in [Sessions -> Nat] /\ \A s \in Sessions \ {m.session} : total'[s] = total[s]
  BY <1>2, <1>3, <1>4
<1>6. /\ pc' \in [Threads -> Labels] /\ pc'[t] = "applyRest" /\ \A u \in Threads \ {t} : pc'[u] = pc[u]
      /\ ~Stopped
  BY <1>1 DEF Labels, Applying, Stopped
<1>7. ReaderTypes'
  BY <1>1, <1>5, <1>6 DEF IInv, ReaderTypes
<1>8. EachMetricCountedOnce'
  <2>1. pc'["metrics"] \in {"loop", "reading", "failed", "exit"} <=> pc["metrics"] \in {"loop", "reading", "failed", "exit"}
    BY <1>1, <1>6 DEF Threads
  <2> QED BY <1>1, <1>6, <2>1 DEF IInv, EachMetricCountedOnce, NumOf
<1>9. Accounted'
  <2>1. /\ pc[t] \in Applying /\ pc'[t] \in Applying /\ pc' = [pc EXCEPT ![t] = pc'[t]]
        /\ \A s \in Sessions \ {m.session} : orders'[s] = orders[s] /\ total'[s] = total[s] /\ correct'[s] = correct[s]
    BY <1>1, <1>5, <1>6 DEF Applying
  <2> QED BY <1>1, <1>2, <2>1, AccountedCounting
<1>10. ASSUME NEW u \in Threads PROVE Hands(u)'
  <2>1. Hands(u)
    BY DEF IInv
  <2>2. CASE u = t
    BY <1>1, <1>6, <2>1, <2>2 DEF Hands, Applying, Computing
  <2>3. CASE u # t
    BY <1>1, <1>6, <2>1, <2>3 DEF Hands
  <2> QED BY <2>2, <2>3
<1> QED BY <1>7, <1>8, <1>9, <1>10 DEF IInv

\* orderCount counts the metric that leaves the thread's hands.
LEMMA ApplyRestStep ==
  ASSUME IInv, NEW t \in Threads, ApplyRest(t)
  PROVE  IInv'
<1> DEFINE m == Head(work[t])
<1>1. /\ pc[t] = "applyRest" /\ work[t] \in Seq(Metrics) /\ pc' = [pc EXCEPT ![t] = "apply"]
      /\ pc \in [Threads -> Labels] /\ Hands(t) /\ work \in [Threads -> Seq(Metrics)]
      /\ work' = [work EXCEPT ![t] = Tail(work[t])]
      /\ UNCHANGED <<topic, batch, todo, total, history, clock, snap, scores, taken, unscored, done>>
  BY DEF ApplyRest, Goto, inputVars, IInv, ReaderTypes
<1>2. work[t] # <<>>
  BY <1>1 DEF Hands
<1>3. m \in Metrics /\ m.session \in Sessions /\ m.session \in ToSet(todo[t])
  <2>1. m \in Metrics
    BY <1>1, <1>2
  <2>2. m.session \in SessionSet(work[t])
    BY <1>1, <1>2, SessionsOfTail
  <2> QED BY <1>1, <2>1, <2>2 DEF Hands, Applying, Metrics
<1>4. /\ correct' = IF m.kind = "right" THEN [correct EXCEPT ![m.session] = @ + 1] ELSE correct
      /\ orders' = [orders EXCEPT ![m.session] = @ + 1]
  BY DEF ApplyRest
<1>5. \A s : /\ NumOf(Tail(work[t]), s) \in Nat
             /\ NumOf(work[t], s) = NumOf(Tail(work[t]), s) + (IF m.session = s THEN 1 ELSE 0)
  BY <1>1, <1>2, CountTail
<1>6. Tail(work[t]) \in Seq(Metrics) /\ SessionSet(Tail(work[t])) \subseteq SessionSet(work[t])
  BY <1>1, <1>2, SessionsOfTail, HeadAndTail
<1> HIDE DEF m
<1>7. correct \in [Sessions -> Nat] /\ orders \in [Sessions -> Nat]
  BY DEF IInv, ReaderTypes
<1>8. /\ correct' \in [Sessions -> Nat] /\ \A s \in Sessions \ {m.session} : correct'[s] = correct[s]
      /\ orders' \in [Sessions -> Nat] /\ \A s \in Sessions \ {m.session} : orders'[s] = orders[s]
      /\ orders'[m.session] = orders[m.session] + 1
  BY <1>3, <1>4, <1>7
<1>9. /\ pc' \in [Threads -> Labels] /\ pc'[t] = "apply" /\ \A u \in Threads \ {t} : pc'[u] = pc[u]
      /\ work' \in [Threads -> Seq(Metrics)] /\ work'[t] = Tail(work[t]) /\ \A u \in Threads \ {t} : work'[u] = work[u]
      /\ ~Stopped
  BY <1>1, <1>6 DEF Labels, Applying, Stopped
<1>10. ReaderTypes'
  BY <1>1, <1>8, <1>9 DEF IInv, ReaderTypes
<1>11. EachMetricCountedOnce'
  <2>1. pc'["metrics"] \in {"loop", "reading", "failed", "exit"} <=> pc["metrics"] \in {"loop", "reading", "failed", "exit"}
    BY <1>1, <1>9 DEF Threads
  <2>2. SUFFICES ASSUME NEW s \in Sessions
                 PROVE  taken'[s] = orders'[s] + NumOf(work'["metrics"], s) + NumOf(work'["ebpf"], s)
                          + (IF pc'["metrics"] \in {"loop", "reading", "failed", "exit"} THEN NumOf(batch', s) ELSE 0)
    BY DEF EachMetricCountedOnce, NumOf
  <2>3. taken[s] = orders[s] + NumOf(work["metrics"], s) + NumOf(work["ebpf"], s)
                     + (IF pc["metrics"] \in {"loop", "reading", "failed", "exit"} THEN NumOf(batch, s) ELSE 0)
    BY <1>9 DEF IInv, EachMetricCountedOnce
  <2>4. /\ NumOf(work["metrics"], s) \in Nat /\ NumOf(work["ebpf"], s) \in Nat /\ NumOf(batch, s) \in Nat
        /\ orders[s] \in Nat /\ taken[s] \in Nat
    BY CountsAreNatural DEF IInv
  <2> DEFINE d == IF m.session = s THEN 1 ELSE 0
             M == NumOf(work["metrics"], s)
             E == NumOf(work["ebpf"], s)
             B == IF pc["metrics"] \in {"loop", "reading", "failed", "exit"} THEN NumOf(batch, s) ELSE 0
             N == NumOf(Tail(work[t]), s)
  <2>5. orders'[s] = orders[s] + d /\ d \in Nat /\ N \in Nat
    BY <1>5, <1>8
  <2>6. M \in Nat /\ E \in Nat /\ B \in Nat /\ orders[s] \in Nat /\ taken'[s] = orders[s] + M + E + B
    BY <1>1, <2>3, <2>4
  <2>7. (IF pc'["metrics"] \in {"loop", "reading", "failed", "exit"} THEN NumOf(batch', s) ELSE 0) = B
    BY <1>1, <2>1
  <2>8. CASE t = "metrics"
    <3>1. work'["metrics"] = Tail(work[t]) /\ work'["ebpf"] = work["ebpf"]
      BY <1>9, <2>8 DEF Threads
    <3>2. NumOf(work'["metrics"], s) = N /\ NumOf(work'["ebpf"], s) = E /\ M = N + d
      BY <1>5, <2>8, <3>1
    <3> HIDE DEF d, M, E, B, N
    <3> QED BY <2>5, <2>6, <2>7, <3>2
  <2>9. CASE t = "ebpf"
    <3>1. work'["ebpf"] = Tail(work[t]) /\ work'["metrics"] = work["metrics"]
      BY <1>9, <2>9 DEF Threads
    <3>2. NumOf(work'["metrics"], s) = M /\ NumOf(work'["ebpf"], s) = N /\ E = N + d
      BY <1>5, <2>9, <3>1
    <3> HIDE DEF d, M, E, B, N
    <3> QED BY <2>5, <2>6, <2>7, <3>2
  <2> QED BY <2>8, <2>9 DEF Threads
<1>12. Accounted'
  <2>1. /\ pc[t] \in Applying /\ pc'[t] \in Applying /\ pc' = [pc EXCEPT ![t] = pc'[t]]
        /\ \A s \in Sessions \ {m.session} : orders'[s] = orders[s] /\ total'[s] = total[s] /\ correct'[s] = correct[s]
    BY <1>1, <1>8, <1>9 DEF Applying
  <2> QED BY <1>1, <1>3, <2>1, AccountedCounting
<1>13. ASSUME NEW u \in Threads PROVE Hands(u)'
  <2>1. Hands(u)
    BY DEF IInv
  <2>2. CASE u = t
    <3>1. SessionSet(Tail(work[t])) \subseteq ToSet(todo[t])
      BY <1>1, <1>6 DEF Hands, Applying
    <3> QED BY <1>1, <1>9, <2>2, <3>1 DEF Hands, Applying, Computing
  <2>3. CASE u # t
    BY <1>1, <1>9, <2>1, <2>3 DEF Hands
  <2> QED BY <2>2, <2>3
<1> QED BY <1>10, <1>11, <1>12, <1>13 DEF IInv

\* Compute loads orderCount and totalFills of the session it is to score.
LEMMA ComputeTotalStep ==
  ASSUME IInv, NEW t \in Threads, ComputeTotal(t)
  PROVE  IInv'
<1> DEFINE h == Head(todo[t])
<1>1. /\ pc[t] = "computeTotal" /\ pc' = [pc EXCEPT ![t] = "computeCorrect"]
      /\ pc \in [Threads -> Labels] /\ Hands(t) /\ todo[t] \in Seq(Sessions) /\ snap \in [Threads -> Scores]
      /\ UNCHANGED <<topic, batch, work, todo, orders, total, correct, history, clock, scores, taken, unscored, done>>
  BY DEF ComputeTotal, Goto, inputVars, countVars, IInv, ReaderTypes
<1>2. todo[t] # <<>>
  BY <1>1 DEF Hands
<1>3. h \in Sessions /\ ToSet(todo[t]) = {h} \cup ToSet(Tail(todo[t]))
  BY <1>1, <1>2, HeadAndTail
<1>4. snap' = [snap EXCEPT ![t] = [NoScore EXCEPT !.session = h, !.orders = orders[h], !.total = total[h]]]
  BY DEF ComputeTotal
<1> HIDE DEF h
<1>5. orders[h] \in Nat /\ total[h] \in Nat
  BY <1>3 DEF IInv, ReaderTypes
<1>6. /\ snap' \in [Threads -> Scores] /\ \A u \in Threads \ {t} : snap'[u] = snap[u]
      /\ snap'[t].session = h /\ snap'[t].orders = orders[h] /\ snap'[t].total = total[h]
  <2> DEFINE o == orders[h]
             n == total[h]
             r == [NoScore EXCEPT !.session = h, !.orders = o, !.total = n]
  <2>1. snap' = [snap EXCEPT ![t] = r] /\ o \in Nat /\ n \in Nat /\ h \in Sessions \cup {"none"}
    BY <1>3, <1>4, <1>5
  <2>2. NoScore \in Scores
    BY DEF NoScore, Scores
  <2> HIDE DEF o, n
  <2>3. r \in Scores /\ r.session = h /\ r.orders = o /\ r.total = n
    BY <2>1, <2>2 DEF Scores
  <2> HIDE DEF r
  <2> QED BY <1>1, <2>1, <2>3 DEF o, n
<1>7. /\ pc' \in [Threads -> Labels] /\ pc'[t] = "computeCorrect" /\ \A u \in Threads \ {t} : pc'[u] = pc[u]
      /\ ~Stopped
  BY <1>1 DEF Labels, Computing, Stopped
<1>8. ReaderTypes'
  BY <1>1, <1>6, <1>7 DEF IInv, ReaderTypes
<1>9. EachMetricCountedOnce'
  <2>1. pc'["metrics"] \in {"loop", "reading", "failed", "exit"} <=> pc["metrics"] \in {"loop", "reading", "failed", "exit"}
    BY <1>1, <1>7 DEF Threads
  <2> QED BY <1>1, <1>7, <2>1 DEF IInv, EachMetricCountedOnce, NumOf
<1>10. Accounted'
  <2>1. ASSUME NEW s \in Sessions, Owes(t, s) PROVE Owes(t, s)'
    <3>1. s \in ToSet(todo[t])
      BY <1>1, <2>1 DEF Owes, Applying, Computing
    <3>2. CASE s = h
      BY <1>1, <1>6, <1>7, <3>2 DEF Owes, Computing, h
    <3>3. CASE s \in ToSet(Tail(todo[t]))
      BY <1>1, <1>7, <3>3 DEF Owes, Computing
    <3> QED BY <1>3, <3>1, <3>2, <3>3
  <2>2. pc[t] # "exit"
    BY <1>1
  <2> QED BY <1>1, <1>6, <1>7, <2>1, <2>2, AccountedStays
<1>11. ASSUME NEW u \in Threads PROVE Hands(u)'
  <2>1. Hands(u)
    BY DEF IInv
  <2>2. CASE u = t
    BY <1>1, <1>2, <1>7, <2>1, <2>2 DEF Hands, Applying, Computing
  <2>3. CASE u # t
    BY <1>1, <1>7, <2>1, <2>3 DEF Hands
  <2> QED BY <2>2, <2>3
<1> QED BY <1>8, <1>9, <1>10, <1>11 DEF IInv

\* Loading correctFills: if no counter has changed since, all are as they are.
LEMMA ComputeCorrectStep ==
  ASSUME IInv, NEW t \in Threads, ComputeCorrect(t)
  PROVE  IInv'
<1> DEFINE h == Head(todo[t])
<1>1. /\ pc[t] = "computeCorrect" /\ pc' = [pc EXCEPT ![t] = "history"] /\ clock' = clock + 1 /\ clock \in Nat
      /\ pc \in [Threads -> Labels] /\ Hands(t) /\ todo[t] \in Seq(Sessions) /\ snap \in [Threads -> Scores]
      /\ UNCHANGED <<topic, batch, work, todo, orders, total, correct, history, scores, taken, unscored, done>>
  BY DEF ComputeCorrect, Goto, inputVars, countVars, IInv, ReaderTypes
<1>2. todo[t] # <<>>
  BY <1>1 DEF Hands, Computing
<1>3. h \in Sessions /\ ToSet(todo[t]) = {h} \cup ToSet(Tail(todo[t]))
  BY <1>1, <1>2, HeadAndTail
<1>4. PICK n \in {snap[t].total, total[h]} :
        snap' = [snap EXCEPT ![t] = [@ EXCEPT !.total = n, !.correct = correct[h], !.at = clock + 1]]
  BY <1>1 DEF ComputeCorrect
<1> HIDE DEF h
<1>5. correct[h] \in Nat /\ total[h] \in Nat /\ n \in Nat /\ snap[t] \in Scores
  <2>1. correct[h] \in Nat /\ total[h] \in Nat
    BY <1>3 DEF IInv, ReaderTypes
  <2>2. snap[t] \in Scores
    BY <1>1
  <2>3. snap[t].total \in Nat
    BY <2>2 DEF Scores
  <2> QED BY <1>4, <2>1, <2>2, <2>3
<1>6. /\ snap' \in [Threads -> Scores] /\ \A u \in Threads \ {t} : snap'[u] = snap[u]
      /\ snap'[t].session = snap[t].session /\ snap'[t].orders = snap[t].orders
      /\ snap'[t].total = n /\ snap'[t].correct = correct[h]
  <2> DEFINE r == [snap[t] EXCEPT !.total = n, !.correct = correct[h], !.at = clock + 1]
  <2>1. clock + 1 \in Nat
    BY <1>1
  <2>2. r \in Scores /\ r.session = snap[t].session /\ r.orders = snap[t].orders /\ r.total = n /\ r.correct = correct[h]
    BY <1>5, <2>1 DEF Scores
  <2>3. snap' = [snap EXCEPT ![t] = r]
    BY <1>4
  <2> HIDE DEF r
  <2> QED BY <1>1, <2>2, <2>3
<1>7. /\ pc' \in [Threads -> Labels] /\ pc'[t] = "history" /\ \A u \in Threads \ {t} : pc'[u] = pc[u]
      /\ ~Stopped
  BY <1>1 DEF Labels, Computing, Stopped
<1>8. ReaderTypes'
  BY <1>1, <1>6, <1>7, SMTT(60) DEF IInv, ReaderTypes
<1>9. EachMetricCountedOnce'
  <2>1. pc'["metrics"] \in {"loop", "reading", "failed", "exit"} <=> pc["metrics"] \in {"loop", "reading", "failed", "exit"}
    BY <1>1, <1>7 DEF Threads
  <2> QED BY <1>1, <1>7, <2>1 DEF IInv, EachMetricCountedOnce, NumOf
<1>10. Accounted'
  <2>1. ASSUME NEW s \in Sessions, Owes(t, s) PROVE Owes(t, s)'
    <3>1. CASE s \in ToSet(Tail(todo[t]))
      BY <1>1, <1>7, <3>1 DEF Owes, Computing
    <3>2. CASE s \notin ToSet(Tail(todo[t]))
      <4>1. s = h /\ snap[t].session = s /\ snap[t].orders = orders[s] /\ snap[t].total = total[s]
        BY <1>1, <2>1, <3>2 DEF Owes, Applying, Computing, h
      <4>2. n = total[s]
        BY <4>1
      <4> QED BY <1>1, <1>6, <1>7, <4>1, <4>2 DEF Owes, Computing, h
    <3> QED BY <3>1, <3>2
  <2>2. pc[t] # "exit"
    BY <1>1
  <2> QED BY <1>1, <1>6, <1>7, <2>1, <2>2, AccountedStays
<1>11. ASSUME NEW u \in Threads PROVE Hands(u)'
  <2>1. Hands(u)
    BY DEF IInv
  <2>2. CASE u = t
    BY <1>1, <1>2, <1>7, <2>1, <2>2 DEF Hands, Applying, Computing
  <2>3. CASE u # t
    BY <1>1, <1>7, <2>1, <2>3 DEF Hands
  <2> QED BY <2>2, <2>3
<1> QED BY <1>8, <1>9, <1>10, <1>11 DEF IInv

\* The sparkline is no part of what the session is scored by.
LEMMA AppendHistoryStep ==
  ASSUME IInv, NEW t \in Threads, AppendHistory(t)
  PROVE  IInv'
<1> DEFINE h == Head(todo[t])
           q == Append(history[h], snap[t].at)
           from == IF Len(q) > HistoryLen THEN Len(q) - HistoryLen + 1 ELSE 1
           recent == SubSeq(q, from, Len(q))
<1>1. /\ pc[t] = "history" /\ pc' = [pc EXCEPT ![t] = "publish"]
      /\ history' = [history EXCEPT ![h] = recent] /\ snap' = [snap EXCEPT ![t] = [@ EXCEPT !.history = recent]]
      /\ pc \in [Threads -> Labels] /\ Hands(t) /\ todo[t] \in Seq(Sessions) /\ snap \in [Threads -> Scores]
      /\ history \in [Sessions -> Seq(Nat)]
      /\ UNCHANGED <<topic, batch, work, todo, orders, total, correct, clock, scores, taken, unscored, done>>
  BY DEF AppendHistory, Goto, inputVars, countVars, IInv, ReaderTypes
<1>2. todo[t] # <<>>
  BY <1>1 DEF Hands, Computing
<1>3. h \in Sessions
  BY <1>1, <1>2, HeadAndTail
<1>4. recent \in Seq(Nat)
  <2>1. history[h] \in Seq(Nat) /\ snap[t].at \in Nat
    BY <1>1, <1>3 DEF Scores
  <2>2. q \in Seq(Nat) /\ Len(q) \in Nat
    BY <2>1
  <2>3. from \in Nat /\ from >= 1
    BY <2>2, BoundsAssumption
  <2> HIDE DEF q, from
  <2> QED BY <2>2, <2>3, SubSeqProperties
<1> HIDE DEF h, recent
<1>5. snap[t] \in Scores
  BY <1>1
<1>6. /\ snap' \in [Threads -> Scores] /\ \A u \in Threads \ {t} : snap'[u] = snap[u]
      /\ snap'[t].session = snap[t].session /\ snap'[t].orders = snap[t].orders
      /\ snap'[t].total = snap[t].total /\ snap'[t].correct = snap[t].correct
      /\ history' \in [Sessions -> Seq(Nat)]
  BY <1>1, <1>4, <1>5 DEF Scores
<1>7. /\ pc' \in [Threads -> Labels] /\ pc'[t] = "publish" /\ \A u \in Threads \ {t} : pc'[u] = pc[u]
      /\ ~Stopped
  BY <1>1 DEF Labels, Computing, Stopped
<1>8. ReaderTypes'
  BY <1>1, <1>6, <1>7 DEF IInv, ReaderTypes
<1>9. EachMetricCountedOnce'
  <2>1. pc'["metrics"] \in {"loop", "reading", "failed", "exit"} <=> pc["metrics"] \in {"loop", "reading", "failed", "exit"}
    BY <1>1, <1>7 DEF Threads
  <2> QED BY <1>1, <1>7, <2>1 DEF IInv, EachMetricCountedOnce, NumOf
<1>10. Accounted'
  <2>1. ASSUME NEW s \in Sessions, Owes(t, s) PROVE Owes(t, s)'
    BY <1>1, <1>6, <1>7, <2>1 DEF Owes, Applying, Computing
  <2>2. pc[t] # "exit"
    BY <1>1
  <2> QED BY <1>1, <1>6, <1>7, <2>1, <2>2, AccountedStays
<1>11. ASSUME NEW u \in Threads PROVE Hands(u)'
  <2>1. Hands(u)
    BY DEF IInv
  <2>2. CASE u = t
    BY <1>1, <1>2, <1>7, <2>1, <2>2 DEF Hands, Applying, Computing
  <2>3. CASE u # t
    BY <1>1, <1>7, <2>1, <2>3 DEF Hands
  <2> QED BY <2>2, <2>3
<1> QED BY <1>8, <1>9, <1>10, <1>11 DEF IInv

\* What was owed is published, or the sessions that are left are noted.
LEMMA PublishStep ==
  ASSUME IInv, NEW t \in Threads, Publish(t)
  PROVE  IInv'
<1> DEFINE h == Head(todo[t])
<1>1. /\ pc[t] = "publish" /\ pc' = [pc EXCEPT ![t] = "compute"] /\ snap' = [snap EXCEPT ![t] = NoScore]
      /\ pc \in [Threads -> Labels] /\ Hands(t) /\ todo \in [Threads -> Seq(Sessions)] /\ snap \in [Threads -> Scores]
      /\ scores \in Seq(Scores)
      /\ UNCHANGED <<topic, batch, work, orders, total, correct, history, clock, taken, done>>
  BY DEF Publish, Goto, inputVars, countVars, IInv, ReaderTypes
<1>2. todo[t] # <<>> /\ todo[t] \in Seq(Sessions) /\ snap[t] \in Scores
  BY <1>1 DEF Hands, Computing
<1>3. h \in Sessions /\ Tail(todo[t]) \in Seq(Sessions) /\ ToSet(todo[t]) = {h} \cup ToSet(Tail(todo[t]))
  BY <1>2, HeadAndTail
<1>4. \/ scores' = Append(scores, snap[t]) /\ todo' = [todo EXCEPT ![t] = Tail(todo[t])] /\ unscored' = unscored
      \/ /\ scores' \in {scores, Append(scores, snap[t])} /\ todo' = [todo EXCEPT ![t] = <<>>]
         /\ unscored' = unscored \cup ToSet(todo[t])
  BY DEF Publish
<1> HIDE DEF h
<1>5. NoScore \in Scores
  BY DEF NoScore, Scores
<1>6. /\ snap' \in [Threads -> Scores] /\ \A u \in Threads \ {t} : snap'[u] = snap[u] /\ todo'[u] = todo[u]
      /\ todo' \in [Threads -> Seq(Sessions)]
      /\ scores' \in Seq(Scores) /\ (scores' = scores \/ \E m \in Scores : scores' = Append(scores, m))
  <2>1. snap' \in [Threads -> Scores] /\ \A u \in Threads \ {t} : snap'[u] = snap[u]
    BY <1>1, <1>5
  <2>2. todo' \in [Threads -> Seq(Sessions)] /\ \A u \in Threads \ {t} : todo'[u] = todo[u]
    <3>1. PICK q \in Seq(Sessions) : todo' = [todo EXCEPT ![t] = q]
      <4>1. <<>> \in Seq(Sessions)
        OBVIOUS
      <4> QED BY <1>3, <1>4, <4>1
    <3> QED BY <1>1, <3>1
  <2>3. scores' = scores \/ scores' = Append(scores, snap[t])
    BY <1>4
  <2>4. scores' \in Seq(Scores)
    <3>1. Append(scores, snap[t]) \in Seq(Scores)
      BY <1>1, <1>2
    <3> QED BY <1>1, <2>3, <3>1
  <2> QED BY <1>2, <2>1, <2>2, <2>3, <2>4
<1>7. /\ pc' \in [Threads -> Labels] /\ pc'[t] = "compute" /\ \A u \in Threads \ {t} : pc'[u] = pc[u]
      /\ ~Stopped
  BY <1>1 DEF Labels, Stopped
<1>8. ReaderTypes'
  BY <1>1, <1>6, <1>7 DEF IInv, ReaderTypes
<1>9. EachMetricCountedOnce'
  <2>1. pc'["metrics"] \in {"loop", "reading", "failed", "exit"} <=> pc["metrics"] \in {"loop", "reading", "failed", "exit"}
    BY <1>1, <1>7 DEF Threads
  <2> QED BY <1>1, <1>7, <2>1 DEF IInv, EachMetricCountedOnce, NumOf
<1>10. Accounted'
  <2>1. ASSUME NEW s \in Sessions \ unscored', Owes(t, s) PROVE Owes(t, s)' \/ Scored(s)'
    <3>1. s \in ToSet(todo[t])
      BY <1>1, <1>3, <2>1 DEF Owes, Applying, Computing, h
    <3>2. scores' = Append(scores, snap[t]) /\ todo' = [todo EXCEPT ![t] = Tail(todo[t])]
      BY <1>4, <2>1, <3>1
    <3>3. CASE s \in ToSet(Tail(todo[t]))
      <4>1. todo'[t] = Tail(todo[t])
        BY <1>1, <3>2
      <4> QED BY <1>7, <3>3, <4>1 DEF Owes
    <3>4. CASE s \notin ToSet(Tail(todo[t]))
      <4>1. snap[t].session = s /\ snap[t].orders = orders[s] /\ snap[t].total = total[s] /\ snap[t].correct = correct[s]
        BY <1>1, <2>1, <3>4 DEF Owes, Applying, Computing
      <4>2. Len(scores) + 1 \in DOMAIN scores' /\ scores'[Len(scores) + 1] = snap[t]
        BY <1>1, <1>2, <3>2
      <4> QED BY <1>1, <4>1, <4>2 DEF Scored
    <3> QED BY <3>3, <3>4
  <2>2. pc[t] # "exit" /\ unscored \subseteq unscored'
    BY <1>1, <1>4
  <2> QED BY <1>1, <1>6, <1>7, <2>1, <2>2, AccountedStays
<1>11. ASSUME NEW u \in Threads PROVE Hands(u)'
  <2>1. Hands(u)
    BY DEF IInv
  <2>2. CASE u = t
    BY <1>1, <1>7, <2>1, <2>2 DEF Hands, Applying, Computing
  <2>3. CASE u # t
    BY <1>1, <1>6, <1>7, <2>1, <2>3 DEF Hands
  <2> QED BY <2>2, <2>3
<1> QED BY <1>8, <1>9, <1>10, <1>11 DEF IInv

\* Handle has returned: nothing is owed, and the batch has been counted.
LEMMA ReturnStep ==
  ASSUME IInv, NEW t \in Threads, Return(t)
  PROVE  IInv'
<1>1. /\ pc[t] = "compute" /\ todo[t] = <<>> /\ pc \in [Threads -> Labels] /\ batch \in Seq(Metrics)
      /\ UNCHANGED <<topic, work, todo, orders, total, correct, history, clock, snap, scores, taken, unscored, done>>
      /\ IF t = "metrics" THEN batch' = <<>> ELSE batch' = batch
  BY DEF Return, inputVars, countVars, IInv, ReaderTypes
<1>2. PICK l \in {"exit", "loop"} : pc' = [pc EXCEPT ![t] = l]
  BY DEF Return, Goto
<1>3. /\ pc' \in [Threads -> Labels] /\ pc'[t] = l /\ \A u \in Threads \ {t} : pc'[u] = pc[u]
      /\ ~Stopped
  BY <1>1, <1>2 DEF Labels, Stopped
<1>4. ReaderTypes'
  <2>1. batch' \in Seq(Metrics)
    <3>1. <<>> \in Seq(Metrics)
      OBVIOUS
    <3> QED BY <1>1, <3>1
  <2> QED BY <1>1, <1>3, <2>1 DEF IInv, ReaderTypes
<1>5. EachMetricCountedOnce'
  <2>1. CASE t = "metrics"
    <3>1. \A s : NumOf(batch', s) = 0
      BY <1>1, <2>1, CountEmpty
    <3> QED BY <1>1, <1>3, <2>1, <3>1 DEF IInv, EachMetricCountedOnce
  <2>2. CASE t # "metrics"
    <3>1. pc'["metrics"] = pc["metrics"] /\ batch' = batch
      BY <1>1, <1>3, <2>2 DEF Threads
    <3> QED BY <1>1, <1>3, <3>1 DEF IInv, EachMetricCountedOnce, NumOf
  <2> QED BY <2>1, <2>2
<1>6. Accounted'
  <2>1. \A s : ~Owes(t, s)
    BY <1>1 DEF Owes, Applying, Computing, ToSet
  <2>2. pc[t] # "exit"
    BY <1>1
  <2> QED BY <1>1, <1>3, <2>1, <2>2, AccountedStays
<1>7. ASSUME NEW u \in Threads PROVE Hands(u)'
  <2>1. Hands(u)
    BY DEF IInv
  <2>2. CASE u = t
    BY <1>1, <1>2, <1>3, <2>1, <2>2 DEF Hands, Applying, Computing
  <2>3. CASE u # t
    BY <1>1, <1>3, <2>1, <2>3 DEF Hands
  <2> QED BY <2>2, <2>3
<1> QED BY <1>4, <1>5, <1>6, <1>7 DEF IInv

\* Thread t hands metrics ms to Handle: all its sessions are to be scored.
LEMMA HandOver ==
  ASSUME IInv, NEW t \in Threads, NEW ms \in Seq(Metrics), pc[t] \in {"loop", "reading"}, CallHandle(t, ms),
         pc' = [pc EXCEPT ![t] = "lock"], UNCHANGED <<orders, total, correct, history, clock, snap, scores, unscored, done>>,
         topic' \in [Threads -> Seq(Metrics)], batch' \in Seq(Metrics), taken' \in [Sessions -> Nat],
         EachMetricCountedOnce'
  PROVE  IInv'
<1>1. /\ work' = [work EXCEPT ![t] = ms] /\ todo' = [todo EXCEPT ![t] = SessionsOf(ms)]
      /\ pc \in [Threads -> Labels] /\ work \in [Threads -> Seq(Metrics)] /\ todo \in [Threads -> Seq(Sessions)]
  BY DEF CallHandle, IInv, ReaderTypes
<1>2. SessionsOf(ms) \in Seq(Sessions) /\ SessionSet(ms) \subseteq ToSet(SessionsOf(ms))
  BY EverySessionIsScored
<1>3. /\ pc' \in [Threads -> Labels] /\ pc'[t] = "lock"
      /\ work' \in [Threads -> Seq(Metrics)] /\ work'[t] = ms
      /\ todo' \in [Threads -> Seq(Sessions)] /\ todo'[t] = SessionsOf(ms)
      /\ \A u \in Threads \ {t} : pc'[u] = pc[u] /\ work'[u] = work[u] /\ todo'[u] = todo[u]
      /\ ~Stopped
  BY <1>1, <1>2 DEF Labels, Applying, Stopped
<1>4. ReaderTypes'
  BY <1>3 DEF IInv, ReaderTypes
<1>5. Accounted'
  <2>1. \A s : ~Owes(t, s)
    BY DEF Owes, Applying, Computing
  <2>2. pc[t] # "exit"
    OBVIOUS
  <2> QED BY <1>3, <2>1, <2>2, AccountedStays
<1>6. ASSUME NEW u \in Threads PROVE Hands(u)'
  <2>1. Hands(u)
    BY DEF IInv
  <2>2. CASE u = t
    BY <1>2, <1>3, <2>2 DEF Hands, Applying, Computing
  <2>3. CASE u # t
    BY <1>3, <2>1, <2>3 DEF Hands
  <2> QED BY <2>2, <2>3
<1> QED BY <1>4, <1>5, <1>6 DEF IInv

\* The final flush and the ticker's: the batch goes from the reader to Handle.
LEMMA FlushStep == IInv /\ (MetricsTick \/ MetricsDone) => IInv'
<1> SUFFICES ASSUME IInv, MetricsTick \/ MetricsDone PROVE IInv'
  OBVIOUS
<1>1. /\ pc["metrics"] = "loop" /\ flush /\ "metrics" \in Threads /\ "ebpf" \in Threads /\ "metrics" # "ebpf"
      /\ UNCHANGED <<topic, batch, orders, total, correct, history, clock, snap, scores, taken, unscored, done>>
  BY DEF MetricsTick, MetricsDone, inputVars, countVars, Threads
<1>2. CASE batch = <<>>
  <2>1. PICK l \in {"exit", "loop"} : pc' = [pc EXCEPT !["metrics"] = l]
    BY <1>1, <1>2 DEF flush, Goto
  <2>2. UNCHANGED <<work, todo>> /\ l \in Labels /\ l \in {"loop", "reading", "failed", "exit"}
    BY <1>1, <1>2 DEF flush, Labels
  <2>3. topic' \in [Threads -> Seq(Metrics)]
    BY <1>1 DEF IInv, ReaderTypes
  <2> QED BY <1>1, <2>1, <2>2, <2>3, MoveStep
<1>3. CASE batch # <<>>
  <2>1. CallHandle("metrics", batch) /\ pc' = [pc EXCEPT !["metrics"] = "lock"]
    BY <1>1, <1>3 DEF flush, Goto
  <2>2. /\ batch \in Seq(Metrics) /\ topic' \in [Threads -> Seq(Metrics)] /\ taken' \in [Sessions -> Nat]
        /\ pc \in [Threads -> Labels] /\ work \in [Threads -> Seq(Metrics)]
    BY <1>1 DEF IInv, ReaderTypes
  <2>3. pc'["metrics"] = "lock" /\ pc'["ebpf"] = pc["ebpf"] /\ work'["metrics"] = batch /\ work'["ebpf"] = work["ebpf"]
    BY <1>1, <2>1, <2>2 DEF CallHandle
  <2>4. ~Stopped /\ work["metrics"] = <<>>
    <3>1. ~Stopped
      BY <1>1 DEF Stopped
    <3>2. Hands("metrics")
      BY <1>1 DEF IInv
    <3> QED BY <1>1, <3>1, <3>2 DEF Hands, Applying
  <2>5. EachMetricCountedOnce'
    <3>1. SUFFICES ASSUME NEW s \in Sessions
                   PROVE  taken'[s] = orders'[s] + NumOf(work'["metrics"], s) + NumOf(work'["ebpf"], s)
                            + (IF pc'["metrics"] \in {"loop", "reading", "failed", "exit"} THEN NumOf(batch', s) ELSE 0)
      BY DEF EachMetricCountedOnce, NumOf
    <3>2. taken[s] = orders[s] + NumOf(work["metrics"], s) + NumOf(work["ebpf"], s) + NumOf(batch, s)
      BY <1>1, <2>4 DEF IInv, EachMetricCountedOnce
    <3>3. /\ NumOf(work["metrics"], s) = 0 /\ NumOf(work["ebpf"], s) \in Nat /\ NumOf(batch, s) \in Nat
          /\ orders[s] \in Nat /\ taken[s] \in Nat
      BY <2>4, CountEmpty, CountsAreNatural DEF IInv
    <3>4. taken'[s] = taken[s] /\ orders'[s] = orders[s]
      BY <1>1
    <3>5. taken[s] = orders[s] + NumOf(batch, s) + NumOf(work["ebpf"], s) + 0
      BY <3>2, <3>3
    <3> QED BY <2>3, <3>4, <3>5
  <2> QED BY <1>1, <2>1, <2>2, <2>5, HandOver
<1> QED BY <1>2, <1>3

\* A message of session r is taken: one more to account for.
LEMMA TakeOne ==
  ASSUME IInv, NEW t \in Threads, Take(t)
  PROVE  /\ Head(topic[t]) \in Metrics /\ topic' \in [Threads -> Seq(Metrics)] /\ taken' \in [Sessions -> Nat]
         /\ \A s \in Sessions : taken'[s] = taken[s] + (IF Head(topic[t]).session = s THEN 1 ELSE 0)
<1>1. /\ topic[t] # <<>> /\ topic \in [Threads -> Seq(Metrics)] /\ taken \in [Sessions -> Nat]
      /\ topic' = [topic EXCEPT ![t] = Tail(topic[t])]
  BY DEF Take, IInv, ReaderTypes
<1> DEFINE r == Head(topic[t]).session
<1>2. Head(topic[t]) \in Metrics /\ Tail(topic[t]) \in Seq(Metrics)
  BY <1>1
<1>3. r \in Sessions /\ taken' = [taken EXCEPT ![r] = @ + 1]
  BY <1>2 DEF Take, Metrics
<1> HIDE DEF r
<1>4. taken' \in [Sessions -> Nat] /\ \A s \in Sessions : taken'[s] = taken[s] + (IF r = s THEN 1 ELSE 0)
  BY <1>1, <1>3
<1> QED BY <1>1, <1>2, <1>4 DEF r

\* A metric that is read goes to the batch, and with the batch to Handle.
LEMMA MetricsReadStep == IInv /\ MetricsRead => IInv'
<1> SUFFICES ASSUME IInv, MetricsRead PROVE IInv'
  OBVIOUS
<1> DEFINE m == Head(topic["metrics"])
<1>1. /\ pc["metrics"] = "reading" /\ Take("metrics") /\ batch' = Append(batch, m)
      /\ "metrics" \in Threads /\ "ebpf" \in Threads /\ "metrics" # "ebpf"
      /\ UNCHANGED <<orders, total, correct, history, clock, snap, scores, unscored, done>>
  BY DEF MetricsRead, countVars, Threads
<1>2. /\ m \in Metrics /\ topic' \in [Threads -> Seq(Metrics)] /\ taken' \in [Sessions -> Nat]
      /\ \A s \in Sessions : taken'[s] = taken[s] + (IF m.session = s THEN 1 ELSE 0)
  BY <1>1, TakeOne
<1> HIDE DEF m
<1>3. batch \in Seq(Metrics) /\ pc \in [Threads -> Labels] /\ work \in [Threads -> Seq(Metrics)]
  BY DEF IInv, ReaderTypes
<1>4. batch' \in Seq(Metrics) /\ \A s : NumOf(batch', s) = NumOf(batch, s) + (IF m.session = s THEN 1 ELSE 0)
  BY <1>1, <1>2, <1>3, CountAppend
<1>5. ~Stopped /\ work["metrics"] = <<>>
  <2>1. ~Stopped
    BY <1>1 DEF Stopped
  <2>2. Hands("metrics")
    BY <1>1 DEF IInv
  <2> QED BY <1>1, <2>1, <2>2 DEF Hands, Applying
<1>6. ASSUME NEW s \in Sessions
      PROVE  /\ taken'[s] = orders'[s] + NumOf(batch', s) + NumOf(work["ebpf"], s)
             /\ NumOf(work["metrics"], s) = 0
             /\ NumOf(batch', s) \in Nat /\ NumOf(work["ebpf"], s) \in Nat /\ orders'[s] \in Nat
  <2>1. taken[s] = orders[s] + NumOf(work["metrics"], s) + NumOf(work["ebpf"], s) + NumOf(batch, s)
    BY <1>1, <1>5 DEF IInv, EachMetricCountedOnce
  <2>2. /\ NumOf(work["metrics"], s) = 0 /\ NumOf(work["ebpf"], s) \in Nat /\ NumOf(batch, s) \in Nat
        /\ orders[s] \in Nat /\ taken[s] \in Nat
    BY <1>5, CountEmpty, CountsAreNatural DEF IInv
  <2> DEFINE d == IF m.session = s THEN 1 ELSE 0
  <2>3. taken'[s] = taken[s] + d /\ NumOf(batch', s) = NumOf(batch, s) + d /\ orders'[s] = orders[s] /\ d \in Nat
    BY <1>1, <1>2, <1>4
  <2> HIDE DEF d
  <2> QED BY <2>1, <2>2, <2>3
<1>7. CASE Len(batch') >= BatchSize
  <2>1. CallHandle("metrics", batch') /\ pc' = [pc EXCEPT !["metrics"] = "lock"]
    BY <1>7 DEF MetricsRead, Goto
  <2>2. pc'["metrics"] = "lock" /\ work'["metrics"] = batch' /\ work'["ebpf"] = work["ebpf"]
    BY <1>1, <1>3, <2>1 DEF CallHandle
  <2>3. EachMetricCountedOnce'
    <3>1. SUFFICES ASSUME NEW s \in Sessions
                   PROVE  taken'[s] = orders'[s] + NumOf(work'["metrics"], s) + NumOf(work'["ebpf"], s)
                            + (IF pc'["metrics"] \in {"loop", "reading", "failed", "exit"} THEN NumOf(batch', s) ELSE 0)
      BY DEF EachMetricCountedOnce, NumOf
    <3>2. taken'[s] = orders'[s] + NumOf(batch', s) + NumOf(work["ebpf"], s) + 0
      BY <1>6
    <3> QED BY <2>2, <3>2
  <2> QED BY <1>1, <1>2, <1>4, <2>1, <2>3, HandOver
<1>8. CASE ~(Len(batch') >= BatchSize)
  <2>1. UNCHANGED <<work, todo>> /\ pc' = [pc EXCEPT !["metrics"] = "loop"]
    BY <1>8 DEF MetricsRead, Goto
  <2>2. /\ pc' \in [Threads -> Labels] /\ pc'["metrics"] = "loop" /\ \A u \in Threads \ {"metrics"} : pc'[u] = pc[u]
    BY <1>1, <1>3, <2>1 DEF Labels
  <2>3. ReaderTypes'
    BY <1>1, <1>2, <1>4, <2>1, <2>2 DEF IInv, ReaderTypes
  <2>4. EachMetricCountedOnce'
    <3>1. SUFFICES ASSUME NEW s \in Sessions
                   PROVE  taken'[s] = orders'[s] + NumOf(work'["metrics"], s) + NumOf(work'["ebpf"], s)
                            + (IF pc'["metrics"] \in {"loop", "reading", "failed", "exit"} THEN NumOf(batch', s) ELSE 0)
      BY DEF EachMetricCountedOnce, NumOf
    <3>2. taken'[s] = orders'[s] + 0 + NumOf(work["ebpf"], s) + NumOf(batch', s) /\ NumOf(work["metrics"], s) = 0
      BY <1>6
    <3> QED BY <2>1, <2>2, <3>2
  <2>5. Accounted'
    <3>1. \A s : ~Owes("metrics", s)
      BY <1>1 DEF Owes, Applying, Computing
    <3>2. pc["metrics"] # "exit"
      BY <1>1
    <3> QED BY <1>1, <2>1, <2>2, <3>1, <3>2, AccountedStays
  <2>6. ASSUME NEW u \in Threads PROVE Hands(u)'
    <3>1. Hands(u)
      BY DEF IInv
    <3>2. CASE u = "metrics"
      BY <1>5, <2>1, <2>2, <3>2 DEF Hands, Applying, Computing
    <3>3. CASE u # "metrics"
      BY <1>5, <2>1, <2>2, <3>1, <3>3 DEF Hands
    <3> QED BY <3>2, <3>3
  <2> QED BY <2>3, <2>4, <2>5, <2>6 DEF IInv
<1> QED BY <1>7, <1>8

\* A kernel sample goes to Handle by itself.
LEMMA EBPFReadStep == IInv /\ EBPFRead => IInv'
<1> SUFFICES ASSUME IInv, EBPFRead PROVE IInv'
  OBVIOUS
<1> DEFINE m == Head(topic["ebpf"])
<1>1. /\ pc["ebpf"] = "loop" /\ Take("ebpf") /\ CallHandle("ebpf", <<m>>) /\ pc' = [pc EXCEPT !["ebpf"] = "lock"]
      /\ "metrics" \in Threads /\ "ebpf" \in Threads /\ "metrics" # "ebpf"
      /\ UNCHANGED <<batch, orders, total, correct, history, clock, snap, scores, unscored, done>>
  BY DEF EBPFRead, Goto, countVars, Threads
<1>2. /\ m \in Metrics /\ topic' \in [Threads -> Seq(Metrics)] /\ taken' \in [Sessions -> Nat]
      /\ \A s \in Sessions : taken'[s] = taken[s] + (IF m.session = s THEN 1 ELSE 0)
  BY <1>1, TakeOne
<1> HIDE DEF m
<1>3. batch \in Seq(Metrics) /\ pc \in [Threads -> Labels] /\ work \in [Threads -> Seq(Metrics)]
  BY DEF IInv, ReaderTypes
<1>4. <<m>> \in Seq(Metrics) /\ \A s : NumOf(<<m>>, s) = IF m.session = s THEN 1 ELSE 0
  BY <1>2, CountOne
<1>5. ~Stopped /\ work["ebpf"] = <<>>
  <2>1. ~Stopped
    BY <1>1 DEF Stopped
  <2>2. Hands("ebpf")
    BY <1>1 DEF IInv
  <2> QED BY <1>1, <2>1, <2>2 DEF Hands, Applying
<1>6. pc'["metrics"] = pc["metrics"] /\ work'["ebpf"] = <<m>> /\ work'["metrics"] = work["metrics"]
  BY <1>1, <1>3 DEF CallHandle
<1>7. EachMetricCountedOnce'
  <2>1. SUFFICES ASSUME NEW s \in Sessions
                 PROVE  taken'[s] = orders'[s] + NumOf(work'["metrics"], s) + NumOf(work'["ebpf"], s)
                          + (IF pc'["metrics"] \in {"loop", "reading", "failed", "exit"} THEN NumOf(batch', s) ELSE 0)
    BY DEF EachMetricCountedOnce, NumOf
  <2> DEFINE d == IF m.session = s THEN 1 ELSE 0
             B == IF pc["metrics"] \in {"loop", "reading", "failed", "exit"} THEN NumOf(batch, s) ELSE 0
             M == NumOf(work["metrics"], s)
  <2>2. taken[s] = orders[s] + M + NumOf(work["ebpf"], s) + B
    BY <1>5 DEF IInv, EachMetricCountedOnce
  <2>3. NumOf(work["ebpf"], s) = 0 /\ M \in Nat /\ B \in Nat /\ orders[s] \in Nat
    BY <1>5, CountEmpty, CountsAreNatural DEF IInv
  <2>4. taken'[s] = taken[s] + d /\ NumOf(work'["ebpf"], s) = d /\ orders'[s] = orders[s] /\ d \in Nat
    BY <1>1, <1>2, <1>4, <1>6
  <2>5. NumOf(work'["metrics"], s) = M
    BY <1>6
  <2>6. (IF pc'["metrics"] \in {"loop", "reading", "failed", "exit"} THEN NumOf(batch', s) ELSE 0) = B
    BY <1>1, <1>6
  <2> HIDE DEF d, B, M
  <2> QED BY <2>2, <2>3, <2>4, <2>5, <2>6
<1> QED BY <1>1, <1>2, <1>3, <1>4, <1>7, HandOver

\* Every step keeps the invariant.
LEMMA NextInv == IInv /\ [Next]_vars => IInv'
<1> SUFFICES ASSUME IInv, [Next]_vars PROVE IInv'
  OBVIOUS
<1>1. ASSUME NEW t \in Threads, Lock(t) \/ Unlock(t) \/ ComputeLookup(t) \/ ReadFails(t) \/ Skip(t) PROVE IInv'
  <2>0. topic \in [Threads -> Seq(Metrics)]
    BY DEF IInv, ReaderTypes
  <2>1. /\ topic' \in [Threads -> Seq(Metrics)]
        /\ UNCHANGED <<batch, work, todo, orders, total, correct, history, clock, snap, scores, taken, unscored, done>>
    <3>1. ASSUME Skip(t) PROVE topic' = [topic EXCEPT ![t] = Tail(topic[t])] /\ Tail(topic[t]) \in Seq(Metrics)
      BY <2>0, <3>1 DEF Skip
    <3> QED BY <1>1, <2>0, <3>1 DEF Lock, Unlock, ComputeLookup, ReadFails, Skip, inputVars, countVars
  <2>2. CASE Lock(t)
    BY <2>1, <2>2, MoveStep DEF Lock, Goto, Labels, Applying
  <2>3. CASE Unlock(t)
    BY <2>1, <2>3, MoveStep DEF Unlock, Goto, Labels
  <2>4. CASE ComputeLookup(t)
    BY <2>1, <2>4, MoveStep DEF ComputeLookup, Goto, Labels
  <2>5. CASE ReadFails(t)
    <3>1. pc[t] \in {"loop", "reading"} /\ pc' = [pc EXCEPT ![t] = "failed"] /\ "failed" \in Labels
      BY <2>5 DEF ReadFails, Goto, Labels
    <3> QED BY <2>1, <3>1, MoveStep
  <2>6. CASE Skip(t)
    <3>1. pc[t] \in {"loop", "reading"} /\ pc' = [pc EXCEPT ![t] = "loop"] /\ "loop" \in Labels
      BY <2>6 DEF Skip, Goto, Labels
    <3> QED BY <2>1, <3>1, MoveStep
  <2> QED BY <1>1, <2>2, <2>3, <2>4, <2>5, <2>6
<1>2. ASSUME NEW t \in Threads, Handle(t) PROVE IInv'
  BY <1>1, <1>2, ApplyTotalStep, ApplyRestStep, ComputeTotalStep, ComputeCorrectStep, AppendHistoryStep, PublishStep, ReturnStep
  DEF Handle
<1>3. CASE readMetrics
  <2>1. CASE MetricsBlock
    <3>1. /\ pc["metrics"] = "loop" /\ pc' = [pc EXCEPT !["metrics"] = "reading"] /\ "metrics" \in Threads /\ "reading" \in Labels
          /\ UNCHANGED <<batch, work, todo, orders, total, correct, history, clock, snap, scores, taken, unscored, done>>
          /\ topic' = topic
      BY <2>1 DEF MetricsBlock, Goto, inputVars, countVars, Threads, Labels
    <3>2. topic' \in [Threads -> Seq(Metrics)]
      BY <3>1 DEF IInv, ReaderTypes
    <3> QED BY <3>1, <3>2, MoveStep
  <2> QED BY <1>1, <1>3, <2>1, FlushStep, MetricsReadStep DEF readMetrics, Threads
<1>4. CASE readEBPF
  BY <1>1, <1>4, EBPFReadStep DEF readEBPF, Threads
<1>5. CASE Exit \/ Abort
  BY <1>5, EndStep
<1>6. CASE (\E t \in Threads, m \in Metrics : Produce(t, m)) \/ Tick \/ Cancel \/ UNCHANGED vars
  BY <1>6, OutsideStep
<1> QED BY <1>2, <1>3, <1>4, <1>5, <1>6 DEF Next

-----------------------------------------------------------------------------

\* The invariant holds in every reachable state.
LEMMA InductiveInv == Spec => []IInv
  BY InitInv, NextInv, PTL DEF Spec

\* A message that readMetrics or readEBPF took is counted by Handle exactly
\* once, whatever the size of the batches and whether a batch is flushed for
\* its size, by the ticker or at the end.
THEOREM MetricsAreCountedOnce == Spec => []EachMetricCountedOnce
<1>1. IInv => EachMetricCountedOnce
  BY DEF IInv
<1> QED BY <1>1, InductiveInv, PTL

\* When both readers are back in their loops or have ended, bench.scores has a score with the
\* counters of every session as they are, unless a write failed: two
\* calls of Handle, of which each computes without the mutex, lose no update.
THEOREM ScoresAreCaughtUp == Spec => []ScoresCatchUp
<1>1. IInv => ScoresCatchUp
  <2>1. SUFFICES ASSUME IInv, ~done, \A t \in Threads : Idle(t), NEW s \in Sessions \ unscored, orders[s] > 0
                 PROVE  Scored(s)
    BY DEF ScoresCatchUp, Scored
  <2>2. ~Stopped /\ \A t \in Threads : ~Owes(t, s)
    BY <2>1 DEF Idle, Stopped, Threads, Owes, Applying, Computing
  <2> QED BY <2>1, <2>2 DEF IInv, Accounted
<1> QED BY <1>1, InductiveInv, PTL

-----------------------------------------------------------------------------
(* The database writer.                                                    *)

Rows == {"kernel", "raw", "score"} \X Writers \X Nat

\* A row is no stand-in for none.
QueueTypes ==
  /\ main \in {"connect", "pause", "run", "exit"}
  /\ ch \in Seq(Rows) /\ accepted \in Seq(Rows) /\ db \in Seq(Rows) /\ inHand \in Rows \cup {NoRow}
  /\ calls \in [Writers -> Nat]
  /\ pending \in [Writers -> Seq(Rows)]
  /\ NoRow \notin Rows

\* How many rows the worker holds, and how many it is done with.
Held == IF inHand = NoRow THEN 0 ELSE 1
Gone == Len(accepted) - Len(ch) - Held

\* What is on its way is the end of what entered the channel.
OnTheWay ==
  /\ Gone \in Nat
  /\ inHand # NoRow => inHand = accepted[Gone + 1]
  /\ \A i \in DOMAIN ch : ch[i] = accepted[Gone + Held + i]

\* A reader writes each row of its newest call once, and numbers its calls.
Fresh ==
  /\ \A p \in DOMAIN accepted : accepted[p][3] <= calls[accepted[p][2]]
  /\ \A w \in Writers : \A i \in DOMAIN pending[w] :
       /\ pending[w][i][2] = w /\ pending[w][i][3] = calls[w]
       /\ \A j \in DOMAIN pending[w] : pending[w][i] = pending[w][j] => i = j
       /\ \A p \in DOMAIN accepted : accepted[p] # pending[w][i]

QueueInv == QueueTypes /\ OnTheWay /\ Fresh /\ TablesFollowQueue

\* connectStore pauses before its deadline only, and its pause doubles up to the limit.
ConnectInv ==
  /\ elapsed \in Nat
  /\ \E n \in {1, 2, 4, 8} : backoff = n * FirstBackoff
  /\ backoff <= MaxBackoff
  /\ main = "pause" => elapsed <= Deadline
  /\ ConnectIsBounded

-----------------------------------------------------------------------------

\* A row has three parts.
LEMMA NoRowIsNone == NoRow \notin Rows
<1>1. \A r \in Rows : r = <<r[1], r[2], r[3]>>
  BY DEF Rows
<1> QED BY <1>1 DEF NoRow

\* Whatever happens, connectStore pauses between its deadline and one attempt more.
LEMMA ConnectNext ==
  ASSUME ConnectInv, [StoreNext]_storeVars
  PROVE  ConnectInv'
<1>1. /\ FirstBackoff \in Nat /\ FirstBackoff > 0 /\ MaxBackoff \in Nat /\ Deadline \in Nat /\ Attempts \subseteq Nat
      /\ \/ MaxBackoff = FirstBackoff \/ MaxBackoff = 2 * FirstBackoff
         \/ MaxBackoff = 4 * FirstBackoff \/ MaxBackoff = 8 * FirstBackoff
  BY StoreAssumption, DoublingAssumption
<1>2. /\ elapsed \in Nat /\ backoff \in Nat /\ backoff <= MaxBackoff
      /\ main = "pause" => elapsed <= Deadline
      /\ main = "connect" => elapsed <= Deadline + MaxBackoff
      /\ \/ backoff = FirstBackoff \/ backoff = 2 * FirstBackoff
         \/ backoff = 4 * FirstBackoff \/ backoff = 8 * FirstBackoff
  BY <1>1 DEF ConnectInv, ConnectIsBounded
<1>3. CASE Connect \/ PauseCancelled
  <2>1. main' = "run" /\ elapsed' = 0 /\ backoff' = FirstBackoff
    BY <1>3 DEF Connect, PauseCancelled, Connected
  <2> QED BY <1>1, <2>1 DEF ConnectInv, ConnectIsBounded
<1>4. ASSUME NEW d \in Attempts, ConnectFails(d) PROVE ConnectInv'
  <2>1. CASE elapsed + d > Deadline /\ Connected
    BY <1>1, <2>1 DEF ConnectInv, ConnectIsBounded, Connected
  <2>2. CASE elapsed + d <= Deadline /\ main' = "pause" /\ elapsed' = elapsed + d /\ UNCHANGED backoff
    BY <1>1, <1>2, <2>2 DEF ConnectInv, ConnectIsBounded
  <2> QED BY <1>4, <2>1, <2>2 DEF ConnectFails
<1>5. CASE Pause
  <2>1. main = "pause" /\ main' = "connect" /\ elapsed' = elapsed + backoff /\ backoff' = IF backoff < MaxBackoff THEN 2 * backoff ELSE backoff
    BY <1>5 DEF Pause
  <2>2. elapsed' \in Nat /\ elapsed' <= Deadline + MaxBackoff
    BY <1>1, <1>2, <2>1
  <2>3. /\ backoff' <= MaxBackoff
        /\ \/ backoff' = FirstBackoff \/ backoff' = 2 * FirstBackoff
           \/ backoff' = 4 * FirstBackoff \/ backoff' = 8 * FirstBackoff
    BY <1>1, <1>2, <2>1
  <2> QED BY <1>1, <2>1, <2>2, <2>3 DEF ConnectInv, ConnectIsBounded
<1>6. CASE UNCHANGED <<elapsed, backoff>> /\ main' \in {main, "exit"}
  BY <1>2, <1>6 DEF ConnectInv, ConnectIsBounded
<1>7. CASE Signal \/ ExitProcess \/ (\E w \in Writers : HandleRows(w) \/ Write(w)) \/ Receive \/ Insert \/ UNCHANGED storeVars
  <2>1. UNCHANGED <<elapsed, backoff>> /\ main' \in {main, "exit"}
    BY <1>7 DEF Signal, ExitProcess, HandleRows, Write, Receive, Insert, storeVars, mainVars
  <2> QED BY <1>6, <2>1
<1> QED BY <1>3, <1>4, <1>5, <1>7 DEF StoreNext

\* A database that never answers delays scoring by its deadline and one pause
\* at the most, whatever each attempt takes (main.go:45-71).
THEOREM ConnectStaysBounded == StoreSpec => []ConnectIsBounded
<1>1. StoreInit => ConnectInv
  BY StoreAssumption, DoublingAssumption DEF StoreInit, ConnectInv, ConnectIsBounded
<1>2. ConnectInv /\ [StoreNext]_storeVars => ConnectInv'
  BY ConnectNext
<1>3. ConnectInv => ConnectIsBounded
  BY DEF ConnectInv, ConnectIsBounded
<1> QED BY <1>1, <1>2, <1>3, PTL DEF StoreSpec

-----------------------------------------------------------------------------

\* At first there are no rows.
LEMMA QueueInit == StoreInit => QueueInv
<1> SUFFICES ASSUME StoreInit PROVE QueueInv
  OBVIOUS
<1>1. /\ main = "connect" /\ ch = <<>> /\ inHand = NoRow /\ db = <<>> /\ accepted = <<>> /\ failed = {}
      /\ pending = [w \in Writers |-> <<>>] /\ calls = [w \in Writers |-> 0]
  BY DEF StoreInit
<1>2. <<>> \in Seq(Rows)
  OBVIOUS
<1>3. QueueTypes
  BY <1>1, <1>2, NoRowIsNone DEF QueueTypes
<1>4. Gone = 0 /\ Settled = {}
  BY <1>1 DEF Gone, Held, Settled
<1>5. OnTheWay
  BY <1>1, <1>4 DEF OnTheWay
<1>6. Fresh
  BY <1>1 DEF Fresh
<1>7. TablesFollowQueue
  BY <1>1, <1>4 DEF TablesFollowQueue
<1> QED BY <1>3, <1>5, <1>6, <1>7 DEF QueueInv

\* The tables still follow when neither they nor the settled rows change, and
\* no row comes in that was there before.
LEMMA TablesStay ==
  ASSUME QueueInv, UNCHANGED <<db, failed>>, Gone' = Gone,
         \A p \in 1 .. Gone : accepted'[p] = accepted[p],
         \A p, q \in DOMAIN accepted' : accepted'[p] = accepted'[q] => p = q
  PROVE  TablesFollowQueue'
<1>1. Settled = 1 .. Gone /\ Settled' = 1 .. Gone
  BY DEF Settled, Gone, Held
<1> QED BY <1>1 DEF QueueInv, TablesFollowQueue

\* Steps of main: nothing moves.
LEMMA QueueStays ==
  ASSUME QueueInv, UNCHANGED <<ch, inHand, pending, calls, db, accepted, failed>>,
         main' \in {main, "connect", "pause", "run", "exit"}
  PROVE  QueueInv'
<1>1. QueueTypes'
  BY DEF QueueInv, QueueTypes
<1>2. OnTheWay' /\ Fresh'
  BY DEF QueueInv, OnTheWay, Fresh, Gone, Held
<1>3. TablesFollowQueue'
  <2>1. Settled' = Settled
    BY DEF Settled
  <2> QED BY <2>1 DEF QueueInv, TablesFollowQueue
<1> QED BY <1>1, <1>2, <1>3 DEF QueueInv

\* A call has a number no row has, and its rows are of different tables.
LEMMA HandleRowsStep ==
  ASSUME QueueInv, NEW w \in Writers, HandleRows(w)
  PROVE  QueueInv'
<1> DEFINE n == calls[w] + 1
           rows == IF w = "ebpf" THEN <<<<"kernel", w, n>>, <<"raw", w, n>>, <<"score", w, n>>>>
                                 ELSE <<<<"raw", w, n>>, <<"score", w, n>>>>
<1>1. QueueTypes /\ OnTheWay /\ Fresh
  BY DEF QueueInv
<1>2. UNCHANGED <<main, ch, inHand, db, accepted, failed>> /\ calls' = [calls EXCEPT ![w] = @ + 1]
  BY DEF HandleRows, mainVars, workerVars
<1>3. calls' \in [Writers -> Nat] /\ calls'[w] = n /\ n \in Nat /\ \A v \in Writers \ {w} : calls'[v] = calls[v]
  BY <1>1, <1>2 DEF QueueTypes
<1>4. pending' = [pending EXCEPT ![w] = rows]
  BY <1>3 DEF HandleRows, Row
<1>5. rows \in Seq(Rows)
  <2>1. \A kind \in {"kernel", "raw", "score"} : <<kind, w, n>> \in Rows
    BY <1>3 DEF Rows
  <2>2. /\ <<<<"kernel", w, n>>, <<"raw", w, n>>, <<"score", w, n>>>> \in Seq(Rows)
        /\ <<<<"raw", w, n>>, <<"score", w, n>>>> \in Seq(Rows)
    BY <2>1
  <2> QED BY <2>2
<1>6. \A i \in DOMAIN rows : /\ rows[i][2] = w /\ rows[i][3] = n
                             /\ \A j \in DOMAIN rows : rows[i] = rows[j] => i = j
  BY <1>3
<1> HIDE DEF rows
<1>7. /\ pending' \in [Writers -> Seq(Rows)] /\ pending'[w] = rows
      /\ \A v \in Writers \ {w} : pending'[v] = pending[v]
  BY <1>1, <1>4, <1>5 DEF QueueTypes
<1>8. QueueTypes'
  BY <1>1, <1>2, <1>3, <1>7 DEF QueueTypes
<1>9. OnTheWay'
  BY <1>1, <1>2 DEF OnTheWay, Gone, Held
<1>10. Fresh'
  <2>1. \A p \in DOMAIN accepted : accepted[p] \in Rows
    BY <1>1 DEF QueueTypes
  <2>2. \A p \in DOMAIN accepted : accepted[p][2] \in Writers /\ accepted[p][3] \in Nat
    BY <2>1 DEF Rows
  <2>3. \A p \in DOMAIN accepted : accepted[p][3] <= calls[accepted[p][2]]
    BY <1>1 DEF Fresh
  <2>4. \A p \in DOMAIN accepted : accepted[p][2] = w => accepted[p][3] < n
    BY <1>1, <2>2, <2>3 DEF QueueTypes
  <2>5. \A p \in DOMAIN accepted' : accepted'[p][3] <= calls'[accepted'[p][2]]
    <3> SUFFICES ASSUME NEW p \in DOMAIN accepted PROVE accepted[p][3] <= calls'[accepted[p][2]]
      BY <1>2
    <3>1. CASE accepted[p][2] = w
      BY <1>3, <2>2, <2>4, <3>1
    <3>2. CASE accepted[p][2] # w
      BY <1>3, <2>2, <2>3, <3>2
    <3> QED BY <3>1, <3>2
  <2>6. ASSUME NEW v \in Writers, NEW i \in DOMAIN pending'[v]
        PROVE  /\ pending'[v][i][2] = v /\ pending'[v][i][3] = calls'[v]
               /\ \A j \in DOMAIN pending'[v] : pending'[v][i] = pending'[v][j] => i = j
               /\ \A p \in DOMAIN accepted' : accepted'[p] # pending'[v][i]
    <3>1. CASE v = w
      <4>1. pending'[v][i][2] = v /\ pending'[v][i][3] = calls'[v] /\ \A j \in DOMAIN pending'[v] : pending'[v][i] = pending'[v][j] => i = j
        BY <1>3, <1>6, <1>7, <2>6, <3>1
      <4>2. ASSUME NEW p \in DOMAIN accepted, accepted[p] = pending'[v][i] PROVE FALSE
        BY <1>3, <2>2, <2>4, <3>1, <4>1, <4>2
      <4> QED BY <1>2, <4>1, <4>2
    <3>2. CASE v # w
      BY <1>1, <1>2, <1>3, <1>7, <2>6, <3>2 DEF Fresh
    <3> QED BY <3>1, <3>2
  <2> QED BY <2>5, <2>6 DEF Fresh
<1>11. TablesFollowQueue'
  BY <1>2 DEF QueueInv, TablesFollowQueue, Settled
<1> QED BY <1>8, <1>9, <1>10, <1>11 DEF QueueInv

\* A row enters the channel at most once, or is dropped.
LEMMA WriteStep ==
  ASSUME QueueInv, NEW w \in Writers, Write(w)
  PROVE  QueueInv'
<1> DEFINE r == Head(pending[w])
<1>1. QueueTypes /\ OnTheWay /\ Fresh
  BY DEF QueueInv
<1>2. /\ UNCHANGED <<main, inHand, db, failed, calls>> /\ pending[w] # <<>> /\ pending' = [pending EXCEPT ![w] = Tail(@)]
      /\ \/ ch' = Append(ch, r) /\ accepted' = Append(accepted, r)
         \/ UNCHANGED <<ch, accepted>>
  BY DEF Write, mainVars, workerVars
<1>3. pending[w] \in Seq(Rows) /\ Len(pending[w]) \in Nat \ {0} /\ r = pending[w][1] /\ r \in Rows
  BY <1>1, <1>2 DEF QueueTypes
<1> HIDE DEF r
<1>4. Tail(pending[w]) \in Seq(Rows)
  BY <1>2, <1>3
<1>5. /\ Len(Tail(pending[w])) = Len(pending[w]) - 1
      /\ \A i \in DOMAIN Tail(pending[w]) : i + 1 \in DOMAIN pending[w] /\ Tail(pending[w])[i] = pending[w][i + 1] /\ i \in Nat /\ i > 0
  BY <1>2, <1>3
<1>6. /\ pending' \in [Writers -> Seq(Rows)] /\ pending'[w] = Tail(pending[w])
      /\ \A v \in Writers \ {w} : pending'[v] = pending[v]
  BY <1>1, <1>2, <1>4 DEF QueueTypes
<1>7. ASSUME NEW v \in Writers, NEW i \in DOMAIN pending'[v]
      PROVE  /\ pending'[v][i][2] = v /\ pending'[v][i][3] = calls[v]
             /\ \A j \in DOMAIN pending'[v] : pending'[v][i] = pending'[v][j] => i = j
             /\ \A p \in DOMAIN accepted : accepted[p] # pending'[v][i]
             /\ pending'[v][i] # r
  <2>1. r[2] = w /\ 1 \in DOMAIN pending[w]
    BY <1>1, <1>3 DEF Fresh
  <2>2. CASE v = w
    <3>1. i + 1 \in DOMAIN pending[v] /\ pending'[v][i] = pending[v][i + 1] /\ i \in Nat /\ i > 0
      BY <1>5, <1>6, <1>7, <2>2
    <3>2. /\ pending[v][i + 1][2] = v /\ pending[v][i + 1][3] = calls[v]
          /\ \A j \in DOMAIN pending[v] : pending[v][i + 1] = pending[v][j] => i + 1 = j
          /\ \A p \in DOMAIN accepted : accepted[p] # pending[v][i + 1]
      BY <1>1, <3>1 DEF Fresh
    <3>3. ASSUME NEW j \in DOMAIN pending'[v], pending'[v][i] = pending'[v][j] PROVE i = j
      <4>1. j + 1 \in DOMAIN pending[v] /\ pending'[v][j] = pending[v][j + 1] /\ j \in Nat
        BY <1>5, <1>6, <3>3, <2>2
      <4> QED BY <3>1, <3>2, <3>3, <4>1
    <3>4. pending'[v][i] # r
      BY <1>3, <2>1, <2>2, <3>1, <3>2
    <3> QED BY <3>1, <3>2, <3>3, <3>4
  <2>3. CASE v # w
    <3>1. pending'[v] = pending[v]
      BY <1>6, <2>3
    <3>2. /\ pending[v][i][2] = v /\ pending[v][i][3] = calls[v]
          /\ \A j \in DOMAIN pending[v] : pending[v][i] = pending[v][j] => i = j
          /\ \A p \in DOMAIN accepted : accepted[p] # pending[v][i]
      BY <1>1, <1>7, <3>1 DEF Fresh
    <3> QED BY <2>1, <2>3, <3>1, <3>2
  <2> QED BY <2>2, <2>3
<1>8. CASE UNCHANGED <<ch, accepted>>
  <2>1. QueueTypes' /\ OnTheWay'
    BY <1>1, <1>2, <1>6, <1>8 DEF QueueTypes, OnTheWay, Gone, Held
  <2>2. Fresh'
    BY <1>1, <1>2, <1>7, <1>8 DEF Fresh
  <2>3. TablesFollowQueue'
    BY <1>2, <1>8 DEF QueueInv, TablesFollowQueue, Settled
  <2> QED BY <2>1, <2>2, <2>3 DEF QueueInv
<1>9. CASE ch' = Append(ch, r) /\ accepted' = Append(accepted, r)
  <2>1. ch \in Seq(Rows) /\ accepted \in Seq(Rows) /\ Held \in {0, 1} /\ Held' = Held
    BY <1>1, <1>2 DEF QueueTypes, Held
  <2>2. /\ ch' \in Seq(Rows) /\ accepted' \in Seq(Rows)
        /\ Len(ch') = Len(ch) + 1 /\ Len(accepted') = Len(accepted) + 1
        /\ \A p \in DOMAIN accepted : accepted'[p] = accepted[p]
        /\ \A p \in DOMAIN ch : ch'[p] = ch[p]
        /\ accepted'[Len(accepted) + 1] = r /\ ch'[Len(ch) + 1] = r
    BY <1>3, <1>9, <2>1
  <2>3. DOMAIN accepted = 1 .. Len(accepted) /\ DOMAIN accepted' = 1 .. Len(accepted) + 1 /\ DOMAIN ch = 1 .. Len(ch) /\ DOMAIN ch' = 1 .. Len(ch) + 1
        /\ Len(accepted) \in Nat /\ Len(ch) \in Nat
    BY <2>1, <2>2
  <2>4. QueueTypes'
    BY <1>1, <1>2, <1>6, <2>2 DEF QueueTypes
  <2>5. Gone' = Gone /\ Gone \in Nat /\ Gone + Held + Len(ch) = Len(accepted)
    BY <1>1, <2>1, <2>2, <2>3 DEF Gone, OnTheWay
  <2>6. OnTheWay'
    <3>1. ASSUME inHand # NoRow PROVE inHand = accepted'[Gone + 1]
      <4>1. Held = 1
        BY <3>1 DEF Held
      <4>2. Gone + 1 \in DOMAIN accepted
        BY <2>3, <2>5, <4>1
      <4> QED BY <1>1, <2>2, <3>1, <4>2 DEF OnTheWay
    <3>2. ASSUME NEW i \in DOMAIN ch' PROVE ch'[i] = accepted'[Gone + Held + i]
      <4>1. CASE i \in DOMAIN ch
        <5>1. ch'[i] = ch[i] /\ Gone + Held + i \in DOMAIN accepted
          BY <2>1, <2>2, <2>3, <2>5, <4>1
        <5> QED BY <1>1, <2>2, <4>1, <5>1 DEF OnTheWay
      <4>2. CASE i = Len(ch) + 1
        <5>1. Gone + Held + i = Len(accepted) + 1
          BY <2>1, <2>3, <2>5, <4>2
        <5> QED BY <2>2, <4>2, <5>1
      <4> QED BY <2>3, <3>2, <4>1, <4>2
    <3> QED BY <1>2, <2>1, <2>5, <3>1, <3>2 DEF OnTheWay
  <2>7. \A p \in DOMAIN accepted : accepted[p] # r
    BY <1>1, <1>3 DEF Fresh
  <2>8. Fresh'
    <3>1. r[3] = calls[r[2]]
      BY <1>1, <1>3 DEF Fresh
    <3>2. calls[r[2]] \in Nat
      BY <1>1, <1>3 DEF QueueTypes, Rows
    <3>3. \A p \in DOMAIN accepted' : accepted'[p][3] <= calls[accepted'[p][2]]
      BY <1>1, <2>2, <2>3, <3>1, <3>2, SMTT(60) DEF Fresh
    <3>4. ASSUME NEW v \in Writers, NEW i \in DOMAIN pending'[v], NEW p \in DOMAIN accepted'
          PROVE  accepted'[p] # pending'[v][i]
      BY <1>7, <2>2, <2>3
    <3> QED BY <1>2, <1>7, <3>3, <3>4 DEF Fresh
  <2>9. TablesFollowQueue'
    <3>1. \A p, q \in DOMAIN accepted : accepted[p] = accepted[q] => p = q
      BY DEF QueueInv, TablesFollowQueue
    <3>2. \A p, q \in DOMAIN accepted' : accepted'[p] = accepted'[q] => p = q
      BY <2>2, <2>3, <2>7, <3>1
    <3>3. \A p \in 1 .. Gone : accepted'[p] = accepted[p]
      <4>1. SUFFICES ASSUME NEW p \in 1 .. Gone PROVE p \in DOMAIN accepted
        BY <2>2
      <4>2. Gone \in Nat /\ Held \in Nat /\ Gone + Held + Len(ch) = Len(accepted) /\ Len(ch) \in Nat
        <5>1. Gone \in Nat /\ Gone + Held + Len(ch) = Len(accepted)
          BY <2>5
        <5>2. Len(ch) \in Nat
          BY <2>3
        <5>3. Held \in Nat
          BY <2>1
        <5> QED BY <5>1, <5>2, <5>3
      <4>3. p <= Len(accepted)
        BY <4>1, <4>2, SMTT(60)
      <4> QED BY <2>3, <4>1, <4>3, SMTT(60)
    <3> QED BY <1>2, <2>5, <3>2, <3>3, TablesStay
  <2> QED BY <2>4, <2>6, <2>8, <2>9 DEF QueueInv
<1> QED BY <1>2, <1>8, <1>9

\* The worker takes the row that waits longest.
LEMMA ReceiveStep == QueueInv /\ Receive => QueueInv'
<1> SUFFICES ASSUME QueueInv, Receive PROVE QueueInv'
  OBVIOUS
<1>1. QueueTypes /\ OnTheWay /\ Fresh
  BY DEF QueueInv
<1>2. /\ UNCHANGED <<main, db, failed, pending, calls, accepted>> /\ inHand = NoRow /\ ch # <<>>
      /\ inHand' = Head(ch) /\ ch' = Tail(ch)
  BY DEF Receive, mainVars
<1>3. /\ ch \in Seq(Rows) /\ accepted \in Seq(Rows) /\ Len(ch) \in Nat \ {0} /\ Len(accepted) \in Nat
      /\ DOMAIN ch = 1 .. Len(ch)
  BY <1>1, <1>2 DEF QueueTypes
<1>4. /\ ch' \in Seq(Rows) /\ Len(ch') = Len(ch) - 1 /\ DOMAIN ch' = 1 .. Len(ch) - 1
      /\ \A i \in DOMAIN ch' : ch'[i] = ch[i + 1] /\ i + 1 \in DOMAIN ch
      /\ inHand' = ch[1] /\ inHand' \in Rows /\ 1 \in DOMAIN ch
  BY <1>2, <1>3
<1>5. QueueTypes'
  BY <1>1, <1>2, <1>4 DEF QueueTypes
<1>6. Held = 0 /\ Held' = 1
  BY <1>1, <1>2, <1>4 DEF QueueTypes, Held
<1>7. Gone' = Gone /\ Gone \in Nat
  BY <1>1, <1>2, <1>3, <1>4, <1>6 DEF Gone, OnTheWay
<1>8. \A i \in DOMAIN ch : ch[i] = accepted[Gone + i]
  BY <1>1, <1>3, <1>6, <1>7 DEF OnTheWay
<1>9. inHand' = accepted[Gone + 1]
  BY <1>4, <1>8
<1>10. ASSUME NEW i \in DOMAIN ch' PROVE ch'[i] = accepted[Gone + 1 + i]
  <2>1. Gone + (i + 1) = Gone + 1 + i
    BY <1>4, <1>7
  <2> QED BY <1>4, <1>8, <2>1
<1>11. OnTheWay'
  BY <1>2, <1>6, <1>7, <1>9, <1>10 DEF OnTheWay
<1>12. Fresh'
  BY <1>1, <1>2 DEF Fresh
<1>13. TablesFollowQueue'
  BY <1>2, <1>7, TablesStay DEF QueueInv, TablesFollowQueue
<1> QED BY <1>5, <1>11, <1>12, <1>13 DEF QueueInv

\* A row is inserted behind the ones before it, or reported.
LEMMA InsertStep == QueueInv /\ Insert => QueueInv'
<1> SUFFICES ASSUME QueueInv, Insert PROVE QueueInv'
  OBVIOUS
<1>1. QueueTypes /\ OnTheWay /\ Fresh /\ TablesFollowQueue
  BY DEF QueueInv
<1>2. /\ UNCHANGED <<main, ch, pending, calls, accepted>> /\ inHand # NoRow /\ inHand' = NoRow
      /\ failed \subseteq failed'
      /\ \/ db' = Append(db, inHand)
         \/ UNCHANGED db /\ inHand \in failed'
  BY DEF Insert, mainVars
<1>3. inHand \in Rows /\ db \in Seq(Rows) /\ ch \in Seq(Rows) /\ accepted \in Seq(Rows)
  BY <1>1, <1>2 DEF QueueTypes
<1>4. Held = 1 /\ Held' = 0 /\ Len(ch) \in Nat /\ Len(accepted) \in Nat
  BY <1>2, <1>3 DEF Held
<1>5. Gone' = Gone + 1 /\ Gone \in Nat /\ Gone + 1 <= Len(accepted)
  BY <1>1, <1>2, <1>4 DEF Gone, OnTheWay
<1>6. inHand = accepted[Gone + 1]
  BY <1>1, <1>2 DEF OnTheWay
<1>7. QueueTypes'
  <2>1. db' \in Seq(Rows)
    BY <1>2, <1>3
  <2> QED BY <1>1, <1>2, <2>1 DEF QueueTypes
<1>8. OnTheWay'
  <2>1. ASSUME NEW i \in DOMAIN ch PROVE ch[i] = accepted[Gone + 1 + 0 + i]
    BY <1>1, <1>3, <1>4, <1>5 DEF OnTheWay
  <2> QED BY <1>2, <1>4, <1>5, <2>1 DEF OnTheWay
<1>9. Fresh'
  BY <1>1, <1>2 DEF Fresh
<1>10. TablesFollowQueue'
  <2>1. Settled = 1 .. Gone /\ Settled' = 1 .. Gone + 1
    BY <1>5 DEF Settled, Gone, Held
  <2>2. /\ \A i \in DOMAIN db : \E p \in 1 .. Gone : db[i] = accepted[p]
        /\ \A i, j \in DOMAIN db : i < j => \E p, q \in 1 .. Gone : p < q /\ db[i] = accepted[p] /\ db[j] = accepted[q]
        /\ \A p \in 1 .. Gone : accepted[p] \in failed \/ \E i \in DOMAIN db : db[i] = accepted[p]
    BY <1>1, <2>1 DEF TablesFollowQueue
  <2>3. \A p \in 1 .. Gone : p \in 1 .. Gone + 1 /\ p < Gone + 1
    BY <1>5
  <2>4. Gone + 1 \in 1 .. Gone + 1 /\ \A p \in 1 .. Gone + 1 : p \in 1 .. Gone \/ p = Gone + 1
    BY <1>5
  <2>5. CASE UNCHANGED db /\ inHand \in failed'
    BY <1>1, <1>2, <1>6, <2>1, <2>2, <2>3, <2>4, <2>5 DEF TablesFollowQueue
  <2>6. CASE db' = Append(db, inHand)
    <3>1. /\ DOMAIN db = 1 .. Len(db) /\ DOMAIN db' = 1 .. Len(db) + 1 /\ Len(db) \in Nat
          /\ \A i \in DOMAIN db : db'[i] = db[i]
          /\ db'[Len(db) + 1] = accepted[Gone + 1]
      BY <1>3, <1>6, <2>6
    <3>2. \A i \in DOMAIN db' : i \in DOMAIN db \/ i = Len(db) + 1
      BY <3>1
    <3>3. ASSUME NEW i \in DOMAIN db' PROVE \E p \in 1 .. Gone + 1 : db'[i] = accepted[p]
      BY <2>2, <2>3, <2>4, <3>1, <3>2
    <3>4. ASSUME NEW i \in DOMAIN db', NEW j \in DOMAIN db', i < j
          PROVE  \E p, q \in 1 .. Gone + 1 : p < q /\ db'[i] = accepted[p] /\ db'[j] = accepted[q]
      <4>1. i \in DOMAIN db
        BY <3>1, <3>4
      <4>2. CASE j \in DOMAIN db
        BY <2>2, <2>3, <3>1, <3>4, <4>1, <4>2
      <4>3. CASE j = Len(db) + 1
        BY <2>2, <2>3, <2>4, <3>1, <4>1, <4>3
      <4> QED BY <3>2, <4>2, <4>3
    <3>5. ASSUME NEW p \in 1 .. Gone + 1 PROVE accepted[p] \in failed' \/ \E i \in DOMAIN db' : db'[i] = accepted[p]
      <4>1. CASE p \in 1 .. Gone
        <5>1. \A i \in DOMAIN db : i \in DOMAIN db'
          BY <3>1
        <5> QED BY <1>2, <2>2, <3>1, <4>1, <5>1
      <4>2. CASE p = Gone + 1
        <5>1. Len(db) + 1 \in DOMAIN db'
          BY <3>1
        <5> QED BY <3>1, <4>2, <5>1
      <4> QED BY <2>4, <4>1, <4>2
    <3> QED BY <1>1, <1>2, <2>1, <3>3, <3>4, <3>5 DEF TablesFollowQueue
  <2> QED BY <1>2, <2>5, <2>6
<1> QED BY <1>7, <1>8, <1>9, <1>10 DEF QueueInv

\* Every step of the readers, the worker and main keeps the queue's invariant.
LEMMA QueueNext == QueueInv /\ [StoreNext]_storeVars => QueueInv'
<1> SUFFICES ASSUME QueueInv, [StoreNext]_storeVars PROVE QueueInv'
  OBVIOUS
<1>1. CASE Connect \/ (\E d \in Attempts : ConnectFails(d)) \/ Pause \/ PauseCancelled \/ Signal \/ ExitProcess \/ UNCHANGED storeVars
  <2>1. /\ UNCHANGED <<ch, inHand, pending, calls, db, accepted, failed>>
        /\ main' \in {main, "connect", "pause", "run", "exit"}
    BY <1>1 DEF Connect, ConnectFails, Pause, PauseCancelled, Connected, Signal, ExitProcess, storeVars,
       mainVars, workerVars
  <2> QED BY <2>1, QueueStays
<1>2. CASE \E w \in Writers : HandleRows(w) \/ Write(w)
  BY <1>2, HandleRowsStep, WriteStep
<1>3. CASE Receive \/ Insert
  BY <1>3, ReceiveStep, InsertStep
<1> QED BY <1>1, <1>2, <1>3 DEF StoreNext

\* For any capacity of the channel and any number of calls, the tables have the
\* accepted rows in their order, none twice, and miss only reported ones
\* (store.go: the Write methods, worker and the three inserts).
THEOREM TablesStayInOrder == StoreSpec => []TablesFollowQueue
<1>1. QueueInv => TablesFollowQueue
  BY DEF QueueInv, TablesFollowQueue
<1> QED BY <1>1, QueueInit, QueueNext, PTL DEF StoreSpec
=============================================================================
