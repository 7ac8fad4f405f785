----------------------------- MODULE ChaosScore -----------------------------
(***************************************************************************)
(* The resilience part of the telemetry service for one session:           *)
(* readEvents (telemetry/internal/consumer/consumer.go) hands the chaos    *)
(* events of bench.events to Engine.HandleChaosEvent, while the two metric *)
(* readers record latencies and run Engine.Compute                         *)
(* (telemetry/internal/scorer/composite.go, hdr.go).  HandleChaosEvent     *)
(* holds Engine.mu for its two assignments; Compute reads the four chaos   *)
(* fields without it, one load at a time.                                  *)
(*                                                                         *)
(* bench.events has several partitions and the sandbox manager spreads its *)
(* messages over them, so that they arrive in any order; the topic is the  *)
(* set of messages the service has still to read, and a message read late  *)
(* stands for one published late.  A restart of the service resumes at the *)
(* committed positions with an empty memory.  Batching and the order       *)
(* counters are those of Telemetry.                                        *)
(*                                                                         *)
(* A latency is a power of two of microseconds, so that the logarithm and  *)
(* the ratios of the scores are whole numbers; 0 is an empty histogram.    *)
(***************************************************************************)
EXTENDS Integers, Sequences, FiniteSets, FiniteSetsExt

CONSTANTS
  Latencies,     \* round trips the samples may have, in microseconds
  StepMS,        \* milliseconds between two chaos events
  MaxRuns,       \* bound: chaos runs of the session
  MaxEvents,     \* bound: events of those runs that are published
  MaxSamples,    \* bound: latency samples
  MaxRestarts    \* bound: restarts of the service

Readers == {"metrics", "ebpf"}
MaxLatency == 10000000  \* the histograms' range: 10 s
Free == "free"
Fresh == [app |-> <<>>, kernel |-> <<>>, chaosStart |-> 0, chaosEnd |-> 0, baseline |-> 0, stress |-> 0]
NoMsg == [type |-> "none"]
NoSnap == [complete |-> FALSE, p99 |-> 0, chaosEnd |-> 0, baseline |-> 0, stress |-> 0,
           recovery |-> 0, tail |-> 0, resilience |-> 0]

ASSUME LatenciesAssumption ==
  Latencies \subseteq Nat /\ \A v \in Latencies : \E k \in 0..30 : v = 2 ^ k
ASSUME BoundsAssumption ==
  /\ StepMS \in Nat \ {0} /\ MaxRuns \in Nat /\ MaxEvents \in Nat
  /\ MaxSamples \in Nat /\ MaxRestarts \in Nat

VARIABLES
  topic,        \* bench.events: the messages published during a behaviour
  unread,       \* those the service has still to read
  uncommitted,  \* those the broker would deliver again after a restart
  restarts,
  mu,         \* holder of Engine.mu
  evpc, msg,  \* readEvents: where it is, and the message in its hands
  session,    \* sessionState: the histograms and the chaos fields
  pc, snap,   \* the Compute that is followed: where it is, what it has read
  samples,    \* samples handled
  written,    \* observed: events whose first assignment this process has made
  ever, lost  \* observed: events handled by any process; committed, and in hand at a crash

eventVars == <<topic, unread, uncommitted, evpc, msg, written, ever, lost>>
computeVars == <<pc, snap, samples>>
vars == <<eventVars, computeVars, restarts, mu, session>>

-----------------------------------------------------------------------------
(* The histogram library and hdr.go                                        *)

\* ValueAtQuantile: the smallest recorded value that reaches the rank.
ValueAtQuantile(h, permille) ==
  LET target == (permille * Len(h) + 500) \div 1000
      rank == IF target < 1 THEN 1 ELSE target
      UpTo(v) == Cardinality({i \in DOMAIN h : h[i] <= v})
  IN  IF h = <<>> THEN 0 ELSE Min({h[i] : i \in {j \in DOMAIN h : UpTo(h[j]) >= rank}})

\* RecordApp, RecordKernel: a value out of range is an error nobody looks at.
Record(h, v) == IF v > 0 /\ v <= MaxLatency THEN Append(h, v) ELSE h

\* The p99 of KernelPercentiles: the app layer stands in for an empty kernel one.
KernelPercentiles(s) ==
  ValueAtQuantile(IF s.kernel = <<>> THEN s.app ELSE s.kernel, 990)

-----------------------------------------------------------------------------
(* Normalisation                                                           *)

AtMost(m, v) == IF v > m THEN m ELSE v
AtLeast(m, v) == IF v < m THEN m ELSE v

\* Mutant: a value below the range is not raised to it.
normalizeLinear_NoFloor(v, lo, hi) ==
  IF hi = lo THEN 0 ELSE AtMost(100, ((v - lo) * 100) \div (hi - lo))

normalizeLinear(v, lo, hi) ==
  IF hi = lo THEN 0 ELSE AtMost(100, AtLeast(0, ((v - lo) * 100) \div (hi - lo)))

\* Five decades from 1 microsecond to 100 ms; log10(2) / 5 is 6.02 points.
normalizeTailLatency(p99) ==
  LET log2 == CHOOSE k \in 0..30 : p99 = 2 ^ k
  IN  IF p99 <= 0 THEN 0 ELSE AtMost(100, AtLeast(0, 100 - (602 * log2) \div 100))

\* The degradation ratio is stress / baseline, or 1 when there is none yet.
normalizeResilience(recoveryMS, stress, baseline) ==
  LET recoveryScore == 100 - normalizeLinear(recoveryMS, 0, 5000)
      degradScore == AtLeast(0, 100 - (AtLeast(0, stress - baseline) * 50) \div baseline)
  IN  IF recoveryMS = 0 THEN 85 ELSE (recoveryScore + degradScore) \div 2

-----------------------------------------------------------------------------
(* The broker and the sandbox manager                                      *)

Events == {"chaos_start", "chaos_end"} \X (1..MaxRuns)

\* The first messages of MaxRuns runs, each with its start before its end, at
\* distinct times; and one that does not parse or is of another type.
Topics ==
  { {[type |-> e[1], run |-> e[2], at |-> StepMS * t[e]] : e \in {e \in Events : t[e] <= MaxEvents}} \cup {[type |-> "other"]} :
      t \in { t \in [Events -> 1..(2 * MaxRuns)] :
               /\ \A d, e \in Events : t[d] = t[e] => d = e
               /\ \A r \in 1..MaxRuns : t[<<"chaos_start", r>>] < t[<<"chaos_end", r>>]
               /\ \A r \in 2..MaxRuns : t[<<"chaos_start", r - 1>>] < t[<<"chaos_start", r>>] } }

\* ReadMessage marks what it returns for the next commit, once a second; a
\* commit matters to a restart that is still to come.
Commit ==
  /\ restarts < MaxRestarts
  /\ uncommitted # unread
  /\ uncommitted' = unread
  /\ UNCHANGED <<topic, unread, restarts, mu, evpc, msg, session, computeVars, written, ever, lost>>

-----------------------------------------------------------------------------
(* readEvents and HandleChaosEvent                                         *)

\* Mutant: a message that is not a chaos event ends the goroutine.
ReadEvent_Return(m) ==
  /\ evpc = "read"
  /\ unread' = unread \ {m}
  /\ IF m.type \in {"chaos_start", "chaos_end"}
       THEN msg' = m /\ evpc' = "lock"
       ELSE UNCHANGED msg /\ evpc' = "exit"
  /\ UNCHANGED <<topic, uncommitted, restarts, mu, session, computeVars, written, ever, lost>>

ReadEvent(m) ==
  /\ evpc = "read"
  /\ unread' = unread \ {m}
  /\ IF m.type \in {"chaos_start", "chaos_end"}
       THEN msg' = m /\ evpc' = "lock"
       ELSE UNCHANGED <<msg, evpc>>
  /\ UNCHANGED <<topic, uncommitted, restarts, mu, session, computeVars, written, ever, lost>>

\* Mutant: the start of a run forgets the end of the last one.
HandleStamp_NewRun ==
  /\ evpc = "lock"
  /\ mu = Free
  /\ mu' = "events"
  /\ session' = IF msg.type = "chaos_start" THEN [session EXCEPT !.chaosStart = msg.at, !.chaosEnd = 0]
                                            ELSE [session EXCEPT !.chaosEnd = msg.at]
  /\ written' = written \cup {msg}
  /\ evpc' = "p99"
  /\ UNCHANGED <<topic, unread, uncommitted, restarts, msg, computeVars, ever, lost>>

\* ReadMessage fails to fetch or to commit, and readEvents returns: nobody
\* starts it again, the rest of the process goes on.
ReadFails ==
  /\ evpc = "read"
  /\ evpc' = "failed"
  /\ UNCHANGED <<topic, unread, uncommitted, restarts, mu, msg, session, computeVars, written, ever, lost>>

\* The lock, the percentile and the timestamp ...
HandleStamp ==
  /\ evpc = "lock"
  /\ mu = Free
  /\ mu' = "events"
  /\ session' = IF msg.type = "chaos_start" THEN [session EXCEPT !.chaosStart = msg.at]
                                            ELSE [session EXCEPT !.chaosEnd = msg.at]
  /\ written' = written \cup {msg}
  /\ evpc' = "p99"
  /\ UNCHANGED <<topic, unread, uncommitted, restarts, msg, computeVars, ever, lost>>

\* ... then the reading, and the unlock.
HandleReading ==
  /\ evpc = "p99"
  /\ session' = IF msg.type = "chaos_start" THEN [session EXCEPT !.baseline = KernelPercentiles(session)]
                                            ELSE [session EXCEPT !.stress = KernelPercentiles(session)]
  /\ mu' = Free
  /\ ever' = ever \cup {msg}
  /\ msg' = NoMsg
  /\ evpc' = "read"
  /\ UNCHANGED <<topic, unread, uncommitted, restarts, computeVars, written, lost>>

handleEvents == (\E m \in unread : ReadEvent(m)) \/ HandleStamp \/ HandleReading
readEvents == handleEvents \/ ReadFails

-----------------------------------------------------------------------------
(* Handle and Compute, called by the metric readers.  Two calls of Compute *)
(* share only what they read, so one is followed at a time: a sample that  *)
(* arrives meanwhile is the other reader's, and is only recorded.          *)

\* The part of Handle under the mutex.
Handle(t, v) ==
  /\ samples < MaxSamples
  /\ mu = Free
  /\ samples' = samples + 1
  /\ session' = IF t = "metrics" THEN [session EXCEPT !.app = Record(@, v)]
                                 ELSE [session EXCEPT !.kernel = Record(@, v)]
  /\ pc' = IF pc = "idle" THEN "compute" ELSE pc
  /\ UNCHANGED <<eventVars, restarts, mu, snap>>

\* Compute: the lookup under the mutex.  What was complete then is noted.
ComputeLookup ==
  /\ pc = "compute"
  /\ mu = Free
  /\ snap' = [NoSnap EXCEPT !.complete = session.chaosEnd > 0 /\ session.baseline > 0]
  /\ pc' = "chaosEnd"
  /\ UNCHANGED <<eventVars, restarts, mu, session, samples>>

\* A score without a chaos run: ratio 1, no recovery time.
Score(p99, recovery, stress, baseline) ==
  [NoSnap EXCEPT !.complete = snap.complete, !.recovery = recovery, !.tail = normalizeTailLatency(p99),
                 !.resilience = normalizeResilience(recovery, stress, baseline)]

\* The percentiles, under the histograms' own lock; s.chaosEndNS > 0 ...
ComputeChaosEnd ==
  /\ pc = "chaosEnd"
  /\ IF session.chaosEnd > 0
       THEN /\ snap' = [snap EXCEPT !.p99 = KernelPercentiles(session), !.chaosEnd = session.chaosEnd]
            /\ pc' = "baseline"
       ELSE /\ snap' = Score(KernelPercentiles(session), 0, 1, 1)
            /\ pc' = "publish"
  /\ UNCHANGED <<eventVars, restarts, mu, session, samples>>

\* Mutant: only the ratio depends on the baseline, the recovery time does not.
ComputeBaseline_NoGuard ==
  /\ pc = "baseline"
  /\ snap' = [snap EXCEPT !.baseline = AtLeast(1, session.baseline), !.stress = session.stress]
  /\ pc' = "recovery"
  /\ UNCHANGED <<eventVars, restarts, mu, session, samples>>

\* ... && s.baselineP99NS > 0 ...
ComputeBaseline ==
  /\ pc = "baseline"
  /\ IF session.baseline > 0
       THEN /\ snap' = [snap EXCEPT !.baseline = session.baseline]
            /\ pc' = "run"
       ELSE /\ snap' = Score(snap.p99, 0, 1, 1)
            /\ pc' = "publish"
  /\ UNCHANGED <<eventVars, restarts, mu, session, samples>>

\* ... then the two quotients.  Each field that was loaded before is loaded
\* again or kept, as the compiler chose; the stress reading comes first.
ComputeRatio ==
  /\ pc = "run"
  /\ \E b \in {snap.baseline, session.baseline} :
       snap' = [snap EXCEPT !.baseline = b, !.stress = session.stress]
  /\ pc' = "recovery"
  /\ UNCHANGED <<eventVars, restarts, mu, session, samples>>

ComputeRecovery ==
  /\ pc = "recovery"
  /\ \E e \in {snap.chaosEnd, session.chaosEnd} :
       snap' = Score(snap.p99, e - session.chaosStart, snap.stress, snap.baseline)
  /\ pc' = "publish"
  /\ UNCHANGED <<eventVars, restarts, mu, session, samples>>

Publish ==
  /\ pc = "publish"
  /\ pc' = "idle"
  /\ snap' = NoSnap
  /\ UNCHANGED <<eventVars, restarts, mu, session, samples>>

Compute ==
  \/ ComputeLookup \/ ComputeChaosEnd \/ ComputeBaseline
  \/ ComputeRatio \/ ComputeRecovery \/ Publish

-----------------------------------------------------------------------------

\* The process ends and starts again: its memory is gone, the broker
\* delivers again what was not committed.
Restart ==
  /\ restarts < MaxRestarts
  /\ restarts' = restarts + 1
  /\ unread' = uncommitted
  /\ lost' = lost \cup ({msg} \ (uncommitted \cup {NoMsg}))
  /\ mu' = Free
  /\ evpc' = "read" /\ msg' = NoMsg
  /\ session' = Fresh
  /\ pc' = "idle" /\ snap' = NoSnap
  /\ written' = {}
  /\ UNCHANGED <<topic, uncommitted, samples, ever>>

Init ==
  /\ topic \in Topics
  /\ unread = topic /\ uncommitted = topic
  /\ restarts = 0
  /\ mu = Free
  /\ evpc = "read" /\ msg = NoMsg
  /\ session = Fresh
  /\ pc = "idle" /\ snap = NoSnap
  /\ samples = 0
  /\ written = {} /\ ever = {} /\ lost = {}

Next ==
  \/ Commit \/ Restart
  \/ readEvents
  \/ \E t \in Readers, v \in Latencies : Handle(t, v)
  \/ Compute

Spec == Init /\ [][Next]_vars

\* The goroutines run; samples, events, commits, failures and crashes need not
\* happen.
FairSpec ==
  /\ Spec
  /\ WF_vars(handleEvents) /\ WF_vars(Compute)

-----------------------------------------------------------------------------
(* Properties                                                              *)

OfType(type) == {m \in written : m.type = type}
Ready == pc = "publish"

\* A recovery time comes from a start and an end that this process was told of:
\* neither an end that overtook its start, nor a restart between the two,
\* nor a Compute that runs between the assignments measures from time zero.
RecoveryIsMeasured ==
  Ready /\ snap.recovery # 0 =>
    \E s \in OfType("chaos_start"), e \in OfType("chaos_end") : snap.recovery = e.at - s.at

\* The sub-scores stay within 0..100, also when the end of one run and the
\* start of the next make the recovery time negative.
ScoresAreNormal ==
  Ready => snap.tail \in 0..100 /\ snap.resilience \in 0..100

\* Once a start with a baseline and an end were handled, no score falls back to
\* "not completed yet", whatever event is being handled while it is computed.
CompletedRunIsScored ==
  Ready /\ snap.complete => snap.recovery # 0

AllHandled == \A m \in topic : m.type = "other" \/ m \in ever \cup lost

\* Unless a read fails, which ends the reader for good, every chaos event is
\* handled in the end, but for those a crash found in the reader's hands:
\* neither other messages nor malformed ones nor the contended mutex stop it
\* (consumer.go:182-199).
EventsAreHandled == <>AllHandled \/ <>[](evpc = "failed")

\* That a failing read costs no event is false: readEvents returns on any error
\* of ReadMessage (consumer.go:185-188) while the process goes on without it.
FailedReadLosesNothing == <>AllHandled

=============================================================================
