----------------------------- MODULE Telemetry -----------------------------
(***************************************************************************)
(* The telemetry service's reader goroutines                               *)
(* (telemetry/internal/consumer/consumer.go) and the part of the scorer    *)
(* they share (telemetry/internal/scorer/composite.go): readMetrics        *)
(* batches bot metrics and hands them to Engine.Handle, readEBPF hands     *)
(* over one kernel sample at a time.  Handle updates the session counters  *)
(* under Engine.mu; Compute takes the mutex only to look the session up    *)
(* and then reads the counters without it.                                 *)
(*                                                                         *)
(* Latencies, percentiles and the weights of the four scores are left out: *)
(* a score is the counters it was computed from.                           *)
(***************************************************************************)
EXTENDS Naturals, Sequences, FiniteSets, SequencesExt

CONSTANTS
  Sessions,      \* session ids
  BatchSize,     \* metrics that force a flush (64 in the code)
  HistoryLen,    \* points kept for the sparkline (30 in the code)
  MaxMetrics,    \* bound: metrics produced by the bots
  MaxProbes,     \* bound: samples produced by the eBPF prober
  Kinds,         \* outcomes of an order the bots may report
  PublishFails   \* whether a write to bench.scores may fail

ASSUME BoundsAssumption ==
  /\ BatchSize \in Nat \ {0} /\ HistoryLen \in Nat \ {0}
  /\ MaxMetrics \in Nat /\ MaxProbes \in Nat
  /\ PublishFails \in BOOLEAN

Threads == {"metrics", "ebpf"}

ASSUME KindsAssumption == Kinds \subseteq {"rest", "wrong", "right"}

\* What Handle tells apart about a metric: no fill, an incorrect or a correct
\* fill, or a kernel sample.
Metrics == [session : Sessions, kind : Kinds \cup {"probe"}]
IsFill(m) == m.kind \in {"wrong", "right"}

VARIABLES
  topic,     \* messages of each thread's topic that it has not read
  produced,  \* how many messages each topic ever had
  done,      \* the service's context is cancelled
  tick,      \* readMetrics' ticker has fired and not been received
  pc,        \* where each thread is
  batch,     \* readMetrics' batch
  leaving,   \* readMetrics has seen the context done and flushes for the last time
  work,      \* metrics the thread's Handle has still to apply
  todo,      \* sessions the thread's Handle has still to score
  mu,        \* holder of Engine.mu
  orders, total, correct,   \* sessionState.orderCount, totalFills, correctFills
  history,   \* sessionState.scoreHistory, each point named by its ComputedAt
  clock,     \* ComputedAt of the last score
  snap,      \* the score each thread is computing
  scores,    \* bench.scores, in the order the broker got them
  taken,     \* observed: messages read from the topics, per session
  unscored   \* observed: sessions a failing write left without a score

inputVars == <<topic, produced>>
countVars == <<orders, total, correct>>
vars == <<inputVars, done, tick, pc, batch, work, todo, mu, countVars, history, clock, snap,
          scores, taken, leaving, unscored>>

Free == "free"
NoScore == [session |-> "none", orders |-> 0, total |-> 0, correct |-> 0, at |-> 0, history |-> <<>>]
Zero == [s \in Sessions |-> 0]
Goto(t, l) == pc' = [pc EXCEPT ![t] = l]
NumOf(ms, s) == Cardinality({i \in DOMAIN ms : ms[i].session = s})

\* Mutant: only the first session of a batch is scored.
SessionsOf_First(ms) == <<ms[1].session>>

\* The sessions of a batch, each once, in the order of first appearance.
SessionsOf(ms) ==
  LET Firsts == {i \in DOMAIN ms : \A j \in 1..(i - 1) : ms[j].session # ms[i].session}
      Rank(i) == Cardinality({j \in Firsts : j <= i})
  IN  [k \in 1..Cardinality(Firsts) |-> ms[CHOOSE i \in Firsts : Rank(i) = k].session]

-----------------------------------------------------------------------------
(* The outside: producers of the two topics, the ticker, the shutdown.     *)

Produce(t, m) ==
  /\ produced[t] < (IF t = "metrics" THEN MaxMetrics ELSE MaxProbes)
  /\ m.kind \in (IF t = "metrics" THEN Kinds ELSE {"probe"})
  /\ topic' = [topic EXCEPT ![t] = Append(@, m)]
  /\ produced' = [produced EXCEPT ![t] = @ + 1]
  /\ UNCHANGED <<done, tick, pc, batch, work, todo, mu, countVars, history, clock, snap, scores, taken, leaving, unscored>>

Tick ==
  /\ ~tick
  /\ tick' = TRUE
  /\ UNCHANGED <<inputVars, done, pc, batch, work, todo, mu, countVars, history, clock, snap, scores, taken, leaving, unscored>>

Cancel ==
  /\ ~done
  /\ done' = TRUE
  /\ UNCHANGED <<inputVars, tick, pc, batch, work, todo, mu, countVars, history, clock, snap, scores, taken, leaving, unscored>>

-----------------------------------------------------------------------------
(* Engine.Handle, called by thread t with the metrics ms; it returns to    *)
(* the thread's loop, or out of it when the context was seen done.         *)

CallHandle(t, ms) ==
  /\ work' = [work EXCEPT ![t] = ms]
  /\ todo' = [todo EXCEPT ![t] = SessionsOf(ms)]

\* Thread t reads the next message of its topic.
Take(t) ==
  /\ topic[t] # <<>>
  /\ topic' = [topic EXCEPT ![t] = Tail(@)]
  /\ taken' = [taken EXCEPT ![Head(topic[t]).session] = @ + 1]

Lock(t) ==
  /\ pc[t] = "lock"
  /\ mu = Free
  /\ mu' = t
  /\ Goto(t, "apply")
  /\ UNCHANGED <<inputVars, done, tick, batch, work, todo, countVars, history, clock, snap, scores, taken, leaving, unscored>>

\* totalFills++ ...
ApplyTotal(t) ==
  /\ pc[t] = "apply"
  /\ work[t] # <<>>
  /\ LET m == Head(work[t]) IN
       total' = IF IsFill(m) THEN [total EXCEPT ![m.session] = @ + 1] ELSE total
  /\ Goto(t, "applyRest")
  /\ UNCHANGED <<inputVars, done, tick, batch, work, todo, mu, orders, correct, history, clock, snap, scores, taken, leaving, unscored>>

\* ... then correctFills++ and orderCount++.
ApplyRest(t) ==
  /\ pc[t] = "applyRest"
  /\ LET m == Head(work[t]) IN
       /\ correct' = IF m.kind = "right" THEN [correct EXCEPT ![m.session] = @ + 1] ELSE correct
       /\ orders' = [orders EXCEPT ![m.session] = @ + 1]
  /\ work' = [work EXCEPT ![t] = Tail(@)]
  /\ Goto(t, "apply")
  /\ UNCHANGED <<inputVars, done, tick, batch, todo, mu, total, history, clock, snap, scores, taken, leaving, unscored>>

\* Mutant: the mutex is not released when the batch touched several metrics.
Unlock_EarlyReturn(t) ==
  /\ pc[t] = "apply"
  /\ work[t] = <<>>
  /\ mu' = IF t = "metrics" /\ Len(batch) > 1 THEN mu ELSE Free
  /\ Goto(t, "compute")
  /\ UNCHANGED <<inputVars, done, tick, batch, work, todo, countVars, history, clock, snap, scores, taken, leaving, unscored>>

Unlock(t) ==
  /\ pc[t] = "apply"
  /\ work[t] = <<>>
  /\ mu' = Free
  /\ Goto(t, "compute")
  /\ UNCHANGED <<inputVars, done, tick, batch, work, todo, countVars, history, clock, snap, scores, taken, leaving, unscored>>

\* Compute: the lookup under the mutex ...
ComputeLookup(t) ==
  /\ pc[t] = "compute"
  /\ todo[t] # <<>>
  /\ mu = Free
  /\ Goto(t, "computeTotal")
  /\ UNCHANGED <<inputVars, done, tick, batch, work, todo, mu, countVars, history, clock, snap, scores, taken, leaving, unscored>>

\* ... then, without it, orderCount and the first load of totalFills.
ComputeTotal(t) ==
  LET s == Head(todo[t]) IN
  /\ pc[t] = "computeTotal"
  /\ snap' = [snap EXCEPT ![t] = [NoScore EXCEPT !.session = s, !.orders = orders[s], !.total = total[s]]]
  /\ Goto(t, "computeCorrect")
  /\ UNCHANGED <<inputVars, done, tick, batch, work, todo, mu, countVars, history, clock, scores, taken, leaving, unscored>>

\* The division loads correctFills, and totalFills again unless the compiler
\* kept the first load.
ComputeCorrect(t) ==
  LET s == Head(todo[t]) IN
  /\ pc[t] = "computeCorrect"
  /\ clock' = clock + 1
  /\ \E n \in {snap[t].total, total[s]} :
       snap' = [snap EXCEPT ![t] = [@ EXCEPT !.total = n, !.correct = correct[s], !.at = clock']]
  /\ Goto(t, "history")
  /\ UNCHANGED <<inputVars, done, tick, batch, work, todo, mu, countVars, history, scores, taken, leaving, unscored>>

\* The sparkline, appended and copied under the mutex.
AppendHistory(t) ==
  LET s == Head(todo[t])
      h == Append(history[s], snap[t].at)
      recent == SubSeq(h, IF Len(h) > HistoryLen THEN Len(h) - HistoryLen + 1 ELSE 1, Len(h))
  IN
  /\ pc[t] = "history"
  /\ mu = Free
  /\ history' = [history EXCEPT ![s] = recent]
  /\ snap' = [snap EXCEPT ![t] = [@ EXCEPT !.history = recent]]
  /\ Goto(t, "publish")
  /\ UNCHANGED <<inputVars, done, tick, batch, work, todo, mu, countVars, clock, scores, taken, leaving, unscored>>

\* publish: an error makes Handle return without scoring the other sessions.
Publish(t) ==
  /\ pc[t] = "publish"
  /\ \/ /\ scores' = Append(scores, snap[t])
        /\ todo' = [todo EXCEPT ![t] = Tail(@)]
        /\ UNCHANGED unscored
     \/ /\ done \/ PublishFails
        /\ scores' \in {scores, Append(scores, snap[t])}
        /\ todo' = [todo EXCEPT ![t] = <<>>]
        /\ unscored' = unscored \cup ToSet(todo[t])
  /\ snap' = [snap EXCEPT ![t] = NoScore]
  /\ Goto(t, "compute")
  /\ UNCHANGED <<inputVars, done, tick, batch, work, mu, countVars, history, clock, taken, leaving>>

\* Mutant: the batch is handed over again with the next flush.
Return_KeepBatch(t) ==
  /\ pc[t] = "compute"
  /\ todo[t] = <<>>
  /\ Goto(t, IF t = "metrics" /\ leaving THEN "exit" ELSE "loop")
  /\ UNCHANGED <<inputVars, done, tick, batch, work, todo, mu, countVars, history, clock, snap, scores, taken, leaving, unscored>>

\* Handle returns to its caller; readMetrics then empties the batch.
Return(t) ==
  /\ pc[t] = "compute"
  /\ todo[t] = <<>>
  /\ IF t = "metrics" THEN batch' = <<>> ELSE UNCHANGED batch
  /\ Goto(t, IF t = "metrics" /\ leaving THEN "exit" ELSE "loop")
  /\ UNCHANGED <<inputVars, done, tick, work, todo, mu, countVars, history, clock, snap, scores, taken, leaving, unscored>>

Handle(t) ==
  \/ Lock(t) \/ ApplyTotal(t) \/ ApplyRest(t) \/ Unlock(t)
  \/ ComputeLookup(t) \/ ComputeTotal(t) \/ ComputeCorrect(t) \/ AppendHistory(t) \/ Publish(t) \/ Return(t)

-----------------------------------------------------------------------------
(* readMetrics                                                             *)

flush ==
  IF batch = <<>>
    THEN UNCHANGED <<work, todo>> /\ Goto("metrics", IF leaving' THEN "exit" ELSE "loop")
    ELSE CallHandle("metrics", batch) /\ Goto("metrics", "lock")

\* select, ticker case
MetricsTick ==
  /\ pc["metrics"] = "loop"
  /\ tick
  /\ tick' = FALSE
  /\ UNCHANGED leaving
  /\ flush
  /\ UNCHANGED <<inputVars, done, batch, mu, countVars, history, clock, snap, scores, taken, unscored>>

\* select, context case: a last flush, and the goroutine ends.
MetricsDone ==
  /\ pc["metrics"] = "loop"
  /\ done
  /\ leaving' = TRUE
  /\ flush
  /\ UNCHANGED <<inputVars, done, tick, batch, mu, countVars, history, clock, snap, scores, taken, unscored>>

\* select, default: nothing else is ready, ReadMessage blocks.
MetricsBlock ==
  /\ pc["metrics"] = "loop"
  /\ ~tick /\ ~done
  /\ Goto("metrics", "reading")
  /\ UNCHANGED <<inputVars, done, tick, batch, work, todo, mu, countVars, history, clock, snap, scores, taken, leaving, unscored>>

MetricsRead ==
  /\ pc["metrics"] = "reading"
  /\ Take("metrics")
  /\ batch' = Append(batch, Head(topic["metrics"]))
  /\ IF Len(batch') >= BatchSize
       THEN CallHandle("metrics", batch') /\ Goto("metrics", "lock")
       ELSE UNCHANGED <<work, todo>> /\ Goto("metrics", "loop")
  /\ UNCHANGED <<produced, done, tick, mu, countVars, history, clock, snap, scores, leaving, unscored>>

\* The message does not parse: the thread goes on to the next one.
Skip(t) ==
  /\ pc[t] = IF t = "metrics" THEN "reading" ELSE "loop"
  /\ topic[t] # <<>>
  /\ topic' = [topic EXCEPT ![t] = Tail(@)]
  /\ Goto(t, "loop")
  /\ UNCHANGED <<produced, done, tick, batch, work, todo, mu, countVars, history, clock, snap, scores, taken, leaving, unscored>>

\* ReadMessage fails to fetch or to commit, or the context is cancelled: the
\* goroutine returns with what is in its batch, and nobody starts it again.
ReadFails(t) ==
  /\ pc[t] = IF t = "metrics" THEN "reading" ELSE "loop"
  /\ Goto(t, "failed")
  /\ UNCHANGED <<inputVars, done, tick, batch, work, todo, mu, countVars, history, clock, snap, scores, taken, leaving, unscored>>

readMetrics ==
  MetricsTick \/ MetricsDone \/ MetricsBlock \/ MetricsRead \/ Skip("metrics") \/ ReadFails("metrics")

(* readEBPF                                                                *)

EBPFRead ==
  /\ pc["ebpf"] = "loop"
  /\ Take("ebpf")
  /\ CallHandle("ebpf", <<Head(topic["ebpf"])>>)
  /\ Goto("ebpf", "lock")
  /\ UNCHANGED <<produced, done, tick, batch, mu, countVars, history, clock, snap, scores, leaving, unscored>>

readEBPF == EBPFRead \/ Skip("ebpf") \/ ReadFails("ebpf")

-----------------------------------------------------------------------------
(* The end of the process                                                  *)

Stopped == \A t \in Threads : pc[t] = "exit"

\* main calls os.Exit as soon as Run returns, wherever the readers are.
Exit ==
  /\ done /\ ~Stopped
  /\ pc' = [t \in Threads |-> "exit"]
  /\ UNCHANGED <<inputVars, done, tick, batch, work, todo, mu, countVars, history, clock, snap, scores, taken, leaving, unscored>>

\* Handle of the metrics reader writes archetypeCounts of the session whose
\* map Compute of the eBPF reader iterates over, without the mutex (kernel
\* samples have no archetype, so the eBPF reader never writes it).
MapRace ==
  /\ pc["metrics"] = "applyRest" /\ pc["ebpf"] = "computeCorrect"
  /\ Head(work["metrics"]).session = Head(todo["ebpf"])

\* The Go runtime may detect the race, which ends the process.
Abort ==
  /\ MapRace
  /\ pc' = [t \in Threads |-> "exit"]
  /\ UNCHANGED <<inputVars, done, tick, batch, work, todo, mu, countVars, history, clock, snap, scores, taken, leaving, unscored>>

-----------------------------------------------------------------------------

Init ==
  /\ topic = [t \in Threads |-> <<>>]
  /\ produced = [t \in Threads |-> 0]
  /\ done = FALSE
  /\ tick = FALSE
  /\ pc = [t \in Threads |-> "loop"]
  /\ batch = <<>>
  /\ work = [t \in Threads |-> <<>>]
  /\ todo = [t \in Threads |-> <<>>]
  /\ mu = Free
  /\ orders = Zero /\ total = Zero /\ correct = Zero
  /\ history = [s \in Sessions |-> <<>>]
  /\ clock = 0
  /\ snap = [t \in Threads |-> NoScore]
  /\ scores = <<>>
  /\ taken = Zero
  /\ leaving = FALSE
  /\ unscored = {}

Next ==
  \/ \E t \in Threads, m \in Metrics : Produce(t, m)
  \/ Tick \/ Cancel \/ Exit \/ Abort
  \/ readMetrics \/ readEBPF
  \/ \E t \in Threads : Handle(t)

Spec == Init /\ [][Next]_vars

\* The goroutines run, the ticker ticks and main exits when told to; producers,
\* the shutdown and failing reads need not happen.
Fairness ==
  /\ WF_vars(MetricsTick \/ MetricsDone \/ MetricsBlock \/ MetricsRead \/ Skip("metrics"))
  /\ WF_vars(EBPFRead \/ Skip("ebpf"))
  /\ WF_vars(Tick) /\ WF_vars(Exit)
  /\ \A t \in Threads : WF_vars(Handle(t))

FairSpec == Spec /\ Fairness

-----------------------------------------------------------------------------
(* Properties                                                              *)

\* Every variable has its type.
TypeOK ==
  /\ topic \in [Threads -> Seq(Metrics)]
  /\ produced \in [Threads -> Nat]
  /\ done \in BOOLEAN /\ tick \in BOOLEAN /\ leaving \in BOOLEAN
  /\ pc \in [Threads -> {"loop", "reading", "lock", "apply", "applyRest", "compute",
                         "computeTotal", "computeCorrect", "history", "publish", "failed", "exit"}]
  /\ batch \in Seq(Metrics) /\ Len(batch) <= BatchSize
  /\ work \in [Threads -> Seq(Metrics)]
  /\ todo \in [Threads -> Seq(Sessions)]
  /\ mu \in Threads \cup {Free}
  /\ orders \in [Sessions -> Nat] /\ total \in [Sessions -> Nat] /\ correct \in [Sessions -> Nat]
  /\ history \in [Sessions -> Seq(Nat)]
  /\ clock \in Nat
  /\ taken \in [Sessions -> Nat] /\ unscored \subseteq Sessions

\* Every message a reader took, of those that parse, is in orderCount exactly
\* once, or still in the hands of the thread that took it: flushes by size, by
\* ticker and at shutdown neither repeat nor skip a metric of the batch.
EachMetricCountedOnce ==
  ~Stopped => \A s \in Sessions :
    taken[s] = orders[s] + NumOf(work["metrics"], s) + NumOf(work["ebpf"], s)
               + (IF pc["metrics"] \in {"loop", "reading", "failed", "exit"} THEN NumOf(batch, s) ELSE 0)

Idle(t) == pc[t] \in {"loop", "reading", "failed"}

\* Whenever both readers are back in their loops or have ended, some published score of
\* every session has all its metrics, unless a write failed: concurrent calls of
\* Handle lose no update.
ScoresCatchUp ==
  ~done /\ (\A t \in Threads : Idle(t)) =>
    \A s \in Sessions \ unscored :
      orders[s] > 0 =>
        \E i \in DOMAIN scores :
          /\ scores[i].session = s
          /\ scores[i].orders = orders[s]
          /\ scores[i].total = total[s] /\ scores[i].correct = correct[s]

\* What Handle counted is scored: after the last message every session has a
\* score made of all its messages, unless the process ended or a write failed,
\* although the readers contend for the mutex and each computes without it.
CountedIsScored ==
  []<>(Stopped \/ \A s \in Sessions \ unscored :
         orders[s] = 0 \/ \E i \in DOMAIN scores : scores[i].session = s /\ scores[i].orders = orders[s])

\* The state of a session has a single user at a time: its map of archetypes is
\* never written and iterated over by two goroutines at once.
NoMapRace == ~MapRace

\* Fill accuracy is a fraction: no score counts more correct fills than fills.
AccuracyAtMostOne == \A i \in DOMAIN scores : scores[i].correct <= scores[i].total

\* The last score published for a session is its latest: it has all metrics
\* once the readers are idle.
LastScoreIsLatest ==
  ~done /\ (\A t \in Threads : Idle(t)) =>
    \A i \in DOMAIN scores :
      (\A j \in (i + 1)..Len(scores) : scores[j].session # scores[i].session) =>
        scores[i].orders = orders[scores[i].session]

\* orderCount counts the orders of the bots.
OrderCountIsOrders == \A s \in Sessions : orders[s] <= produced["metrics"]

\* A metric that was read is scored within the ticker's period: a batch does
\* not wait for ever, neither for a message nor behind a failed read.
BatchIsFlushed == (batch # <<>>) ~> (batch = <<>> \/ done)

=============================================================================
