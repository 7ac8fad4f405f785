------------------------------ MODULE BotFleet ------------------------------
(***************************************************************************)
(* The bot fleet (botfleet/): the server's table of fleets                 *)
(* (grpcserver/server.go), a fleet's Run (worker/fleet.go) and the bots    *)
(* (worker/archetypes.go, http_client.go; the FIX session of a FIX bot is  *)
(* in FIXClient).  Every bot is a goroutine that sends one order at a time *)
(* and puts the metric of an answered order into a bounded channel; one    *)
(* publisher per fleet numbers the metrics, batches them and hands every   *)
(* batch to an asynchronous Kafka writer.                                  *)
(*                                                                         *)
(* An order is its number within the fleet.  Prices, sides, quantities and *)
(* the signals of the strategies are left out: a Momentum tick without a   *)
(* signal changes nothing, an institutional slicer's pause between slices  *)
(* is its tick.                                                            *)
(***************************************************************************)
EXTENDS Integers, Sequences, FiniteSets, FiniteSetsExt, SequencesExt

CONSTANTS
  Fleets,      \* fleet ids
  Requests,    \* spawn requests
  ChanCap,     \* capacity of metricsCh (65536)
  BatchCap,    \* messages that force a flush (256)
  MaxOrders,   \* bound: orders a fleet issues
  WriteFails   \* whether Kafka may refuse or lose a message

Archetypes ==
  {"MarketMaker", "Momentum", "NoiseTrader", "InstitutionalSlicer", "LatencyArb", "FIXNoise"}
Topics == {"metrics", "replay"}
NoMix == [a \in Archetypes |-> 0]

ASSUME BoundsAssumption ==
  /\ ChanCap \in Nat \ {0} /\ BatchCap \in Nat \ {0} /\ MaxOrders \in Nat
  /\ WriteFails \in BOOLEAN
ASSUME RequestsAssumption ==
  Requests \subseteq [BotCount : Int, TargetTPS : Int, Mix : [Archetypes -> Nat], FIX : BOOLEAN]

VARIABLES
  fleets,     \* Server.fleets: the listed fleets
  cfg,        \* the FleetConfig each fleet was started with
  phase,      \* where each fleet's Run is
  ctx,        \* the fleet's context: "live" or "done"
  bot,        \* the bots of each fleet
  issued,     \* orders issued by each fleet
  metricsCh,  \* metricsCh
  pub,        \* whether publishMetrics still runs
  batch,      \* publishMetrics' batch
  replaySeq,  \* Fleet.replaySeq; Fleet.ordersSent is always equal to it
  writer,     \* messages in the Kafka writer
  kafka,      \* messages in the topics
  lost,       \* observed: messages a failing write dropped
  sent,       \* observed: orders that reached the contestant's engine
  acked,      \* observed: orders the engine answered
  status      \* of the process: "up", "down" after a signal, "panic"

server == <<fleets, cfg>>
world == <<kafka, lost, sent, acked>>
vars == <<server, phase, ctx, bot, issued, metricsCh, pub, batch, replaySeq, writer, world, status>>

Nobody == <<>>
Messages == [fleet : Fleets, topic : Topics, seq : Nat, order : Nat]

-----------------------------------------------------------------------------
(* SpawnFleet.                                                             *)

\* POST /v1/spawn fills in what the request leaves out.
HandleSpawn(r) ==
  [r EXCEPT !.BotCount = IF @ = 0 THEN 200 ELSE @,
            !.TargetTPS = IF @ = 0 THEN 1000 ELSE @]

\* The percentages of an unspecified mix, rounded down one by one.
DefaultMix(n) ==
  LET total == IF n <= 0 THEN 1000 ELSE n
      share == [MarketMaker |-> 30, Momentum |-> 25, NoiseTrader |-> 30,
                InstitutionalSlicer |-> 10, LatencyArb |-> 0, FIXNoise |-> 5]
  IN  [a \in Archetypes |-> (total * share[a]) \div 100]

FleetMix(r) == IF r.Mix = NoMix THEN DefaultMix(r.BotCount) ELSE r.Mix

totalBots(mix) == MapThenSumSet(LAMBDA a : mix[a], Archetypes)
BotsOf(mix) == UNION {{<<a, i>> : i \in 1 .. mix[a]} : a \in Archetypes}

\* Orders a second a bot with a ticker sends: TargetTPS is divided among the
\* bots, rounded down, and rateToInterval takes 0 as one a second.
perBotTPS(c) == LET tps == c.TargetTPS \div Max({totalBots(c.Mix), 1})
                IN  IF tps <= 0 THEN 1 ELSE tps

SpawnFleet(f, r) ==
  /\ cfg[f] = Nobody
  /\ LET q == HandleSpawn(r)
     IN  cfg' = [cfg EXCEPT ![f] = [q EXCEPT !.Mix = FleetMix(q)]]
  /\ fleets' = fleets \union {f}
  /\ phase' = [phase EXCEPT ![f] = "start"]
  /\ ctx' = [ctx EXCEPT ![f] = "live"]
  /\ UNCHANGED <<bot, issued, metricsCh, pub, batch, replaySeq, writer, world, status>>

\* StopFleet: cancel and delist; Run winds down on its own.
StopFleet(f) ==
  /\ f \in fleets
  /\ ctx' = [ctx EXCEPT ![f] = "done"]
  /\ fleets' = fleets \ {f}
  /\ UNCHANGED <<cfg, phase, bot, issued, metricsCh, pub, batch, replaySeq, writer, world, status>>

-----------------------------------------------------------------------------
(* Fleet.Run.                                                              *)

\* spawnBots and the publisher.  A FIX bot with an endpoint dials first.
spawnBots(f) ==
  [b \in BotsOf(cfg[f].Mix) |->
     [pc |-> IF b[1] = "FIXNoise" /\ cfg[f].FIX THEN "dial" ELSE "select",
      leg |-> 1, ord |-> 0, fix |-> FALSE]]

Start(f) ==
  /\ phase[f] = "start"
  /\ phase' = [phase EXCEPT ![f] = "wait"]
  /\ bot' = [bot EXCEPT ![f] = spawnBots(f)]
  /\ pub' = [pub EXCEPT ![f] = "on"]
  /\ UNCHANGED <<server, ctx, issued, metricsCh, batch, replaySeq, writer, world, status>>

\* The duration of the run is over.
Expire(f) ==
  /\ phase[f] = "wait"
  /\ ctx[f] = "live"
  /\ ctx' = [ctx EXCEPT ![f] = "done"]
  /\ UNCHANGED <<server, phase, bot, issued, metricsCh, pub, batch, replaySeq, writer, world, status>>

\* wg.Wait returns when the last bot has; close(metricsCh) follows.
BotsDone(f) == \A b \in DOMAIN bot[f] : bot[f][b].pc = "done"
\* Mutant: the channel is closed without waiting for the bots.
CloseChannel_NoWait(f) ==
  /\ phase[f] = "wait"
  /\ phase' = [phase EXCEPT ![f] = "closed"]
  /\ UNCHANGED <<server, ctx, bot, issued, metricsCh, pub, batch, replaySeq, writer, world, status>>

CloseChannel(f) ==
  /\ phase[f] = "wait"
  /\ BotsDone(f)
  /\ phase' = [phase EXCEPT ![f] = "closed"]
  /\ UNCHANGED <<server, ctx, bot, issued, metricsCh, pub, batch, replaySeq, writer, world, status>>

\* After <-pubDone the deferred writer.Close waits for the writer's queue.
CloseWriter(f) ==
  /\ phase[f] = "closed"
  /\ pub[f] = "done"
  /\ writer[f] = {}
  /\ phase' = [phase EXCEPT ![f] = "returned"]
  /\ UNCHANGED <<server, ctx, bot, issued, metricsCh, pub, batch, replaySeq, writer, world, status>>

Delist(f) ==
  /\ phase[f] = "returned"
  /\ phase' = [phase EXCEPT ![f] = "gone"]
  /\ fleets' = fleets \ {f}
  /\ UNCHANGED <<cfg, ctx, bot, issued, metricsCh, pub, batch, replaySeq, writer, world, status>>

-----------------------------------------------------------------------------
(* The bots.                                                               *)

SetBot(f, b, s) == bot' = [bot EXCEPT ![f][b] = s]

\* Where a bot goes after an order: a market maker follows its bid with an
\* ask, everybody else back to the select.
AfterOrder(b, s) ==
  IF b[1] = "MarketMaker" /\ s.leg = 1
  THEN [s EXCEPT !.pc = "ask", !.leg = 2, !.ord = 0]
  ELSE [s EXCEPT !.pc = "select", !.leg = 1, !.ord = 0]

\* A FIX bot falls back to REST if the dial or the logon fails.
Dial(f, b) ==
  /\ bot[f][b].pc = "dial"
  /\ \E ok \in BOOLEAN : SetBot(f, b, [bot[f][b] EXCEPT !.pc = "select", !.fix = ok])
  /\ UNCHANGED <<server, phase, ctx, issued, metricsCh, pub, batch, replaySeq, writer, world, status>>

\* sendOrder and SendNOS.  The HTTP client sends nothing once the context is
\* done; SendNOS writes first and looks at the context later.
sendOrder(f, b) ==
  /\ issued' = [issued EXCEPT ![f] = @ + 1]
  /\ SetBot(f, b, [bot[f][b] EXCEPT !.pc = "send", !.ord = issued'[f]])
  /\ sent' = IF ctx[f] = "live" \/ bot[f][b].fix
             THEN [sent EXCEPT ![f] = @ \union {issued'[f]}] ELSE sent
  /\ UNCHANGED <<server, phase, ctx, metricsCh, pub, batch, replaySeq, writer, kafka, lost, acked, status>>

\* The tick of the select; it may win over ctx.Done().
Tick(f, b) ==
  /\ bot[f][b].pc = "select"
  /\ issued[f] < MaxOrders
  /\ sendOrder(f, b)

\* A market maker's ask follows its bid, whatever became of that.
Ask(f, b) ==
  /\ bot[f][b].pc = "ask"
  /\ sendOrder(f, b)

\* The engine's answer, a 200 or 201 that decodes.
Answer(f, b) ==
  /\ bot[f][b].pc = "send"
  /\ bot[f][b].ord \in sent[f]
  /\ SetBot(f, b, [bot[f][b] EXCEPT !.pc = "emit"])
  /\ acked' = [acked EXCEPT ![f] = @ \union {bot[f][b].ord}]
  /\ UNCHANGED <<server, phase, ctx, issued, metricsCh, pub, batch, replaySeq, writer, kafka, lost, sent, status>>

\* A refused connection, a timeout, another status, a cancelled context: the
\* order is dropped.
Fail(f, b) ==
  /\ bot[f][b].pc = "send"
  /\ SetBot(f, b, AfterOrder(b, bot[f][b]))
  /\ UNCHANGED <<server, phase, ctx, issued, metricsCh, pub, batch, replaySeq, writer, world, status>>

\* out <- Metrics{...}: waits for room; a closed channel panics.
Emit(f, b) ==
  /\ bot[f][b].pc = "emit"
  /\ IF phase[f] = "wait"
     THEN /\ Len(metricsCh[f]) < ChanCap
          /\ metricsCh' = [metricsCh EXCEPT ![f] = Append(@, bot[f][b].ord)]
          /\ SetBot(f, b, AfterOrder(b, bot[f][b]))
          /\ UNCHANGED status
     ELSE /\ status' = "panic"
          /\ UNCHANGED <<metricsCh, bot>>
  /\ UNCHANGED <<server, phase, ctx, issued, pub, batch, replaySeq, writer, world>>

\* ctx.Done() in the select.
Quit(f, b) ==
  /\ bot[f][b].pc = "select"
  /\ ctx[f] = "done"
  /\ SetBot(f, b, [bot[f][b] EXCEPT !.pc = "done"])
  /\ UNCHANGED <<server, phase, ctx, issued, metricsCh, pub, batch, replaySeq, writer, world, status>>

\* What a bot does without being asked to: all but the next order.
BotRuns(f, b) ==
  Dial(f, b) \/ Ask(f, b) \/ Answer(f, b) \/ Fail(f, b) \/ Emit(f, b) \/ Quit(f, b)
Bot(f, b) ==
  Tick(f, b) \/ BotRuns(f, b)

-----------------------------------------------------------------------------
(* publishMetrics and the Kafka writer.                                    *)

\* Mutant: the batch is not emptied.
flush_KeepsBatch(f, msgs) ==
  /\ batch' = [batch EXCEPT ![f] = msgs]
  /\ writer' = [writer EXCEPT ![f] = @ \union Range(msgs)]
  /\ UNCHANGED lost

\* flush: the asynchronous writer takes the whole batch, or refuses it and it
\* is dropped.
flush(f, msgs) ==
  /\ batch' = [batch EXCEPT ![f] = <<>>]
  /\ \/ /\ writer' = [writer EXCEPT ![f] = @ \union Range(msgs)]
        /\ UNCHANGED lost
     \/ /\ WriteFails /\ msgs # <<>>
        /\ lost' = lost \union Range(msgs)
        /\ UNCHANGED writer

\* Both messages of order o, the seq-th metric of the fleet.
MessagesOf(f, seq, o) ==
  <<[fleet |-> f, topic |-> "metrics", seq |-> seq, order |-> o],
    [fleet |-> f, topic |-> "replay", seq |-> seq, order |-> o]>>

Receive(f) ==
  /\ pub[f] = "on"
  /\ metricsCh[f] # <<>>
  /\ metricsCh' = [metricsCh EXCEPT ![f] = Tail(@)]
  /\ replaySeq' = [replaySeq EXCEPT ![f] = @ + 1]
  /\ LET msgs == batch[f] \o MessagesOf(f, replaySeq'[f], Head(metricsCh[f]))
     IN  IF Len(msgs) >= BatchCap
         THEN flush(f, msgs)
         ELSE /\ batch' = [batch EXCEPT ![f] = msgs]
              /\ UNCHANGED <<writer, lost>>
  /\ UNCHANGED <<server, phase, ctx, bot, issued, pub, kafka, sent, acked, status>>

\* The 5 ms ticker.
FlushTick(f) ==
  /\ pub[f] = "on"
  /\ batch[f] # <<>>
  /\ flush(f, batch[f])
  /\ UNCHANGED <<server, phase, ctx, bot, issued, metricsCh, pub, replaySeq, kafka, sent, acked, status>>

\* Mutant: the last batch is not flushed.
PubExit_NoFlush(f) ==
  /\ pub[f] = "on"
  /\ phase[f] = "closed"
  /\ metricsCh[f] = <<>>
  /\ pub' = [pub EXCEPT ![f] = "done"]
  /\ UNCHANGED <<server, phase, ctx, bot, issued, metricsCh, batch, replaySeq, writer, world, status>>

\* Mutant: the publisher ends with the context, not with the channel.
PubExit_OnCancel(f) ==
  /\ pub[f] = "on"
  /\ ctx[f] = "done"
  /\ flush(f, batch[f])
  /\ pub' = [pub EXCEPT ![f] = "done"]
  /\ UNCHANGED <<server, phase, ctx, bot, issued, metricsCh, replaySeq, kafka, sent, acked, status>>

\* The channel is closed and empty: the last flush.
PubExit(f) ==
  /\ pub[f] = "on"
  /\ phase[f] = "closed"
  /\ metricsCh[f] = <<>>
  /\ flush(f, batch[f])
  /\ pub' = [pub EXCEPT ![f] = "done"]
  /\ UNCHANGED <<server, phase, ctx, bot, issued, metricsCh, replaySeq, kafka, sent, acked, status>>

\* The writer's own goroutines write to the partitions, in any order between
\* partitions, and give up on a message after their retries.
WriteToKafka(f) ==
  /\ \E m \in writer[f] :
       /\ writer' = [writer EXCEPT ![f] = @ \ {m}]
       /\ \/ kafka' = kafka \union {m} /\ UNCHANGED lost
          \/ WriteFails /\ lost' = lost \union {m} /\ UNCHANGED kafka
  /\ UNCHANGED <<server, phase, ctx, bot, issued, metricsCh, pub, batch, replaySeq, sent, acked, status>>

-----------------------------------------------------------------------------

\* A signal: the servers are shut down and main returns with fleets running.
Exit ==
  /\ status' = "down"
  /\ UNCHANGED <<server, phase, ctx, bot, issued, metricsCh, pub, batch, replaySeq, writer, world>>

Init ==
  /\ fleets = {}
  /\ cfg = [f \in Fleets |-> Nobody]
  /\ phase = [f \in Fleets |-> "off"]
  /\ ctx = [f \in Fleets |-> "done"]
  /\ bot = [f \in Fleets |-> Nobody]
  /\ issued = [f \in Fleets |-> 0]
  /\ metricsCh = [f \in Fleets |-> <<>>]
  /\ pub = [f \in Fleets |-> "off"]
  /\ batch = [f \in Fleets |-> <<>>]
  /\ replaySeq = [f \in Fleets |-> 0]
  /\ writer = [f \in Fleets |-> {}]
  /\ kafka = {}
  /\ lost = {}
  /\ sent = [f \in Fleets |-> {}]
  /\ acked = [f \in Fleets |-> {}]
  /\ status = "up"

Run(f) == Start(f) \/ Expire(f) \/ CloseChannel(f) \/ CloseWriter(f) \/ Delist(f)
Publisher(f) == Receive(f) \/ FlushTick(f) \/ PubExit(f) \/ WriteToKafka(f)

Next ==
  /\ status = "up"
  /\ \/ \E f \in Fleets :
          \/ \E r \in Requests : SpawnFleet(f, r)
          \/ StopFleet(f)
          \/ Run(f)
          \/ \E b \in DOMAIN bot[f] : Bot(f, b)
          \/ Publisher(f)
     \/ Exit

Spec == Init /\ [][Next]_vars

\* A FIX bot that is dialling, sending, or about to log out: the write it does
\* has no deadline (fix_client.go:153).
MayBlock(f, b) ==
  \/ bot[f][b].pc = "dial"
  \/ bot[f][b].fix /\ bot[f][b].pc \in {"send", "select"}

\* Goroutines run, the duration timer fires, an order over REST is answered or
\* fails within the HTTP client's five seconds, the select takes ctx.Done() in
\* the end.  Nothing makes anyone spawn, stop or send, nor a contestant read
\* what a FIX bot writes.
BotIds == UNION {BotsOf(FleetMix(HandleSpawn(r))) : r \in Requests}
FairSpec ==
  /\ Spec
  /\ \A f \in Fleets :
       /\ WF_vars(status = "up" /\ Run(f))
       /\ WF_vars(status = "up" /\ Publisher(f))
       /\ \A b \in BotIds :
            WF_vars(status = "up" /\ b \in DOMAIN bot[f] /\ ~MayBlock(f, b) /\ BotRuns(f, b))

-----------------------------------------------------------------------------
(* Properties.                                                             *)

\* The variables have the types of the code's fields.
TypeOK ==
  /\ fleets \subseteq Fleets
  /\ \A f \in Fleets : cfg[f] = Nobody \/ cfg[f].Mix \in [Archetypes -> Nat]
  /\ phase \in [Fleets -> {"off", "start", "wait", "closed", "returned", "gone"}]
  /\ ctx \in [Fleets -> {"live", "done"}]
  /\ \A f \in Fleets : \A b \in DOMAIN bot[f] :
       bot[f][b] \in [pc : {"dial", "select", "ask", "send", "emit", "done"}, leg : {1, 2},
                      ord : 0 .. issued[f], fix : BOOLEAN]
  /\ issued \in [Fleets -> Nat]
  /\ \A f \in Fleets : Len(metricsCh[f]) <= ChanCap /\ Len(batch[f]) < BatchCap
  /\ pub \in [Fleets -> {"off", "on", "done"}]
  /\ replaySeq \in [Fleets -> Nat]
  /\ \A f \in Fleets : \A m \in writer[f] \union kafka \union lost : m \in Messages
  /\ status \in {"up", "down", "panic"}

\* Every answered order has exactly one metric, which is in one place only:
\* with its bot, in the channel, in the batch, in the writer, in Kafka or lost
\* by a failing write; and that for both topics.  Buffers are handed from one
\* goroutine to the next and the batch is reused (fleet.go:161-174, 204-207).
Copies(f, t, o) ==
  LET of(S) == Cardinality({m \in S : m.fleet = f /\ m.topic = t /\ m.order = o})
  IN  Cardinality({b \in DOMAIN bot[f] : bot[f][b].pc = "emit" /\ bot[f][b].ord = o})
      + Cardinality({i \in DOMAIN metricsCh[f] : metricsCh[f][i] = o})
      + Cardinality({i \in DOMAIN batch[f] : batch[f][i].topic = t /\ batch[f][i].order = o})
      + of(writer[f]) + of(kafka) + of(lost)
EachMetricInOnePlace ==
  \A f \in Fleets, t \in Topics :
    \A o \in 1 .. issued[f] : Copies(f, t, o) = IF o \in acked[f] THEN 1 ELSE 0

\* When Run has returned, the metrics of all answered orders are in both
\* topics, numbered 1, 2, 3, ... without a gap or a duplicate, except those a
\* failing write lost: close(metricsCh), <-pubDone and writer.Close happen in
\* that order (fleet.go:82, 103-107).
LogIsComplete ==
  \A f \in Fleets, t \in Topics :
    phase[f] \in {"returned", "gone"} =>
      LET log == {m \in kafka \union lost : m.fleet = f /\ m.topic = t}
      IN  /\ {m.seq : m \in log} = 1 .. Cardinality(acked[f])
          /\ {m.order : m \in log} = acked[f]
          /\ Cardinality(log) = Cardinality(acked[f])

\* No bot sends on the closed channel (fleet.go:103-105): the process never
\* panics.
NoSendOnClosed == status # "panic"

\* The fleets implement the abstract log: whatever the interleaving of bots,
\* publishers and writers, an order is numbered once, a message never changes
\* (the writer holds the batch's messages while the publisher reuses the slice,
\* fleet.go:161-165), is written or dropped once, and Run returns when all is
\* accounted for (fleet.go:82, 103-107).
Abstract == INSTANCE ReplayLog WITH
  Lossy <- WriteFails,
  answered <- acked,
  seq <- replaySeq,
  log <- kafka \union lost \union UNION {Range(batch[f]) \union writer[f] : f \in Fleets},
  ended <- {f \in Fleets : phase[f] \in {"returned", "gone"}}
FleetImplementsLog == Abstract!Spec

\* Every fleet ends and leaves the table unless a signal ends the process, with
\* bots waiting for room in a full channel when the context is done too: the
\* publisher drains the channel until it is closed, and no bot's send on the
\* closed channel ends the process before (fleet.go:97-106).  Only a FIX bot that
\* is left in a write for ever can hold it up.
FleetFinishes ==
  \A f \in Fleets :
    \/ phase[f] = "start" ~> phase[f] = "gone" \/ status = "down"
    \/ <>[](\E b \in DOMAIN bot[f] : MayBlock(f, b))

\* "Every order sent to a contestant engine is written to Kafka
\* bench.replay_log" (README.md:70).  An order that is not answered, or whose
\* answer is an error, is not (archetypes.go:44-46).
EveryOrderIsReplayed ==
  \A f \in Fleets :
    phase[f] = "gone" /\ lost = {} =>
      sent[f] \subseteq {m.order : m \in {x \in kafka : x.fleet = f /\ x.topic = "replay"}}

\* "TPS is per-fleet total (not per-bot)" (Makefile:156).  The code rounds a
\* share below one up to one order a second and bot (archetypes.go:343-348).
RateWithinTarget ==
  \A f \in Fleets : cfg[f] # Nobody => perBotTPS(cfg[f]) * totalBots(cfg[f].Mix) <= cfg[f].TargetTPS

\* "Archetype mix - must sum to bot_count" (proto/botfleet.proto:22).  The
\* default mix rounds every share down (server.go:85-92).
MixSumsToBotCount ==
  \A f \in Fleets : cfg[f] # Nobody => totalBots(cfg[f].Mix) = cfg[f].BotCount

=============================================================================
