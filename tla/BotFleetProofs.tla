----------------------------- MODULE BotFleetProofs -----------------------------
(***************************************************************************)
(* Proofs about the bot fleet, for any number of fleets, bots and orders   *)
(* and any capacities: no bot sends on the closed channel, every answered  *)
(* order's metric is in one place, and the log is complete when Run has    *)
(* returned.                                                               *)
(***************************************************************************)
EXTENDS BotFleet, FiniteSetTheorems, SequenceTheorems, TLAPS

BotState == [pc : {"dial", "select", "ask", "send", "emit", "done"}, leg : {1, 2}, ord : Nat, fix : BOOLEAN]

FleetTypes ==
  /\ DOMAIN cfg = Fleets
  /\ phase \in [Fleets -> {"off", "start", "wait", "closed", "returned", "gone"}]
  /\ pub \in [Fleets -> {"off", "on", "done"}]
  /\ DOMAIN bot = Fleets /\ \A f \in Fleets : \A b \in DOMAIN bot[f] : bot[f][b] \in BotState
  /\ issued \in [Fleets -> Nat] /\ replaySeq \in [Fleets -> Nat]
  /\ acked \in [Fleets -> SUBSET Nat]
  /\ metricsCh \in [Fleets -> Seq(Nat)]
  /\ batch \in [Fleets -> Seq(Messages)]
  /\ writer \in [Fleets -> SUBSET Messages] /\ kafka \subseteq Messages /\ lost \subseteq Messages

\* Bots run only between Start and CloseChannel; the publisher ends when the
\* channel is closed and drained, Run when the writer is empty.
Phases(f) ==
  /\ cfg[f] = Nobody => phase[f] = "off"
  /\ phase[f] \in {"off", "start"} => DOMAIN bot[f] = {} /\ pub[f] = "off"
  /\ phase[f] \in {"closed", "returned", "gone"} => BotsDone(f)
  /\ pub[f] = "done" => phase[f] \in {"closed", "returned", "gone"} /\ metricsCh[f] = <<>> /\ batch[f] = <<>>
  /\ phase[f] \in {"returned", "gone"} => pub[f] = "done" /\ writer[f] = {}

Busy(f) == {b \in DOMAIN bot[f] : bot[f][b].pc \in {"send", "emit"}}
Emitting(f) == {b \in DOMAIN bot[f] : bot[f][b].pc = "emit"}

\* A bot's order is its own, and answered exactly when it is emitted.
Pending(f) ==
  /\ acked[f] \subseteq 1 .. issued[f]
  /\ \A b \in Busy(f) : bot[f][b].ord \in 1 .. issued[f]
  /\ \A b, c \in Busy(f) : bot[f][b].ord = bot[f][c].ord => b = c
  /\ \A b \in Busy(f) : bot[f][b].ord \in acked[f] <=> b \in Emitting(f)

\* Orders in the channel are answered, there once and with no bot any more.
Queued(f) ==
  /\ \A i \in DOMAIN metricsCh[f] : metricsCh[f][i] \in acked[f]
  /\ \A i \in DOMAIN metricsCh[f] : \A b \in Emitting(f) : metricsCh[f][i] # bot[f][b].ord
  /\ \A i, j \in DOMAIN metricsCh[f] : metricsCh[f][i] = metricsCh[f][j] => i = j

\* The messages of a fleet and a topic, wherever they are.
Log(f, t) == {m \in Range(batch[f]) \union writer[f] \union kafka \union lost : m.fleet = f /\ m.topic = t}

\* They are those of answered orders that have left the channel, one each, and
\* are numbered 1 .. replaySeq.
Logged(f) ==
  \A t \in Topics :
    /\ \A m \in Log(f, t) :
         /\ m.order \in acked[f] /\ m.seq \in 1 .. replaySeq[f]
         /\ \A b \in Emitting(f) : m.order # bot[f][b].ord
         /\ \A i \in DOMAIN metricsCh[f] : m.order # metricsCh[f][i]
    /\ \A m, n \in Log(f, t) : m.order = n.order \/ m.seq = n.seq => m = n
    /\ \A s \in 1 .. replaySeq[f] : \E m \in Log(f, t) : m.seq = s

\* No answered order is forgotten.
Covered(f) ==
  \A o \in acked[f] :
    \/ \E b \in Emitting(f) : bot[f][b].ord = o
    \/ \E i \in DOMAIN metricsCh[f] : metricsCh[f][i] = o
    \/ \A t \in Topics : \E m \in Log(f, t) : m.order = o

\* A message is in one place.
Places(f) ==
  /\ \A i \in DOMAIN batch[f] : batch[f][i].fleet = f
  /\ \A m \in writer[f] : m.fleet = f
  /\ \A i, j \in DOMAIN batch[f] : batch[f][i] = batch[f][j] => i = j
  /\ \A i \in DOMAIN batch[f] : batch[f][i] \notin writer[f] \union kafka \union lost
  /\ \A m \in writer[f] : m \notin kafka \union lost

FleetInv(f) == Phases(f) /\ Pending(f) /\ Queued(f) /\ Logged(f) /\ Covered(f) /\ Places(f)

IInv ==
  /\ FleetTypes
  /\ kafka \intersect lost = {}
  /\ status # "panic"
  /\ \A f \in Fleets : FleetInv(f)

-----------------------------------------------------------------------------
(* Steps of one fleet leave the others alone                               *)

\* What a step of fleet f does not touch.
Local(f) ==
  /\ \A g \in Fleets \ {f} :
       /\ cfg'[g] = cfg[g] /\ phase'[g] = phase[g] /\ pub'[g] = pub[g]
       /\ bot'[g] = bot[g] /\ issued'[g] = issued[g] /\ acked'[g] = acked[g]
       /\ metricsCh'[g] = metricsCh[g] /\ replaySeq'[g] = replaySeq[g]
       /\ batch'[g] = batch[g] /\ writer'[g] = writer[g]
  /\ \A m \in Messages : m.fleet # f =>
       (m \in kafka' <=> m \in kafka) /\ (m \in lost' <=> m \in lost)

StepOK(f) ==
  /\ FleetTypes' /\ FleetInv(f)' /\ Local(f)
  /\ (kafka \intersect lost = {})' /\ status' # "panic"

\* Messages that stay with their fleet and topic, wherever they move.
LEMMA SameLog ==
  ASSUME FleetTypes, FleetTypes', NEW f \in Fleets, batch'[f] = batch[f], writer'[f] = writer[f],
         \A m \in Messages : m.fleet = f => (m \in kafka' <=> m \in kafka) /\ (m \in lost' <=> m \in lost)
  PROVE  \A t : Log(f, t)' = Log(f, t)
<1>1. \A m \in Range(batch[f]) \union writer[f] \union kafka \union lost : m \in Messages
  BY DEF FleetTypes, Range
<1>2. \A m \in kafka' \union lost' : m \in Messages
  BY DEF FleetTypes
<1>4. Range(batch[f])' = Range(batch[f])
  BY DEF Range
<1> QED BY <1>1, <1>2, <1>4 DEF Log

\* The other fleets' invariants stay.
LEMMA OtherFleet ==
  ASSUME IInv, NEW f \in Fleets, FleetTypes', Local(f), NEW g \in Fleets, g # f
  PROVE  FleetInv(g)'
<1>1. /\ cfg'[g] = cfg[g] /\ phase'[g] = phase[g] /\ pub'[g] = pub[g]
      /\ bot'[g] = bot[g] /\ issued'[g] = issued[g] /\ acked'[g] = acked[g]
      /\ metricsCh'[g] = metricsCh[g] /\ replaySeq'[g] = replaySeq[g]
      /\ batch'[g] = batch[g] /\ writer'[g] = writer[g]
  BY DEF Local
<1>2. \A m \in Messages : m.fleet = g => (m \in kafka' <=> m \in kafka) /\ (m \in lost' <=> m \in lost)
  BY DEF Local
<1>3. FleetInv(g) /\ FleetTypes
  BY DEF IInv
<1>4. \A t : Log(g, t)' = Log(g, t)
  BY <1>1, <1>2, <1>3, SameLog
<1>5. Phases(g)'
  BY <1>1, <1>3 DEF FleetInv, Phases, BotsDone
<1>6. Busy(g)' = Busy(g) /\ Emitting(g)' = Emitting(g)
  BY <1>1 DEF Busy, Emitting
<1>7. Pending(g)' /\ Queued(g)'
  BY <1>1, <1>3, <1>6 DEF FleetInv, Pending, Queued
<1>8. Logged(g)'
  BY <1>1, <1>3, <1>4, <1>6 DEF FleetInv, Logged
<1>9. Covered(g)'
  BY <1>1, <1>3, <1>4, <1>6 DEF FleetInv, Covered
<1>10. Places(g)'
  <2>1. /\ \A i \in DOMAIN batch[g] : batch[g][i] \in Messages /\ batch[g][i].fleet = g
        /\ \A m \in writer[g] : m \in Messages /\ m.fleet = g
    BY <1>3, SMTT(60) DEF FleetInv, Places, FleetTypes
  <2> QED BY <1>1, <1>2, <1>3, <2>1 DEF FleetInv, Places
<1> QED BY <1>5, <1>7, <1>8, <1>9, <1>10 DEF FleetInv

\* So a step that keeps the invariant of its own fleet keeps that of all.
LEMMA LocalStep ==
  ASSUME IInv, NEW f \in Fleets, StepOK(f)
  PROVE  IInv'
<1>1. \A g \in Fleets : FleetInv(g)'
  BY OtherFleet DEF StepOK
<1> QED BY <1>1 DEF IInv, StepOK

\* Steps that neither answer an order nor move one: bots at most give up an
\* unanswered order.
LEMMA QuietFleet ==
  ASSUME FleetTypes, NEW f \in Fleets, Pending(f), Queued(f), Logged(f), Covered(f),
         issued'[f] = issued[f], acked'[f] = acked[f],
         metricsCh'[f] = metricsCh[f], replaySeq'[f] = replaySeq[f],
         \A t \in Topics : Log(f, t)' = Log(f, t),
         Busy(f)' \subseteq Busy(f), Emitting(f)' = Emitting(f),
         \A b \in Busy(f)' : bot'[f][b].ord = bot[f][b].ord
  PROVE  Pending(f)' /\ Queued(f)' /\ Logged(f)' /\ Covered(f)'
<1>0. \A b \in Emitting(f) : b \in Busy(f)' /\ bot'[f][b].ord = bot[f][b].ord
  BY DEF Busy, Emitting
<1>1. Pending(f)'
  BY DEF Pending
<1>2. Queued(f)'
  BY <1>0 DEF Queued
<1>3. Logged(f)'
  BY <1>0 DEF Logged
<1>4. Covered(f)'
  BY <1>0 DEF Covered
<1> QED BY <1>1, <1>2, <1>3, <1>4

\* SetBot gives one bot a new state.
LEMMA SetBotStep ==
  ASSUME FleetTypes, NEW f \in Fleets, NEW b \in DOMAIN bot[f], NEW s \in BotState, SetBot(f, b, s)
  PROVE  /\ DOMAIN bot' = Fleets /\ \A g \in Fleets : g # f => bot'[g] = bot[g]
         /\ DOMAIN bot'[f] = DOMAIN bot[f] /\ bot'[f][b] = s
         /\ \A c \in DOMAIN bot[f] : c # b => bot'[f][c] = bot[f][c]
         /\ \A g \in Fleets : \A c \in DOMAIN bot'[g] : bot'[g][c] \in BotState
<1>1. /\ DOMAIN bot' = Fleets /\ \A g \in Fleets : g # f => bot'[g] = bot[g]
      /\ DOMAIN bot'[f] = DOMAIN bot[f] /\ bot'[f][b] = s
      /\ \A c \in DOMAIN bot[f] : c # b => bot'[f][c] = bot[f][c]
  BY DEF SetBot, FleetTypes
<1>2. \A g \in Fleets : \A c \in DOMAIN bot'[g] : bot'[g][c] \in BotState
  BY <1>1 DEF FleetTypes
<1> QED BY <1>1, <1>2

-----------------------------------------------------------------------------
(* The server and Run                                                      *)

\* No fleet has started at first.
LEMMA InitInv == Init => IInv
<1> SUFFICES ASSUME Init PROVE IInv
  OBVIOUS
<1>1. FleetTypes /\ kafka \intersect lost = {} /\ status # "panic"
  BY DEF Init, FleetTypes, Nobody
<1>2. ASSUME NEW f \in Fleets PROVE FleetInv(f)
  <2>1. /\ DOMAIN bot[f] = {} /\ metricsCh[f] = <<>> /\ batch[f] = <<>> /\ writer[f] = {} /\ kafka = {} /\ lost = {}
        /\ acked[f] = {} /\ replaySeq[f] = 0 /\ phase[f] = "off" /\ pub[f] = "off"
    BY DEF Init, Nobody
  <2>2. \A t : Log(f, t) = {}
    BY <2>1 DEF Log, Range
  <2>3. Phases(f) /\ Pending(f) /\ Queued(f) /\ Covered(f) /\ Places(f)
    BY <2>1 DEF Phases, Pending, Queued, Covered, Places, Busy, Emitting
  <2>4. Logged(f)
    BY <2>1, <2>2 DEF Logged
  <2> QED BY <2>3, <2>4 DEF FleetInv
<1> QED BY <1>1, <1>2 DEF IInv

\* Steps that leave the channel, the batch and the messages alone, and the bots
\* too.
LEMMA RunStep ==
  ASSUME IInv, status = "up", NEW f \in Fleets,
         UNCHANGED <<bot, issued, metricsCh, batch, replaySeq, writer, kafka, lost, acked, status, pub>>,
         DOMAIN cfg' = Fleets, phase' \in [Fleets -> {"off", "start", "wait", "closed", "returned", "gone"}],
         \A g \in Fleets \ {f} : cfg'[g] = cfg[g] /\ phase'[g] = phase[g],
         Phases(f)'
  PROVE  StepOK(f)
<1>1. FleetTypes /\ FleetInv(f)
  BY DEF IInv
<1>2. FleetTypes'
  BY <1>1 DEF FleetTypes
<1>3. Local(f)
  BY DEF Local
<1>4. \A t : Log(f, t)' = Log(f, t)
  BY <1>1, <1>2, SameLog
<1>5. Busy(f)' = Busy(f) /\ Emitting(f)' = Emitting(f)
  BY DEF Busy, Emitting
<1>6. Pending(f)' /\ Queued(f)' /\ Logged(f)' /\ Covered(f)'
  BY <1>1, <1>4, <1>5, QuietFleet DEF FleetInv
<1>7. Places(f)'
  BY <1>1 DEF FleetInv, Places
<1> QED BY <1>2, <1>3, <1>6, <1>7 DEF StepOK, FleetInv, IInv

\* A fleet is listed once, and its channel and batch are those of a new Run.
LEMMA SpawnStep ==
  ASSUME IInv, status = "up", NEW f \in Fleets, NEW r \in Requests, SpawnFleet(f, r)
  PROVE  StepOK(f)
<1>1. FleetTypes /\ Phases(f)
  BY DEF IInv, FleetInv
<1>2. cfg[f] = Nobody /\ phase[f] = "off" /\ DOMAIN bot[f] = {} /\ pub[f] = "off"
  BY <1>1 DEF SpawnFleet, Phases
<1>3. cfg'[f] # Nobody
  <2> DEFINE q == HandleSpawn(r)
             c == [q EXCEPT !.Mix = FleetMix(q)]
  <2>1. DOMAIN r = {"BotCount", "TargetTPS", "Mix", "FIX"}
    BY RequestsAssumption
  <2>2. DOMAIN q = DOMAIN r
    BY DEF HandleSpawn
  <2>3. DOMAIN c = DOMAIN q
    OBVIOUS
  <2>4. cfg'[f] = c
    BY <1>1 DEF SpawnFleet, FleetTypes
  <2> HIDE DEF q, c
  <2>5. DOMAIN Nobody = {}
    BY DEF Nobody
  <2> QED BY <2>1, <2>2, <2>3, <2>4, <2>5
<1>4. /\ DOMAIN cfg' = Fleets /\ phase' \in [Fleets -> {"off", "start", "wait", "closed", "returned", "gone"}]
      /\ \A g \in Fleets \ {f} : cfg'[g] = cfg[g] /\ phase'[g] = phase[g]
      /\ phase'[f] = "start"
      /\ UNCHANGED <<bot, issued, metricsCh, batch, replaySeq, writer, kafka, lost, acked, status, pub>>
  BY <1>1 DEF SpawnFleet, FleetTypes, world
<1>5. Phases(f)'
  BY <1>2, <1>3, <1>4 DEF Phases
<1> QED BY <1>4, <1>5, RunStep

\* StopFleet and the timer touch the context only; Run closes the channel when
\* the bots are done and returns when the writer is empty.
LEMMA RunSteps ==
  ASSUME IInv, status = "up", NEW f \in Fleets,
         StopFleet(f) \/ Expire(f) \/ CloseChannel(f) \/ CloseWriter(f) \/ Delist(f)
  PROVE  StepOK(f)
<1>1. FleetTypes /\ Phases(f)
  BY DEF IInv, FleetInv
<1>2. UNCHANGED <<cfg, bot, issued, metricsCh, batch, replaySeq, writer, kafka, lost, acked, status, pub>>
  BY DEF StopFleet, Expire, CloseChannel, CloseWriter, Delist, server, world
<1>3. /\ DOMAIN cfg' = Fleets /\ phase' \in [Fleets -> {"off", "start", "wait", "closed", "returned", "gone"}]
      /\ \A g \in Fleets \ {f} : cfg'[g] = cfg[g] /\ phase'[g] = phase[g]
  BY <1>1, <1>2 DEF FleetTypes, StopFleet, Expire, CloseChannel, CloseWriter, Delist
<1>4. Phases(f)'
  <2>1. CASE StopFleet(f) \/ Expire(f)
    BY <1>1, <1>2, <2>1 DEF StopFleet, Expire, Phases, BotsDone
  <2>2. CASE CloseChannel(f)
    <3>1. phase[f] = "wait" /\ BotsDone(f) /\ phase'[f] = "closed"
      BY <1>1, <2>2 DEF CloseChannel, FleetTypes
    <3> QED BY <1>1, <1>2, <3>1 DEF Phases, BotsDone
  <2>3. CASE CloseWriter(f)
    <3>1. phase[f] = "closed" /\ pub[f] = "done" /\ writer[f] = {} /\ phase'[f] = "returned"
      BY <1>1, <2>3 DEF CloseWriter, FleetTypes
    <3> QED BY <1>1, <1>2, <3>1 DEF Phases, BotsDone
  <2>4. CASE Delist(f)
    <3>1. phase[f] = "returned" /\ phase'[f] = "gone"
      BY <1>1, <2>4 DEF Delist, FleetTypes
    <3> QED BY <1>1, <1>2, <3>1 DEF Phases, BotsDone
  <2> QED BY <2>1, <2>2, <2>3, <2>4
<1> QED BY <1>2, <1>3, <1>4, RunStep

\* A new bot has no order.
LEMMA StartStep ==
  ASSUME IInv, status = "up", NEW f \in Fleets, Start(f)
  PROVE  StepOK(f)
<1>1. FleetTypes /\ FleetInv(f) /\ phase[f] = "start"
  BY DEF IInv, Start
<1>2. /\ UNCHANGED <<cfg, issued, metricsCh, batch, replaySeq, writer, kafka, lost, acked, status>>
      /\ phase' = [phase EXCEPT ![f] = "wait"] /\ bot' = [bot EXCEPT ![f] = spawnBots(f)]
      /\ pub' = [pub EXCEPT ![f] = "on"]
  BY DEF Start, server, world
<1>3. DOMAIN bot[f] = {} /\ pub[f] = "off"
  BY <1>1 DEF FleetInv, Phases
<1>4. \A b \in DOMAIN spawnBots(f) : spawnBots(f)[b] \in BotState /\ spawnBots(f)[b].pc \in {"dial", "select"}
  BY DEF spawnBots, BotState
<1>5. DOMAIN bot' = Fleets /\ bot'[f] = spawnBots(f) /\ \A g \in Fleets \ {f} : bot'[g] = bot[g]
  BY <1>1, <1>2 DEF FleetTypes
<1>6. FleetTypes'
  BY <1>1, <1>2, <1>4, <1>5 DEF FleetTypes
<1>7. Local(f)
  BY <1>1, <1>2, <1>5 DEF Local, FleetTypes
<1>8. \A t : Log(f, t)' = Log(f, t)
  BY <1>1, <1>2, <1>6, SameLog
<1>9. Busy(f)' = {} /\ Emitting(f)' = {} /\ Emitting(f) = {}
  BY <1>3, <1>4, <1>5 DEF Busy, Emitting
<1>10. Pending(f)' /\ Queued(f)' /\ Logged(f)' /\ Covered(f)'
  BY <1>1, <1>2, <1>8, <1>9, QuietFleet DEF FleetInv
<1>11. Phases(f)'
  <2>1. phase'[f] = "wait" /\ pub'[f] = "on"
    BY <1>1, <1>2 DEF FleetTypes
  <2> QED BY <1>1, <1>2, <2>1 DEF FleetInv, Phases
<1>12. Places(f)'
  BY <1>1, <1>2 DEF FleetInv, Places
<1> QED BY <1>2, <1>6, <1>7, <1>10, <1>11, <1>12 DEF StepOK, FleetInv, IInv

-----------------------------------------------------------------------------
(* The bots                                                                *)

\* What a bot's step keeps: the messages, and the phase of its Run.
LEMMA BotFrame ==
  ASSUME IInv, status = "up", NEW f \in Fleets, NEW b \in DOMAIN bot[f], NEW s \in BotState, SetBot(f, b, s),
         UNCHANGED <<cfg, phase, pub, batch, replaySeq, writer, kafka, lost, status>>,
         bot[f][b].pc # "done",
         issued' \in [Fleets -> Nat], acked' \in [Fleets -> SUBSET Nat], metricsCh' \in [Fleets -> Seq(Nat)],
         \A g \in Fleets \ {f} : issued'[g] = issued[g] /\ acked'[g] = acked[g] /\ metricsCh'[g] = metricsCh[g]
  PROVE  /\ FleetTypes' /\ Local(f) /\ Phases(f)' /\ Places(f)' /\ \A t : Log(f, t)' = Log(f, t)
         /\ DOMAIN bot'[f] = DOMAIN bot[f] /\ bot'[f][b] = s
         /\ \A c \in DOMAIN bot[f] : c # b => bot'[f][c] = bot[f][c]
<1>1. FleetTypes /\ FleetInv(f)
  BY DEF IInv
<1>2. /\ DOMAIN bot' = Fleets /\ \A g \in Fleets : g # f => bot'[g] = bot[g]
      /\ DOMAIN bot'[f] = DOMAIN bot[f] /\ bot'[f][b] = s
      /\ \A c \in DOMAIN bot[f] : c # b => bot'[f][c] = bot[f][c]
      /\ \A g \in Fleets : \A c \in DOMAIN bot'[g] : bot'[g][c] \in BotState
  BY <1>1, SetBotStep
<1>3. FleetTypes'
  BY <1>1, <1>2 DEF FleetTypes
<1>4. Local(f)
  BY <1>2 DEF Local
<1>5. phase[f] = "wait"
  <2>1. phase[f] \notin {"off", "start"}
    BY <1>1 DEF FleetInv, Phases
  <2>2. phase[f] \notin {"closed", "returned", "gone"}
    BY <1>1 DEF FleetInv, Phases, BotsDone
  <2> QED BY <1>1, <2>1, <2>2 DEF FleetTypes
<1>6. Phases(f)'
  BY <1>1, <1>5 DEF FleetInv, Phases
<1>7. Places(f)'
  BY <1>1 DEF FleetInv, Places
<1>8. \A t : Log(f, t)' = Log(f, t)
  BY <1>1, <1>3, SameLog
<1> QED BY <1>2, <1>3, <1>4, <1>6, <1>7, <1>8

\* A bot that dials, quits or gives up an unanswered order.
LEMMA QuietBot ==
  ASSUME IInv, status = "up", NEW f \in Fleets, NEW b \in DOMAIN bot[f], Dial(f, b) \/ Fail(f, b) \/ Quit(f, b)
  PROVE  StepOK(f)
<1>1. FleetTypes /\ FleetInv(f) /\ bot[f][b] \in BotState
  BY DEF IInv, FleetTypes
<1>2. /\ UNCHANGED <<cfg, phase, pub, batch, replaySeq, writer, kafka, lost, status, issued, acked, metricsCh>>
      /\ bot[f][b].pc \notin {"done", "emit"}
  BY DEF Dial, Fail, Quit, server, world
<1>3. PICK s \in BotState : SetBot(f, b, s) /\ s.pc \notin {"send", "emit"}
  <2>1. CASE Dial(f, b)
    <3>1. PICK ok \in BOOLEAN : SetBot(f, b, [bot[f][b] EXCEPT !.pc = "select", !.fix = ok])
      BY <2>1 DEF Dial
    <3>2. [bot[f][b] EXCEPT !.pc = "select", !.fix = ok] \in BotState
      BY <1>1 DEF BotState
    <3>3. [bot[f][b] EXCEPT !.pc = "select", !.fix = ok].pc = "select"
      BY <1>1 DEF BotState
    <3> QED BY <3>1, <3>2, <3>3
  <2>2. CASE Fail(f, b)
    <3>1. AfterOrder(b, bot[f][b]) \in BotState /\ AfterOrder(b, bot[f][b]).pc \in {"ask", "select"}
      BY <1>1 DEF BotState, AfterOrder
    <3> QED BY <2>2, <3>1 DEF Fail
  <2>3. CASE Quit(f, b)
    <3>1. [bot[f][b] EXCEPT !.pc = "done"] \in BotState /\ [bot[f][b] EXCEPT !.pc = "done"].pc = "done"
      BY <1>1 DEF BotState
    <3> QED BY <2>3, <3>1 DEF Quit
  <2> QED BY <2>1, <2>2, <2>3
<1>4. /\ FleetTypes' /\ Local(f) /\ Phases(f)' /\ Places(f)' /\ \A t : Log(f, t)' = Log(f, t)
      /\ DOMAIN bot'[f] = DOMAIN bot[f] /\ bot'[f][b] = s
      /\ \A c \in DOMAIN bot[f] : c # b => bot'[f][c] = bot[f][c]
  BY <1>1, <1>2, <1>3, BotFrame, ZenonT(60) DEF FleetTypes
<1>5. Emitting(f)' = Emitting(f)
  BY <1>2, <1>3, <1>4 DEF Emitting
<1>6. Busy(f)' \subseteq Busy(f) /\ \A c \in Busy(f)' : bot'[f][c].ord = bot[f][c].ord
  BY <1>3, <1>4 DEF Busy
<1>7. Pending(f)' /\ Queued(f)' /\ Logged(f)' /\ Covered(f)'
  BY <1>1, <1>2, <1>4, <1>5, <1>6, QuietFleet DEF FleetInv
<1> QED BY <1>2, <1>4, <1>7 DEF StepOK, FleetInv, IInv

\* A new order has a number no other order has.
LEMMA SendStep ==
  ASSUME IInv, status = "up", NEW f \in Fleets, NEW b \in DOMAIN bot[f], Tick(f, b) \/ Ask(f, b)
  PROVE  StepOK(f)
<1>1. FleetTypes /\ FleetInv(f) /\ bot[f][b] \in BotState /\ issued[f] \in Nat
  BY DEF IInv, FleetTypes
<1> DEFINE o == issued[f] + 1
           s == [bot[f][b] EXCEPT !.pc = "send", !.ord = o]
<1>2. /\ bot[f][b].pc \in {"select", "ask"} /\ issued' = [issued EXCEPT ![f] = o] /\ SetBot(f, b, s)
      /\ UNCHANGED <<cfg, phase, pub, batch, replaySeq, writer, kafka, lost, status, acked, metricsCh>>
  <2>1. bot[f][b].pc \in {"select", "ask"} /\ sendOrder(f, b)
    BY DEF Tick, Ask
  <2>2. issued' = [issued EXCEPT ![f] = o] /\ issued'[f] = o
    BY <1>1, <2>1 DEF sendOrder, FleetTypes
  <2>3. SetBot(f, b, s)
    BY <2>1, <2>2 DEF sendOrder
  <2> QED BY <2>1, <2>2, <2>3 DEF sendOrder, server, world
<1>3. s \in BotState /\ s.pc = "send" /\ s.ord = o
  <2>1. o \in Nat
    BY <1>1
  <2> HIDE DEF o
  <2> QED BY <1>1, <2>1 DEF BotState
<1>4. /\ issued' \in [Fleets -> Nat] /\ issued'[f] = o /\ o \in Nat /\ o > issued[f]
      /\ \A g \in Fleets \ {f} : issued'[g] = issued[g]
  BY <1>1, <1>2 DEF FleetTypes
<1> HIDE DEF s, o
<1>t. /\ issued' \in [Fleets -> Nat] /\ acked' \in [Fleets -> SUBSET Nat] /\ metricsCh' \in [Fleets -> Seq(Nat)]
      /\ \A g \in Fleets \ {f} : issued'[g] = issued[g] /\ acked'[g] = acked[g] /\ metricsCh'[g] = metricsCh[g]
      /\ bot[f][b].pc # "done"
  BY <1>1, <1>2, <1>4 DEF FleetTypes
<1>5. /\ FleetTypes' /\ Local(f) /\ Phases(f)' /\ Places(f)' /\ \A t : Log(f, t)' = Log(f, t)
      /\ DOMAIN bot'[f] = DOMAIN bot[f] /\ bot'[f][b] = s
      /\ \A c \in DOMAIN bot[f] : c # b => bot'[f][c] = bot[f][c]
  BY <1>2, <1>3, <1>t, BotFrame, ZenonT(60)
<1>6. Emitting(f)' = Emitting(f) /\ b \notin Emitting(f)
  BY <1>2, <1>3, <1>5 DEF Emitting
<1>7. /\ \A c \in Busy(f)' : c # b => c \in Busy(f) /\ bot'[f][c].ord = bot[f][c].ord
      /\ \A c \in Emitting(f) : bot'[f][c].ord = bot[f][c].ord
  BY <1>5, <1>6 DEF Busy, Emitting
<1>8. Pending(f)'
  <2>1. acked'[f] = acked[f] /\ acked[f] \subseteq 1 .. issued[f] /\ o \notin acked[f]
    BY <1>1, <1>2, <1>4 DEF FleetInv, Pending
  <2>2. \A c \in Busy(f) : bot[f][c].ord \in 1 .. issued[f] /\ bot[f][c].ord # o
    BY <1>1, <1>4 DEF FleetInv, Pending
  <2>3. \A k \in 1 .. issued[f] : k \in 1 .. o
    BY <1>1, <1>4
  <2>4. acked'[f] \subseteq 1 .. issued'[f]
    BY <1>4, <2>1, <2>3
  <2>5. \A c \in Busy(f)' : bot'[f][c].ord \in 1 .. issued'[f]
    <3>1. o \in 1 .. o
      BY <1>1, <1>4
    <3>2. bot'[f][b].ord = o
      BY <1>3, <1>5
    <3> QED BY <1>4, <1>7, <2>2, <2>3, <3>1, <3>2
  <2>6. \A c, d \in Busy(f)' : bot'[f][c].ord = bot'[f][d].ord => c = d
    BY <1>1, <1>3, <1>5, <1>7, <2>2 DEF FleetInv, Pending
  <2>7. \A c \in Busy(f)' : bot'[f][c].ord \in acked'[f] <=> c \in Emitting(f)'
    BY <1>1, <1>3, <1>5, <1>6, <1>7, <2>1 DEF FleetInv, Pending
  <2> QED BY <2>4, <2>5, <2>6, <2>7 DEF Pending
<1>9. Queued(f)'
  BY <1>1, <1>2, <1>6, <1>7 DEF FleetInv, Queued
<1>10. Logged(f)'
  BY <1>1, <1>2, <1>5, <1>6, <1>7 DEF FleetInv, Logged
<1>11. Covered(f)'
  BY <1>1, <1>2, <1>5, <1>6, <1>7 DEF FleetInv, Covered
<1> QED BY <1>2, <1>5, <1>8, <1>9, <1>10, <1>11 DEF StepOK, FleetInv, IInv

\* An answer makes an order, known to its bot only, one to emit.
LEMMA AnswerStep ==
  ASSUME IInv, status = "up", NEW f \in Fleets, NEW b \in DOMAIN bot[f], Answer(f, b)
  PROVE  StepOK(f)
<1>1. FleetTypes /\ FleetInv(f) /\ bot[f][b] \in BotState
  BY DEF IInv, FleetTypes
<1> DEFINE o == bot[f][b].ord
           s == [bot[f][b] EXCEPT !.pc = "emit"]
<1>2. /\ bot[f][b].pc = "send" /\ SetBot(f, b, s) /\ acked' = [acked EXCEPT ![f] = @ \union {o}]
      /\ UNCHANGED <<cfg, phase, pub, batch, replaySeq, writer, kafka, lost, status, issued, metricsCh>>
  BY DEF Answer, server
<1>3. s \in BotState /\ s.pc = "emit" /\ s.ord = o /\ o \in Nat
  BY <1>1 DEF BotState
<1>4. /\ acked' \in [Fleets -> SUBSET Nat] /\ acked'[f] = acked[f] \union {o}
      /\ \A g \in Fleets \ {f} : acked'[g] = acked[g]
  BY <1>1, <1>2, <1>3 DEF FleetTypes
<1>5. b \in Busy(f) /\ b \notin Emitting(f)
  BY <1>2 DEF Busy, Emitting
<1>6. o \in 1 .. issued[f] /\ o \notin acked[f]
  BY <1>1, <1>5 DEF FleetInv, Pending
<1>o. bot[f][b].ord = o
  OBVIOUS
<1> HIDE DEF s, o
<1>t. /\ issued' \in [Fleets -> Nat] /\ acked' \in [Fleets -> SUBSET Nat] /\ metricsCh' \in [Fleets -> Seq(Nat)]
      /\ \A g \in Fleets \ {f} : issued'[g] = issued[g] /\ acked'[g] = acked[g] /\ metricsCh'[g] = metricsCh[g]
      /\ bot[f][b].pc # "done"
  BY <1>1, <1>2, <1>4 DEF FleetTypes
<1>7. /\ FleetTypes' /\ Local(f) /\ Phases(f)' /\ Places(f)' /\ \A t : Log(f, t)' = Log(f, t)
      /\ DOMAIN bot'[f] = DOMAIN bot[f] /\ bot'[f][b] = s
      /\ \A c \in DOMAIN bot[f] : c # b => bot'[f][c] = bot[f][c]
  BY <1>2, <1>3, <1>t, BotFrame, ZenonT(60)
<1>8. /\ Emitting(f)' = Emitting(f) \union {b} /\ Busy(f)' = Busy(f)
      /\ \A c \in Busy(f) : bot'[f][c].ord = bot[f][c].ord
      /\ \A c \in Emitting(f) : c \in Busy(f)
  BY <1>2, <1>3, <1>o, <1>5, <1>7 DEF Busy, Emitting
<1>9. Pending(f)'
  <2>1. acked'[f] \subseteq 1 .. issued'[f]
    BY <1>1, <1>2, <1>4, <1>6 DEF FleetInv, Pending
  <2>2. \A c \in Busy(f)' : bot'[f][c].ord \in acked'[f] <=> c \in Emitting(f)'
    BY <1>1, <1>4, <1>o, <1>5, <1>8 DEF FleetInv, Pending
  <2> QED BY <1>1, <1>2, <1>8, <2>1, <2>2 DEF FleetInv, Pending
<1>10. Queued(f)'
  BY <1>1, <1>2, <1>4, <1>o, <1>5, <1>6, <1>8 DEF FleetInv, Queued
<1>11. Logged(f)'
  <2>1. SUFFICES ASSUME NEW t \in Topics
                 PROVE  /\ \A m \in Log(f, t)' :
                             /\ m.order \in acked'[f] /\ m.seq \in 1 .. replaySeq'[f]
                             /\ \A c \in Emitting(f)' : m.order # bot'[f][c].ord
                             /\ \A i \in DOMAIN metricsCh'[f] : m.order # metricsCh'[f][i]
                        /\ \A m, n \in Log(f, t)' : m.order = n.order \/ m.seq = n.seq => m = n
                        /\ \A k \in 1 .. replaySeq'[f] : \E m \in Log(f, t)' : m.seq = k
    BY DEF Logged
  <2>2. /\ \A m \in Log(f, t) :
             /\ m.order \in acked[f] /\ m.seq \in 1 .. replaySeq[f]
             /\ \A c \in Emitting(f) : m.order # bot[f][c].ord
             /\ \A i \in DOMAIN metricsCh[f] : m.order # metricsCh[f][i]
        /\ \A m, n \in Log(f, t) : m.order = n.order \/ m.seq = n.seq => m = n
        /\ \A k \in 1 .. replaySeq[f] : \E m \in Log(f, t) : m.seq = k
    BY <1>1 DEF FleetInv, Logged
  <2> QED BY <1>2, <1>4, <1>o, <1>5, <1>6, <1>7, <1>8, <2>2
<1>12. Covered(f)'
  BY <1>1, <1>2, <1>4, <1>o, <1>5, <1>7, <1>8 DEF FleetInv, Covered
<1> QED BY <1>2, <1>7, <1>9, <1>10, <1>11, <1>12 DEF StepOK, FleetInv, IInv

\* The channel is open when a bot emits: the order goes from the bot to it.
LEMMA EmitStep ==
  ASSUME IInv, status = "up", NEW f \in Fleets, NEW b \in DOMAIN bot[f], Emit(f, b)
  PROVE  StepOK(f)
<1>1. FleetTypes /\ FleetInv(f) /\ bot[f][b] \in BotState /\ bot[f][b].pc = "emit" /\ metricsCh[f] \in Seq(Nat)
  BY DEF IInv, FleetTypes, Emit
<1>2. phase[f] = "wait"
  <2>1. phase[f] \notin {"off", "start"}
    BY <1>1 DEF FleetInv, Phases
  <2>2. phase[f] \notin {"closed", "returned", "gone"}
    BY <1>1 DEF FleetInv, Phases, BotsDone
  <2> QED BY <1>1, <2>1, <2>2 DEF FleetTypes
<1> DEFINE o == bot[f][b].ord
           s == AfterOrder(b, bot[f][b])
<1>3. /\ SetBot(f, b, s) /\ metricsCh' = [metricsCh EXCEPT ![f] = Append(@, o)]
      /\ UNCHANGED <<cfg, phase, pub, batch, replaySeq, writer, kafka, lost, status, issued, acked>>
  BY <1>2 DEF Emit, server, world
<1>4. s \in BotState /\ s.pc \in {"ask", "select"} /\ o \in Nat
  BY <1>1 DEF BotState, AfterOrder
<1>5. /\ metricsCh' \in [Fleets -> Seq(Nat)] /\ metricsCh'[f] = Append(metricsCh[f], o)
      /\ \A g \in Fleets \ {f} : metricsCh'[g] = metricsCh[g]
  BY <1>1, <1>3, <1>4 DEF FleetTypes
<1>o. bot[f][b].ord = o
  OBVIOUS
<1> HIDE DEF s, o
<1>6. /\ Len(metricsCh'[f]) = Len(metricsCh[f]) + 1 /\ metricsCh'[f][Len(metricsCh[f]) + 1] = o
      /\ Len(metricsCh[f]) + 1 \in DOMAIN metricsCh'[f]
      /\ \A i \in DOMAIN metricsCh[f] : i \in DOMAIN metricsCh'[f] /\ metricsCh'[f][i] = metricsCh[f][i]
      /\ \A i \in DOMAIN metricsCh'[f] : i = Len(metricsCh[f]) + 1 \/ i \in DOMAIN metricsCh[f]
  BY <1>1, <1>4, <1>5, SMTT(60)
<1>t. /\ issued' \in [Fleets -> Nat] /\ acked' \in [Fleets -> SUBSET Nat] /\ metricsCh' \in [Fleets -> Seq(Nat)]
      /\ \A g \in Fleets \ {f} : issued'[g] = issued[g] /\ acked'[g] = acked[g] /\ metricsCh'[g] = metricsCh[g]
      /\ bot[f][b].pc # "done"
  BY <1>1, <1>3, <1>5 DEF FleetTypes
<1>7. /\ FleetTypes' /\ Local(f) /\ Phases(f)' /\ Places(f)' /\ \A t : Log(f, t)' = Log(f, t)
      /\ DOMAIN bot'[f] = DOMAIN bot[f] /\ bot'[f][b] = s
      /\ \A c \in DOMAIN bot[f] : c # b => bot'[f][c] = bot[f][c]
  BY <1>3, <1>4, <1>t, BotFrame
<1>8. /\ Emitting(f)' = Emitting(f) \ {b} /\ Busy(f)' = Busy(f) \ {b} /\ b \in Emitting(f) /\ b \in Busy(f)
      /\ \A c \in Busy(f)' : bot'[f][c].ord = bot[f][c].ord
      /\ \A c \in Emitting(f) : c \in Busy(f)
  BY <1>1, <1>4, <1>7 DEF Busy, Emitting
<1>9. /\ o \in acked[f] /\ \A c \in Busy(f)' : bot'[f][c].ord # o
      /\ \A c \in Emitting(f)' : c \in Emitting(f) /\ bot'[f][c].ord = bot[f][c].ord /\ bot'[f][c].ord # o
  BY <1>1, <1>o, <1>8 DEF FleetInv, Pending
<1>10. Pending(f)'
  BY <1>1, <1>3, <1>8, <1>9 DEF FleetInv, Pending
<1>11. Queued(f)'
  <2>1. \A i \in DOMAIN metricsCh[f] : metricsCh[f][i] # o
    BY <1>1, <1>o, <1>8 DEF FleetInv, Queued
  <2> QED BY <1>1, <1>3, <1>6, <1>9, <2>1 DEF FleetInv, Queued
<1>12. Logged(f)'
  <2>1. SUFFICES ASSUME NEW t \in Topics
                 PROVE  /\ \A m \in Log(f, t)' :
                             /\ m.order \in acked'[f] /\ m.seq \in 1 .. replaySeq'[f]
                             /\ \A c \in Emitting(f)' : m.order # bot'[f][c].ord
                             /\ \A i \in DOMAIN metricsCh'[f] : m.order # metricsCh'[f][i]
                        /\ \A m, n \in Log(f, t)' : m.order = n.order \/ m.seq = n.seq => m = n
                        /\ \A k \in 1 .. replaySeq'[f] : \E m \in Log(f, t)' : m.seq = k
    BY DEF Logged
  <2>2. /\ \A m \in Log(f, t) :
             /\ m.order \in acked[f] /\ m.seq \in 1 .. replaySeq[f]
             /\ \A c \in Emitting(f) : m.order # bot[f][c].ord
             /\ \A i \in DOMAIN metricsCh[f] : m.order # metricsCh[f][i]
        /\ \A m, n \in Log(f, t) : m.order = n.order \/ m.seq = n.seq => m = n
        /\ \A k \in 1 .. replaySeq[f] : \E m \in Log(f, t) : m.seq = k
    BY <1>1 DEF FleetInv, Logged
  <2>3. \A m \in Log(f, t) : m.order # o
    BY <1>o, <1>8, <2>2
  <2> QED BY <1>3, <1>6, <1>7, <1>9, <2>2, <2>3
<1>13. Covered(f)'
  <2>1. SUFFICES ASSUME NEW p \in acked[f]
                 PROVE  \/ \E c \in Emitting(f)' : bot'[f][c].ord = p
                        \/ \E i \in DOMAIN metricsCh'[f] : metricsCh'[f][i] = p
                        \/ \A t \in Topics : \E m \in Log(f, t)' : m.order = p
    BY <1>3 DEF Covered
  <2>2. \/ \E c \in Emitting(f) : bot[f][c].ord = p
        \/ \E i \in DOMAIN metricsCh[f] : metricsCh[f][i] = p
        \/ \A t \in Topics : \E m \in Log(f, t) : m.order = p
    BY <1>1 DEF FleetInv, Covered
  <2> QED BY <1>o, <1>6, <1>7, <1>8, <2>2
<1> QED BY <1>3, <1>7, <1>10, <1>11, <1>12, <1>13 DEF StepOK, FleetInv, IInv

-----------------------------------------------------------------------------
(* The publisher and the Kafka writer                                      *)

\* All messages of a fleet's own, and those written or lost of any fleet.
Held(f) == Range(batch[f]) \union writer[f] \union kafka \union lost

\* The batch becomes msgs, or the writer takes it, or it is lost: in every case
\* each message stays in one place.
LEMMA BatchStep ==
  ASSUME FleetTypes, kafka \intersect lost = {}, NEW f \in Fleets, Places(f), NEW msgs \in Seq(Messages),
         \A i \in DOMAIN msgs : msgs[i].fleet = f /\ msgs[i] \notin writer[f] \union kafka \union lost,
         \A i, j \in DOMAIN msgs : msgs[i] = msgs[j] => i = j,
         flush(f, msgs) \/ (batch' = [batch EXCEPT ![f] = msgs] /\ UNCHANGED <<writer, lost>>),
         UNCHANGED kafka
  PROVE  /\ batch' \in [Fleets -> Seq(Messages)] /\ writer' \in [Fleets -> SUBSET Messages] /\ lost' \subseteq Messages
         /\ \A g \in Fleets \ {f} : batch'[g] = batch[g] /\ writer'[g] = writer[g]
         /\ \A m \in Messages : m.fleet # f => (m \in lost' <=> m \in lost)
         /\ Places(f)' /\ (kafka \intersect lost = {})'
         /\ Held(f)' = Range(msgs) \union writer[f] \union kafka \union lost
<1>1. \A m \in Range(msgs) : m \in Messages /\ m.fleet = f /\ m \notin writer[f] \union kafka \union lost
  BY DEF Range
<1>2. CASE batch' = [batch EXCEPT ![f] = msgs] /\ UNCHANGED <<writer, lost>>
  <2>1. batch'[f] = msgs /\ writer'[f] = writer[f]
    BY <1>2 DEF FleetTypes
  <2>2. Places(f)'
    BY <1>2, <2>1 DEF Places
  <2>3. Held(f)' = Range(msgs) \union writer[f] \union kafka \union lost
    BY <1>2, <2>1 DEF Held
  <2> QED BY <1>2, <2>2, <2>3 DEF FleetTypes
<1>3. CASE flush(f, msgs)
  <2>1. batch' = [batch EXCEPT ![f] = <<>>] /\ batch'[f] = <<>>
    BY <1>3 DEF flush, FleetTypes
  <2>2. Range(batch'[f]) = {}
    BY <2>1 DEF Range
  <2>3. CASE writer' = [writer EXCEPT ![f] = @ \union Range(msgs)] /\ UNCHANGED lost
    <3>1. writer'[f] = writer[f] \union Range(msgs) /\ writer' \in [Fleets -> SUBSET Messages]
      BY <1>1, <2>3 DEF FleetTypes
    <3>2. Places(f)'
      BY <1>1, <2>1, <2>3, <3>1 DEF Places
    <3>3. Held(f)' = Range(msgs) \union writer[f] \union kafka \union lost
      BY <2>2, <2>3, <3>1 DEF Held
    <3>4. /\ batch' \in [Fleets -> Seq(Messages)] /\ lost' \subseteq Messages
          /\ \A g \in Fleets \ {f} : batch'[g] = batch[g] /\ writer'[g] = writer[g]
      BY <2>1, <2>3 DEF FleetTypes
    <3> QED BY <2>3, <3>1, <3>2, <3>3, <3>4
  <2>4. CASE lost' = lost \union Range(msgs) /\ UNCHANGED writer
    <3>1. Places(f)'
      BY <1>1, <2>1, <2>4 DEF Places
    <3>2. Held(f)' = Range(msgs) \union writer[f] \union kafka \union lost
      BY <2>2, <2>4 DEF Held
    <3>3. /\ batch' \in [Fleets -> Seq(Messages)] /\ lost' \subseteq Messages
          /\ writer' \in [Fleets -> SUBSET Messages]
          /\ \A g \in Fleets \ {f} : batch'[g] = batch[g] /\ writer'[g] = writer[g]
      BY <1>1, <2>1, <2>4 DEF FleetTypes
    <3>4. \A m \in Messages : m.fleet # f => (m \in lost' <=> m \in lost)
      BY <1>1, <2>4
    <3>5. (kafka \intersect lost = {})'
      BY <1>1, <2>4
    <3> QED BY <3>1, <3>2, <3>3, <3>4, <3>5
  <2> QED BY <1>3, <2>3, <2>4 DEF flush
<1> QED BY <1>2, <1>3

\* A flush moves the whole batch.
LEMMA FlushStep ==
  ASSUME IInv, status = "up", NEW f \in Fleets, FlushTick(f) \/ PubExit(f)
  PROVE  StepOK(f)
<1>1. FleetTypes /\ FleetInv(f) /\ kafka \intersect lost = {} /\ batch[f] \in Seq(Messages)
  BY DEF IInv, FleetTypes
<1>2. /\ flush(f, batch[f])
      /\ UNCHANGED <<cfg, phase, bot, issued, metricsCh, replaySeq, kafka, acked, status>>
      /\ pub[f] = "on" /\ pub' \in [Fleets -> {"off", "on", "done"}]
      /\ \A g \in Fleets \ {f} : pub'[g] = pub[g]
      /\ pub'[f] = "on" \/ (pub'[f] = "done" /\ phase[f] = "closed" /\ metricsCh[f] = <<>>)
  BY <1>1 DEF FlushTick, PubExit, server, FleetTypes
<1>3. /\ \A i \in DOMAIN batch[f] : batch[f][i].fleet = f /\ batch[f][i] \notin writer[f] \union kafka \union lost
      /\ \A i, j \in DOMAIN batch[f] : batch[f][i] = batch[f][j] => i = j
  BY <1>1 DEF FleetInv, Places
<1>4. /\ batch' \in [Fleets -> Seq(Messages)] /\ writer' \in [Fleets -> SUBSET Messages] /\ lost' \subseteq Messages
      /\ \A g \in Fleets \ {f} : batch'[g] = batch[g] /\ writer'[g] = writer[g]
      /\ \A m \in Messages : m.fleet # f => (m \in lost' <=> m \in lost)
      /\ Places(f)' /\ (kafka \intersect lost = {})'
      /\ Held(f)' = Held(f)
  <2>1. Places(f)
    BY <1>1 DEF FleetInv
  <2> QED BY <1>1, <1>2, <1>3, <2>1, BatchStep DEF Held
<1>5. FleetTypes'
  BY <1>1, <1>2, <1>4 DEF FleetTypes
<1>6. Local(f)
  BY <1>2, <1>4 DEF Local
<1>7. \A t : Log(f, t)' = Log(f, t)
  BY <1>4 DEF Log, Held
<1>8. Busy(f)' = Busy(f) /\ Emitting(f)' = Emitting(f)
  BY <1>2 DEF Busy, Emitting
<1>9. Pending(f)' /\ Queued(f)' /\ Logged(f)' /\ Covered(f)'
  BY <1>1, <1>2, <1>7, <1>8, QuietFleet DEF FleetInv
<1>10. Phases(f)'
  <2>1. batch'[f] = <<>>
    BY <1>1, <1>2 DEF flush, FleetTypes
  <2>2. phase[f] \notin {"returned", "gone"} /\ phase[f] \notin {"off", "start"}
    BY <1>1, <1>2 DEF FleetInv, Phases
  <2> QED BY <1>1, <1>2, <2>1, <2>2 DEF FleetInv, Phases, BotsDone
<1> QED BY <1>2, <1>4, <1>5, <1>6, <1>9, <1>10 DEF StepOK, FleetInv, IInv

\* A message leaves the writer for its topic, or is lost.
LEMMA KafkaStep ==
  ASSUME IInv, status = "up", NEW f \in Fleets, WriteToKafka(f)
  PROVE  StepOK(f)
<1>1. FleetTypes /\ FleetInv(f) /\ kafka \intersect lost = {}
  BY DEF IInv
<1>2. PICK m \in writer[f] :
        /\ writer' = [writer EXCEPT ![f] = @ \ {m}]
        /\ \/ kafka' = kafka \union {m} /\ UNCHANGED lost
           \/ lost' = lost \union {m} /\ UNCHANGED kafka
  BY DEF WriteToKafka
<1>3. UNCHANGED <<cfg, phase, bot, issued, metricsCh, pub, batch, replaySeq, acked, status>>
  BY DEF WriteToKafka, server
<1>4. m \in Messages /\ m.fleet = f /\ m \notin kafka \union lost /\ \A i \in DOMAIN batch[f] : batch[f][i] # m
  BY <1>1 DEF FleetTypes, FleetInv, Places
<1>5. writer'[f] = writer[f] \ {m} /\ \A g \in Fleets \ {f} : writer'[g] = writer[g]
  BY <1>1, <1>2 DEF FleetTypes
<1>6. FleetTypes'
  BY <1>1, <1>2, <1>3, <1>4 DEF FleetTypes
<1>7. Local(f)
  BY <1>2, <1>3, <1>4, <1>5 DEF Local
<1>8. (kafka \intersect lost = {})'
  BY <1>1, <1>2, <1>4
<1>9. Places(f)'
  BY <1>1, <1>2, <1>3, <1>4, <1>5 DEF FleetInv, Places
<1>10. \A t : Log(f, t)' = Log(f, t)
  <2>1. Range(batch'[f]) = Range(batch[f])
    BY <1>3
  <2> QED BY <1>2, <1>5, <2>1 DEF Log
<1>11. Busy(f)' = Busy(f) /\ Emitting(f)' = Emitting(f)
  BY <1>3 DEF Busy, Emitting
<1>12. Pending(f)' /\ Queued(f)' /\ Logged(f)' /\ Covered(f)'
  BY <1>1, <1>3, <1>10, <1>11, QuietFleet DEF FleetInv
<1>13. Phases(f)'
  BY <1>1, <1>3, <1>4, <1>5 DEF FleetInv, Phases, BotsDone
<1> QED BY <1>3, <1>6, <1>7, <1>8, <1>9, <1>12, <1>13 DEF StepOK, FleetInv, IInv

\* The order at the head of the channel gets the next number, and a message in
\* either topic.
LEMMA ReceiveStep ==
  ASSUME IInv, status = "up", NEW f \in Fleets, Receive(f)
  PROVE  StepOK(f)
<1>1. /\ FleetTypes /\ FleetInv(f) /\ kafka \intersect lost = {} /\ batch[f] \in Seq(Messages)
      /\ metricsCh[f] \in Seq(Nat) /\ metricsCh[f] # <<>> /\ replaySeq[f] \in Nat
  BY DEF IInv, FleetTypes, Receive
<1> DEFINE o == Head(metricsCh[f])
           q == replaySeq[f] + 1
           z(t) == [fleet |-> f, topic |-> t, seq |-> q, order |-> o]
           msgs == batch[f] \o <<z("metrics"), z("replay")>>
<1>2. /\ pub[f] = "on" /\ metricsCh' = [metricsCh EXCEPT ![f] = Tail(@)] /\ replaySeq' = [replaySeq EXCEPT ![f] = q]
      /\ flush(f, msgs) \/ (batch' = [batch EXCEPT ![f] = msgs] /\ UNCHANGED <<writer, lost>>)
      /\ UNCHANGED <<cfg, phase, bot, issued, pub, kafka, acked, status>>
  <2>1. replaySeq' = [replaySeq EXCEPT ![f] = q] /\ replaySeq'[f] = q
    BY <1>1 DEF Receive, FleetTypes
  <2>2. batch[f] \o MessagesOf(f, replaySeq'[f], Head(metricsCh[f])) = msgs
    BY <2>1 DEF MessagesOf
  <2>3. flush(f, msgs) \/ (batch' = [batch EXCEPT ![f] = msgs] /\ UNCHANGED <<writer, lost>>)
    <3> HIDE DEF msgs
    <3> QED BY <2>2 DEF Receive
  <2> QED BY <2>1, <2>3 DEF Receive, server
<1>3. /\ o \in Nat /\ q \in Nat /\ q > replaySeq[f] /\ q \in 1 .. q /\ 1 \in DOMAIN metricsCh[f] /\ metricsCh[f][1] = o
      /\ \A k \in 1 .. q : k = q \/ k \in 1 .. replaySeq[f]
      /\ \A k \in 1 .. replaySeq[f] : k \in 1 .. q /\ k # q
  BY <1>1
<1>4. /\ metricsCh' \in [Fleets -> Seq(Nat)] /\ metricsCh'[f] = Tail(metricsCh[f])
      /\ replaySeq' \in [Fleets -> Nat] /\ replaySeq'[f] = q
      /\ \A g \in Fleets \ {f} : metricsCh'[g] = metricsCh[g] /\ replaySeq'[g] = replaySeq[g]
  BY <1>1, <1>2, <1>3 DEF FleetTypes
<1>5. \A i \in DOMAIN metricsCh[f] : i = 1 \/ \E j \in DOMAIN metricsCh'[f] : j + 1 = i
  <2>1. SUFFICES ASSUME NEW i \in DOMAIN metricsCh[f], i # 1 PROVE i - 1 \in DOMAIN metricsCh'[f] /\ (i - 1) + 1 = i
    BY <1>1
  <2> QED BY <1>1, <1>4, <2>1, SMTT(60)
<1>6. \A j \in DOMAIN metricsCh'[f] : j \in Nat /\ j + 1 \in DOMAIN metricsCh[f] /\ j + 1 # 1 /\ metricsCh'[f][j] = metricsCh[f][j + 1]
  <2> DEFINE c == metricsCh[f]
             d == metricsCh'[f]
  <2>1. c \in Seq(Nat) /\ c # <<>> /\ d = Tail(c)
    BY <1>1, <1>4
  <2> HIDE DEF c, d
  <2>2. /\ Len(c) \in Nat /\ DOMAIN c = 1 .. Len(c) /\ d \in Seq(Nat) /\ Len(d) = Len(c) - 1 /\ DOMAIN d = 1 .. Len(d)
        /\ \A j \in 1 .. Len(d) : d[j] = c[j + 1]
    BY <2>1, HeadTailProperties
  <2>3. \A j \in DOMAIN d : j \in Nat /\ j + 1 \in DOMAIN c /\ j + 1 # 1 /\ d[j] = c[j + 1]
    BY <2>2
  <2> QED BY <2>3 DEF c, d
<1>7. \A t : z(t).fleet = f /\ z(t).topic = t /\ z(t).seq = q /\ z(t).order = o
  OBVIOUS
<1>8. \A t \in Topics : z(t) \in Messages
  BY <1>3 DEF Messages
<1>9. /\ msgs \in Seq(Messages) /\ Len(msgs) = Len(batch[f]) + 2 /\ Len(batch[f]) \in Nat
      /\ DOMAIN msgs = 1 .. Len(batch[f]) + 2 /\ DOMAIN batch[f] = 1 .. Len(batch[f])
      /\ \A i \in 1 .. Len(batch[f]) : msgs[i] = batch[f][i]
      /\ msgs[Len(batch[f]) + 1] = z("metrics") /\ msgs[Len(batch[f]) + 2] = z("replay")
  <2>1. z("metrics") \in Messages /\ z("replay") \in Messages
    BY <1>8 DEF Topics
  <2> HIDE DEF z
  <2> DEFINE n == <<z("metrics"), z("replay")>>
  <2>2. n \in Seq(Messages) /\ Len(n) = 2 /\ n[1] = z("metrics") /\ n[2] = z("replay")
    BY <2>1
  <2> HIDE DEF n
  <2>3. /\ batch[f] \o n \in Seq(Messages) /\ Len(batch[f] \o n) = Len(batch[f]) + 2 /\ Len(batch[f]) \in Nat
        /\ \A i \in 1 .. Len(batch[f]) + 2 : (batch[f] \o n)[i] = IF i <= Len(batch[f]) THEN batch[f][i] ELSE n[i - Len(batch[f])]
    <3> DEFINE p == batch[f]
    <3>1. p \in Seq(Messages)
      BY <1>1
    <3> HIDE DEF p
    <3>2. /\ p \o n \in Seq(Messages) /\ Len(p \o n) = Len(p) + Len(n) /\ Len(p) \in Nat
          /\ \A i \in 1 .. Len(p) + Len(n) : (p \o n)[i] = IF i <= Len(p) THEN p[i] ELSE n[i - Len(p)]
      <4>1. n \in Seq(Messages)
        BY <2>2
      <4>2. Len(p) \in Nat
        BY <3>1, LenProperties
      <4> QED BY <3>1, <4>1, <4>2, ConcatProperties
    <3> QED BY <2>2, <3>2 DEF p
  <2>4. msgs = batch[f] \o n
    BY DEF n
  <2> HIDE DEF msgs
  <2>5. /\ Len(batch[f]) + 1 \in 1 .. Len(batch[f]) + 2 /\ Len(batch[f]) + 2 \in 1 .. Len(batch[f]) + 2
        /\ (Len(batch[f]) + 1) - Len(batch[f]) = 1 /\ (Len(batch[f]) + 2) - Len(batch[f]) = 2
        /\ ~(Len(batch[f]) + 1 <= Len(batch[f])) /\ ~(Len(batch[f]) + 2 <= Len(batch[f]))
    BY <2>3
  <2>6. msgs[Len(batch[f]) + 1] = z("metrics") /\ msgs[Len(batch[f]) + 2] = z("replay")
    BY <2>2, <2>3, <2>4, <2>5
  <2>7. \A i \in 1 .. Len(batch[f]) : msgs[i] = batch[f][i]
    BY <2>3, <2>4
  <2> QED BY <1>1, <2>3, <2>4, <2>6, <2>7
<1> HIDE DEF o, q, z, msgs
<1>10. \A i \in DOMAIN msgs : i \in DOMAIN batch[f] \/ i = Len(batch[f]) + 1 \/ i = Len(batch[f]) + 2
  BY <1>9
<1>11. \A t \in Topics : z(t) \notin Held(f)
  <2>1. \A t \in Topics : \A m \in Log(f, t) : m.seq # q
    BY <1>1, <1>3 DEF FleetInv, Logged
  <2> QED BY <1>7, <2>1 DEF Log, Held
<1>12. Range(msgs) = Range(batch[f]) \union {z("metrics"), z("replay")}
  <2>1. \A i \in DOMAIN batch[f] : i \in DOMAIN msgs
    BY <1>9
  <2>2. Len(batch[f]) + 1 \in DOMAIN msgs /\ Len(batch[f]) + 2 \in DOMAIN msgs
    BY <1>9
  <2> QED BY <1>9, <1>10, <2>1, <2>2 DEF Range
<1>13. \A i \in DOMAIN msgs : msgs[i].fleet = f /\ msgs[i] \notin writer[f] \union kafka \union lost
  <2>1. \A i \in DOMAIN batch[f] : msgs[i] = batch[f][i] /\ msgs[i].fleet = f /\ msgs[i] \notin writer[f] \union kafka \union lost
    BY <1>1, <1>9 DEF FleetInv, Places
  <2>2. \A t \in Topics : z(t).fleet = f /\ z(t) \notin writer[f] \union kafka \union lost
    BY <1>7, <1>11 DEF Held
  <2> QED BY <1>9, <1>10, <2>1, <2>2 DEF Topics
<1>14. \A i, j \in DOMAIN msgs : msgs[i] = msgs[j] => i = j
  <2>1. \A i \in DOMAIN batch[f] : msgs[i] # z("metrics") /\ msgs[i] # z("replay")
    BY <1>9, <1>11 DEF Held, Range, Topics
  <2>2. z("metrics") # z("replay")
    BY <1>7
  <2>3. \A i, j \in DOMAIN batch[f] : msgs[i] = msgs[j] => i = j
    BY <1>1, <1>9 DEF FleetInv, Places
  <2> QED BY <1>9, <1>10, <2>1, <2>2, <2>3
<1>15. /\ batch' \in [Fleets -> Seq(Messages)] /\ writer' \in [Fleets -> SUBSET Messages] /\ lost' \subseteq Messages
       /\ \A g \in Fleets \ {f} : batch'[g] = batch[g] /\ writer'[g] = writer[g]
       /\ \A m \in Messages : m.fleet # f => (m \in lost' <=> m \in lost)
       /\ Places(f)' /\ (kafka \intersect lost = {})'
       /\ Held(f)' = Range(msgs) \union writer[f] \union kafka \union lost
  <2>1. Places(f)
    BY <1>1 DEF FleetInv
  <2> QED BY <1>1, <1>2, <1>9, <1>13, <1>14, <2>1, BatchStep
<1>16. \A t \in Topics : Log(f, t)' = Log(f, t) \union {z(t)}
  <2>1. Held(f)' = Held(f) \union {z("metrics"), z("replay")}
    BY <1>12, <1>15 DEF Held
  <2>2. SUFFICES ASSUME NEW t \in Topics PROVE Log(f, t)' = Log(f, t) \union {z(t)}
    OBVIOUS
  <2>3. Log(f, t)' = {m \in Held(f)' : m.fleet = f /\ m.topic = t} /\ Log(f, t) = {m \in Held(f) : m.fleet = f /\ m.topic = t}
    BY DEF Log, Held
  <2> QED BY <1>7, <2>1, <2>3 DEF Topics
<1>17. FleetTypes'
  BY <1>1, <1>2, <1>4, <1>15 DEF FleetTypes
<1>18. Local(f)
  BY <1>2, <1>4, <1>15 DEF Local
<1>19. Busy(f)' = Busy(f) /\ Emitting(f)' = Emitting(f) /\ bot' = bot /\ acked' = acked
  BY <1>2 DEF Busy, Emitting
<1>20. Phases(f)'
  <2>1. phase[f] \notin {"returned", "gone"}
    BY <1>1, <1>2 DEF FleetInv, Phases
  <2> QED BY <1>1, <1>2, <2>1 DEF FleetInv, Phases, BotsDone
<1>21. Pending(f)'
  BY <1>1, <1>2, <1>19 DEF FleetInv, Pending
<1>22. Queued(f)'
  BY <1>1, <1>6, <1>19 DEF FleetInv, Queued
<1>23. Logged(f)'
  <2>1. /\ o \in acked[f] /\ \A b \in Emitting(f) : o # bot[f][b].ord
        /\ \A j \in DOMAIN metricsCh'[f] : metricsCh'[f][j] # o
    BY <1>1, <1>3, <1>6 DEF FleetInv, Queued
  <2>2. SUFFICES ASSUME NEW t \in Topics
                 PROVE  /\ \A m \in Log(f, t)' :
                             /\ m.order \in acked[f] /\ m.seq \in 1 .. q
                             /\ \A c \in Emitting(f) : m.order # bot[f][c].ord
                             /\ \A i \in DOMAIN metricsCh'[f] : m.order # metricsCh'[f][i]
                        /\ \A m, n \in Log(f, t)' : m.order = n.order \/ m.seq = n.seq => m = n
                        /\ \A k \in 1 .. q : \E m \in Log(f, t)' : m.seq = k
    BY <1>4, <1>19 DEF Logged
  <2>3. /\ \A m \in Log(f, t) :
             /\ m.order \in acked[f] /\ m.seq \in 1 .. replaySeq[f]
             /\ \A c \in Emitting(f) : m.order # bot[f][c].ord
             /\ \A i \in DOMAIN metricsCh[f] : m.order # metricsCh[f][i]
        /\ \A m, n \in Log(f, t) : m.order = n.order \/ m.seq = n.seq => m = n
        /\ \A k \in 1 .. replaySeq[f] : \E m \in Log(f, t) : m.seq = k
    BY <1>1 DEF FleetInv, Logged
  <2>4. \A m \in Log(f, t) : m.order # o /\ m.seq # q
    BY <1>3, <2>3
  <2>5. \A m \in Log(f, t)' : m = z(t) \/ m \in Log(f, t)
    BY <1>16
  <2>6. z(t) \in Log(f, t)' /\ \A m \in Log(f, t) : m \in Log(f, t)'
    BY <1>16
  <2>7. ASSUME NEW m \in Log(f, t)'
        PROVE  /\ m.order \in acked[f] /\ m.seq \in 1 .. q
               /\ \A c \in Emitting(f) : m.order # bot[f][c].ord
               /\ \A i \in DOMAIN metricsCh'[f] : m.order # metricsCh'[f][i]
    BY <1>3, <1>6, <1>7, <2>1, <2>3, <2>5
  <2>8. \A m, n \in Log(f, t)' : m.order = n.order \/ m.seq = n.seq => m = n
    BY <1>7, <2>3, <2>4, <2>5
  <2>9. \A k \in 1 .. q : \E m \in Log(f, t)' : m.seq = k
    BY <1>3, <1>7, <2>3, <2>6
  <2> QED BY <2>7, <2>8, <2>9
<1>24. Covered(f)'
  <2>1. SUFFICES ASSUME NEW p \in acked[f]
                 PROVE  \/ \E c \in Emitting(f) : bot[f][c].ord = p
                        \/ \E i \in DOMAIN metricsCh'[f] : metricsCh'[f][i] = p
                        \/ \A t \in Topics : \E m \in Log(f, t)' : m.order = p
    BY <1>19 DEF Covered
  <2>2. CASE \E c \in Emitting(f) : bot[f][c].ord = p
    BY <2>2
  <2>3. CASE p = o
    BY <1>7, <1>16, <2>3
  <2>4. CASE p # o /\ \E i \in DOMAIN metricsCh[f] : metricsCh[f][i] = p
    <3>1. PICK i \in DOMAIN metricsCh[f] : metricsCh[f][i] = p
      BY <2>4
    <3>2. PICK j \in DOMAIN metricsCh'[f] : j + 1 = i
      BY <1>3, <1>5, <2>4, <3>1
    <3> QED BY <1>6, <3>1, <3>2
  <2>5. CASE \A t \in Topics : \E m \in Log(f, t) : m.order = p
    BY <1>16, <2>5
  <2> QED BY <1>1, <2>2, <2>3, <2>4, <2>5 DEF FleetInv, Covered
<1> QED BY <1>2, <1>15, <1>17, <1>18, <1>20, <1>21, <1>22, <1>23, <1>24 DEF StepOK, FleetInv, IInv

-----------------------------------------------------------------------------
(* The invariant and what follows from it                                  *)

\* Every step of the server, the runs, the bots and the publishers keeps the
\* invariant.
LEMMA NextInv == IInv /\ [Next]_vars => IInv'
<1> SUFFICES ASSUME IInv, [Next]_vars PROVE IInv'
  OBVIOUS
<1>1. CASE UNCHANGED vars
  <2>1. /\ UNCHANGED <<cfg, phase, pub, bot, issued, metricsCh, batch, replaySeq, writer, kafka, lost, acked, status>>
    BY <1>1 DEF vars, server, world
  <2>2. FleetTypes'
    BY <2>1 DEF IInv, FleetTypes
  <2>3. \A f \in Fleets : FleetInv(f)'
    BY <2>1 DEF IInv, FleetInv, Phases, BotsDone, Pending, Queued, Logged, Covered, Places, Busy, Emitting, Log
  <2> QED BY <2>1, <2>2, <2>3 DEF IInv
<1>2. CASE Exit
  <2>1. /\ UNCHANGED <<cfg, phase, pub, bot, issued, metricsCh, batch, replaySeq, writer, kafka, lost, acked>>
        /\ status' = "down"
    BY <1>2 DEF Exit, server, world
  <2>2. FleetTypes'
    BY <2>1 DEF IInv, FleetTypes
  <2>3. \A f \in Fleets : FleetInv(f)'
    BY <2>1, SMTT(60) DEF IInv, FleetInv, Phases, BotsDone, Pending, Queued, Logged, Covered, Places, Busy, Emitting, Log
  <2> QED BY <2>1, <2>2, <2>3 DEF IInv
<1>3. ASSUME Next, ~Exit
      PROVE  \E f \in Fleets : StepOK(f)
  <2>1. status = "up"
    BY <1>3 DEF Next
  <2>2. PICK f \in Fleets :
          \/ \E r \in Requests : SpawnFleet(f, r)
          \/ StopFleet(f)
          \/ Run(f)
          \/ \E b \in DOMAIN bot[f] : Bot(f, b)
          \/ Publisher(f)
    BY <1>3 DEF Next
  <2>3. ASSUME NEW r \in Requests, SpawnFleet(f, r) PROVE StepOK(f)
    BY <2>1, <2>3, SpawnStep
  <2>4. CASE StopFleet(f) \/ Run(f)
    BY <2>1, <2>4, RunSteps, StartStep DEF Run
  <2>5. ASSUME NEW b \in DOMAIN bot[f], Bot(f, b) PROVE StepOK(f)
    BY <2>1, <2>5, SendStep, QuietBot, AnswerStep, EmitStep DEF Bot, BotRuns
  <2>6. CASE Publisher(f)
    BY <2>1, <2>6, ReceiveStep, FlushStep, KafkaStep DEF Publisher
  <2> QED BY <2>2, <2>3, <2>4, <2>5, <2>6
<1> QED BY <1>1, <1>2, <1>3, LocalStep DEF Next

\* The inductive invariant of the fleets.
LEMMA InductiveInv == Spec => []IInv
  BY InitInv, NextInv, PTL DEF Spec

\* close(metricsCh) comes after wg.Wait, so no bot ever sends on the closed
\* channel.
THEOREM ChannelIsNeverMisused == Spec => []NoSendOnClosed
<1>1. IInv => NoSendOnClosed
  BY DEF IInv, NoSendOnClosed
<1> QED BY <1>1, InductiveInv, PTL

\* A set whose elements are all the same has one element or none.
LEMMA AtMostOne ==
  ASSUME NEW S, \A x, y \in S : x = y
  PROVE  Cardinality(S) = IF S = {} THEN 0 ELSE 1
<1>1. CASE S = {}
  BY <1>1, FS_EmptySet
<1>2. CASE S # {}
  <2>1. PICK x \in S : TRUE
    BY <1>2
  <2>2. S = {x}
    BY <2>1
  <2> QED BY <1>2, <2>2, FS_Singleton
<1> QED BY <1>1, <1>2

\* The places an order's metric can be in exclude each other.
LEMMA OnePlace ==
  ASSUME IInv, NEW f \in Fleets, NEW t \in Topics, NEW o \in 1 .. issued[f]
  PROVE  Copies(f, t, o) = IF o \in acked[f] THEN 1 ELSE 0
<1> DEFINE A == {b \in DOMAIN bot[f] : bot[f][b].pc = "emit" /\ bot[f][b].ord = o}
           B == {i \in DOMAIN metricsCh[f] : metricsCh[f][i] = o}
           C == {i \in DOMAIN batch[f] : batch[f][i].topic = t /\ batch[f][i].order = o}
           of(S) == {m \in S : m.fleet = f /\ m.topic = t /\ m.order = o}
           W == of(writer[f])
           K == of(kafka)
           L == of(lost)
<1>0. FleetInv(f) /\ FleetTypes /\ kafka \intersect lost = {}
  BY DEF IInv
<1>1. Copies(f, t, o) = Cardinality(A) + Cardinality(B) + Cardinality(C) + Cardinality(W) + Cardinality(K) + Cardinality(L)
  BY DEF Copies
<1>2. /\ \A b \in A : b \in Emitting(f) /\ b \in Busy(f) /\ bot[f][b].ord = o
      /\ \A b \in Emitting(f) : bot[f][b].ord = o => b \in A
  BY DEF Emitting, Busy
<1>3. \A i \in C : batch[f][i] \in Log(f, t) /\ batch[f][i].order = o /\ i \in DOMAIN batch[f]
  BY <1>0 DEF Log, Range, FleetInv, Places
<1>4. \A m \in W \union K \union L : m \in Log(f, t) /\ m.order = o
  BY DEF Log
<1>5. \A m \in Log(f, t) : m.order = o => m \in W \union K \union L \/ \E i \in C : m = batch[f][i]
  BY DEF Log, Range
<1>6. \A m, n \in Log(f, t) : m.order = o /\ n.order = o => m = n
  BY <1>0 DEF FleetInv, Logged
<1>7. /\ \A x, y \in A : x = y
      /\ \A x, y \in B : x = y
      /\ \A x, y \in C : x = y
      /\ \A x, y \in W : x = y
      /\ \A x, y \in K : x = y
      /\ \A x, y \in L : x = y
  <2>1. \A x, y \in A : x = y
    BY <1>0, <1>2 DEF FleetInv, Pending
  <2>2. \A x, y \in B : x = y
    BY <1>0 DEF FleetInv, Queued
  <2>3. \A x, y \in C : x = y
    BY <1>0, <1>3, <1>6 DEF FleetInv, Places
  <2> HIDE DEF A, B, C, W, K, L
  <2> QED BY <1>4, <1>6, <2>1, <2>2, <2>3
<1>8. A # {} => B = {} /\ \A m \in Log(f, t) : m.order # o
  BY <1>0, <1>2 DEF FleetInv, Queued, Logged
<1>9. B # {} => \A m \in Log(f, t) : m.order # o
  BY <1>0 DEF FleetInv, Logged
<1>10. C # {} => W = {} /\ K = {} /\ L = {}
  <2>1. \A i \in C : batch[f][i] \notin W \union K \union L
    BY <1>0, <1>3 DEF FleetInv, Places
  <2> HIDE DEF C, W, K, L
  <2> QED BY <1>3, <1>4, <1>6, <2>1
<1>11. W # {} => K = {} /\ L = {}
  <2>1. \A m \in W : m \notin K /\ m \notin L
    BY <1>0 DEF FleetInv, Places
  <2> HIDE DEF W, K, L
  <2> QED BY <1>4, <1>6, <2>1
<1>12. K # {} => L = {}
  <2>1. \A m \in K : m \notin L
    BY <1>0
  <2> HIDE DEF K, L
  <2> QED BY <1>4, <1>6, <2>1
<1>13. o \in acked[f] => A # {} \/ B # {} \/ \E m \in Log(f, t) : m.order = o
  <2>1. SUFFICES ASSUME o \in acked[f] PROVE A # {} \/ B # {} \/ \E m \in Log(f, t) : m.order = o
    OBVIOUS
  <2>2. \/ \E b \in Emitting(f) : bot[f][b].ord = o
        \/ \E i \in DOMAIN metricsCh[f] : metricsCh[f][i] = o
        \/ \A u \in Topics : \E m \in Log(f, u) : m.order = o
    BY <1>0, <2>1 DEF FleetInv, Covered
  <2> QED BY <1>2, <2>2
<1>14. o \notin acked[f] => A = {} /\ B = {} /\ \A m \in Log(f, t) : m.order # o
  BY <1>0, <1>2 DEF FleetInv, Pending, Queued, Logged
<1> HIDE DEF A, B, C, W, K, L
<1>15. /\ Cardinality(A) = IF A = {} THEN 0 ELSE 1
       /\ Cardinality(B) = IF B = {} THEN 0 ELSE 1
       /\ Cardinality(C) = IF C = {} THEN 0 ELSE 1
       /\ Cardinality(W) = IF W = {} THEN 0 ELSE 1
       /\ Cardinality(K) = IF K = {} THEN 0 ELSE 1
       /\ Cardinality(L) = IF L = {} THEN 0 ELSE 1
  BY <1>7, AtMostOne
<1>16. (C # {} \/ W # {} \/ K # {} \/ L # {}) <=> \E m \in Log(f, t) : m.order = o
  BY <1>3, <1>4, <1>5
<1> QED BY <1>1, <1>8, <1>9, <1>10, <1>11, <1>12, <1>13, <1>14, <1>15, <1>16

\* Every answered order has its metric in exactly one place, for both topics:
\* nothing is lost or doubled between bot, channel, batch, writer and Kafka.
THEOREM MetricsAreInOnePlace == Spec => []EachMetricInOnePlace
<1>1. IInv => EachMetricInOnePlace
  BY OnePlace DEF EachMetricInOnePlace
<1> QED BY <1>1, InductiveInv, PTL

\* When Run has returned, all messages of the fleet are written or lost.
LEMMA CompleteLog ==
  ASSUME IInv, NEW f \in Fleets, NEW t \in Topics, phase[f] \in {"returned", "gone"}
  PROVE  LET log == {m \in kafka \union lost : m.fleet = f /\ m.topic = t}
         IN  /\ {m.seq : m \in log} = 1 .. Cardinality(acked[f])
             /\ {m.order : m \in log} = acked[f]
             /\ Cardinality(log) = Cardinality(acked[f])
<1> DEFINE log == {m \in kafka \union lost : m.fleet = f /\ m.topic = t}
           n == replaySeq[f]
<1>0. FleetInv(f) /\ FleetTypes
  BY DEF IInv
<1>1. /\ metricsCh[f] = <<>> /\ batch[f] = <<>> /\ writer[f] = {} /\ Emitting(f) = {}
      /\ n \in Nat /\ acked[f] \subseteq 1 .. issued[f] /\ issued[f] \in Nat
  BY <1>0 DEF FleetInv, Phases, BotsDone, Emitting, Pending, FleetTypes
<1>2. Log(f, t) = log
  BY <1>1 DEF Log, Range
<1> HIDE DEF log, n
<1>3. /\ \A m \in log : m.order \in acked[f] /\ m.seq \in 1 .. n
      /\ \A m, k \in log : m.order = k.order \/ m.seq = k.seq => m = k
      /\ \A s \in 1 .. n : \E m \in log : m.seq = s
  BY <1>0, <1>2 DEF FleetInv, Logged, n
<1>4. \A o \in acked[f] : \E m \in log : m.order = o
  BY <1>0, <1>1, <1>2 DEF FleetInv, Covered
<1>5. {m.seq : m \in log} = 1 .. n /\ {m.order : m \in log} = acked[f]
  BY <1>3, <1>4
<1>6. IsFiniteSet(log) /\ Cardinality(log) = n
  <2> DEFINE F == [m \in log |-> m.seq]
  <2>1. F \in Injection(log, 1 .. n) /\ F \in Surjection(log, 1 .. n)
    BY <1>3 DEF Injection, IsInjective, Surjection
  <2>2. IsFiniteSet(1 .. n) /\ Cardinality(1 .. n) = n
    BY <1>1, FS_Interval, SMTT(60)
  <2> HIDE DEF F
  <2> QED BY <2>1, <2>2, FS_Injection
<1>7. Cardinality(log) = Cardinality(acked[f])
  <2> DEFINE F == [m \in log |-> m.order]
  <2>1. F \in Injection(log, acked[f]) /\ F \in Surjection(log, acked[f])
    BY <1>3, <1>4 DEF Injection, IsInjective, Surjection
  <2>2. IsFiniteSet(acked[f])
    <3>1. IsFiniteSet(1 .. issued[f])
      BY <1>1, FS_Interval
    <3> QED BY <1>1, <3>1, FS_Subset
  <2> HIDE DEF F
  <2> QED BY <2>1, <2>2, FS_Injection
<1> QED BY <1>5, <1>6, <1>7 DEF log

\* When Run has returned, the log of either topic holds the answered orders,
\* numbered from 1 without a gap or a duplicate, but for what writes lost.
THEOREM LogsAreComplete == Spec => []LogIsComplete
<1>1. IInv => LogIsComplete
  BY CompleteLog DEF LogIsComplete
<1> QED BY <1>1, InductiveInv, PTL

-----------------------------------------------------------------------------
(* The fleets implement the abstract log                                   *)

\* What log and ended are mapped to.
All == kafka \union lost \union UNION {Range(batch[f]) \union writer[f] : f \in Fleets}
Ended == {f \in Fleets : phase[f] \in {"returned", "gone"}}

Refines == [Abstract!Next]_(Abstract!vars)

\* A step of fleet f adds to all messages what it adds to those it holds.
LEMMA HeldStep ==
  ASSUME NEW f \in Fleets, \A g \in Fleets \ {f} : batch'[g] = batch[g] /\ writer'[g] = writer[g],
         NEW X, Held(f)' = Held(f) \union X
  PROVE  All' = All \union X
<1> DEFINE Part(g) == Range(batch[g]) \union writer[g]
<1>1. \A m : m \in All <=> m \in Held(f) \/ \E g \in Fleets \ {f} : m \in Part(g)
  BY DEF All, Held
<1>2. \A m : m \in All' <=> m \in Held(f)' \/ \E g \in Fleets \ {f} : m \in Part(g)'
  BY DEF All, Held
<1>3. \A g \in Fleets \ {f} : Part(g)' = Part(g)
  BY DEF Range
<1> HIDE DEF Part
<1> QED BY <1>1, <1>2, <1>3

\* A message of a fleet is held by it.
LEMMA HeldByItsFleet ==
  ASSUME IInv, NEW f \in Fleets, NEW m \in All, m.fleet = f
  PROVE  m \in Held(f) /\ m \in Messages
<1>1. FleetTypes /\ \A g \in Fleets : Places(g)
  BY DEF IInv, FleetInv
<1>2. \A g \in Fleets : \A x \in Range(batch[g]) \union writer[g] : x.fleet = g /\ x \in Messages
  BY <1>1 DEF Places, Range, FleetTypes
<1> QED BY <1>1, <1>2 DEF All, Held, FleetTypes

\* A step that neither answers, numbers, drops nor ends is a stutter.
LEMMA StutterStep ==
  ASSUME UNCHANGED <<acked, replaySeq, batch, writer, kafka, lost>>, Ended' = Ended
  PROVE  Refines
<1>1. All' = All
  BY DEF All
<1> QED BY <1>1 DEF Refines, Abstract!vars, All, Ended

\* Spawning, stopping, starting, closing the channel, delisting.
LEMMA QuietRun ==
  ASSUME IInv, NEW f \in Fleets,
         \/ \E r \in Requests : SpawnFleet(f, r)
         \/ StopFleet(f) \/ Start(f) \/ Expire(f) \/ CloseChannel(f) \/ Delist(f)
  PROVE  Refines
<1>1. FleetTypes /\ Phases(f)
  BY DEF IInv, FleetInv
<1>2. UNCHANGED <<acked, replaySeq, batch, writer, kafka, lost>>
  BY DEF SpawnFleet, StopFleet, Start, Expire, CloseChannel, Delist, world
<1>3. \/ phase' = phase
      \/ phase[f] \in {"off", "start", "wait"} /\ \E p \in {"start", "wait", "closed"} : phase' = [phase EXCEPT ![f] = p]
      \/ phase[f] = "returned" /\ phase' = [phase EXCEPT ![f] = "gone"]
  BY <1>1 DEF SpawnFleet, StopFleet, Start, Expire, CloseChannel, Delist, Phases
<1>4. Ended' = Ended
  BY <1>1, <1>3 DEF FleetTypes, Ended
<1> QED BY <1>2, <1>4, StutterStep

\* Dialling, sending, failing, emitting and quitting.
LEMMA QuietBots ==
  ASSUME NEW f \in Fleets, NEW b \in DOMAIN bot[f], Bot(f, b), ~Answer(f, b)
  PROVE  Refines
<1>1. UNCHANGED <<phase, acked, replaySeq, batch, writer, kafka, lost>>
  <2>1. CASE Tick(f, b) \/ Ask(f, b)
    <3>1. sendOrder(f, b)
      BY <2>1 DEF Tick, Ask
    <3> QED BY <3>1 DEF sendOrder
  <2>2. CASE Dial(f, b)
    BY <2>2 DEF Dial, world
  <2>3. CASE Fail(f, b)
    BY <2>3 DEF Fail, world
  <2>4. CASE Quit(f, b)
    BY <2>4 DEF Quit, world
  <2>5. CASE Emit(f, b)
    BY <2>5 DEF Emit, world
  <2> QED BY <2>1, <2>2, <2>3, <2>4, <2>5 DEF Bot, BotRuns
<1> QED BY <1>1, StutterStep DEF Ended

\* An order is answered once, and while its fleet runs.
LEMMA AnswerRefines ==
  ASSUME IInv, NEW f \in Fleets, NEW b \in DOMAIN bot[f], Answer(f, b)
  PROVE  Refines
<1> DEFINE o == bot[f][b].ord
<1>1. FleetTypes /\ Phases(f) /\ Pending(f) /\ bot[f][b].pc = "send"
  BY DEF IInv, FleetInv, Answer
<1>2. acked' = [acked EXCEPT ![f] = @ \union {o}] /\ UNCHANGED <<phase, replaySeq, batch, writer, kafka, lost>>
  BY DEF Answer
<1>3. f \notin Ended
  BY <1>1 DEF Phases, BotsDone, Ended
<1>4. b \in Busy(f) /\ b \notin Emitting(f)
  BY <1>1 DEF Busy, Emitting
<1>5. o \in acked'[f] \ acked[f]
  BY <1>1, <1>2, <1>4 DEF Pending, FleetTypes
<1>6. All' = All /\ Ended' = Ended
  BY <1>2 DEF All, Ended
<1> HIDE DEF o
<1>7. Abstract!Answer(f)
  BY <1>2, <1>3, <1>5, <1>6 DEF Abstract!Answer, All, Ended
<1> QED BY <1>7 DEF Refines, Abstract!Next

\* Run returns when every answered order's messages are written or lost.
LEMMA EndRefines ==
  ASSUME IInv, NEW f \in Fleets, CloseWriter(f)
  PROVE  Refines
<1>1. FleetTypes /\ FleetInv(f) /\ phase[f] = "closed" /\ pub[f] = "done" /\ writer[f] = {}
  BY DEF IInv, CloseWriter
<1>2. phase' = [phase EXCEPT ![f] = "returned"] /\ UNCHANGED <<acked, replaySeq, batch, writer, kafka, lost>>
  BY DEF CloseWriter, world
<1>3. f \notin Ended /\ Ended' = Ended \union {f}
  BY <1>1, <1>2 DEF Ended, FleetTypes
<1>4. metricsCh[f] = <<>> /\ Emitting(f) = {} /\ Range(batch[f]) = {}
  BY <1>1 DEF FleetInv, Phases, BotsDone, Emitting, Range
<1>5. \A o \in acked[f] : \A t \in Topics : \E m \in kafka \union lost : m.fleet = f /\ m.topic = t /\ m.order = o
  <2>1. \A t \in Topics : Log(f, t) \subseteq {m \in kafka \union lost : m.fleet = f /\ m.topic = t}
    BY <1>1, <1>4 DEF Log
  <2>2. \A o \in acked[f] : \A t \in Topics : \E m \in Log(f, t) : m.order = o
    BY <1>1, <1>4 DEF FleetInv, Covered
  <2> QED BY <2>1, <2>2
<1>6. All' = All
  BY <1>2 DEF All
<1>7. Abstract!End(f)
  BY <1>2, <1>3, <1>5, <1>6 DEF Abstract!End, All, Ended
<1> QED BY <1>7 DEF Refines, Abstract!Next

\* A message is written or dropped once.
LEMMA WriteRefines ==
  ASSUME IInv, NEW f \in Fleets, WriteToKafka(f)
  PROVE  Refines
<1>1. FleetTypes /\ Places(f) /\ kafka \intersect lost = {}
  BY DEF IInv, FleetInv
<1>2. PICK m \in writer[f] :
        /\ writer' = [writer EXCEPT ![f] = @ \ {m}]
        /\ \/ kafka' = kafka \union {m} /\ UNCHANGED lost
           \/ WriteFails /\ lost' = lost \union {m} /\ UNCHANGED kafka
  BY DEF WriteToKafka
<1>3. UNCHANGED <<phase, acked, replaySeq, batch>>
  BY DEF WriteToKafka
<1>4. m \in All /\ m \notin kafka \union lost
  BY <1>1 DEF All, Places
<1>5. All' = All
  <2>1. /\ \A g \in Fleets \ {f} : batch'[g] = batch[g] /\ writer'[g] = writer[g]
        /\ writer'[f] = writer[f] \ {m} /\ batch'[f] = batch[f]
    BY <1>1, <1>2, <1>3 DEF FleetTypes
  <2>2. Held(f)' = Held(f) \union {}
    BY <1>2, <2>1 DEF Held, Range
  <2>3. All' = All \union {}
    BY <2>1, <2>2, HeldStep
  <2> QED BY <2>3
<1>6. Ended' = Ended
  BY <1>3 DEF Ended
<1>7. CASE kafka' = kafka \union {m} /\ UNCHANGED lost
  <2>1. Abstract!Write(m)
    BY <1>3, <1>5, <1>6, <1>7 DEF Abstract!Write, All, Ended
  <2> QED BY <1>4, <2>1 DEF Refines, Abstract!Next, All
<1>8. CASE WriteFails /\ lost' = lost \union {m} /\ UNCHANGED kafka
  <2>1. lost \subseteq lost' /\ lost' \subseteq All' \ kafka
    BY <1>1, <1>4, <1>5, <1>8 DEF All
  <2>2. Abstract!Drop
    BY <1>3, <1>5, <1>6, <1>8, <2>1 DEF Abstract!Drop, Abstract!MayDrop, All, Ended
  <2> QED BY <2>2 DEF Refines, Abstract!Next
<1> QED BY <1>2, <1>7, <1>8

\* A flush hands the batch on, or drops it.
LEMMA FlushRefines ==
  ASSUME IInv, NEW f \in Fleets, FlushTick(f) \/ PubExit(f)
  PROVE  Refines
<1>1. FleetTypes /\ Places(f) /\ kafka \intersect lost = {} /\ batch[f] \in Seq(Messages)
  BY DEF IInv, FleetInv, FleetTypes
<1>2. flush(f, batch[f]) /\ UNCHANGED <<phase, acked, replaySeq, kafka>>
  BY DEF FlushTick, PubExit
<1>3. /\ \A i \in DOMAIN batch[f] : batch[f][i].fleet = f /\ batch[f][i] \notin writer[f] \union kafka \union lost
      /\ \A i, j \in DOMAIN batch[f] : batch[f][i] = batch[f][j] => i = j
  BY <1>1 DEF Places
<1>4. /\ \A g \in Fleets \ {f} : batch'[g] = batch[g] /\ writer'[g] = writer[g]
      /\ Held(f)' = Held(f) \union {} /\ (kafka \intersect lost = {})'
  BY <1>1, <1>2, <1>3, BatchStep DEF Held
<1>5. All' = All \union {}
  BY <1>4, HeldStep
<1>6. lost \subseteq lost' /\ lost' \subseteq All' \ kafka /\ (lost' = lost \/ WriteFails)
  <2>1. lost' \intersect kafka = {} /\ lost' \subseteq All'
    BY <1>2, <1>4 DEF All
  <2> QED BY <1>2, <2>1 DEF flush
<1>7. All' = All /\ Ended' = Ended
  BY <1>2, <1>5 DEF Ended
<1>8. Abstract!Drop
  BY <1>2, <1>6, <1>7 DEF Abstract!Drop, Abstract!MayDrop, All, Ended
<1> QED BY <1>8 DEF Refines, Abstract!Next

\* The order at the head of the channel is answered, has no message yet, and
\* gets the fleet's next number in both topics.
LEMMA ReceiveRefines ==
  ASSUME IInv, status = "up", NEW f \in Fleets, Receive(f)
  PROVE  Refines
<1>0. PICK o : o = Head(metricsCh[f])
  OBVIOUS
<1> DEFINE n == replaySeq[f] + 1
           New == {[fleet |-> f, topic |-> t, seq |-> n, order |-> o] : t \in Topics}
           msgs == batch[f] \o MessagesOf(f, n, o)
<1>1. /\ FleetTypes /\ FleetInv(f) /\ pub[f] = "on" /\ metricsCh[f] \in Seq(Nat) /\ metricsCh[f] # <<>>
      /\ replaySeq[f] \in Nat /\ batch[f] \in Seq(Messages)
  BY DEF IInv, Receive, FleetTypes
<1>2. /\ replaySeq' = [replaySeq EXCEPT ![f] = n]
      /\ flush(f, msgs) \/ (batch' = [batch EXCEPT ![f] = msgs] /\ UNCHANGED <<writer, lost>>)
      /\ UNCHANGED <<phase, kafka, acked>>
  <2>1. replaySeq' = [replaySeq EXCEPT ![f] = n] /\ replaySeq'[f] = n
    BY <1>1 DEF Receive, FleetTypes
  <2>2. batch[f] \o MessagesOf(f, replaySeq'[f], Head(metricsCh[f])) = msgs
    BY <1>0, <2>1
  <2> HIDE DEF msgs
  <2> QED BY <2>1, <2>2 DEF Receive
<1>3. StepOK(f)
  BY ReceiveStep
<1>4. o \in Nat /\ n \in Nat /\ 1 \in DOMAIN metricsCh[f] /\ metricsCh[f][1] = o
  BY <1>0, <1>1
<1>5. o \in acked[f] /\ \A m \in All : m.fleet = f => m.order # o
  <2>1. o \in acked[f]
    BY <1>1, <1>4 DEF FleetInv, Queued
  <2>2. \A t \in Topics : \A m \in Log(f, t) : m.order # o
    BY <1>1, <1>4 DEF FleetInv, Logged
  <2>3. \A m \in Held(f) : m \in Messages /\ m.fleet = f => m.order # o
    BY <2>2 DEF Held, Log, Messages
  <2> QED BY <2>1, <2>3, HeldByItsFleet
<1>6. Range(msgs) = Range(batch[f]) \union New
  <2>1. MessagesOf(f, n, o) \in Seq(Messages) /\ Range(MessagesOf(f, n, o)) = New
    BY <1>4 DEF MessagesOf, Messages, Topics, Range
  <2> QED BY <1>1, <2>1, RangeConcatenation
<1> HIDE DEF n, msgs, New
<1>7. f \notin Ended
  BY <1>1 DEF FleetInv, Phases, Ended
<1>8. Held(f)' = Held(f) \union New /\ lost \subseteq lost' /\ (lost' = lost \/ WriteFails)
  <2>1. CASE batch' = [batch EXCEPT ![f] = msgs] /\ UNCHANGED <<writer, lost>>
    <3>1. batch'[f] = msgs
      BY <1>1, <2>1 DEF FleetTypes
    <3> QED BY <1>2, <1>6, <2>1, <3>1 DEF Held
  <2>2. CASE flush(f, msgs)
    <3>1. batch'[f] = <<>> /\ Range(batch'[f]) = {}
      BY <1>1, <2>2 DEF flush, FleetTypes, Range
    <3>2. CASE writer' = [writer EXCEPT ![f] = @ \union Range(msgs)] /\ UNCHANGED lost
      <4>1. writer'[f] = writer[f] \union Range(msgs)
        BY <1>1, <3>2 DEF FleetTypes
      <4> QED BY <1>2, <1>6, <3>1, <3>2, <4>1 DEF Held
    <3>3. CASE WriteFails /\ lost' = lost \union Range(msgs) /\ UNCHANGED writer
      BY <1>2, <1>6, <3>1, <3>3 DEF Held
    <3> QED BY <2>2, <3>2, <3>3 DEF flush
  <2> QED BY <1>2, <2>1, <2>2
<1>9. All' = All \union New
  <2>1. \A g \in Fleets \ {f} : batch'[g] = batch[g] /\ writer'[g] = writer[g]
    BY <1>3 DEF StepOK, Local
  <2> QED BY <1>8, <2>1, HeldStep
<1>10. lost' \subseteq All' \ kafka
  <2>1. lost' \intersect kafka = {} /\ lost' \subseteq All'
    BY <1>2, <1>3 DEF StepOK, All
  <2> QED BY <2>1
<1>11. Ended' = Ended
  BY <1>2 DEF Ended
<1>12. New = Abstract!Entries(f, replaySeq[f] + 1, o)
  BY DEF New, n, Abstract!Entries
<1>13. Abstract!Number(f, o)
  <2>1. \A m \in All : m.fleet = f => m.order # o
    BY <1>5
  <2>2. replaySeq' = [replaySeq EXCEPT ![f] = @ + 1]
    BY <1>2 DEF n
  <2> QED BY <1>2, <1>7, <1>8, <1>9, <1>10, <1>11, <1>12, <2>1, <2>2
          DEF Abstract!Number, Abstract!MayDrop, All, Ended
<1> QED BY <1>5, <1>13 DEF Refines, Abstract!Next

\* Every step is a step of the abstract log or a stutter.
LEMMA LogNext == IInv /\ [Next]_vars => Refines
<1> SUFFICES ASSUME IInv, [Next]_vars PROVE Refines
  OBVIOUS
<1>1. CASE UNCHANGED vars \/ Exit
  <2>1. UNCHANGED <<phase, acked, replaySeq, batch, writer, kafka, lost>>
    BY <1>1 DEF vars, world, Exit
  <2> QED BY <2>1, StutterStep DEF Ended
<1>2. CASE Next /\ ~Exit
  <2>1. status = "up"
    BY <1>2 DEF Next
  <2>2. PICK f \in Fleets :
          \/ \E r \in Requests : SpawnFleet(f, r)
          \/ StopFleet(f)
          \/ Run(f)
          \/ \E b \in DOMAIN bot[f] : Bot(f, b)
          \/ Publisher(f)
    BY <1>2 DEF Next
  <2>3. CASE (\E r \in Requests : SpawnFleet(f, r)) \/ StopFleet(f) \/ Run(f)
    BY <2>3, QuietRun, EndRefines DEF Run
  <2>4. ASSUME NEW b \in DOMAIN bot[f], Bot(f, b) PROVE Refines
    BY <2>4, QuietBots, AnswerRefines
  <2>5. CASE Publisher(f)
    BY <2>1, <2>5, ReceiveRefines, FlushRefines, WriteRefines DEF Publisher
  <2> QED BY <2>2, <2>3, <2>4, <2>5
<1> QED BY <1>1, <1>2

\* The fleets implement the abstract log, however bots, publishers and writers
\* interleave: an answered order is numbered once, its messages never change
\* and are written or dropped once, and Run returns when all are accounted for.
THEOREM LogIsImplemented == Spec => FleetImplementsLog
<1>1. Init => Abstract!Init
  BY DEF Init, Abstract!Init, Range
<1>2. IInv /\ [Next]_vars => [Abstract!Next]_(Abstract!vars)
  BY LogNext DEF Refines
<1> QED BY <1>1, <1>2, InductiveInv, PTL DEF Spec, FleetImplementsLog, Abstract!Spec
=============================================================================
