--------------------------- MODULE LeaderboardHub ---------------------------
(***************************************************************************)
(* The leaderboard server (leaderboard/server/main.go).  Two goroutines    *)
(* read bench.scores and bench.events, update the hub under Hub.mu and     *)
(* then broadcast: a snapshot and a copy of the client map are taken in    *)
(* two separate read locks and sent without a lock.  Every WebSocket       *)
(* handler registers its connection, sends a first snapshot itself and     *)
(* removes the connection when it can no longer be read.                   *)
(*                                                                         *)
(* A score is its number in the session's sequence; ranks follow from the  *)
(* entries of a snapshot and are left out.                                 *)
(***************************************************************************)
EXTENDS Naturals, Sequences, FiniteSets, Functions

CONSTANTS
  Sessions,    \* session ids
  Clients,     \* WebSocket connections, each used once
  Partitions,  \* partitions of both topics (4 in docker-compose.yml)
  MaxScores,   \* bound: scores published per session
  MaxEvents,   \* bound: chaos events published
  Kinds        \* event types: chaos_start, chaos_end

ASSUME PartitionsAssumption == Partitions \subseteq Nat /\ 0 \in Partitions
ASSUME KindsAssumption == Kinds \subseteq {"chaos_start", "chaos_end"}

Consumers == {"scores", "events"}

ASSUME ClientsAssumption == Clients \cap Consumers = {}

VARIABLES
  published,    \* scores published, per session
  lastEvent,    \* the last chaos event published, per session
  events,       \* how many there were
  topic,        \* what each consumer has still to read
  scores,       \* Hub.scores; 0 is a session without one
  chaosActive,  \* Hub.chaosActive
  clients,      \* Hub.clients
  consumer,     \* where each consumer is
  snap,         \* the snapshot a consumer or a handler holds
  todo,         \* connections a broadcast has still to write to
  conn,         \* where each WebSocket handler is
  peer,         \* whether the connection can be written to
  view,         \* the snapshot each browser shows
  got           \* observed: all snapshots each browser received

inputs == <<published, lastEvent, events>>
hubVars == <<inputs, topic, scores, chaosActive, clients, consumer, snap, todo, conn, peer, view, got>>

Nothing == [s \in {} |-> 0]

\* snapshot: an entry for every session that has a score.
snapshot ==
  [s \in {x \in Sessions : scores[x] > 0} |-> [score |-> scores[s], chaos |-> chaosActive[s]]]

-----------------------------------------------------------------------------
(* The producers: the telemetry service and the sandbox manager.  The      *)
(* balancer picks any partition; a reader without a group reads            *)
(* partition 0.                                                            *)

\* Message m of consumer t's topic.
Deliver(t, m) ==
  \E p \in Partitions : topic' = IF p = 0 THEN [topic EXCEPT ![t] = Append(@, m)] ELSE topic

PublishScore(s) ==
  /\ published[s] < MaxScores
  /\ published' = [published EXCEPT ![s] = @ + 1]
  /\ Deliver("scores", [session |-> s, score |-> published[s] + 1])
  /\ UNCHANGED <<lastEvent, events, scores, chaosActive, clients, consumer, snap, todo, conn, peer, view, got>>

PublishEvent(s, kind) ==
  /\ events < MaxEvents
  /\ events' = events + 1
  /\ lastEvent' = [lastEvent EXCEPT ![s] = kind]
  /\ Deliver("events", [session |-> s, kind |-> kind])
  /\ UNCHANGED <<published, scores, chaosActive, clients, consumer, snap, todo, conn, peer, view, got>>

-----------------------------------------------------------------------------
(* The consumers                                                           *)

\* ReadMessage of consumer t; it blocks until there is one.
ReadMessage(t) ==
  /\ consumer[t] = "idle" /\ topic[t] # <<>>
  /\ topic' = [topic EXCEPT ![t] = Tail(@)]

upsert(m) == scores' = [scores EXCEPT ![m.session] = m.score]

ScoresConsumer ==
  /\ ReadMessage("scores")
  /\ upsert(Head(topic["scores"]))
  /\ consumer' = [consumer EXCEPT !["scores"] = "snapshot"]
  /\ UNCHANGED <<inputs, chaosActive, clients, snap, todo, conn, peer, view, got>>

setChaos(s, active) == chaosActive' = [chaosActive EXCEPT ![s] = active]

EventsConsumer ==
  /\ ReadMessage("events")
  /\ LET m == Head(topic["events"]) IN setChaos(m.session, m.kind = "chaos_start")
  /\ consumer' = [consumer EXCEPT !["events"] = "snapshot"]
  /\ UNCHANGED <<inputs, scores, clients, snap, todo, conn, peer, view, got>>

\* broadcast: the snapshot ...
Snapshot(t) ==
  /\ consumer[t] = "snapshot"
  /\ snap' = [snap EXCEPT ![t] = snapshot]
  /\ consumer' = [consumer EXCEPT ![t] = "copy"]
  /\ UNCHANGED <<inputs, topic, scores, chaosActive, clients, todo, conn, peer, view, got>>

\* ... then the connections ...
CopyClients(t) ==
  /\ consumer[t] = "copy"
  /\ todo' = [todo EXCEPT ![t] = clients]
  /\ consumer' = [consumer EXCEPT ![t] = "send"]
  /\ UNCHANGED <<inputs, topic, scores, chaosActive, clients, snap, conn, peer, view, got>>

\* wsjson.Write of m to connection c: it arrives, or the connection is broken or
\* the write times out, which breaks it.
Written(c, m) ==
  /\ peer[c]
  /\ view' = [view EXCEPT ![c] = m]
  /\ got' = [got EXCEPT ![c] = @ \cup {m}]
  /\ UNCHANGED <<peer, clients>>
WriteFails(c) ==
  /\ peer' = [peer EXCEPT ![c] = FALSE]
  /\ UNCHANGED <<view, got>>

\* Mutant: the first failed write ends the broadcast.
Send_UntilFailure(t, c) ==
  /\ consumer[t] = "send"
  /\ c \in todo[t]
  /\ \/ Written(c, snap[t]) /\ todo' = [todo EXCEPT ![t] = @ \ {c}]
     \/ WriteFails(c) /\ clients' = clients \ {c} /\ todo' = [todo EXCEPT ![t] = {}]
  /\ UNCHANGED <<inputs, topic, scores, chaosActive, consumer, snap, conn>>

\* ... and one write after the other; a broken connection is forgotten.
Send(t, c) ==
  /\ consumer[t] = "send"
  /\ c \in todo[t]
  /\ todo' = [todo EXCEPT ![t] = @ \ {c}]
  /\ Written(c, snap[t]) \/ (WriteFails(c) /\ clients' = clients \ {c})
  /\ UNCHANGED <<inputs, topic, scores, chaosActive, consumer, snap, conn>>

BroadcastDone(t) ==
  /\ consumer[t] = "send"
  /\ todo[t] = {}
  /\ consumer' = [consumer EXCEPT ![t] = "idle"]
  /\ snap' = [snap EXCEPT ![t] = Nothing]
  /\ UNCHANGED <<inputs, topic, scores, chaosActive, clients, todo, conn, peer, view, got>>

broadcast(t) == Snapshot(t) \/ CopyClients(t) \/ (\E c \in Clients : Send(t, c)) \/ BroadcastDone(t)

-----------------------------------------------------------------------------
(* The WebSocket handlers                                                  *)

\* Mutant: the first snapshot is taken before the connection is registered.
addClient_SnapshotFirst(c) ==
  \/ /\ conn[c] = "new"
     /\ snap' = [snap EXCEPT ![c] = snapshot]
     /\ conn' = [conn EXCEPT ![c] = "registered"]
     /\ UNCHANGED <<inputs, topic, scores, chaosActive, clients, consumer, todo, peer, view, got>>
  \/ /\ conn[c] = "registered"
     /\ clients' = clients \cup {c}
     /\ conn' = [conn EXCEPT ![c] = "greet"]
     /\ UNCHANGED <<inputs, topic, scores, chaosActive, snap, consumer, todo, peer, view, got>>

\* addClient registers the connection ...
addClient(c) ==
  \/ /\ conn[c] = "new"
     /\ clients' = clients \cup {c}
     /\ conn' = [conn EXCEPT ![c] = "registered"]
     /\ UNCHANGED <<inputs, topic, scores, chaosActive, snap, consumer, todo, peer, view, got>>
  \* ... takes a snapshot ...
  \/ /\ conn[c] = "registered"
     /\ snap' = [snap EXCEPT ![c] = snapshot]
     /\ conn' = [conn EXCEPT ![c] = "greet"]
     /\ UNCHANGED <<inputs, topic, scores, chaosActive, clients, consumer, todo, peer, view, got>>

\* ... and sends it, whatever comes of it.
Greet(c) ==
  /\ conn[c] = "greet"
  /\ Written(c, snap[c]) \/ (WriteFails(c) /\ UNCHANGED clients)
  /\ conn' = [conn EXCEPT ![c] = "open"]
  /\ snap' = [snap EXCEPT ![c] = Nothing]
  /\ UNCHANGED <<inputs, topic, scores, chaosActive, consumer, todo>>

\* The browser goes away.
Leave(c) ==
  /\ conn[c] # "new" /\ peer[c]
  /\ peer' = [peer EXCEPT ![c] = FALSE]
  /\ UNCHANGED <<inputs, topic, scores, chaosActive, clients, consumer, snap, todo, conn, view, got>>

\* Mutant: the handler returns without removing its connection.
removeClient_Skip(c) ==
  /\ conn[c] = "open" /\ ~peer[c]
  /\ conn' = [conn EXCEPT ![c] = "gone"]
  /\ UNCHANGED <<inputs, topic, scores, chaosActive, clients, consumer, snap, todo, peer, view, got>>

\* conn.Read fails and the handler returns.
removeClient(c) ==
  /\ conn[c] = "open" /\ ~peer[c]
  /\ clients' = clients \ {c}
  /\ conn' = [conn EXCEPT ![c] = "gone"]
  /\ UNCHANGED <<inputs, topic, scores, chaosActive, consumer, snap, todo, peer, view, got>>

handler(c) == addClient(c) \/ Greet(c) \/ removeClient(c)

-----------------------------------------------------------------------------

HubInit ==
  /\ published = [s \in Sessions |-> 0]
  /\ lastEvent = [s \in Sessions |-> "none"]
  /\ events = 0
  /\ topic = [t \in Consumers |-> <<>>]
  /\ scores = [s \in Sessions |-> 0]
  /\ chaosActive = [s \in Sessions |-> FALSE]
  /\ clients = {}
  /\ consumer = [t \in Consumers |-> "idle"]
  /\ snap = [t \in Consumers \cup Clients |-> Nothing]
  /\ todo = [t \in Consumers |-> {}]
  /\ conn = [c \in Clients |-> "new"]
  /\ peer = [c \in Clients |-> TRUE]
  /\ view = [c \in Clients |-> Nothing]
  /\ got = [c \in Clients |-> {}]

HubNext ==
  \/ \E s \in Sessions : PublishScore(s)
  \/ \E s \in Sessions, kind \in Kinds : PublishEvent(s, kind)
  \/ ScoresConsumer \/ EventsConsumer
  \/ \E t \in Consumers : broadcast(t)
  \/ \E c \in Clients : handler(c) \/ Leave(c)

HubSpec == HubInit /\ [][HubNext]_hubVars

\* The goroutines run: a consumer reads what is there, a broadcast goes on
\* (a write takes at most three seconds) and a handler that was started goes on.
\* Producers and browsers need do nothing.
Fairness ==
  /\ WF_hubVars(ScoresConsumer) /\ WF_hubVars(EventsConsumer)
  /\ \A t \in Consumers : WF_hubVars(broadcast(t))
  /\ \A c \in Clients : WF_hubVars(conn[c] # "new" /\ handler(c))

HubFairSpec == HubSpec /\ Fairness

-----------------------------------------------------------------------------
(* Properties                                                              *)

\* Every variable has its type.
TypeOK ==
  /\ published \in [Sessions -> 0..MaxScores] /\ events \in 0..MaxEvents
  /\ lastEvent \in [Sessions -> Kinds \cup {"none"}]
  /\ DOMAIN topic = Consumers
  /\ scores \in [Sessions -> 0..MaxScores]
  /\ chaosActive \in [Sessions -> BOOLEAN]
  /\ clients \subseteq Clients
  /\ consumer \in [Consumers -> {"idle", "snapshot", "copy", "send"}]
  /\ todo \in [Consumers -> SUBSET Clients]
  /\ conn \in [Clients -> {"new", "registered", "greet", "open", "gone"}]
  /\ peer \in [Clients -> BOOLEAN]

Quiet == \A t \in Consumers : consumer[t] = "idle"

\* No browser misses the newest state: when no broadcast is under way, every
\* open connection was sent a snapshot of the hub as it is now, however the
\* registration, the two consumers and the removal of broken connections
\* interleaved.
CurrentWasSent ==
  Quiet => \A c \in Clients : conn[c] = "open" /\ peer[c] => snapshot \in got[c] \/ snapshot = Nothing

\* A connection that broke does not stay in the hub.
BrokenIsForgotten == \A c \in Clients : (~peer[c]) ~> (c \notin clients)

\* Score n of s, or a later one, is in partition 0 or has been read from it.
Readable(s, n) ==
  scores[s] >= n \/ [session |-> s, score |-> n] \in Range(topic["scores"])

\* A score in the partition that is read reaches every browser that stays
\* connected, whatever becomes of the other connections (main.go:116-135).
ScoreReachesBrowsers ==
  \A s \in Sessions, c \in Clients, n \in 1..MaxScores :
    (Readable(s, n) /\ conn[c] = "open") ~>
      (~peer[c] \/ \E m \in got[c] : s \in DOMAIN m /\ m[s].score >= n)

\* The same of every published score.  It holds with one partition only: the
\* reader joins no group (main.go:168-174), although docs/architecture.md:619-627
\* gives it one, and what the balancer puts into another partition is never read.
EveryScoreReachesBrowsers ==
  \A s \in Sessions, c \in Clients, n \in 1..MaxScores :
    (published[s] >= n /\ conn[c] = "open") ~>
      (~peer[c] \/ \E m \in got[c] : s \in DOMAIN m /\ m[s].score >= n)

\* A browser shows the hub as it is when no broadcast is under way.
ViewIsCurrent ==
  Quiet => \A c \in Clients : conn[c] = "open" /\ peer[c] => view[c] = snapshot

\* The chaos marker of a session follows its events: once the hub has read all
\* it will get, the flag is set exactly when the last event was a chaos_start.
MarkerFollowsEvents ==
  Quiet /\ topic["events"] = <<>> =>
    \A s \in Sessions : chaosActive[s] <=> lastEvent[s] = "chaos_start"

=============================================================================
