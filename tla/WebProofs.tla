------------------------------ MODULE WebProofs ------------------------------
(***************************************************************************)
(* Proofs about the two services people reach over HTTP.                   *)
(*                                                                         *)
(* Upload, for any number of uploads, slugs and addresses and any          *)
(* timeouts: an upload has one fleet at the most, however late its request *)
(* is handled, and a sandbox runs its own binary or a newer one.           *)
(*                                                                         *)
(* LeaderboardHub, for any number of sessions, browsers, scores and        *)
(* events: a browser was sent the hub as it is once no broadcast is under  *)
(* way.  The services share no state.                                      *)
(***************************************************************************)
EXTENDS Upload, LeaderboardHub, TLAPS

-----------------------------------------------------------------------------
(* Uploads and their fleets.                                               *)

Labels == {"new", "build", "run", "sleep", "post", "done", "failed"}

Types ==
  /\ pc \in [Uploads -> Labels] /\ request \subseteq Uploads
  /\ sandbox \in [Uploads -> {"none", "up", "gone"}]
  /\ spawned \in [Uploads -> Nat]

\* The one request of an upload is sent when its sandbox was started; until it is
\* handled there is no fleet, and after that there is no request.
OneRequest(u) ==
  /\ pc[u] \in {"sleep", "post"} => sandbox[u] # "none"
  /\ pc[u] \in {"new", "build", "run", "sleep"} => u \notin request /\ spawned[u] = 0
  /\ u \in request => spawned[u] = 0 /\ sandbox[u] # "none"
  /\ spawned[u] <= 1 /\ (spawned[u] > 0 => sandbox[u] # "none")

IInv == Types /\ \A u \in Uploads : OneRequest(u)

\* No upload has begun, so no request was sent.
LEMMA InitInv == Init => IInv
BY DEF Init, IInv, Types, OneRequest, Labels

\* The steps of the upload until the sandbox runs.
LEMMA HandlerStep ==
  ASSUME IInv, NEW u \in Uploads, Handler(u)
  PROVE  IInv'
<1> USE DEF IInv, Types, OneRequest, Labels, Goto, sandboxVars, fleetVars
<1>1. CASE ParseForm(u)
  BY <1>1 DEF ParseForm
<1>2. CASE buildContestantImage(u)
  BY <1>2 DEF buildContestantImage
<1>3. CASE Run(u)
  BY <1>3 DEF Run
<1> QED BY <1>1, <1>2, <1>3 DEF Handler

\* The request is sent, handled, and given up on.
LEMMA SpawnStep ==
  ASSUME IInv, NEW u \in Uploads, spawnFleet(u) \/ SpawnFleet(u)
  PROVE  IInv'
<1> USE DEF IInv, Types, OneRequest, Labels, Goto, sandboxVars, fleetVars
<1>1. CASE Wake(u)
  BY <1>1 DEF Wake
<1>2. CASE Post(u)
  BY <1>2 DEF Post
<1>3. CASE SpawnFleet(u)
  <2>1. /\ spawned[u] = 0 /\ sandbox[u] # "none" /\ spawned' = [spawned EXCEPT ![u] = spawned[u] + 1]
        /\ request' = request \ {u} /\ pc' = pc /\ sandbox' = sandbox
    BY <1>3 DEF SpawnFleet
  <2>2. pc[u] \notin {"new", "build", "run", "sleep"}
    BY <1>3 DEF SpawnFleet
  <2> QED BY <2>1, <2>2
<1> QED BY <1>1, <1>2, <1>3 DEF spawnFleet

\* Every step keeps to one request.
LEMMA NextInv == IInv /\ [Next]_vars => IInv'
<1> SUFFICES ASSUME IInv, [Next]_vars PROVE IInv'
  OBVIOUS
<1>1. ASSUME NEW u \in Uploads, Stop(u) \/ enforceTimeout(u) PROVE IInv'
  <2>1. Remove(u)
    BY <1>1 DEF Stop, enforceTimeout
  <2> QED BY <2>1 DEF Remove, IInv, Types, OneRequest, fleetVars
<1>2. ASSUME NEW u \in Uploads, FleetEnds(u) PROVE IInv'
  BY <1>2 DEF FleetEnds, IInv, Types, OneRequest, sandboxVars
<1>3. CASE Tick
  BY <1>3 DEF Tick, IInv, Types, OneRequest
<1>4. CASE UNCHANGED vars
  BY <1>4 DEF vars, IInv, Types, OneRequest
<1> QED BY <1>1, <1>2, <1>3, <1>4, HandlerStep, SpawnStep DEF Next

\* However late the request for a fleet is handled, and whatever its sender
\* learns of it, an upload has one fleet at the most, and only after its sandbox
\* was started (upload.go:130-134, 258-273, botfleet/cmd/main.go:119).
THEOREM FleetsStartOnce == Spec => []FleetStartsOnce
<1>1. IInv => FleetStartsOnce
  BY DEF IInv, OneRequest, FleetStartsOnce
<1> QED BY <1>1, InitInv, NextInv, PTL DEF Spec

-----------------------------------------------------------------------------
(* The binary a sandbox runs                                               *)

BuildTypes ==
  /\ slug \in [Uploads -> Slugs] /\ builds \in Seq(Uploads)
  /\ pc \in [Uploads -> Labels] /\ runs \in [Uploads -> SUBSET Uploads]
  /\ sandbox \in [Uploads -> {"none", "up", "gone"}]

OfSlug(s) == {i \in DOMAIN builds : slug[builds[i]] = s}

\* A tag that was set was set last by some build.
LastBuild ==
  \A s \in Slugs : OfSlug(s) # {} => \E i \in OfSlug(s) : \A j \in OfSlug(s) : j <= i

\* What is started was built, and runs what its tag named.
BuiltFirst(u) ==
  /\ pc[u] = "run" => BuiltAt(u) # {}
  /\ sandbox[u] # "none" =>
       \E w \in runs[u] : slug[w] = slug[u] /\ \E i \in BuiltAt(u), j \in BuiltAt(w) : i <= j

BInv == BuildTypes /\ LastBuild /\ \A u \in Uploads : BuiltFirst(u)

\* Initially nothing was built.
LEMMA InitBInv == Init => BInv
BY DEF Init, BInv, BuildTypes, LastBuild, OfSlug, BuiltFirst, BuiltAt, Labels

\* A step that builds and starts nothing.
LEMMA NothingBuilt ==
  ASSUME BInv, slug' = slug, builds' = builds, runs' = runs,
         pc' \in [Uploads -> Labels], \A w \in Uploads : pc'[w] = "run" => pc[w] = "run",
         sandbox' \in [Uploads -> {"none", "up", "gone"}],
         \A w \in Uploads : sandbox'[w] # "none" => sandbox[w] # "none"
  PROVE  BInv'
<1>1. \A s : OfSlug(s)' = OfSlug(s)
  BY DEF OfSlug
<1>2. \A w : BuiltAt(w)' = BuiltAt(w)
  BY DEF BuiltAt
<1>3. BuildTypes' /\ LastBuild'
  BY <1>1 DEF BInv, BuildTypes, LastBuild
<1>4. \A w \in Uploads : BuiltFirst(w)'
  BY <1>2 DEF BInv, BuiltFirst
<1> QED BY <1>3, <1>4 DEF BInv

\* One more build leaves the others where they are, and is the last of its slug.
LEMMA BuildAppended ==
  ASSUME BInv, NEW u \in Uploads, builds' = Append(builds, u), slug' = slug
  PROVE  /\ builds' \in Seq(Uploads) /\ LastBuild'
         /\ \A w \in Uploads : BuiltAt(w) \subseteq BuiltAt(w)'
         /\ BuiltAt(u)' # {}
<1>1. /\ builds \in Seq(Uploads) /\ builds' \in Seq(Uploads)
      /\ DOMAIN builds = 1..Len(builds) /\ DOMAIN builds' = 1..Len(builds) + 1
      /\ builds'[Len(builds) + 1] = u
      /\ \A i \in DOMAIN builds : builds'[i] = builds[i]
      /\ Len(builds) \in Nat
  BY DEF BInv, BuildTypes
<1>2. \A w \in Uploads : BuiltAt(w) \subseteq BuiltAt(w)'
  BY <1>1 DEF BuiltAt
<1>3. BuiltAt(u)' # {}
  BY <1>1 DEF BuiltAt
<1>4. ASSUME NEW s \in Slugs, OfSlug(s)' # {}
      PROVE  \E i \in OfSlug(s)' : \A j \in OfSlug(s)' : j <= i
  <2>1. CASE slug[u] = s
    <3>1. Len(builds) + 1 \in OfSlug(s)'
      BY <1>1, <2>1 DEF OfSlug
    <3>2. \A j \in OfSlug(s)' : j <= Len(builds) + 1
      BY <1>1 DEF OfSlug
    <3> QED BY <3>1, <3>2
  <2>2. CASE slug[u] # s
    <3>1. OfSlug(s)' = OfSlug(s)
      BY <1>1, <2>2 DEF OfSlug
    <3> QED BY <3>1, <1>4 DEF BInv, LastBuild
  <2> QED BY <2>1, <2>2
<1> QED BY <1>1, <1>2, <1>3, <1>4 DEF LastBuild

\* A build keeps what the sandboxes run, and lets its own request go on.
LEMMA BuildStep ==
  ASSUME BInv, NEW u \in Uploads, buildContestantImage(u)
  PROVE  BInv'
<1>1. /\ slug' = slug /\ sandbox' = sandbox /\ runs' = runs
      /\ pc' \in {[pc EXCEPT ![u] = "run"], [pc EXCEPT ![u] = "failed"]}
      /\ \/ builds' = Append(builds, u)
         \/ builds' = builds /\ pc' = [pc EXCEPT ![u] = "failed"]
  BY DEF buildContestantImage, Goto, form, sandboxVars
<1>2. CASE builds' = Append(builds, u)
  <2>1. /\ builds' \in Seq(Uploads) /\ LastBuild'
        /\ \A w \in Uploads : BuiltAt(w) \subseteq BuiltAt(w)'
        /\ BuiltAt(u)' # {}
    BY <1>1, <1>2, BuildAppended
  <2>2. BuildTypes'
    BY <1>1, <2>1 DEF BInv, BuildTypes, Labels
  <2>3. ASSUME NEW w \in Uploads PROVE BuiltFirst(w)'
    <3>1. pc'[w] = "run" => BuiltAt(w)' # {}
      BY <1>1, <2>1 DEF BInv, BuildTypes, BuiltFirst
    <3>2. ASSUME sandbox[w] # "none"
          PROVE  \E x \in runs[w] : slug[x] = slug[w] /\ \E i \in BuiltAt(w)', j \in BuiltAt(x)' : i <= j
      BY <3>2, <2>1 DEF BInv, BuildTypes, BuiltFirst
    <3> QED BY <3>1, <3>2, <1>1 DEF BuiltFirst
  <2> QED BY <2>1, <2>2, <2>3 DEF BInv
<1>3. CASE builds' = builds /\ pc' = [pc EXCEPT ![u] = "failed"]
  <2>1. pc' \in [Uploads -> Labels] /\ \A w \in Uploads : pc'[w] = "run" => pc[w] = "run"
    BY <1>3 DEF BInv, BuildTypes, Labels
  <2> QED BY <2>1, <1>1, <1>3, NothingBuilt DEF BInv, BuildTypes
<1> QED BY <1>1, <1>2, <1>3

\* The tag names the last build of the slug, which is not older than the upload's own.
LEMMA RunStep ==
  ASSUME BInv, NEW u \in Uploads, Run(u)
  PROVE  BInv'
<1>1. /\ pc[u] = "run" /\ slug' = slug /\ builds' = builds
      /\ pc' \in {[pc EXCEPT ![u] = l] : l \in {"sleep", "done", "failed"}}
      /\ \/ runs' = runs /\ sandbox' = sandbox
         \/ runs' = [runs EXCEPT ![u] = Tagged(slug[u])] /\ sandbox' = [sandbox EXCEPT ![u] = "up"]
  BY DEF Run, Goto, form
<1>2. PICK k \in BuiltAt(u) : TRUE
  BY <1>1 DEF BInv, BuiltFirst
<1>3. k \in OfSlug(slug[u]) /\ slug[u] \in Slugs
  BY <1>2 DEF BuiltAt, OfSlug, BInv, BuildTypes
<1>4. PICK i \in OfSlug(slug[u]) : \A j \in OfSlug(slug[u]) : j <= i
  BY <1>3 DEF BInv, LastBuild
<1>5. builds[i] \in Uploads /\ builds[i] \in Tagged(slug[u]) /\ slug[builds[i]] = slug[u] /\ i \in BuiltAt(builds[i]) /\ k <= i
  BY <1>3, <1>4 DEF Tagged, OfSlug, BuiltAt, BInv, BuildTypes
<1>6. Tagged(slug[u]) \subseteq Uploads
  BY DEF Tagged, BInv, BuildTypes
<1>7. BuildTypes' /\ LastBuild'
  <2>1. \A s : OfSlug(s)' = OfSlug(s)
    BY <1>1 DEF OfSlug
  <2>2. LastBuild'
    BY <2>1 DEF BInv, LastBuild
  <2>3. pc' \in [Uploads -> Labels]
    BY <1>1 DEF BInv, BuildTypes, Labels
  <2>4. BuildTypes'
    BY <1>1, <1>6, <2>3 DEF BInv, BuildTypes
  <2> QED BY <2>2, <2>4
<1>8. ASSUME NEW w \in Uploads PROVE BuiltFirst(w)'
  <2>1. CASE w = u /\ runs' = [runs EXCEPT ![u] = Tagged(slug[u])]
    BY <2>1, <1>1, <1>2, <1>5 DEF BInv, BuildTypes, BuiltFirst, BuiltAt
  <2>2. CASE runs' = runs /\ sandbox' = sandbox
    BY <2>2, <1>1 DEF BInv, BuildTypes, BuiltFirst, BuiltAt
  <2>3. CASE w # u
    BY <2>3, <1>1 DEF BInv, BuildTypes, BuiltFirst, BuiltAt
  <2> QED BY <1>1, <2>1, <2>2, <2>3
<1> QED BY <1>7, <1>8 DEF BInv

\* Every step keeps the order of builds and runs.
LEMMA NextBInv == BInv /\ [Next]_vars => BInv'
<1> SUFFICES ASSUME BInv, [Next]_vars PROVE BInv'
  OBVIOUS
<1> USE DEF BInv, BuildTypes, form, sandboxVars
<1>1. ASSUME NEW u \in Uploads, ParseForm(u) \/ spawnFleet(u) PROVE BInv'
  <2>1. /\ slug' = slug /\ builds' = builds /\ sandbox' = sandbox /\ runs' = runs
        /\ pc' \in {[pc EXCEPT ![u] = l] : l \in {"build", "failed", "post", "done"}}
    BY <1>1 DEF ParseForm, spawnFleet, Wake, Post, Goto
  <2>2. pc' \in [Uploads -> Labels] /\ \A w \in Uploads : pc'[w] = "run" => pc[w] = "run"
    BY <2>1 DEF Labels
  <2> QED BY <2>1, <2>2, NothingBuilt
<1>2. ASSUME NEW u \in Uploads, Stop(u) \/ enforceTimeout(u) PROVE BInv'
  <2>1. Remove(u)
    BY <1>2 DEF Stop, enforceTimeout
  <2> QED BY <2>1, NothingBuilt DEF Remove
<1>3. ASSUME NEW u \in Uploads, FleetEnds(u) \/ SpawnFleet(u) PROVE BInv'
  BY <1>3, NothingBuilt DEF FleetEnds, SpawnFleet
<1>4. CASE Tick
  BY <1>4, NothingBuilt DEF Tick
<1>5. CASE UNCHANGED vars
  BY <1>5, NothingBuilt DEF vars
<1> QED BY <1>1, <1>2, <1>3, <1>4, <1>5, BuildStep, RunStep DEF Next, Handler

\* However many uploads share a slug and build at the same time, a sandbox runs
\* its own binary or one whose build ended later (upload.go:101-121, 145-195).
THEOREM NoOlderBinary == Spec => []RunsUploadedBinary
<1>1. BInv => RunsUploadedBinary
  BY DEF BInv, BuiltFirst, RunsUploadedBinary
<1> QED BY <1>1, InitBInv, NextBInv, PTL DEF Spec

-----------------------------------------------------------------------------
(* The hub and its browsers.                                               *)

Stages == {"idle", "snapshot", "copy", "send"}
Served == {"registered", "greet", "open"}

HubTypes ==
  /\ consumer \in [Consumers -> Stages]
  /\ conn \in [Clients -> Served \cup {"new", "gone"}] /\ peer \in [Clients -> BOOLEAN]
  /\ DOMAIN snap = Consumers \cup Clients /\ DOMAIN todo = Consumers /\ DOMAIN got = Clients

\* The hub sends to the connection.
Present(c) == peer[c] /\ conn[c] \in Served

\* The broadcast of consumer t has still to send browser c the hub as it is.
WillInform(t, c) ==
  \/ consumer[t] = "snapshot"
  \/ consumer[t] = "copy" /\ snap[t] = snapshot
  \/ consumer[t] = "send" /\ snap[t] = snapshot /\ c \in todo[t]

\* Browser c was sent the hub as it is, or will be, by its handler or a broadcast.
Informed(c) ==
  \/ snapshot \in got[c]
  \/ conn[c] = "registered"
  \/ conn[c] = "greet" /\ snap[c] = snapshot
  \/ \E t \in Consumers : WillInform(t, c)

HubInv ==
  /\ HubTypes
  /\ \A c \in Clients : Present(c) => c \in clients /\ Informed(c)

\* Initially no browser is there.
LEMMA HubInvInit == HubInit => HubInv
<1> SUFFICES ASSUME HubInit PROVE HubInv
  OBVIOUS
<1>1. HubTypes
  BY DEF HubInit, HubTypes, Stages, Served
<1>2. \A c \in Clients : ~Present(c)
  BY DEF HubInit, Present, Served
<1> QED BY <1>1, <1>2 DEF HubInv

\* The snapshot is the same as long as neither map changes.
LEMMA SnapshotStays ==
  ASSUME UNCHANGED <<scores, chaosActive>>
  PROVE  snapshot' = snapshot
  BY DEF snapshot

\* A browser stays informed in a step of consumer t that leaves its handler
\* alone, if it does in case that t was to inform it.
LEMMA InformedStays ==
  ASSUME NEW t, NEW c, UNCHANGED <<scores, chaosActive>>, got[c] \subseteq got'[c], conn'[c] = conn[c], snap'[c] = snap[c],
         \A u \in Consumers \ {t} : consumer'[u] = consumer[u] /\ snap'[u] = snap[u] /\ todo'[u] = todo[u],
         Informed(c), t \in Consumers /\ WillInform(t, c) => Informed(c)'
  PROVE  Informed(c)'
<1>1. snapshot' = snapshot
  BY SnapshotStays
<1>2. CASE snapshot \in got[c] \/ conn[c] = "registered" \/ (conn[c] = "greet" /\ snap[c] = snapshot)
  BY <1>1, <1>2 DEF Informed
<1>3. ASSUME NEW u \in Consumers, WillInform(u, c), u # t PROVE Informed(c)'
  <2>1. WillInform(u, c)'
    BY <1>1, <1>3 DEF WillInform
  <2> QED BY <2>1 DEF Informed
<1> QED BY <1>2, <1>3 DEF Informed

\* The producers change nothing of the hub.
LEMMA ProducerStep ==
  ASSUME HubInv, UNCHANGED <<scores, chaosActive, clients, consumer, snap, todo, conn, peer, got>>
  PROVE  HubInv'
<1>1. snapshot' = snapshot
  BY SnapshotStays
<1>2. HubTypes'
  BY DEF HubInv, HubTypes
<1>3. ASSUME NEW c \in Clients, Present(c)' PROVE (c \in clients)' /\ Informed(c)'
  <2>1. c \in clients /\ Informed(c)
    BY <1>3 DEF HubInv, Present
  <2> QED BY <1>1, <2>1 DEF Informed, WillInform
<1> QED BY <1>2, <1>3 DEF HubInv

\* A consumer that changed the hub has a broadcast before it.
LEMMA ConsumerStep == HubInv /\ (ScoresConsumer \/ EventsConsumer) => HubInv'
<1> SUFFICES ASSUME HubInv, ScoresConsumer \/ EventsConsumer PROVE HubInv'
  OBVIOUS
<1>1. PICK t \in Consumers : consumer' = [consumer EXCEPT ![t] = "snapshot"]
  BY DEF ScoresConsumer, EventsConsumer, Consumers
<1>2. UNCHANGED <<clients, snap, todo, conn, peer, got>>
  BY DEF ScoresConsumer, EventsConsumer
<1>3. HubTypes' /\ consumer'[t] = "snapshot"
  BY <1>1, <1>2 DEF HubInv, HubTypes, Stages
<1>4. ASSUME NEW c \in Clients, Present(c)' PROVE (c \in clients)' /\ Informed(c)'
  BY <1>2, <1>3, <1>4 DEF HubInv, Present, Informed, WillInform
<1> QED BY <1>3, <1>4 DEF HubInv

\* A broadcast takes its snapshot, then the connections, and has sent to all of
\* them when it is done.
LEMMA BroadcastStep ==
  ASSUME HubInv, NEW t \in Consumers,
         Snapshot(t) \/ CopyClients(t) \/ BroadcastDone(t)
  PROVE  HubInv'
<1>1. /\ UNCHANGED <<scores, chaosActive, clients, conn, peer, got>>
      /\ HubTypes
  BY DEF Snapshot, CopyClients, BroadcastDone, HubInv
<1>2. snapshot' = snapshot
  BY <1>1, SnapshotStays
<1>3. /\ \A u \in Consumers \ {t} : consumer'[u] = consumer[u] /\ snap'[u] = snap[u] /\ todo'[u] = todo[u]
      /\ DOMAIN snap' = DOMAIN snap /\ DOMAIN todo' = DOMAIN todo
      /\ consumer' \in [Consumers -> Stages]
  BY <1>1 DEF Snapshot, CopyClients, BroadcastDone, HubTypes, Stages
<1>4. \A c \in Clients : snap'[c] = snap[c]
  <2>1. SUFFICES ASSUME NEW c \in Clients PROVE snap'[c] = snap[c]
    OBVIOUS
  <2>2. c # t
    BY ClientsAssumption
  <2> QED BY <1>1, <2>2 DEF Snapshot, CopyClients, BroadcastDone, HubTypes
<1>5. HubTypes'
  BY <1>1, <1>3 DEF HubTypes
<1>6. ASSUME NEW c \in Clients, Present(c)' PROVE (c \in clients)' /\ Informed(c)'
  <2>1. Present(c) /\ c \in clients /\ Informed(c)
    BY <1>1, <1>6 DEF HubInv, Present
  <2>2. WillInform(t, c) => WillInform(t, c)'
    <3>1. CASE Snapshot(t)
      <4>1. consumer'[t] = "copy" /\ snap'[t] = snapshot
        BY <1>1, <3>1 DEF Snapshot, HubTypes
      <4> QED BY <1>2, <4>1 DEF WillInform
    <3>2. CASE CopyClients(t)
      <4>1. consumer[t] = "copy" /\ consumer'[t] = "send" /\ snap'[t] = snap[t] /\ todo'[t] = clients
        BY <1>1, <3>2 DEF CopyClients, HubTypes
      <4> QED BY <1>2, <2>1, <4>1 DEF WillInform
    <3>3. CASE BroadcastDone(t)
      BY <3>3 DEF BroadcastDone, WillInform
    <3> QED BY <3>1, <3>2, <3>3
  <2>3. t \in Consumers /\ WillInform(t, c) => Informed(c)'
    BY <2>2 DEF Informed
  <2> QED BY <1>1, <1>3, <1>4, <2>1, <2>3, InformedStays
<1> QED BY <1>5, <1>6 DEF HubInv

\* A write of a broadcast informs the browser, or its connection is broken.
LEMMA SendStep ==
  ASSUME HubInv, NEW t \in Consumers, NEW d \in Clients, Send(t, d)
  PROVE  HubInv'
<1>1. /\ UNCHANGED <<scores, chaosActive, consumer, snap, conn>> /\ consumer[t] = "send" /\ d \in todo[t]
      /\ todo' = [todo EXCEPT ![t] = @ \ {d}] /\ HubTypes
  BY DEF Send, HubInv
<1>2. snapshot' = snapshot
  BY <1>1, SnapshotStays
<1>3. \/ got' = [got EXCEPT ![d] = @ \cup {snap[t]}] /\ UNCHANGED <<peer, clients>>
      \/ peer' = [peer EXCEPT ![d] = FALSE] /\ clients' = clients \ {d} /\ UNCHANGED got
  BY DEF Send, Written, WriteFails
<1>4. HubTypes'
  BY <1>1, <1>3 DEF HubTypes
<1>5. ASSUME NEW c \in Clients, Present(c)' PROVE (c \in clients)' /\ Informed(c)'
  <2>1. Present(c) /\ (c # d \/ UNCHANGED <<peer, clients>>)
    BY <1>1, <1>3, <1>5 DEF HubTypes, Present
  <2>2. c \in clients /\ Informed(c) /\ c \in clients'
    BY <1>3, <2>1 DEF HubInv
  <2>3. got[c] \subseteq got'[c] /\ conn'[c] = conn[c] /\ snap'[c] = snap[c]
    BY <1>1, <1>3 DEF HubTypes
  <2>4. ASSUME WillInform(t, c) PROVE Informed(c)'
    <3>1. snap[t] = snapshot /\ c \in todo[t]
      BY <1>1, <2>4 DEF WillInform
    <3>2. CASE c = d
      <4>1. got' = [got EXCEPT ![d] = @ \cup {snap[t]}]
        BY <1>1, <1>3, <1>5, <3>2 DEF HubTypes, Present
      <4>2. snapshot' \in got'[c]
        BY <1>1, <1>2, <3>1, <3>2, <4>1 DEF HubTypes
      <4> QED BY <4>2 DEF Informed
    <3>3. CASE c # d
      <4>1. c \in todo'[t]
        BY <1>1, <3>1, <3>3 DEF HubTypes
      <4>2. WillInform(t, c)'
        BY <1>1, <1>2, <3>1, <4>1 DEF WillInform
      <4> QED BY <4>2 DEF Informed
    <3> QED BY <3>2, <3>3
  <2>5. \A u \in Consumers \ {t} : consumer'[u] = consumer[u] /\ snap'[u] = snap[u] /\ todo'[u] = todo[u]
    BY <1>1 DEF HubTypes
  <2> QED BY <1>1, <2>2, <2>3, <2>4, <2>5, InformedStays
<1> QED BY <1>4, <1>5 DEF HubInv

\* A step of the handler of connection d, or of its browser: it leaves the
\* others alone, and does its part for its own.
LEMMA OwnStep ==
  ASSUME HubInv, NEW d \in Clients, HubTypes',
         UNCHANGED <<scores, chaosActive, consumer, todo>>,
         \A u \in Consumers : snap'[u] = snap[u],
         \A c \in Clients \ {d} : snap'[c] = snap[c] /\ conn'[c] = conn[c] /\ got'[c] = got[c],
         \A c \in Clients \ {d} : peer[c] \/ ~peer'[c],
         \A c \in Clients \ {d} : c \in clients => c \in clients',
         Present(d)' => (d \in clients)' /\ Informed(d)'
  PROVE  HubInv'
<1>1. ASSUME NEW c \in Clients, Present(c)', c # d PROVE (c \in clients)' /\ Informed(c)'
  <2>1. Present(c)
    <3>1. c \in Clients \ {d}
      BY <1>1
    <3>2. conn'[c] = conn[c] /\ (peer[c] \/ ~peer'[c])
      BY <3>1
    <3>3. peer'[c] /\ conn'[c] \in Served
      BY <1>1 DEF Present
    <3> QED BY <3>2, <3>3 DEF Present
  <2>2. c \in clients /\ Informed(c) /\ c \in clients'
    BY <1>1, <2>1 DEF HubInv
  <2>3. snapshot' = snapshot
    BY SnapshotStays
  <2> QED BY <1>1, <2>2, <2>3 DEF Informed, WillInform
<1> QED BY <1>1 DEF HubInv

\* Registering comes before the handler's snapshot, and that before its write.
LEMMA ConnectionStep ==
  ASSUME HubInv, NEW d \in Clients, handler(d) \/ Leave(d)
  PROVE  HubInv'
<1>1. HubTypes /\ d \notin Consumers
  BY ClientsAssumption DEF HubInv
<1>2. UNCHANGED <<scores, chaosActive, consumer, todo>>
  BY DEF handler, addClient, Greet, removeClient, Leave
<1>3. snapshot' = snapshot
  BY <1>2, SnapshotStays
<1>4. CASE addClient(d)
  <2>1. UNCHANGED <<peer, got>>
    BY <1>4 DEF addClient
  <2>2. CASE conn[d] = "new"
    <3>1. clients' = clients \cup {d} /\ conn' = [conn EXCEPT ![d] = "registered"] /\ UNCHANGED snap
      BY <1>4, <2>2 DEF addClient
    <3>2. HubTypes'
      BY <1>1, <1>2, <2>1, <3>1 DEF HubTypes, Served
    <3>3. conn'[d] = "registered"
      BY <1>1, <3>1 DEF HubTypes
    <3>4. (d \in clients)' /\ Informed(d)'
      BY <3>1, <3>3 DEF Informed
    <3> QED BY <1>1, <1>2, <2>1, <3>1, <3>2, <3>4, OwnStep DEF HubTypes
  <2>3. CASE conn[d] = "registered"
    <3>1. snap' = [snap EXCEPT ![d] = snapshot] /\ conn' = [conn EXCEPT ![d] = "greet"] /\ UNCHANGED clients
      BY <1>4, <2>3 DEF addClient
    <3>2. HubTypes'
      BY <1>1, <1>2, <2>1, <3>1 DEF HubTypes, Served
    <3>3. conn'[d] = "greet" /\ snap'[d] = snapshot /\ \A x \in (Consumers \cup Clients) \ {d} : snap'[x] = snap[x]
      BY <1>1, <3>1 DEF HubTypes
    <3>4. Present(d)' => d \in clients
      BY <2>1, <2>3 DEF HubInv, Present, Served
    <3>5. Present(d)' => (d \in clients)' /\ Informed(d)'
      BY <1>3, <3>1, <3>3, <3>4 DEF Informed
    <3> QED BY <1>1, <1>2, <2>1, <3>1, <3>2, <3>3, <3>5, OwnStep DEF HubTypes
  <2> QED BY <1>4, <2>2, <2>3 DEF addClient
<1>5. CASE Greet(d)
  <2>1. /\ conn[d] = "greet" /\ conn' = [conn EXCEPT ![d] = "open"] /\ snap' = [snap EXCEPT ![d] = Nothing] /\ UNCHANGED clients
        /\ \/ got' = [got EXCEPT ![d] = @ \cup {snap[d]}] /\ UNCHANGED peer
           \/ peer' = [peer EXCEPT ![d] = FALSE] /\ UNCHANGED got
    BY <1>5 DEF Greet, Written, WriteFails
  <2>2. HubTypes'
    BY <1>1, <1>2, <2>1 DEF HubTypes, Served
  <2>3. \A x \in (Consumers \cup Clients) \ {d} : snap'[x] = snap[x]
    BY <1>1, <2>1 DEF HubTypes
  <2>4. ASSUME Present(d)' PROVE (d \in clients)' /\ Informed(d)'
    <3>1. got' = [got EXCEPT ![d] = @ \cup {snap[d]}] /\ UNCHANGED peer
      BY <1>1, <2>1, <2>4 DEF HubTypes, Present
    <3>2. d \in clients /\ Informed(d)
      BY <2>1, <2>4, <3>1 DEF HubInv, Present, Served
    <3>3. snap[d] \in got'[d] /\ got[d] \subseteq got'[d]
      BY <1>1, <3>1 DEF HubTypes
    <3>4. CASE snapshot \in got[d] \/ snap[d] = snapshot
      BY <1>3, <2>1, <3>2, <3>3, <3>4 DEF Informed
    <3>5. CASE \E t \in Consumers : WillInform(t, d)
      <4>1. \E t \in Consumers : WillInform(t, d)'
        BY <1>1, <1>2, <1>3, <2>3, <3>5 DEF WillInform
      <4> QED BY <2>1, <3>2, <4>1 DEF Informed
    <3> QED BY <2>1, <3>2, <3>4, <3>5 DEF Informed
  <2> QED BY <1>1, <1>2, <2>1, <2>2, <2>3, <2>4, OwnStep DEF HubTypes
<1>6. CASE removeClient(d) \/ Leave(d)
  <2>1. /\ UNCHANGED <<snap, got>> /\ (conn' = [conn EXCEPT ![d] = "gone"] \/ UNCHANGED conn)
        /\ (peer' = [peer EXCEPT ![d] = FALSE] \/ (~peer[d] /\ UNCHANGED peer))
        /\ (clients' = clients \ {d} \/ UNCHANGED clients)
    BY <1>6 DEF removeClient, Leave
  <2>2. HubTypes'
    BY <1>1, <1>2, <2>1 DEF HubTypes, Served
  <2>3. ~Present(d)'
    BY <1>1, <2>1 DEF HubTypes, Present
  <2> QED BY <1>1, <1>2, <2>1, <2>2, <2>3, OwnStep DEF HubTypes
<1> QED BY <1>4, <1>5, <1>6 DEF handler

\* Every step keeps the hub's invariant.
LEMMA HubInvNext == HubInv /\ [HubNext]_hubVars => HubInv'
<1> SUFFICES ASSUME HubInv, [HubNext]_hubVars PROVE HubInv'
  OBVIOUS
<1>1. CASE (\E s \in Sessions : PublishScore(s)) \/ (\E s \in Sessions, kind \in Kinds : PublishEvent(s, kind)) \/ UNCHANGED hubVars
  <2>1. UNCHANGED <<scores, chaosActive, clients, consumer, snap, todo, conn, peer, got>>
    BY <1>1 DEF PublishScore, PublishEvent, hubVars
  <2> QED BY <2>1, ProducerStep
<1>2. CASE ScoresConsumer \/ EventsConsumer
  BY <1>2, ConsumerStep
<1>3. CASE \E t \in Consumers : broadcast(t)
  BY <1>3, BroadcastStep, SendStep DEF broadcast
<1>4. CASE \E c \in Clients : handler(c) \/ Leave(c)
  BY <1>4, ConnectionStep
<1> QED BY <1>1, <1>2, <1>3, <1>4 DEF HubNext

\* When no broadcast is under way, every browser with an open connection was
\* sent the hub as it is: none falls between its handler's snapshot and a
\* broadcast, in whichever order addClient, the two consumers and the removal
\* of broken connections take the mutex.
THEOREM NewestWasSent == HubSpec => []CurrentWasSent
<1>1. HubInv => CurrentWasSent
  <2>1. SUFFICES ASSUME HubInv, Quiet, NEW c \in Clients, conn[c] = "open", peer[c]
                 PROVE  snapshot \in got[c]
    BY DEF CurrentWasSent
  <2>2. Informed(c)
    BY <2>1 DEF HubInv, Present, Served
  <2> QED BY <2>1, <2>2 DEF Informed, WillInform, Quiet
<1>2. HubInv /\ [HubNext]_hubVars => HubInv'
  BY HubInvNext
<1> QED BY <1>1, <1>2, HubInvInit, PTL DEF HubSpec
=============================================================================
