------------------------------- MODULE Upload -------------------------------
(***************************************************************************)
(* What an upload sets in motion (sandbox/internal/handler/upload.go): an  *)
(* image is built and tagged with the session's slug, a sandbox is started *)
(* from the tag, and after a pause a bot fleet is asked for over HTTP,     *)
(* once, with a time limit (botfleet/cmd/main.go answers).  The sandbox    *)
(* ends with its own timeout or a Stop, the fleet with its own duration;   *)
(* neither knows of the other.  Their insides are SandboxManager and       *)
(* BotFleet: here a sandbox or a fleet is up or not.                       *)
(*                                                                         *)
(* Timers fire on time: a tick never passes a timer that is due.  The      *)
(* request for a fleet may be handled late, also after the client gave up  *)
(* on it, and the bots of a fleet stop some time after its duration: each  *)
(* first ends the read or the write it is in.                              *)
(***************************************************************************)
EXTENDS Naturals, Sequences, FiniteSets

CONSTANTS
  Uploads,          \* upload requests
  Slugs,            \* image tags made of session ids
  Timeouts,         \* timeouts an upload may name
  Addresses,        \* addresses of the sandbox network
  FleetOn,          \* whether BOTFLEET_HTTP_ADDR is set
  UploadDefault,    \* the timeout of an upload that names none (120)
  SandboxDefault,   \* seconds the manager runs a sandbox with the timeout 0 (120)
  FleetDefault,     \* seconds the bot fleet runs a fleet with the duration 0 (60)
  Pause,            \* seconds spawnFleet sleeps (3)
  PostTimeout       \* seconds it waits for the answer (10)

ASSUME TimesAssumption ==
  /\ Timeouts \subseteq Nat /\ UploadDefault \in Nat /\ FleetOn \in BOOLEAN
  /\ SandboxDefault \in Nat \ {0} /\ FleetDefault \in Nat \ {0}
  /\ Pause \in Nat /\ PostTimeout \in Nat

VARIABLES
  slug,      \* the image tag of each upload's session
  timeoutS,  \* the timeout of each upload
  pc,        \* the request of each upload, and the goroutine it leaves behind
  builds,    \* uploads whose image was built, in the order the tags were set
  sandbox,   \* "none", "up" or "gone"
  runs,      \* the upload whose binary each sandbox runs, as a set
  address,   \* the address of each sandbox that is up, as a set
  age,       \* seconds since each sandbox started, as long as a timer needs them
  request,   \* uploads whose request for a fleet is on its way or not handled yet
  fleet,     \* the fleets of each upload: the seconds left of the duration of each one
  target,    \* the address each upload's fleets send to, as a set
  spawned    \* observed: fleets ever started for each upload

form == <<slug, timeoutS>>
vars == <<form, pc, builds, sandbox, runs, address, age, request, fleet, target, spawned>>
sandboxVars == <<sandbox, runs, address, age>>
fleetVars == <<request, fleet, target, spawned>>

SandboxTimeout(u) == IF timeoutS[u] = 0 THEN SandboxDefault ELSE timeoutS[u]
FleetDuration(u) == IF timeoutS[u] = 0 THEN FleetDefault ELSE timeoutS[u]

Goto(u, l) == pc' = [pc EXCEPT ![u] = l]

-----------------------------------------------------------------------------
(* Upload                                                                  *)

\* The form is parsed and its defaults are filled in; a form without a binary
\* is refused.
ParseForm(u) ==
  /\ pc[u] = "new"
  /\ \/ /\ \E t \in Timeouts \cup {UploadDefault} : timeoutS' = [timeoutS EXCEPT ![u] = t]
        /\ Goto(u, "build")
     \/ Goto(u, "failed") /\ UNCHANGED timeoutS
  /\ UNCHANGED <<slug, builds, sandboxVars, fleetVars>>

\* Mutant: the handler goes on while the build still runs.
buildContestantImage_NoWait(u) ==
  /\ pc[u] = "build"
  /\ Goto(u, "run")
  /\ builds' \in {builds, Append(builds, u)}
  /\ UNCHANGED <<form, sandboxVars, fleetVars>>

\* The build is waited for to its end, which sets the tag; it fails, or the
\* client hangs up before or after that.
buildContestantImage(u) ==
  /\ pc[u] = "build"
  /\ \/ builds' = Append(builds, u) /\ Goto(u, "run")
     \/ builds' \in {builds, Append(builds, u)} /\ Goto(u, "failed")
  /\ UNCHANGED <<form, sandboxVars, fleetVars>>

\* The image a tag names: the one built last.
Tagged(s) ==
  LET of == {i \in DOMAIN builds : slug[builds[i]] = s}
  IN  {builds[i] : i \in {i \in of : \A j \in of : j <= i}}

\* Manager.Run with the tag: the container runs what the tag names now, at an
\* address no other container has.  The fleet is left to a goroutine.
Run(u) ==
  /\ pc[u] = "run"
  /\ \/ /\ \E a \in Addresses \ UNION {address[v] : v \in Uploads} : address' = [address EXCEPT ![u] = {a}]
        /\ sandbox' = [sandbox EXCEPT ![u] = "up"]
        /\ runs' = [runs EXCEPT ![u] = Tagged(slug[u])]
        /\ target' = [target EXCEPT ![u] = address'[u]]
        /\ Goto(u, IF FleetOn THEN "sleep" ELSE "done")
     \/ Goto(u, "failed") /\ UNCHANGED <<address, sandbox, runs, target>>
  /\ UNCHANGED <<form, builds, age, request, fleet, spawned>>

-----------------------------------------------------------------------------
(* spawnFleet and POST /v1/spawn                                           *)

\* time.Sleep is over; the request is sent and reaches the bot fleet, or never does.
Wake(u) ==
  /\ pc[u] = "sleep"
  /\ age[u] >= Pause
  /\ Goto(u, "post")
  /\ request' \in {request, request \cup {u}}
  /\ UNCHANGED <<form, builds, sandboxVars, fleet, target, spawned>>

\* The handler of POST /v1/spawn, which does not ask whether the client still
\* waits: a fleet runs for the duration asked for.
SpawnFleet(u) ==
  /\ u \in request
  /\ request' = request \ {u}
  /\ fleet' = [fleet EXCEPT ![u] = @ \cup {FleetDuration(u)}]
  /\ spawned' = [spawned EXCEPT ![u] = @ + 1]
  /\ UNCHANGED <<form, pc, builds, sandboxVars, target>>

\* Mutant: a request that was not answered is sent once more.
Post_Retry(u) ==
  /\ pc[u] = "post"
  /\ \/ Goto(u, "done") /\ UNCHANGED request
     \/ spawned[u] = 1 /\ request' = request \cup {u} /\ UNCHANGED pc
  /\ UNCHANGED <<form, builds, sandboxVars, fleet, target, spawned>>

\* The answer comes, or an error, or the time limit is over: the client is done
\* with its request, which is not sent again and not taken back.
Post(u) ==
  /\ pc[u] = "post"
  /\ Goto(u, "done")
  /\ UNCHANGED <<form, builds, sandboxVars, fleetVars>>

-----------------------------------------------------------------------------
(* The ends of sandboxes and fleets                                        *)

Remove(u) ==
  /\ sandbox[u] = "up"
  /\ sandbox' = [sandbox EXCEPT ![u] = "gone"]
  /\ address' = [address EXCEPT ![u] = {}]
  /\ UNCHANGED <<form, pc, builds, runs, age, fleetVars>>

\* DELETE /v1/sandbox/{id}
Stop(u) == Remove(u)

enforceTimeout(u) == age[u] >= SandboxTimeout(u) /\ Remove(u)


\* The duration of a fleet is over and its bots have stopped.
FleetEnds(u) ==
  /\ 0 \in fleet[u]
  /\ fleet' = [fleet EXCEPT ![u] = @ \ {0}]
  /\ UNCHANGED <<form, pc, builds, sandboxVars, request, target, spawned>>

\* Timers that run by the age of the sandbox, and those of the fleets.
Ageing(u) == sandbox[u] = "up" \/ pc[u] \in {"sleep", "post"}
Running(u) == \E l \in fleet[u] : l > 0

Due(u) ==
  \/ sandbox[u] = "up" /\ age[u] >= SandboxTimeout(u)
  \/ pc[u] = "sleep" /\ age[u] >= Pause
  \/ pc[u] = "post" /\ age[u] >= Pause + PostTimeout

Tick ==
  /\ \E u \in Uploads : Ageing(u) \/ Running(u)
  /\ \A u \in Uploads : ~Due(u)
  /\ age' = [u \in Uploads |-> IF Ageing(u) THEN age[u] + 1 ELSE age[u]]
  /\ fleet' = [u \in Uploads |-> {IF l = 0 THEN 0 ELSE l - 1 : l \in fleet[u]}]
  /\ UNCHANGED <<form, pc, builds, sandbox, runs, address, request, target, spawned>>

-----------------------------------------------------------------------------

Init ==
  /\ slug \in [Uploads -> Slugs] /\ timeoutS = [u \in Uploads |-> UploadDefault]
  /\ pc = [u \in Uploads |-> "new"]
  /\ builds = <<>>
  /\ sandbox = [u \in Uploads |-> "none"]
  /\ runs = [u \in Uploads |-> {}] /\ address = [u \in Uploads |-> {}]
  /\ age = [u \in Uploads |-> 0]
  /\ request = {}
  /\ fleet = [u \in Uploads |-> {}] /\ target = [u \in Uploads |-> {}]
  /\ spawned = [u \in Uploads |-> 0]

Handler(u) == ParseForm(u) \/ buildContestantImage(u) \/ Run(u)
spawnFleet(u) == Wake(u) \/ Post(u)

Next ==
  \/ \E u \in Uploads : Handler(u) \/ spawnFleet(u) \/ SpawnFleet(u) \/ Stop(u) \/ enforceTimeout(u) \/ FleetEnds(u)
  \/ Tick

Spec == Init /\ [][Next]_vars

\* An upload that began is worked on, timers fire, and the bots of a fleet stop
\* in the end (a write that waits breaks once the sandbox is removed).  Uploads
\* and stops need not come, nor need a request for a fleet ever be handled.
FairSpec ==
  /\ Spec
  /\ WF_vars(Tick)
  /\ \A u \in Uploads :
       /\ WF_vars(buildContestantImage(u) \/ Run(u)) /\ WF_vars(spawnFleet(u))
       /\ WF_vars(enforceTimeout(u)) /\ WF_vars(FleetEnds(u))

-----------------------------------------------------------------------------
(* Properties                                                              *)

BuiltAt(u) == {i \in DOMAIN builds : builds[i] = u}

\* A sandbox runs the binary of its own upload, or one of the same slug whose
\* build ended later: never an older one, nor one of another slug, although
\* uploads build at the same time and share the tag.
RunsUploadedBinary ==
  \A u \in Uploads : sandbox[u] # "none" =>
    \E v \in runs[u] : slug[v] = slug[u] /\ \E i \in BuiltAt(u), j \in BuiltAt(v) : i <= j

\* An upload has one fleet at the most, and none without a sandbox that was
\* started, although the request may be handled after the client gave up on it
\* and nobody learns whether it was (upload.go:258-273, grpcserver/server.go:96).
FleetStartsOnce ==
  \A u \in Uploads : spawned[u] <= 1 /\ (spawned[u] > 0 => sandbox[u] # "none")


\* A fleet sends its orders to the sandbox it was started for, or to nobody: what
\* a reader of upload.go:130-134 expects, and what address reuse breaks.
FleetMeetsOwnSandbox ==
  \A u, w \in Uploads : u # w /\ fleet[u] # {} => target[u] \cap address[w] = {}

=============================================================================
