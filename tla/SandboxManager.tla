--------------------------- MODULE SandboxManager ---------------------------
(***************************************************************************)
(* The sandbox engine's container manager                                  *)
(* (sandbox/internal/manager/manager.go): Run creates, starts and          *)
(* registers a container and starts two goroutines for it, the chaos       *)
(* injector (runChaos) and the hard timeout (enforceTimeout); Stop and     *)
(* Status are called by HTTP clients at any time; the Docker daemon and    *)
(* the bench.events topic are external and answer as the code uses them.   *)
(*                                                                         *)
(* A critical section under Manager.mu is one step, and so is one call of  *)
(* the Docker daemon or of Kafka.  Everything between two of them can be   *)
(* interleaved with the steps of the other goroutines.                     *)
(***************************************************************************)
EXTENDS Naturals, Sequences

CONSTANTS
  Sandboxes,    \* one element per call of Run, naming the container it creates
  Chaotic,      \* the calls of Run with chaos_enabled
  Stoppers,     \* clients of DELETE /v1/sandbox/{id}
  Pollers,      \* clients of GET /v1/sandbox/{id}/status
  IPs,          \* addresses of the sandbox network
  HostAlias,    \* "host.docker.internal", the address in host-network mode
  NoIP,         \* the empty address
  NoSandbox,    \* no entry
  HostNetwork,  \* SANDBOX_NETWORK=host
  MayFail,      \* external calls that may fail for reasons of their own
  SelfExit,     \* whether an engine may exit by itself
  MayRestart    \* whether the manager process may be restarted

FailureKinds == {"create", "start", "inspect", "pause", "unpause", "stop",
                 "remove", "publish", "disconnect"}

ASSUME ConstantsAssumption ==
  /\ Chaotic \subseteq Sandboxes
  /\ NoSandbox \notin Sandboxes
  /\ HostAlias \in IPs
  /\ NoIP \notin IPs
  /\ MayFail \subseteq FailureKinds
  /\ HostNetwork \in BOOLEAN
  /\ SelfExit \in BOOLEAN
  /\ MayRestart \in BOOLEAN

VARIABLES
  runPc,       \* where each call of Run is
  reqDone,     \* calls of Run whose request context is cancelled
  ctr,         \* Docker: state of each container
  addr,        \* Docker: address the container holds on the sandbox network
  selfExited,  \* Docker: containers whose engine exited by itself (observed)
  ipOf,        \* Info.ContainerIP, as read by Run's inspect
  status,      \* Info.Status
  sandboxes,   \* Manager.sandboxes: the registered ids
  ipRegistry,  \* Manager.ipRegistry
  runDone,     \* runCtx expired or cancelled
  proberDone,  \* proberCtx cancelled
  chaosDone,   \* chaosCtx cancelled
  chaosPc,     \* the runChaos goroutine
  enfPc,       \* the enforceTimeout goroutine
  stopPc,      \* where each DELETE is
  stopId,      \* and the id it is about
  pollPc,      \* where each status poll is
  pollId,      \* and the id it is about
  pollSeen,    \* and the container state its inspect returned
  events       \* chaos events of each sandbox that reached bench.events

runVars    == <<runPc, reqDone, ipOf>>
dockerVars == <<ctr, addr, selfExited>>
mapVars    == <<sandboxes, ipRegistry, runDone, proberDone, chaosDone>>
stopVars   == <<stopPc, stopId>>
pollVars   == <<pollPc, pollId, pollSeen>>
vars == <<runVars, dockerVars, mapVars, status, chaosPc, enfPc, stopVars, pollVars, events>>

-----------------------------------------------------------------------------
(* The Docker daemon, as the manager calls it.                             *)

ContainerStates == {"none", "created", "running", "paused", "exited", "removed"}
Alive == {"running", "paused"}
Exists(s) == ctr[s] \notin {"none", "removed"}
FreeIPs == (IPs \ {HostAlias}) \ {addr[t] : t \in Sandboxes}

\* What the daemon accepts: a call in another state of the container fails.
Legal(op, s) ==
  CASE op = "create"  -> ctr[s] = "none"
    [] op = "start"   -> ctr[s] = "created" /\ (HostNetwork \/ FreeIPs # {})
    [] op = "pause"   -> ctr[s] = "running"
    [] op = "unpause" -> ctr[s] = "paused"
    [] OTHER          -> Exists(s)            \* inspect, stop, force remove

\* The state a container is in after a call that took effect.
After(op, s) ==
  CASE op = "create"  -> "created"
    [] op \in {"start", "unpause"} -> "running"
    [] op = "pause"   -> "paused"
    [] op = "stop"    -> IF ctr[s] \in Alive THEN "exited" ELSE ctr[s]
    [] op = "remove"  -> "removed"
    [] OTHER          -> ctr[s]

\* A call that took effect; the network assigns an address at start and
\* takes it back when the container's processes are gone.
Effect(op, s) ==
  /\ ctr' = [ctr EXCEPT ![s] = After(op, s)]
  /\ IF op = "start" /\ ~HostNetwork
       THEN \E ip \in FreeIPs : addr' = [addr EXCEPT ![s] = ip]
       ELSE addr' = IF After(op, s) \in Alive THEN addr ELSE [addr EXCEPT ![s] = NoIP]
  /\ UNCHANGED selfExited

Replies == {"ok", "error"}

\* One call, where `done' is the set of sandboxes whose context for the call
\* is cancelled: it takes effect and answers, it fails without effect, or its
\* answer is lost (the context is cancelled or the connection breaks while
\* the daemon works).
Call(op, s, done, reply) ==
  \/ /\ Legal(op, s) /\ s \notin done
     /\ reply = "ok"
     /\ Effect(op, s)
  \/ /\ ~Legal(op, s) \/ s \in done \/ op \in MayFail
     /\ reply = "error"
     /\ UNCHANGED dockerVars
  \/ /\ Legal(op, s) /\ (s \in done \/ op \in MayFail)
     /\ reply = "error"
     /\ Effect(op, s)

\* The engine's process ends without being asked to.
EngineExit(s) ==
  /\ SelfExit
  /\ ctr[s] = "running"
  /\ ctr' = [ctr EXCEPT ![s] = "exited"]
  /\ addr' = [addr EXCEPT ![s] = NoIP]
  /\ selfExited' = selfExited \cup {s}
  /\ UNCHANGED <<runVars, mapVars, status, chaosPc, enfPc, stopVars, pollVars, events>>

ChaosEvents == {"chaos_start", "chaos_end"}

\* publishChaosEvent: the error of the write is only logged.  A write whose
\* context is already cancelled may still have been queued.
publishChaosEvent(s, ev) ==
  \/ events' = [events EXCEPT ![s] = Append(@, ev)]
  \/ /\ s \in chaosDone \/ "publish" \in MayFail
     /\ UNCHANGED events

-----------------------------------------------------------------------------
(* Manager.Run                                                             *)

Request(s) ==
  /\ runPc[s] = "idle"
  /\ runPc' = [runPc EXCEPT ![s] = "create"]
  /\ UNCHANGED <<reqDone, ipOf, dockerVars, mapVars, status, chaosPc, enfPc, stopVars, pollVars, events>>

\* The HTTP client goes away while Run works for it.
Disconnect(s) ==
  /\ "disconnect" \in MayFail
  /\ runPc[s] \in {"create", "start", "cleanup", "inspect"}
  /\ s \notin reqDone
  /\ reqDone' = reqDone \cup {s}
  /\ UNCHANGED <<runPc, ipOf, dockerVars, mapVars, status, chaosPc, enfPc, stopVars, pollVars, events>>

RunCreate(s) ==
  /\ runPc[s] = "create"
  /\ \E reply \in Replies :
       /\ Call("create", s, reqDone, reply)
       /\ runPc' = [runPc EXCEPT ![s] = IF reply = "error" THEN "failed" ELSE "start"]
  /\ UNCHANGED <<reqDone, ipOf, mapVars, status, chaosPc, enfPc, stopVars, pollVars, events>>

RunStart(s) ==
  /\ runPc[s] = "start"
  /\ \E reply \in Replies :
       /\ Call("start", s, reqDone, reply)
       /\ runPc' = [runPc EXCEPT ![s] = IF reply = "error" THEN "cleanup" ELSE "inspect"]
  /\ UNCHANGED <<reqDone, ipOf, mapVars, status, chaosPc, enfPc, stopVars, pollVars, events>>

\* The removal after a failed start runs under the request's own context.
RunCleanup(s) ==
  /\ runPc[s] = "cleanup"
  /\ \E reply \in Replies : Call("remove", s, reqDone, reply)
  /\ runPc' = [runPc EXCEPT ![s] = "failed"]
  /\ UNCHANGED <<reqDone, ipOf, mapVars, status, chaosPc, enfPc, stopVars, pollVars, events>>

\* An error of the inspect returns at once: nothing undoes the start.
RunInspect(s) ==
  /\ runPc[s] = "inspect"
  /\ \E reply \in Replies :
       /\ Call("inspect", s, reqDone, reply)
       /\ runPc' = [runPc EXCEPT ![s] = IF reply = "error" THEN "failed" ELSE "register"]
       /\ ipOf' = IF reply = "error" THEN ipOf
                  ELSE [ipOf EXCEPT ![s] = IF HostNetwork THEN HostAlias ELSE addr[s]]
  /\ UNCHANGED <<reqDone, mapVars, status, chaosPc, enfPc, stopVars, pollVars, events>>

RunRegister(s) ==
  /\ runPc[s] = "register"
  /\ runPc' = [runPc EXCEPT ![s] = "spawn"]
  /\ sandboxes' = sandboxes \cup {s}
  /\ ipRegistry' = [ip \in IPs |-> IF ip = ipOf[s] THEN s ELSE ipRegistry[ip]]
  /\ status' = [status EXCEPT ![s] = "running"]
  /\ UNCHANGED <<reqDone, ipOf, dockerVars, runDone, proberDone, chaosDone, chaosPc, enfPc,
                 stopVars, pollVars, events>>

\* Mutant: starting the chaos goroutine takes the place of the hard timeout.
RunSpawn_ChaosInsteadOfTimeout(s) ==
  /\ runPc[s] = "spawn"
  /\ runPc' = [runPc EXCEPT ![s] = "returned"]
  /\ IF s \in Chaotic
       THEN /\ chaosPc' = [chaosPc EXCEPT ![s] = "baseline"]
            /\ UNCHANGED <<chaosDone, enfPc>>
       ELSE /\ enfPc' = [enfPc EXCEPT ![s] = "wait"]
            /\ chaosDone' = chaosDone \cup {s} /\ UNCHANGED chaosPc
  /\ UNCHANGED <<reqDone, ipOf, dockerVars, sandboxes, ipRegistry, runDone, proberDone, status,
                 stopVars, pollVars, events>>

\* The goroutines are started and Run returns.
RunSpawn(s) ==
  /\ runPc[s] = "spawn"
  /\ runPc' = [runPc EXCEPT ![s] = "returned"]
  /\ enfPc' = [enfPc EXCEPT ![s] = "wait"]
  /\ IF s \in Chaotic
       THEN chaosPc' = [chaosPc EXCEPT ![s] = "baseline"] /\ UNCHANGED chaosDone
       ELSE chaosDone' = chaosDone \cup {s} /\ UNCHANGED chaosPc
  /\ UNCHANGED <<reqDone, ipOf, dockerVars, sandboxes, ipRegistry, runDone, proberDone, status,
                 stopVars, pollVars, events>>

Run(s) ==
  \/ RunCreate(s) \/ RunStart(s) \/ RunCleanup(s)
  \/ RunInspect(s) \/ RunRegister(s) \/ RunSpawn(s)

-----------------------------------------------------------------------------
(* The critical section shared by Stop and enforceTimeout: a registered    *)
(* sandbox has its goroutines cancelled and its entries deleted.           *)

\* Mutant: the address entry is forgotten.
Deregister_KeepAddress(s) ==
  IF s \in sandboxes
    THEN /\ sandboxes' = sandboxes \ {s}
         /\ proberDone' = proberDone \cup {s}
         /\ chaosDone' = chaosDone \cup {s}
         /\ UNCHANGED ipRegistry
    ELSE UNCHANGED <<sandboxes, ipRegistry, proberDone, chaosDone>>

\* Mutant: the address entry is deleted outside the check for registration.
Deregister_Unchecked(s) ==
  /\ sandboxes' = sandboxes \ {s}
  /\ ipRegistry' = [ip \in IPs |-> IF ip = ipOf[s] THEN NoSandbox ELSE ipRegistry[ip]]
  /\ proberDone' = proberDone \cup {s}
  /\ chaosDone' = chaosDone \cup {s}

Deregister(s) ==
  IF s \in sandboxes
    THEN /\ sandboxes' = sandboxes \ {s}
         /\ ipRegistry' = [ip \in IPs |-> IF ip = ipOf[s] THEN NoSandbox ELSE ipRegistry[ip]]
         /\ proberDone' = proberDone \cup {s}
         /\ chaosDone' = chaosDone \cup {s}
    ELSE UNCHANGED <<sandboxes, ipRegistry, proberDone, chaosDone>>

(* enforceTimeout: started with the sandbox, woken when runCtx is done,    *)
(* by its deadline or by Stop's cancel.                                    *)

Deadline(s) ==
  /\ runPc[s] \in {"spawn", "returned"}
  /\ s \notin runDone
  /\ runDone' = runDone \cup {s}
  /\ UNCHANGED <<runVars, dockerVars, sandboxes, ipRegistry, proberDone, chaosDone, status,
                 chaosPc, enfPc, stopVars, pollVars, events>>

\* Mutant: a sandbox that Stop has already delisted is left to Stop.
EnforceDeregister_TrustStop(s) ==
  /\ enfPc[s] = "wait"
  /\ s \in runDone
  /\ enfPc' = [enfPc EXCEPT ![s] = IF s \in sandboxes THEN "stop" ELSE "done"]
  /\ Deregister(s)
  /\ status' = IF s \in sandboxes THEN [status EXCEPT ![s] = "timed_out"] ELSE status
  /\ UNCHANGED <<runVars, dockerVars, runDone, chaosPc, stopVars, pollVars, events>>

EnforceDeregister(s) ==
  /\ enfPc[s] = "wait"
  /\ s \in runDone
  /\ enfPc' = [enfPc EXCEPT ![s] = "stop"]
  /\ Deregister(s)
  /\ status' = IF s \in sandboxes THEN [status EXCEPT ![s] = "timed_out"] ELSE status
  /\ UNCHANGED <<runVars, dockerVars, runDone, chaosPc, stopVars, pollVars, events>>

\* Mutant: a failed stop ends the goroutine.
EnforceStop_GiveUp(s) ==
  /\ enfPc[s] = "stop"
  /\ \E reply \in Replies :
       /\ Call("stop", s, {}, reply)
       /\ enfPc' = [enfPc EXCEPT ![s] = IF reply = "error" THEN "done" ELSE "remove"]
  /\ UNCHANGED <<runVars, mapVars, status, chaosPc, stopVars, pollVars, events>>

EnforceStop(s) ==
  /\ enfPc[s] = "stop"
  /\ enfPc' = [enfPc EXCEPT ![s] = "remove"]
  /\ \E reply \in Replies : Call("stop", s, {}, reply)
  /\ UNCHANGED <<runVars, mapVars, status, chaosPc, stopVars, pollVars, events>>

EnforceRemove(s) ==
  /\ enfPc[s] = "remove"
  /\ enfPc' = [enfPc EXCEPT ![s] = "done"]
  /\ \E reply \in Replies : Call("remove", s, {}, reply)
  /\ UNCHANGED <<runVars, mapVars, status, chaosPc, stopVars, pollVars, events>>

enforceTimeout(s) == EnforceDeregister(s) \/ EnforceStop(s) \/ EnforceRemove(s)

-----------------------------------------------------------------------------
(* runChaos: baseline, announce, pause, outage window, unpause, announce.  *)

ChaosSkip(s) ==
  /\ chaosPc[s] = "baseline"
  /\ s \in chaosDone
  /\ chaosPc' = [chaosPc EXCEPT ![s] = "done"]
  /\ UNCHANGED <<runVars, dockerVars, mapVars, status, enfPc, stopVars, pollVars, events>>

\* Mutant: the outage starts unannounced.
ChaosBegin_Silent(s) ==
  /\ chaosPc[s] = "baseline"
  /\ chaosPc' = [chaosPc EXCEPT ![s] = "pause"]
  /\ UNCHANGED <<runVars, dockerVars, mapVars, status, enfPc, stopVars, pollVars, events>>

\* The baseline timer fires; a select with both cases ready takes either.
ChaosBegin(s) ==
  /\ chaosPc[s] = "baseline"
  /\ chaosPc' = [chaosPc EXCEPT ![s] = "announce"]
  /\ UNCHANGED <<runVars, dockerVars, mapVars, status, enfPc, stopVars, pollVars, events>>

ChaosAnnounce(s) ==
  /\ chaosPc[s] = "announce"
  /\ chaosPc' = [chaosPc EXCEPT ![s] = "pause"]
  /\ publishChaosEvent(s, "chaos_start")
  /\ UNCHANGED <<runVars, dockerVars, mapVars, status, enfPc, stopVars, pollVars>>

ChaosPause(s) ==
  /\ chaosPc[s] = "pause"
  /\ chaosPc' = [chaosPc EXCEPT ![s] = "window"]
  /\ \E reply \in Replies : Call("pause", s, chaosDone, reply)
  /\ UNCHANGED <<runVars, mapVars, status, enfPc, stopVars, pollVars, events>>

\* Cancelled in the window: unpause under a background context and return.
ChaosAbort(s) ==
  /\ chaosPc[s] = "window"
  /\ s \in chaosDone
  /\ chaosPc' = [chaosPc EXCEPT ![s] = "done"]
  /\ \E reply \in Replies : Call("unpause", s, {}, reply)
  /\ UNCHANGED <<runVars, mapVars, status, enfPc, stopVars, pollVars, events>>

\* Mutant: only the cancelled path resumes the engine.
ChaosWindowOver_NoUnpause(s) ==
  /\ chaosPc[s] = "window"
  /\ chaosPc' = [chaosPc EXCEPT ![s] = "end"]
  /\ UNCHANGED <<runVars, dockerVars, mapVars, status, enfPc, stopVars, pollVars, events>>

ChaosWindowOver(s) ==
  /\ chaosPc[s] = "window"
  /\ chaosPc' = [chaosPc EXCEPT ![s] = "unpause"]
  /\ UNCHANGED <<runVars, dockerVars, mapVars, status, enfPc, stopVars, pollVars, events>>

ChaosUnpause(s) ==
  /\ chaosPc[s] = "unpause"
  /\ chaosPc' = [chaosPc EXCEPT ![s] = "end"]
  /\ \E reply \in Replies : Call("unpause", s, chaosDone, reply)
  /\ UNCHANGED <<runVars, mapVars, status, enfPc, stopVars, pollVars, events>>

ChaosEnd(s) ==
  /\ chaosPc[s] = "end"
  /\ chaosPc' = [chaosPc EXCEPT ![s] = "done"]
  /\ publishChaosEvent(s, "chaos_end")
  /\ UNCHANGED <<runVars, dockerVars, mapVars, status, enfPc, stopVars, pollVars>>

runChaos(s) ==
  \/ ChaosSkip(s) \/ ChaosBegin(s) \/ ChaosAnnounce(s) \/ ChaosPause(s)
  \/ ChaosAbort(s) \/ ChaosWindowOver(s) \/ ChaosUnpause(s) \/ ChaosEnd(s)

-----------------------------------------------------------------------------
(* Manager.Stop, for an id that Run has handed out; clients may retry.     *)

StopDeregister(c, s) ==
  /\ stopPc[c] \notin {"stop", "remove"}
  /\ runPc[s] \in {"returned", "lost"}
  /\ stopPc' = [stopPc EXCEPT ![c] = "stop"]
  /\ stopId' = [stopId EXCEPT ![c] = s]
  /\ runDone' = IF s \in sandboxes THEN runDone \cup {s} ELSE runDone
  /\ Deregister(s)
  /\ UNCHANGED <<runVars, dockerVars, status, chaosPc, enfPc, pollVars, events>>

StopContainer(c) ==
  /\ stopPc[c] = "stop"
  /\ \E reply \in Replies :
       /\ Call("stop", stopId[c], {}, reply)
       /\ stopPc' = [stopPc EXCEPT ![c] = IF reply = "error" THEN "error" ELSE "remove"]
  /\ UNCHANGED <<runVars, mapVars, status, chaosPc, enfPc, stopId, pollVars, events>>

StopRemove(c) ==
  /\ stopPc[c] = "remove"
  /\ \E reply \in Replies :
       /\ Call("remove", stopId[c], {}, reply)
       /\ stopPc' = [stopPc EXCEPT ![c] = IF reply = "error" THEN "error" ELSE "ok"]
  /\ UNCHANGED <<runVars, mapVars, status, chaosPc, enfPc, stopId, pollVars, events>>

Stop(c) == StopContainer(c) \/ StopRemove(c)

-----------------------------------------------------------------------------
(* Manager.Status: lookup, inspect without the lock, second lookup.        *)

StatusLookup(p, s) ==
  /\ pollPc[p] \notin {"inspect", "update"}
  /\ runPc[s] \in {"returned", "lost"}
  /\ pollId' = [pollId EXCEPT ![p] = s]
  /\ pollPc' = [pollPc EXCEPT ![p] = IF s \in sandboxes THEN "inspect" ELSE "error"]
  /\ UNCHANGED <<runVars, dockerVars, mapVars, status, chaosPc, enfPc, stopVars, pollSeen, events>>

StatusInspect(p) ==
  /\ pollPc[p] = "inspect"
  /\ \E reply \in Replies :
       /\ Call("inspect", pollId[p], {}, reply)
       /\ pollPc' = [pollPc EXCEPT ![p] = IF reply = "error" THEN "error" ELSE "update"]
       /\ pollSeen' = IF reply = "error" THEN pollSeen ELSE [pollSeen EXCEPT ![p] = ctr[pollId[p]]]
  /\ UNCHANGED <<runVars, mapVars, status, chaosPc, enfPc, stopVars, pollId, events>>

\* Mutant: the entry found by the first lookup is written without a second one.
StatusUpdate_StaleEntry(p) ==
  /\ pollPc[p] = "update"
  /\ pollPc' = [pollPc EXCEPT ![p] = "ok"]
  /\ status' = [status EXCEPT ![pollId[p]] = pollSeen[p]]
  /\ UNCHANGED <<runVars, dockerVars, mapVars, chaosPc, enfPc, stopVars, pollId, pollSeen, events>>

\* The entry may be gone by now: the answer is then 200 with a null body.
StatusUpdate(p) ==
  /\ pollPc[p] = "update"
  /\ pollPc' = [pollPc EXCEPT ![p] = IF pollId[p] \in sandboxes THEN "ok" ELSE "null"]
  /\ status' = IF pollId[p] \in sandboxes
                 THEN [status EXCEPT ![pollId[p]] = pollSeen[p]] ELSE status
  /\ UNCHANGED <<runVars, dockerVars, mapVars, chaosPc, enfPc, stopVars, pollId, pollSeen, events>>

Status(p) == StatusInspect(p) \/ StatusUpdate(p)

-----------------------------------------------------------------------------
(* The manager process ends and starts again: its maps and goroutines are  *)
(* gone, New does not look for containers of its predecessor, and the      *)
(* containers stay as they are.                                            *)

Restart ==
  /\ MayRestart
  /\ runPc' = [s \in Sandboxes |->
                 CASE runPc[s] \in {"idle", "failed"} -> runPc[s]
                   [] runPc[s] \in {"returned", "lost"} -> "lost"
                   [] OTHER -> "failed"]
  /\ reqDone' = {}
  /\ sandboxes' = {}
  /\ ipRegistry' = [ip \in IPs |-> NoSandbox]
  /\ runDone' = {} /\ proberDone' = {} /\ chaosDone' = {}
  /\ status' = [s \in Sandboxes |-> "none"]
  /\ chaosPc' = [s \in Sandboxes |-> "off"]
  /\ enfPc' = [s \in Sandboxes |-> "off"]
  /\ stopPc' = [c \in Stoppers |-> IF stopPc[c] \in {"stop", "remove"} THEN "error" ELSE stopPc[c]]
  /\ pollPc' = [p \in Pollers |-> IF pollPc[p] \in {"inspect", "update"} THEN "error" ELSE pollPc[p]]
  /\ UNCHANGED <<ipOf, dockerVars, stopId, pollId, pollSeen, events>>

-----------------------------------------------------------------------------

Init ==
  /\ runPc = [s \in Sandboxes |-> "idle"]
  /\ reqDone = {}
  /\ ctr = [s \in Sandboxes |-> "none"]
  /\ addr = [s \in Sandboxes |-> NoIP]
  /\ selfExited = {}
  /\ ipOf = [s \in Sandboxes |-> NoIP]
  /\ status = [s \in Sandboxes |-> "none"]
  /\ sandboxes = {}
  /\ ipRegistry = [ip \in IPs |-> NoSandbox]
  /\ runDone = {} /\ proberDone = {} /\ chaosDone = {}
  /\ chaosPc = [s \in Sandboxes |-> "off"]
  /\ enfPc = [s \in Sandboxes |-> "off"]
  /\ stopPc = [c \in Stoppers |-> "idle"]
  /\ stopId = [c \in Stoppers |-> NoSandbox]
  /\ pollPc = [p \in Pollers |-> "idle"]
  /\ pollId = [p \in Pollers |-> NoSandbox]
  /\ pollSeen = [p \in Pollers |-> "none"]
  /\ events = [s \in Sandboxes |-> <<>>]

Next ==
  \/ \E s \in Sandboxes :
       \/ Request(s) \/ Disconnect(s) \/ Run(s) \/ EngineExit(s)
       \/ Deadline(s) \/ enforceTimeout(s) \/ runChaos(s)
       \/ \E c \in Stoppers : StopDeregister(c, s)
       \/ \E p \in Pollers : StatusLookup(p, s)
  \/ \E c \in Stoppers : Stop(c)
  \/ \E p \in Pollers : Status(p)
  \/ Restart

Spec == Init /\ [][Next]_vars

\* Goroutines that can run do run, timers fire, Docker answers; requests,
\* disconnects, exits and restarts need never happen.
Fairness ==
  /\ \A s \in Sandboxes : /\ WF_vars(Run(s))
                          /\ WF_vars(Deadline(s))
                          /\ WF_vars(enforceTimeout(s))
                          /\ WF_vars(runChaos(s))
  /\ \A c \in Stoppers : WF_vars(Stop(c))
  /\ \A p \in Pollers : WF_vars(Status(p))

FairSpec == Spec /\ Fairness

-----------------------------------------------------------------------------
(* Properties                                                              *)

\* Every variable has its type; an absent map entry is NoSandbox or NoIP.
TypeOK ==
  /\ runPc \in [Sandboxes -> {"idle", "create", "start", "cleanup", "inspect", "register",
                              "spawn", "returned", "failed", "lost"}]
  /\ reqDone \subseteq Sandboxes
  /\ ctr \in [Sandboxes -> ContainerStates]
  /\ addr \in [Sandboxes -> IPs \cup {NoIP}]
  /\ selfExited \subseteq Sandboxes
  /\ ipOf \in [Sandboxes -> IPs \cup {NoIP}]
  /\ status \in [Sandboxes -> ContainerStates \cup {"timed_out"}]
  /\ sandboxes \subseteq Sandboxes
  /\ ipRegistry \in [IPs -> Sandboxes \cup {NoSandbox}]
  /\ runDone \subseteq Sandboxes
  /\ proberDone \subseteq Sandboxes
  /\ chaosDone \subseteq Sandboxes
  /\ chaosPc \in [Sandboxes -> {"off", "baseline", "announce", "pause", "window", "unpause",
                                "end", "done"}]
  /\ enfPc \in [Sandboxes -> {"off", "wait", "stop", "remove", "done"}]
  /\ stopPc \in [Stoppers -> {"idle", "stop", "remove", "ok", "error"}]
  /\ stopId \in [Stoppers -> Sandboxes \cup {NoSandbox}]
  /\ pollPc \in [Pollers -> {"idle", "inspect", "update", "ok", "null", "error"}]
  /\ pollId \in [Pollers -> Sandboxes \cup {NoSandbox}]
  /\ pollSeen \in [Pollers -> ContainerStates]
  /\ events \in [Sandboxes -> Seq(ChaosEvents)]

\* Whatever fails and whoever stops it, a sandbox the manager still lists has
\* its hard timeout pending: enforceTimeout is waiting, or Run is about to
\* start it.  A sandbox listed without an enforcer would never be reclaimed.
RegisteredIsEnforced ==
  \A s \in sandboxes :
    \/ runPc[s] = "spawn"
    \/ runPc[s] = "returned" /\ enfPc[s] = "wait"

\* ipRegistry never names a sandbox that is no longer listed, or names it
\* under an address that is not its own (Run's registration against the
\* deletions of Stop and enforceTimeout).
RegistryNotDangling ==
  \A ip \in IPs :
    ipRegistry[ip] # NoSandbox =>
      ipRegistry[ip] \in sandboxes /\ ipOf[ipRegistry[ip]] = ip

\* Once a sandbox is no longer listed, all three contexts that Run made for it
\* are done: its timeout fires now and its prober and chaos goroutines have
\* been told to stop.
DelistedIsCancelled ==
  \A s \in Sandboxes :
    runPc[s] \in {"spawn", "returned"} /\ s \notin sandboxes =>
      s \in runDone /\ s \in proberDone /\ s \in chaosDone

\* When the daemon honours a forced removal, a sandbox whose enforceTimeout
\* has finished, or whose DELETE was answered with success, has no container
\* any more and is listed nowhere, also when the ContainerStop before it failed.
TornDownIsGone ==
  "remove" \notin MayFail =>
    /\ \A s \in Sandboxes : enfPc[s] = "done" => ctr[s] = "removed" /\ s \notin sandboxes
    /\ \A c \in Stoppers :
         stopPc[c] = "ok" => ctr[stopId[c]] = "removed" /\ stopId[c] \notin sandboxes

\* A container is frozen only inside its own outage window, or while its
\* enforceTimeout is still going to remove it: a Stop or a timeout that meets
\* runChaos anywhere in the window leaves no paused container behind.
PausedIsOwned ==
  {"unpause", "remove"} \cap MayFail = {} =>
    \A s \in Sandboxes :
      ctr[s] = "paused" /\ runPc[s] # "lost" =>
        \/ chaosPc[s] \in {"window", "unpause"}
        \/ s \in chaosDone /\ enfPc[s] \in {"wait", "stop", "remove"}

\* The engine is frozen only after chaos_start is out, and chaos_end is out
\* only when the engine runs again, unless a teardown cancelled the
\* experiment: telemetry takes its baseline and recovery readings on these
\* two events.
EventsBracketOutage ==
  {"publish", "unpause"} \cap MayFail = {} =>
    \A s \in Sandboxes :
      ctr[s] = "paused" /\ s \notin chaosDone /\ runPc[s] # "lost" =>
        events[s] = <<"chaos_start">>

\* A sandbox has at most one chaos_start and one chaos_end in the topic, the
\* start first, however its run is cancelled and whenever the process restarts:
\* what the readers of bench.events rely on.  Either may be missing.
EventsInOrder ==
  \A s \in Sandboxes :
    events[s] \in {<<>>, <<"chaos_start">>, <<"chaos_end">>, <<"chaos_start", "chaos_end">>}

\* A listed sandbox is found under its address in ipRegistry, or its entry was
\* lost to another sandbox that was registered under the same address; on a
\* network with addresses of their own this takes an engine that exited by
\* itself while it was listed, so that Docker gave its address away: then
\* Run's registration overwrites, and Stop and enforceTimeout delete, an entry
\* that is not their sandbox's (manager.go:268, 410, 460).  Concurrent and
\* repeated teardowns alone take no entry away.
EntryLostOnlyToReuse ==
  \A s \in sandboxes :
    ipOf[s] # NoIP /\ ipRegistry[ipOf[s]] # s =>
      \E t \in Sandboxes \ {s} :
        /\ ipOf[t] = ipOf[s]
        /\ HostNetwork \/ {s, t} \cap selfExited # {}

\* Every listed sandbox with an address is found under it.  False where
\* engines exit by themselves, and in host-network mode.
RegistryComplete ==
  \A s \in sandboxes : ipOf[s] # NoIP => ipRegistry[ipOf[s]] = s

\* A timed-out sandbox keeps that status: a Status call that looked it up
\* before the timeout does not write its older reading over it.
TimedOutIsFinal ==
  [][\A s \in Sandboxes :
       status[s] = "timed_out" => status'[s] \in {"timed_out", "none"}]_vars

\* The hard timeout: every listed sandbox is eventually removed from the
\* daemon, whatever else fails, whether or not anyone calls Stop and wherever
\* runChaos has frozen the engine, unless the manager's process is restarted
\* before.
ListedIsReclaimed ==
  \A s \in Sandboxes : s \in sandboxes ~> ctr[s] = "removed" \/ runPc[s] \in {"lost", "failed"}

\* The hard timeout as the architecture document describes it: no container
\* that was started keeps running for ever.
StartedIsReclaimed ==
  \A s \in Sandboxes : ctr[s] = "running" ~> ctr[s] \notin Alive

\* The chaos marker clears: a chaos_start is followed by its chaos_end.
ChaosMarkerClears ==
  \A s \in Sandboxes :
    [](events[s] = <<"chaos_start">> => <>(events[s] # <<"chaos_start">>))

\* A successful Status answer carries the sandbox's status.
StatusHasBody == \A p \in Pollers : pollPc[p] # "null"

=============================================================================
