----------------------- MODULE SandboxManagerProofs -----------------------
(***************************************************************************)
(* Invariants of the sandbox manager, for any number of sandboxes, clients *)
(* and addresses, any choice of failing calls, self-exiting engines and    *)
(* restarts.                                                               *)
(***************************************************************************)
EXTENDS SandboxManager, SequenceTheorems, TLAPS

\* A Docker call of a known kind keeps the types of the daemon's state.
LEMMA CallType ==
  ASSUME TypeOK, NEW s \in Sandboxes, NEW op, NEW done, NEW reply,
         Call(op, s, done, reply)
  PROVE  /\ ctr' \in [Sandboxes -> ContainerStates]
         /\ addr' \in [Sandboxes -> IPs \cup {NoIP}]
         /\ selfExited' \subseteq Sandboxes
<1>1. CASE UNCHANGED dockerVars
  BY <1>1 DEF TypeOK, dockerVars
<1>2. CASE Effect(op, s)
  <2>1. After(op, s) \in ContainerStates
    BY DEF After, TypeOK, ContainerStates
  <2>2. ctr' \in [Sandboxes -> ContainerStates]
    BY <1>2, <2>1 DEF Effect, TypeOK
  <2>3. addr' \in [Sandboxes -> IPs \cup {NoIP}]
    BY <1>2 DEF Effect, TypeOK, FreeIPs
  <2> QED BY <1>2, <2>2, <2>3 DEF Effect, TypeOK
<1> QED BY <1>1, <1>2 DEF Call

\* What a call leaves alone: the other containers, the removal of a removed
\* container, the existence of a created one; only pause freezes a container.
LEMMA CallFrame ==
  ASSUME TypeOK, NEW s \in Sandboxes, NEW op, NEW done, NEW reply,
         Call(op, s, done, reply), op \in FailureKinds
  PROVE  /\ \A t \in Sandboxes : t # s => ctr'[t] = ctr[t] /\ addr'[t] = addr[t]
         /\ ctr[s] = "removed" => ctr'[s] = "removed"
         /\ ctr[s] # "none" => ctr'[s] # "none"
         /\ op # "pause" /\ ctr'[s] = "paused" => ctr[s] = "paused"
         /\ reply = "ok" => ctr'[s] # "none"
<1>1. CASE reply = "error" /\ UNCHANGED dockerVars
  BY <1>1 DEF dockerVars
<1>2. CASE Legal(op, s) /\ Effect(op, s)
  <2>1. ctr' = [ctr EXCEPT ![s] = After(op, s)]
    BY <1>2 DEF Effect
  <2>2. ctr[s] # "removed"
    BY <1>2 DEF Legal, Exists
  <2>3. After(op, s) # "none"
    BY <1>2 DEF After, Legal, Exists, FailureKinds
  <2>4. op # "pause" /\ After(op, s) = "paused" => ctr[s] = "paused"
    BY DEF After, FailureKinds, Alive
  <2>5. \A t \in Sandboxes : t # s => ctr'[t] = ctr[t] /\ addr'[t] = addr[t]
    BY <1>2, <2>1 DEF Effect, TypeOK
  <2> QED BY <2>1, <2>2, <2>3, <2>4, <2>5 DEF TypeOK
<1> QED BY <1>1, <1>2 DEF Call

-----------------------------------------------------------------------------

\* The initial values have their types.
LEMMA TypeInit == Init => TypeOK
BY ConstantsAssumption DEF Init, TypeOK, ContainerStates

\* Publishing keeps the type of the published events.
LEMMA PublishType ==
  ASSUME TypeOK, NEW s \in Sandboxes, NEW ev \in ChaosEvents, publishChaosEvent(s, ev)
  PROVE  events' \in [Sandboxes -> Seq(ChaosEvents)]
<1>1. events \in [Sandboxes -> Seq(ChaosEvents)]
  BY DEF TypeOK
<1>2. events[s] \in Seq(ChaosEvents)
  BY <1>1
<1>3. Append(events[s], ev) \in Seq(ChaosEvents)
  BY <1>2
<1> QED BY <1>1, <1>3 DEF publishChaosEvent

\* Deregistration keeps the types of the manager's maps and contexts.
LEMMA DeregisterType ==
  ASSUME TypeOK, NEW s \in Sandboxes, Deregister(s)
  PROVE  /\ sandboxes' \subseteq Sandboxes
         /\ ipRegistry' \in [IPs -> Sandboxes \cup {NoSandbox}]
         /\ proberDone' \subseteq Sandboxes
         /\ chaosDone' \subseteq Sandboxes
BY DEF Deregister, TypeOK

-----------------------------------------------------------------------------
(* The inductive invariant.  The properties of SandboxManager are not      *)
(* inductive by themselves: they need to know which goroutines and which   *)
(* container states go with which point of Run.                            *)

\* The goroutines of a sandbox exist once Run has returned and as long as the
\* process lives; its container exists from the create call on and is frozen
\* only after Run has returned.
Lifecycle ==
  \A s \in Sandboxes :
    /\ enfPc[s] # "off" <=> runPc[s] = "returned"
    /\ chaosPc[s] # "off" => runPc[s] = "returned"
    /\ runPc[s] \notin {"idle", "create", "failed"} => ctr[s] # "none"
    /\ ctr[s] = "paused" => runPc[s] \in {"returned", "lost"}

\* A client that has called Stop holds the id of a sandbox that is no longer
\* listed; one that has called Status holds the id of a sandbox.
BusyHasId ==
  /\ \A c \in Stoppers :
       stopPc[c] # "idle" => /\ stopId[c] \in Sandboxes \ sandboxes
                            /\ runPc[stopId[c]] \in {"returned", "lost"}
  /\ \A p \in Pollers : pollPc[p] # "idle" => pollId[p] \in Sandboxes

\* A frozen container is in its outage window unless its chaos context is done.
PausedInWindow ==
  "unpause" \notin MayFail =>
    \A s \in Sandboxes :
      ctr[s] = "paused" /\ runPc[s] # "lost" =>
        chaosPc[s] \in {"window", "unpause"} \/ s \in chaosDone

\* How far the two chaos events are at each point of runChaos.
EventsFollowChaos ==
  \A s \in Sandboxes :
    /\ runPc[s] \notin {"returned", "lost"} \/ chaosPc[s] \in {"baseline", "announce"}
         => events[s] = <<>>
    /\ "publish" \notin MayFail /\ s \notin chaosDone /\ chaosPc[s] \in {"pause", "window", "unpause"}
         => events[s] = <<"chaos_start">>
    /\ chaosPc[s] \in {"pause", "window", "unpause", "end"} => events[s] \in {<<>>, <<"chaos_start">>}

\* On a named network, addresses are held by live containers only and by one
\* at a time.
AddressesDistinct ==
  /\ \A s \in Sandboxes : addr[s] # NoIP => ctr[s] \in Alive
  /\ \A s, t \in Sandboxes : addr[s] = addr[t] /\ addr[s] # NoIP => s = t

\* The address Run has read is still the container's as long as the sandbox is
\* listed and its engine has not exited by itself.
AddressHeld ==
  \A s \in Sandboxes \ selfExited :
    /\ runPc[s] \in {"inspect", "register", "spawn"} \/ s \in sandboxes => addr[s] # NoIP
    /\ runPc[s] \in {"register", "spawn"} \/ s \in sandboxes => ipOf[s] = addr[s]

\* Run reads the address of a sandbox once.
AddressUnread ==
  \A s \in Sandboxes : runPc[s] \in {"idle", "create", "start", "inspect"} => ipOf[s] = NoIP

AddressInv ==
  /\ AddressUnread
  /\ ~HostNetwork => AddressesDistinct /\ AddressHeld
  /\ EntryLostOnlyToReuse

\* A sandbox that has timed out is listed no more, so that no second lookup of
\* Status finds it, and Run is past its registration.
TimedOutIsDelisted ==
  \A s \in Sandboxes :
    status[s] = "timed_out" => s \notin sandboxes /\ runPc[s] \in {"returned", "lost"}

\* What a step may make of the status of a sandbox that has timed out.
TimedOutStays ==
  \A s \in Sandboxes :
    status[s] = "timed_out" => status'[s] \in {"timed_out", "none"}

\* No step brings a removed container back.
RemovedStays ==
  \A s \in Sandboxes : ctr[s] = "removed" => ctr'[s] = "removed"

IInv ==
  /\ TypeOK
  /\ Lifecycle /\ BusyHasId /\ RegisteredIsEnforced
  /\ RegistryNotDangling /\ DelistedIsCancelled
  /\ TornDownIsGone /\ PausedInWindow /\ EventsFollowChaos /\ EventsInOrder
  /\ AddressInv /\ TimedOutIsDelisted

\* Every step keeps the types; the ids that clients hold are those of sandboxes.
LEMMA TypeStep == TypeOK /\ BusyHasId /\ [Next]_vars => TypeOK'
<1> SUFFICES ASSUME TypeOK, BusyHasId, [Next]_vars PROVE TypeOK'
  OBVIOUS
<1> USE ConstantsAssumption
<1> USE DEF TypeOK, runVars, dockerVars, mapVars, stopVars, pollVars
<1>1. ASSUME NEW s \in Sandboxes, Request(s) PROVE TypeOK'
  BY <1>1 DEF Request
<1>2. ASSUME NEW s \in Sandboxes, Disconnect(s) PROVE TypeOK'
  BY <1>2 DEF Disconnect
<1>3. ASSUME NEW s \in Sandboxes, RunCreate(s) PROVE TypeOK'
  BY <1>3, CallType DEF RunCreate
<1>4. ASSUME NEW s \in Sandboxes, RunStart(s) PROVE TypeOK'
  BY <1>4, CallType DEF RunStart
<1>5. ASSUME NEW s \in Sandboxes, RunCleanup(s) PROVE TypeOK'
  BY <1>5, CallType DEF RunCleanup
<1>6. ASSUME NEW s \in Sandboxes, RunInspect(s) PROVE TypeOK'
  BY <1>6, CallType DEF RunInspect
<1>7. ASSUME NEW s \in Sandboxes, RunRegister(s) PROVE TypeOK'
  BY <1>7 DEF RunRegister, ContainerStates
<1>8. ASSUME NEW s \in Sandboxes, RunSpawn(s) PROVE TypeOK'
  BY <1>8 DEF RunSpawn
<1>9. ASSUME NEW s \in Sandboxes, EngineExit(s) PROVE TypeOK'
  BY <1>9 DEF EngineExit, ContainerStates
<1>10. ASSUME NEW s \in Sandboxes, Deadline(s) PROVE TypeOK'
  BY <1>10 DEF Deadline
<1>11. ASSUME NEW s \in Sandboxes, EnforceDeregister(s) PROVE TypeOK'
  BY <1>11, DeregisterType DEF EnforceDeregister
<1>12. ASSUME NEW s \in Sandboxes, EnforceStop(s) PROVE TypeOK'
  BY <1>12, CallType DEF EnforceStop
<1>13. ASSUME NEW s \in Sandboxes, EnforceRemove(s) PROVE TypeOK'
  BY <1>13, CallType DEF EnforceRemove
<1>14. ASSUME NEW s \in Sandboxes, ChaosSkip(s) PROVE TypeOK'
  BY <1>14 DEF ChaosSkip
<1>15. ASSUME NEW s \in Sandboxes, ChaosBegin(s) PROVE TypeOK'
  BY <1>15 DEF ChaosBegin
<1>16. ASSUME NEW s \in Sandboxes, ChaosAnnounce(s) PROVE TypeOK'
  BY <1>16, PublishType DEF ChaosAnnounce, ChaosEvents
<1>17. ASSUME NEW s \in Sandboxes, ChaosPause(s) PROVE TypeOK'
  BY <1>17, CallType DEF ChaosPause
<1>18. ASSUME NEW s \in Sandboxes, ChaosAbort(s) PROVE TypeOK'
  BY <1>18, CallType DEF ChaosAbort
<1>19. ASSUME NEW s \in Sandboxes, ChaosWindowOver(s) PROVE TypeOK'
  BY <1>19 DEF ChaosWindowOver
<1>20. ASSUME NEW s \in Sandboxes, ChaosUnpause(s) PROVE TypeOK'
  BY <1>20, CallType DEF ChaosUnpause
<1>21. ASSUME NEW s \in Sandboxes, ChaosEnd(s) PROVE TypeOK'
  BY <1>21, PublishType DEF ChaosEnd, ChaosEvents
<1>22. ASSUME NEW c \in Stoppers, NEW s \in Sandboxes, StopDeregister(c, s) PROVE TypeOK'
  BY <1>22, DeregisterType DEF StopDeregister
<1>23. ASSUME NEW c \in Stoppers, StopContainer(c) PROVE TypeOK'
  BY <1>23, CallType, ZenonT(60) DEF StopContainer, BusyHasId
<1>24. ASSUME NEW c \in Stoppers, StopRemove(c) PROVE TypeOK'
  BY <1>24, CallType, ZenonT(60) DEF StopRemove, BusyHasId
<1>25. ASSUME NEW p \in Pollers, StatusInspect(p) PROVE TypeOK'
  BY <1>25, CallType DEF StatusInspect, BusyHasId
<1>26. ASSUME NEW p \in Pollers, StatusUpdate(p) PROVE TypeOK'
  BY <1>26 DEF StatusUpdate, BusyHasId
<1>27. ASSUME NEW p \in Pollers, NEW s \in Sandboxes, StatusLookup(p, s) PROVE TypeOK'
  BY <1>27 DEF StatusLookup
<1>28. CASE Restart
  BY <1>28 DEF Restart, ContainerStates
<1>29. CASE UNCHANGED vars
  BY <1>29 DEF vars
<1> HIDE DEF TypeOK
<1> QED
  BY <1>1, <1>2, <1>3, <1>4, <1>5, <1>6, <1>7, <1>8, <1>9, <1>10, <1>11, <1>12, <1>13, <1>14, <1>15, <1>16, <1>17, <1>18, <1>19, <1>20, <1>21, <1>22, <1>23, <1>24, <1>25, <1>26, <1>27, <1>28, <1>29
     DEF Next, Run, enforceTimeout, runChaos, Stop, Status
\* A forced removal that the daemon honours leaves no container.
LEMMA RemoveRemoves ==
  ASSUME TypeOK, NEW s \in Sandboxes, NEW reply, "remove" \notin MayFail,
         Call("remove", s, {}, reply), ctr[s] # "none"
  PROVE  ctr'[s] = "removed"
BY DEF Call, Legal, Exists, Effect, After, TypeOK, dockerVars

\* An unpause under a live context that the daemon honours leaves no frozen
\* container.
LEMMA UnpauseResumes ==
  ASSUME TypeOK, NEW s \in Sandboxes, NEW done, NEW reply, "unpause" \notin MayFail,
         Call("unpause", s, done, reply), s \notin done
  PROVE  ctr'[s] # "paused"
BY DEF Call, Legal, Effect, After, TypeOK, dockerVars

\* The container calls of Stop neither revive, nor create, nor freeze a container.
LEMMA StopCallFrame ==
  ASSUME TypeOK, BusyHasId, NEW c \in Stoppers, Stop(c)
  PROVE  \A t \in Sandboxes :
           /\ ctr[t] = "removed" => ctr'[t] = "removed"
           /\ ctr[t] # "none" => ctr'[t] # "none"
           /\ ctr'[t] = "paused" => ctr[t] = "paused"
<1>1. stopId[c] \in Sandboxes
  BY DEF Stop, StopContainer, StopRemove, BusyHasId
<1>2. PICK op \in {"stop", "remove"}, reply \in Replies : Call(op, stopId[c], {}, reply)
  BY DEF Stop, StopContainer, StopRemove
<1>3. op \in FailureKinds /\ op # "pause"
  BY DEF FailureKinds
<1> QED BY <1>1, <1>2, <1>3, CallFrame

\* A removed container never comes back.
LEMMA RemovedStep ==
  TypeOK /\ BusyHasId /\ [Next]_vars => RemovedStays
<1> SUFFICES ASSUME TypeOK, BusyHasId, [Next]_vars PROVE RemovedStays
  OBVIOUS
<1> USE ConstantsAssumption
<1> USE DEF TypeOK, BusyHasId, RemovedStays, runVars, dockerVars, mapVars, stopVars, pollVars
<1>1. ASSUME NEW s \in Sandboxes, Request(s) PROVE RemovedStays
  BY <1>1 DEF Request
<1>2. ASSUME NEW s \in Sandboxes, Disconnect(s) PROVE RemovedStays
  BY <1>2 DEF Disconnect
<1>3. ASSUME NEW s \in Sandboxes, RunCreate(s) PROVE RemovedStays
  BY <1>3, CallFrame DEF RunCreate, FailureKinds
<1>4. ASSUME NEW s \in Sandboxes, RunStart(s) PROVE RemovedStays
  BY <1>4, CallFrame DEF RunStart, FailureKinds
<1>5. ASSUME NEW s \in Sandboxes, RunCleanup(s) PROVE RemovedStays
  BY <1>5, CallFrame DEF RunCleanup, FailureKinds
<1>6. ASSUME NEW s \in Sandboxes, RunInspect(s) PROVE RemovedStays
  BY <1>6, CallFrame DEF RunInspect, FailureKinds
<1>7. ASSUME NEW s \in Sandboxes, RunRegister(s) PROVE RemovedStays
  BY <1>7 DEF RunRegister
<1>8. ASSUME NEW s \in Sandboxes, RunSpawn(s) PROVE RemovedStays
  BY <1>8 DEF RunSpawn
<1>9. ASSUME NEW s \in Sandboxes, EngineExit(s) PROVE RemovedStays
  BY <1>9 DEF EngineExit
<1>10. ASSUME NEW s \in Sandboxes, Deadline(s) PROVE RemovedStays
  BY <1>10 DEF Deadline
<1>11. ASSUME NEW s \in Sandboxes, EnforceDeregister(s) PROVE RemovedStays
  BY <1>11 DEF EnforceDeregister, Deregister
<1>12. ASSUME NEW s \in Sandboxes, EnforceStop(s) PROVE RemovedStays
  BY <1>12, CallFrame DEF EnforceStop, FailureKinds
<1>13. ASSUME NEW s \in Sandboxes, EnforceRemove(s) PROVE RemovedStays
  BY <1>13, CallFrame DEF EnforceRemove, FailureKinds
<1>14. ASSUME NEW s \in Sandboxes, ChaosSkip(s) PROVE RemovedStays
  BY <1>14 DEF ChaosSkip
<1>15. ASSUME NEW s \in Sandboxes, ChaosBegin(s) PROVE RemovedStays
  BY <1>15 DEF ChaosBegin
<1>16. ASSUME NEW s \in Sandboxes, ChaosAnnounce(s) PROVE RemovedStays
  BY <1>16 DEF ChaosAnnounce, publishChaosEvent
<1>17. ASSUME NEW s \in Sandboxes, ChaosPause(s) PROVE RemovedStays
  BY <1>17, CallFrame DEF ChaosPause, FailureKinds
<1>18. ASSUME NEW s \in Sandboxes, ChaosAbort(s) PROVE RemovedStays
  BY <1>18, CallFrame DEF ChaosAbort, FailureKinds
<1>19. ASSUME NEW s \in Sandboxes, ChaosWindowOver(s) PROVE RemovedStays
  BY <1>19 DEF ChaosWindowOver
<1>20. ASSUME NEW s \in Sandboxes, ChaosUnpause(s) PROVE RemovedStays
  BY <1>20, CallFrame DEF ChaosUnpause, FailureKinds
<1>21. ASSUME NEW s \in Sandboxes, ChaosEnd(s) PROVE RemovedStays
  BY <1>21 DEF ChaosEnd, publishChaosEvent
<1>22. ASSUME NEW c \in Stoppers, NEW s \in Sandboxes, StopDeregister(c, s) PROVE RemovedStays
  BY <1>22 DEF StopDeregister, Deregister
<1>23. ASSUME NEW c \in Stoppers, StopContainer(c) PROVE RemovedStays
  BY <1>23, StopCallFrame DEF StopContainer, Stop
<1>24. ASSUME NEW c \in Stoppers, StopRemove(c) PROVE RemovedStays
  BY <1>24, StopCallFrame DEF StopRemove, Stop
<1>25. ASSUME NEW p \in Pollers, NEW s \in Sandboxes, StatusLookup(p, s) PROVE RemovedStays
  BY <1>25 DEF StatusLookup
<1>26. ASSUME NEW p \in Pollers, StatusInspect(p) PROVE RemovedStays
  BY <1>26, CallFrame DEF StatusInspect, FailureKinds
<1>27. ASSUME NEW p \in Pollers, StatusUpdate(p) PROVE RemovedStays
  BY <1>27 DEF StatusUpdate
<1>28. CASE Restart
  BY <1>28 DEF Restart
<1>29. CASE UNCHANGED vars
  BY <1>29 DEF vars
<1> HIDE DEF TypeOK, BusyHasId, RemovedStays
<1> QED
  BY <1>1, <1>2, <1>3, <1>4, <1>5, <1>6, <1>7, <1>8, <1>9, <1>10, <1>11, <1>12, <1>13, <1>14, <1>15, <1>16, <1>17, <1>18, <1>19, <1>20, <1>21, <1>22, <1>23, <1>24, <1>25, <1>26, <1>27, <1>28, <1>29
     DEF Next, Run, enforceTimeout, runChaos, Stop, Status

\* Every step keeps goroutines and container states in step with Run.
LEMMA LifecycleStep ==
  TypeOK /\ Lifecycle /\ BusyHasId /\ [Next]_vars => Lifecycle'
<1> SUFFICES ASSUME TypeOK, Lifecycle, BusyHasId, [Next]_vars PROVE Lifecycle'
  OBVIOUS
<1> USE ConstantsAssumption
<1> USE DEF TypeOK, Lifecycle, BusyHasId, runVars, dockerVars, mapVars, stopVars, pollVars
<1>1. ASSUME NEW s \in Sandboxes, Request(s) PROVE Lifecycle'
  BY <1>1 DEF Request
<1>2. ASSUME NEW s \in Sandboxes, Disconnect(s) PROVE Lifecycle'
  BY <1>2 DEF Disconnect
<1>3. ASSUME NEW s \in Sandboxes, RunCreate(s) PROVE Lifecycle'
  BY <1>3, CallFrame DEF RunCreate, FailureKinds, Replies
<1>4. ASSUME NEW s \in Sandboxes, RunStart(s) PROVE Lifecycle'
  BY <1>4, CallFrame DEF RunStart, FailureKinds
<1>5. ASSUME NEW s \in Sandboxes, RunCleanup(s) PROVE Lifecycle'
  BY <1>5, CallFrame DEF RunCleanup, FailureKinds
<1>6. ASSUME NEW s \in Sandboxes, RunInspect(s) PROVE Lifecycle'
  BY <1>6, CallFrame DEF RunInspect, FailureKinds
<1>7. ASSUME NEW s \in Sandboxes, RunRegister(s) PROVE Lifecycle'
  BY <1>7 DEF RunRegister
<1>8. ASSUME NEW s \in Sandboxes, RunSpawn(s) PROVE Lifecycle'
  BY <1>8 DEF RunSpawn
<1>9. ASSUME NEW s \in Sandboxes, EngineExit(s) PROVE Lifecycle'
  BY <1>9 DEF EngineExit
<1>10. ASSUME NEW s \in Sandboxes, Deadline(s) PROVE Lifecycle'
  BY <1>10 DEF Deadline
<1>11. ASSUME NEW s \in Sandboxes, EnforceDeregister(s) PROVE Lifecycle'
  BY <1>11 DEF EnforceDeregister, Deregister
<1>12. ASSUME NEW s \in Sandboxes, EnforceStop(s) PROVE Lifecycle'
  BY <1>12, CallFrame DEF EnforceStop, FailureKinds
<1>13. ASSUME NEW s \in Sandboxes, EnforceRemove(s) PROVE Lifecycle'
  BY <1>13, CallFrame DEF EnforceRemove, FailureKinds
<1>14. ASSUME NEW s \in Sandboxes, ChaosSkip(s) PROVE Lifecycle'
  BY <1>14 DEF ChaosSkip
<1>15. ASSUME NEW s \in Sandboxes, ChaosBegin(s) PROVE Lifecycle'
  BY <1>15 DEF ChaosBegin
<1>16. ASSUME NEW s \in Sandboxes, ChaosAnnounce(s) PROVE Lifecycle'
  BY <1>16 DEF ChaosAnnounce, publishChaosEvent
<1>17. ASSUME NEW s \in Sandboxes, ChaosPause(s) PROVE Lifecycle'
  BY <1>17, CallFrame DEF ChaosPause, FailureKinds
<1>18. ASSUME NEW s \in Sandboxes, ChaosAbort(s) PROVE Lifecycle'
  BY <1>18, CallFrame DEF ChaosAbort, FailureKinds
<1>19. ASSUME NEW s \in Sandboxes, ChaosWindowOver(s) PROVE Lifecycle'
  BY <1>19 DEF ChaosWindowOver
<1>20. ASSUME NEW s \in Sandboxes, ChaosUnpause(s) PROVE Lifecycle'
  BY <1>20, CallFrame DEF ChaosUnpause, FailureKinds
<1>21. ASSUME NEW s \in Sandboxes, ChaosEnd(s) PROVE Lifecycle'
  BY <1>21 DEF ChaosEnd, publishChaosEvent
<1>22. ASSUME NEW c \in Stoppers, NEW s \in Sandboxes, StopDeregister(c, s) PROVE Lifecycle'
  BY <1>22 DEF StopDeregister, Deregister
<1>23. ASSUME NEW c \in Stoppers, StopContainer(c) PROVE Lifecycle'
  BY <1>23, StopCallFrame DEF StopContainer, Stop
<1>24. ASSUME NEW c \in Stoppers, StopRemove(c) PROVE Lifecycle'
  BY <1>24, StopCallFrame DEF StopRemove, Stop
<1>25. ASSUME NEW p \in Pollers, NEW s \in Sandboxes, StatusLookup(p, s) PROVE Lifecycle'
  BY <1>25 DEF StatusLookup
<1>26. ASSUME NEW p \in Pollers, StatusInspect(p) PROVE Lifecycle'
  BY <1>26, CallFrame DEF StatusInspect, FailureKinds
<1>27. ASSUME NEW p \in Pollers, StatusUpdate(p) PROVE Lifecycle'
  BY <1>27 DEF StatusUpdate
<1>28. CASE Restart
  BY <1>28 DEF Restart
<1>29. CASE UNCHANGED vars
  BY <1>29 DEF vars
<1> HIDE DEF TypeOK, Lifecycle, BusyHasId
<1> QED
  BY <1>1, <1>2, <1>3, <1>4, <1>5, <1>6, <1>7, <1>8, <1>9, <1>10, <1>11, <1>12, <1>13, <1>14, <1>15, <1>16, <1>17, <1>18, <1>19, <1>20, <1>21, <1>22, <1>23, <1>24, <1>25, <1>26, <1>27, <1>28, <1>29
     DEF Next, Run, enforceTimeout, runChaos, Stop, Status

\* Listed sandboxes keep their enforcer, and ids held by Stop stay delisted.
LEMMA ListingStep ==
  TypeOK /\ Lifecycle /\ BusyHasId /\ RegisteredIsEnforced /\ [Next]_vars => (BusyHasId /\ RegisteredIsEnforced)'
<1> SUFFICES ASSUME TypeOK, Lifecycle, BusyHasId, RegisteredIsEnforced, [Next]_vars PROVE (BusyHasId /\ RegisteredIsEnforced)'
  OBVIOUS
<1> USE ConstantsAssumption
<1> USE DEF TypeOK, Lifecycle, BusyHasId, RegisteredIsEnforced, runVars, dockerVars, mapVars, stopVars, pollVars
<1>1. ASSUME NEW s \in Sandboxes, Request(s) PROVE (BusyHasId /\ RegisteredIsEnforced)'
  BY <1>1 DEF Request
<1>2. ASSUME NEW s \in Sandboxes, Disconnect(s) PROVE (BusyHasId /\ RegisteredIsEnforced)'
  BY <1>2 DEF Disconnect
<1>3. ASSUME NEW s \in Sandboxes, RunCreate(s) PROVE (BusyHasId /\ RegisteredIsEnforced)'
  BY <1>3, CallFrame DEF RunCreate, FailureKinds
<1>4. ASSUME NEW s \in Sandboxes, RunStart(s) PROVE (BusyHasId /\ RegisteredIsEnforced)'
  BY <1>4, CallFrame DEF RunStart, FailureKinds
<1>5. ASSUME NEW s \in Sandboxes, RunCleanup(s) PROVE (BusyHasId /\ RegisteredIsEnforced)'
  BY <1>5, CallFrame DEF RunCleanup, FailureKinds
<1>6. ASSUME NEW s \in Sandboxes, RunInspect(s) PROVE (BusyHasId /\ RegisteredIsEnforced)'
  BY <1>6, CallFrame DEF RunInspect, FailureKinds
<1>7. ASSUME NEW s \in Sandboxes, RunRegister(s) PROVE (BusyHasId /\ RegisteredIsEnforced)'
  BY <1>7 DEF RunRegister
<1>8. ASSUME NEW s \in Sandboxes, RunSpawn(s) PROVE (BusyHasId /\ RegisteredIsEnforced)'
  BY <1>8 DEF RunSpawn
<1>9. ASSUME NEW s \in Sandboxes, EngineExit(s) PROVE (BusyHasId /\ RegisteredIsEnforced)'
  BY <1>9 DEF EngineExit
<1>10. ASSUME NEW s \in Sandboxes, Deadline(s) PROVE (BusyHasId /\ RegisteredIsEnforced)'
  BY <1>10 DEF Deadline
<1>11. ASSUME NEW s \in Sandboxes, EnforceDeregister(s) PROVE (BusyHasId /\ RegisteredIsEnforced)'
  BY <1>11 DEF EnforceDeregister, Deregister
<1>12. ASSUME NEW s \in Sandboxes, EnforceStop(s) PROVE (BusyHasId /\ RegisteredIsEnforced)'
  BY <1>12, CallFrame DEF EnforceStop, FailureKinds
<1>13. ASSUME NEW s \in Sandboxes, EnforceRemove(s) PROVE (BusyHasId /\ RegisteredIsEnforced)'
  BY <1>13, CallFrame DEF EnforceRemove, FailureKinds
<1>14. ASSUME NEW s \in Sandboxes, ChaosSkip(s) PROVE (BusyHasId /\ RegisteredIsEnforced)'
  BY <1>14 DEF ChaosSkip
<1>15. ASSUME NEW s \in Sandboxes, ChaosBegin(s) PROVE (BusyHasId /\ RegisteredIsEnforced)'
  BY <1>15 DEF ChaosBegin
<1>16. ASSUME NEW s \in Sandboxes, ChaosAnnounce(s) PROVE (BusyHasId /\ RegisteredIsEnforced)'
  BY <1>16 DEF ChaosAnnounce, publishChaosEvent
<1>17. ASSUME NEW s \in Sandboxes, ChaosPause(s) PROVE (BusyHasId /\ RegisteredIsEnforced)'
  BY <1>17, CallFrame DEF ChaosPause, FailureKinds
<1>18. ASSUME NEW s \in Sandboxes, ChaosAbort(s) PROVE (BusyHasId /\ RegisteredIsEnforced)'
  BY <1>18, CallFrame DEF ChaosAbort, FailureKinds
<1>19. ASSUME NEW s \in Sandboxes, ChaosWindowOver(s) PROVE (BusyHasId /\ RegisteredIsEnforced)'
  BY <1>19 DEF ChaosWindowOver
<1>20. ASSUME NEW s \in Sandboxes, ChaosUnpause(s) PROVE (BusyHasId /\ RegisteredIsEnforced)'
  BY <1>20, CallFrame DEF ChaosUnpause, FailureKinds
<1>21. ASSUME NEW s \in Sandboxes, ChaosEnd(s) PROVE (BusyHasId /\ RegisteredIsEnforced)'
  BY <1>21 DEF ChaosEnd, publishChaosEvent
<1>22. ASSUME NEW c \in Stoppers, NEW s \in Sandboxes, StopDeregister(c, s) PROVE (BusyHasId /\ RegisteredIsEnforced)'
  BY <1>22 DEF StopDeregister, Deregister
<1>23. ASSUME NEW c \in Stoppers, StopContainer(c) PROVE (BusyHasId /\ RegisteredIsEnforced)'
  BY <1>23, StopCallFrame DEF StopContainer, Stop
<1>24. ASSUME NEW c \in Stoppers, StopRemove(c) PROVE (BusyHasId /\ RegisteredIsEnforced)'
  BY <1>24, StopCallFrame DEF StopRemove, Stop
<1>25. ASSUME NEW p \in Pollers, NEW s \in Sandboxes, StatusLookup(p, s) PROVE (BusyHasId /\ RegisteredIsEnforced)'
  BY <1>25 DEF StatusLookup
<1>26. ASSUME NEW p \in Pollers, StatusInspect(p) PROVE (BusyHasId /\ RegisteredIsEnforced)'
  BY <1>26, CallFrame DEF StatusInspect, FailureKinds
<1>27. ASSUME NEW p \in Pollers, StatusUpdate(p) PROVE (BusyHasId /\ RegisteredIsEnforced)'
  BY <1>27 DEF StatusUpdate
<1>28. CASE Restart
  BY <1>28 DEF Restart
<1>29. CASE UNCHANGED vars
  BY <1>29 DEF vars
<1> HIDE DEF TypeOK, Lifecycle, BusyHasId, RegisteredIsEnforced
<1> QED
  BY <1>1, <1>2, <1>3, <1>4, <1>5, <1>6, <1>7, <1>8, <1>9, <1>10, <1>11, <1>12, <1>13, <1>14, <1>15, <1>16, <1>17, <1>18, <1>19, <1>20, <1>21, <1>22, <1>23, <1>24, <1>25, <1>26, <1>27, <1>28, <1>29
     DEF Next, Run, enforceTimeout, runChaos, Stop, Status

\* The address registry names listed sandboxes only, delisted ones are cancelled.
LEMMA RegistryStep ==
  TypeOK /\ RegisteredIsEnforced /\ RegistryNotDangling /\ DelistedIsCancelled /\ [Next]_vars => (RegistryNotDangling /\ DelistedIsCancelled)'
<1> SUFFICES ASSUME TypeOK, RegisteredIsEnforced, RegistryNotDangling, DelistedIsCancelled, [Next]_vars PROVE (RegistryNotDangling /\ DelistedIsCancelled)'
  OBVIOUS
<1> USE ConstantsAssumption
<1> USE DEF TypeOK, RegisteredIsEnforced, RegistryNotDangling, DelistedIsCancelled, runVars, dockerVars, mapVars, stopVars, pollVars
<1>1. ASSUME NEW s \in Sandboxes, Request(s) PROVE (RegistryNotDangling /\ DelistedIsCancelled)'
  BY <1>1 DEF Request
<1>2. ASSUME NEW s \in Sandboxes, Disconnect(s) PROVE (RegistryNotDangling /\ DelistedIsCancelled)'
  BY <1>2 DEF Disconnect
<1>3. ASSUME NEW s \in Sandboxes, RunCreate(s) PROVE (RegistryNotDangling /\ DelistedIsCancelled)'
  BY <1>3 DEF RunCreate
<1>4. ASSUME NEW s \in Sandboxes, RunStart(s) PROVE (RegistryNotDangling /\ DelistedIsCancelled)'
  BY <1>4 DEF RunStart
<1>5. ASSUME NEW s \in Sandboxes, RunCleanup(s) PROVE (RegistryNotDangling /\ DelistedIsCancelled)'
  BY <1>5 DEF RunCleanup
<1>6. ASSUME NEW s \in Sandboxes, RunInspect(s) PROVE (RegistryNotDangling /\ DelistedIsCancelled)'
  <2>1. s \notin sandboxes
    BY <1>6 DEF RunInspect
  <2>2. \A t \in Sandboxes : t # s => ipOf'[t] = ipOf[t] /\ runPc'[t] = runPc[t]
    BY <1>6 DEF RunInspect
  <2>3. UNCHANGED mapVars /\ runPc'[s] \in {"failed", "register"}
    BY <1>6 DEF RunInspect
  <2> QED BY <2>1, <2>2, <2>3
<1>7. ASSUME NEW s \in Sandboxes, RunRegister(s) PROVE (RegistryNotDangling /\ DelistedIsCancelled)'
  BY <1>7 DEF RunRegister
<1>8. ASSUME NEW s \in Sandboxes, RunSpawn(s) PROVE (RegistryNotDangling /\ DelistedIsCancelled)'
  BY <1>8 DEF RunSpawn
<1>9. ASSUME NEW s \in Sandboxes, EngineExit(s) PROVE (RegistryNotDangling /\ DelistedIsCancelled)'
  BY <1>9 DEF EngineExit
<1>10. ASSUME NEW s \in Sandboxes, Deadline(s) PROVE (RegistryNotDangling /\ DelistedIsCancelled)'
  BY <1>10 DEF Deadline
<1>11. ASSUME NEW s \in Sandboxes, EnforceDeregister(s) PROVE (RegistryNotDangling /\ DelistedIsCancelled)'
  BY <1>11 DEF EnforceDeregister, Deregister
<1>12. ASSUME NEW s \in Sandboxes, EnforceStop(s) PROVE (RegistryNotDangling /\ DelistedIsCancelled)'
  BY <1>12 DEF EnforceStop
<1>13. ASSUME NEW s \in Sandboxes, EnforceRemove(s) PROVE (RegistryNotDangling /\ DelistedIsCancelled)'
  BY <1>13 DEF EnforceRemove
<1>14. ASSUME NEW s \in Sandboxes, ChaosSkip(s) PROVE (RegistryNotDangling /\ DelistedIsCancelled)'
  BY <1>14 DEF ChaosSkip
<1>15. ASSUME NEW s \in Sandboxes, ChaosBegin(s) PROVE (RegistryNotDangling /\ DelistedIsCancelled)'
  BY <1>15 DEF ChaosBegin
<1>16. ASSUME NEW s \in Sandboxes, ChaosAnnounce(s) PROVE (RegistryNotDangling /\ DelistedIsCancelled)'
  BY <1>16 DEF ChaosAnnounce, publishChaosEvent
<1>17. ASSUME NEW s \in Sandboxes, ChaosPause(s) PROVE (RegistryNotDangling /\ DelistedIsCancelled)'
  BY <1>17 DEF ChaosPause
<1>18. ASSUME NEW s \in Sandboxes, ChaosAbort(s) PROVE (RegistryNotDangling /\ DelistedIsCancelled)'
  BY <1>18 DEF ChaosAbort
<1>19. ASSUME NEW s \in Sandboxes, ChaosWindowOver(s) PROVE (RegistryNotDangling /\ DelistedIsCancelled)'
  BY <1>19 DEF ChaosWindowOver
<1>20. ASSUME NEW s \in Sandboxes, ChaosUnpause(s) PROVE (RegistryNotDangling /\ DelistedIsCancelled)'
  BY <1>20 DEF ChaosUnpause
<1>21. ASSUME NEW s \in Sandboxes, ChaosEnd(s) PROVE (RegistryNotDangling /\ DelistedIsCancelled)'
  BY <1>21 DEF ChaosEnd, publishChaosEvent
<1>22. ASSUME NEW c \in Stoppers, NEW s \in Sandboxes, StopDeregister(c, s) PROVE (RegistryNotDangling /\ DelistedIsCancelled)'
  BY <1>22 DEF StopDeregister, Deregister
<1>23. ASSUME NEW c \in Stoppers, StopContainer(c) PROVE (RegistryNotDangling /\ DelistedIsCancelled)'
  BY <1>23 DEF StopContainer
<1>24. ASSUME NEW c \in Stoppers, StopRemove(c) PROVE (RegistryNotDangling /\ DelistedIsCancelled)'
  BY <1>24 DEF StopRemove
<1>25. ASSUME NEW p \in Pollers, NEW s \in Sandboxes, StatusLookup(p, s) PROVE (RegistryNotDangling /\ DelistedIsCancelled)'
  BY <1>25 DEF StatusLookup
<1>26. ASSUME NEW p \in Pollers, StatusInspect(p) PROVE (RegistryNotDangling /\ DelistedIsCancelled)'
  BY <1>26 DEF StatusInspect
<1>27. ASSUME NEW p \in Pollers, StatusUpdate(p) PROVE (RegistryNotDangling /\ DelistedIsCancelled)'
  BY <1>27 DEF StatusUpdate
<1>28. CASE Restart
  BY <1>28 DEF Restart
<1>29. CASE UNCHANGED vars
  BY <1>29 DEF vars
<1> HIDE DEF TypeOK, RegisteredIsEnforced, RegistryNotDangling, DelistedIsCancelled
<1> QED
  BY <1>1, <1>2, <1>3, <1>4, <1>5, <1>6, <1>7, <1>8, <1>9, <1>10, <1>11, <1>12, <1>13, <1>14, <1>15, <1>16, <1>17, <1>18, <1>19, <1>20, <1>21, <1>22, <1>23, <1>24, <1>25, <1>26, <1>27, <1>28, <1>29
     DEF Next, Run, enforceTimeout, runChaos, Stop, Status

\* A finished teardown stays final.
LEMMA TeardownStep ==
  TypeOK /\ Lifecycle /\ BusyHasId /\ RegisteredIsEnforced /\ TornDownIsGone /\ [Next]_vars => TornDownIsGone'
<1> SUFFICES ASSUME TypeOK, Lifecycle, BusyHasId, RegisteredIsEnforced, TornDownIsGone, [Next]_vars PROVE TornDownIsGone'
  OBVIOUS
<1> USE ConstantsAssumption
<1> USE DEF TypeOK, Lifecycle, BusyHasId, RegisteredIsEnforced, TornDownIsGone, RemovedStays, runVars, dockerVars, mapVars, stopVars, pollVars
<1>1. ASSUME NEW s \in Sandboxes, Request(s) PROVE TornDownIsGone'
  BY <1>1 DEF Request
<1>2. ASSUME NEW s \in Sandboxes, Disconnect(s) PROVE TornDownIsGone'
  BY <1>2 DEF Disconnect
<1>3. ASSUME NEW s \in Sandboxes, RunCreate(s) PROVE TornDownIsGone'
  BY <1>3, RemovedStep DEF RunCreate
<1>4. ASSUME NEW s \in Sandboxes, RunStart(s) PROVE TornDownIsGone'
  BY <1>4, RemovedStep DEF RunStart
<1>5. ASSUME NEW s \in Sandboxes, RunCleanup(s) PROVE TornDownIsGone'
  BY <1>5, RemovedStep DEF RunCleanup
<1>6. ASSUME NEW s \in Sandboxes, RunInspect(s) PROVE TornDownIsGone'
  BY <1>6, RemovedStep DEF RunInspect
<1>7. ASSUME NEW s \in Sandboxes, RunRegister(s) PROVE TornDownIsGone'
  BY <1>7 DEF RunRegister
<1>8. ASSUME NEW s \in Sandboxes, RunSpawn(s) PROVE TornDownIsGone'
  BY <1>8 DEF RunSpawn
<1>9. ASSUME NEW s \in Sandboxes, EngineExit(s) PROVE TornDownIsGone'
  BY <1>9 DEF EngineExit
<1>10. ASSUME NEW s \in Sandboxes, Deadline(s) PROVE TornDownIsGone'
  BY <1>10 DEF Deadline
<1>11. ASSUME NEW s \in Sandboxes, EnforceDeregister(s) PROVE TornDownIsGone'
  BY <1>11 DEF EnforceDeregister, Deregister
<1>12. ASSUME NEW s \in Sandboxes, EnforceStop(s) PROVE TornDownIsGone'
  BY <1>12, RemovedStep, SMTT(60) DEF EnforceStop
<1>13. ASSUME NEW s \in Sandboxes, EnforceRemove(s) PROVE TornDownIsGone'
  <2>1. ASSUME "remove" \notin MayFail PROVE ctr'[s] = "removed"
    BY <1>13, <2>1, RemoveRemoves DEF EnforceRemove
  <2>2. \A t \in Sandboxes : ctr[t] = "removed" => ctr'[t] = "removed"
    BY RemovedStep
  <2>3. s \notin sandboxes
    BY <1>13 DEF EnforceRemove
  <2>4. \A t \in Sandboxes : t # s => enfPc'[t] = enfPc[t]
    BY <1>13 DEF EnforceRemove
  <2>5. UNCHANGED <<sandboxes, stopPc, stopId>>
    BY <1>13 DEF EnforceRemove
  <2>6. ASSUME "remove" \notin MayFail, NEW t \in Sandboxes, enfPc'[t] = "done"
        PROVE  ctr'[t] = "removed" /\ t \notin sandboxes'
    <3>1. CASE t = s
      BY <2>1, <2>3, <2>5, <2>6, <3>1
    <3>2. CASE t # s
      BY <2>2, <2>4, <2>5, <2>6, <3>2
    <3> QED BY <3>1, <3>2
  <2>7. ASSUME "remove" \notin MayFail, NEW c \in Stoppers, stopPc'[c] = "ok"
        PROVE  ctr'[stopId'[c]] = "removed" /\ stopId'[c] \notin sandboxes'
    BY <2>2, <2>5, <2>7
  <2> QED BY <2>6, <2>7
<1>14. ASSUME NEW s \in Sandboxes, ChaosSkip(s) PROVE TornDownIsGone'
  BY <1>14 DEF ChaosSkip
<1>15. ASSUME NEW s \in Sandboxes, ChaosBegin(s) PROVE TornDownIsGone'
  BY <1>15 DEF ChaosBegin
<1>16. ASSUME NEW s \in Sandboxes, ChaosAnnounce(s) PROVE TornDownIsGone'
  BY <1>16 DEF ChaosAnnounce, publishChaosEvent
<1>17. ASSUME NEW s \in Sandboxes, ChaosPause(s) PROVE TornDownIsGone'
  BY <1>17, RemovedStep DEF ChaosPause
<1>18. ASSUME NEW s \in Sandboxes, ChaosAbort(s) PROVE TornDownIsGone'
  BY <1>18, RemovedStep DEF ChaosAbort
<1>19. ASSUME NEW s \in Sandboxes, ChaosWindowOver(s) PROVE TornDownIsGone'
  BY <1>19 DEF ChaosWindowOver
<1>20. ASSUME NEW s \in Sandboxes, ChaosUnpause(s) PROVE TornDownIsGone'
  BY <1>20, RemovedStep DEF ChaosUnpause
<1>21. ASSUME NEW s \in Sandboxes, ChaosEnd(s) PROVE TornDownIsGone'
  BY <1>21 DEF ChaosEnd, publishChaosEvent
<1>22. ASSUME NEW c \in Stoppers, NEW s \in Sandboxes, StopDeregister(c, s) PROVE TornDownIsGone'
  BY <1>22 DEF StopDeregister, Deregister
<1>23. ASSUME NEW c \in Stoppers, StopContainer(c) PROVE TornDownIsGone'
  <2>1. \A t \in Sandboxes : ctr[t] = "removed" => ctr'[t] = "removed"
    BY RemovedStep
  <2>2. \A b \in Stoppers : stopPc'[b] = "ok" => stopPc[b] = "ok"
    BY <1>23 DEF StopContainer
  <2> QED BY <1>23, <2>1, <2>2 DEF StopContainer
<1>24. ASSUME NEW c \in Stoppers, StopRemove(c) PROVE TornDownIsGone'
  <2>1. \A t \in Sandboxes : ctr[t] = "removed" => ctr'[t] = "removed"
    BY RemovedStep
  <2>2. stopId[c] \in Sandboxes /\ ctr[stopId[c]] # "none" /\ stopId[c] \notin sandboxes
    BY <1>24 DEF StopRemove
  <2>3. ASSUME "remove" \notin MayFail PROVE ctr'[stopId[c]] = "removed"
    BY <1>24, <2>2, <2>3, RemoveRemoves DEF StopRemove
  <2>4. \A b \in Stoppers : b # c => stopPc'[b] = stopPc[b]
    BY <1>24 DEF StopRemove
  <2> QED BY <1>24, <2>1, <2>2, <2>3, <2>4 DEF StopRemove
<1>25. ASSUME NEW p \in Pollers, NEW s \in Sandboxes, StatusLookup(p, s) PROVE TornDownIsGone'
  BY <1>25 DEF StatusLookup
<1>26. ASSUME NEW p \in Pollers, StatusInspect(p) PROVE TornDownIsGone'
  BY <1>26, RemovedStep DEF StatusInspect
<1>27. ASSUME NEW p \in Pollers, StatusUpdate(p) PROVE TornDownIsGone'
  BY <1>27 DEF StatusUpdate
<1>28. CASE Restart
  BY <1>28 DEF Restart
<1>29. CASE UNCHANGED vars
  BY <1>29 DEF vars
<1> HIDE DEF TypeOK, Lifecycle, BusyHasId, RegisteredIsEnforced, TornDownIsGone, RemovedStays
<1> QED
  BY <1>1, <1>2, <1>3, <1>4, <1>5, <1>6, <1>7, <1>8, <1>9, <1>10, <1>11, <1>12, <1>13, <1>14, <1>15, <1>16, <1>17, <1>18, <1>19, <1>20, <1>21, <1>22, <1>23, <1>24, <1>25, <1>26, <1>27, <1>28, <1>29
     DEF Next, Run, enforceTimeout, runChaos, Stop, Status

\* No step leaves a frozen container outside its window with a live context.
LEMMA PausedStep ==
  TypeOK /\ Lifecycle /\ BusyHasId /\ PausedInWindow /\ [Next]_vars => PausedInWindow'
<1> SUFFICES ASSUME TypeOK, Lifecycle, BusyHasId, PausedInWindow, [Next]_vars PROVE PausedInWindow'
  OBVIOUS
<1> USE ConstantsAssumption
<1> USE DEF TypeOK, Lifecycle, BusyHasId, PausedInWindow, runVars, dockerVars, mapVars, stopVars, pollVars
<1>1. ASSUME NEW s \in Sandboxes, Request(s) PROVE PausedInWindow'
  BY <1>1 DEF Request
<1>2. ASSUME NEW s \in Sandboxes, Disconnect(s) PROVE PausedInWindow'
  BY <1>2 DEF Disconnect
<1>3. ASSUME NEW s \in Sandboxes, RunCreate(s) PROVE PausedInWindow'
  BY <1>3, CallFrame DEF RunCreate, FailureKinds
<1>4. ASSUME NEW s \in Sandboxes, RunStart(s) PROVE PausedInWindow'
  BY <1>4, CallFrame DEF RunStart, FailureKinds
<1>5. ASSUME NEW s \in Sandboxes, RunCleanup(s) PROVE PausedInWindow'
  BY <1>5, CallFrame DEF RunCleanup, FailureKinds
<1>6. ASSUME NEW s \in Sandboxes, RunInspect(s) PROVE PausedInWindow'
  BY <1>6, CallFrame DEF RunInspect, FailureKinds
<1>7. ASSUME NEW s \in Sandboxes, RunRegister(s) PROVE PausedInWindow'
  BY <1>7 DEF RunRegister
<1>8. ASSUME NEW s \in Sandboxes, RunSpawn(s) PROVE PausedInWindow'
  BY <1>8 DEF RunSpawn
<1>9. ASSUME NEW s \in Sandboxes, EngineExit(s) PROVE PausedInWindow'
  BY <1>9 DEF EngineExit
<1>10. ASSUME NEW s \in Sandboxes, Deadline(s) PROVE PausedInWindow'
  BY <1>10 DEF Deadline
<1>11. ASSUME NEW s \in Sandboxes, EnforceDeregister(s) PROVE PausedInWindow'
  BY <1>11 DEF EnforceDeregister, Deregister
<1>12. ASSUME NEW s \in Sandboxes, EnforceStop(s) PROVE PausedInWindow'
  BY <1>12, CallFrame DEF EnforceStop, FailureKinds
<1>13. ASSUME NEW s \in Sandboxes, EnforceRemove(s) PROVE PausedInWindow'
  BY <1>13, CallFrame DEF EnforceRemove, FailureKinds
<1>14. ASSUME NEW s \in Sandboxes, ChaosSkip(s) PROVE PausedInWindow'
  BY <1>14 DEF ChaosSkip
<1>15. ASSUME NEW s \in Sandboxes, ChaosBegin(s) PROVE PausedInWindow'
  BY <1>15 DEF ChaosBegin
<1>16. ASSUME NEW s \in Sandboxes, ChaosAnnounce(s) PROVE PausedInWindow'
  BY <1>16 DEF ChaosAnnounce, publishChaosEvent
<1>17. ASSUME NEW s \in Sandboxes, ChaosPause(s) PROVE PausedInWindow'
  BY <1>17, CallFrame DEF ChaosPause, FailureKinds
<1>18. ASSUME NEW s \in Sandboxes, ChaosAbort(s) PROVE PausedInWindow'
  BY <1>18, CallFrame, UnpauseResumes DEF ChaosAbort, FailureKinds
<1>19. ASSUME NEW s \in Sandboxes, ChaosWindowOver(s) PROVE PausedInWindow'
  BY <1>19 DEF ChaosWindowOver
<1>20. ASSUME NEW s \in Sandboxes, ChaosUnpause(s) PROVE PausedInWindow'
  BY <1>20, CallFrame, UnpauseResumes DEF ChaosUnpause, FailureKinds
<1>21. ASSUME NEW s \in Sandboxes, ChaosEnd(s) PROVE PausedInWindow'
  BY <1>21 DEF ChaosEnd, publishChaosEvent
<1>22. ASSUME NEW c \in Stoppers, NEW s \in Sandboxes, StopDeregister(c, s) PROVE PausedInWindow'
  BY <1>22 DEF StopDeregister, Deregister
<1>23. ASSUME NEW c \in Stoppers, StopContainer(c) PROVE PausedInWindow'
  BY <1>23, StopCallFrame DEF StopContainer, Stop
<1>24. ASSUME NEW c \in Stoppers, StopRemove(c) PROVE PausedInWindow'
  BY <1>24, StopCallFrame DEF StopRemove, Stop
<1>25. ASSUME NEW p \in Pollers, NEW s \in Sandboxes, StatusLookup(p, s) PROVE PausedInWindow'
  BY <1>25 DEF StatusLookup
<1>26. ASSUME NEW p \in Pollers, StatusInspect(p) PROVE PausedInWindow'
  BY <1>26, CallFrame DEF StatusInspect, FailureKinds
<1>27. ASSUME NEW p \in Pollers, StatusUpdate(p) PROVE PausedInWindow'
  BY <1>27 DEF StatusUpdate
<1>28. CASE Restart
  BY <1>28 DEF Restart
<1>29. CASE UNCHANGED vars
  BY <1>29 DEF vars
<1> HIDE DEF TypeOK, Lifecycle, BusyHasId, PausedInWindow
<1> QED
  BY <1>1, <1>2, <1>3, <1>4, <1>5, <1>6, <1>7, <1>8, <1>9, <1>10, <1>11, <1>12, <1>13, <1>14, <1>15, <1>16, <1>17, <1>18, <1>19, <1>20, <1>21, <1>22, <1>23, <1>24, <1>25, <1>26, <1>27, <1>28, <1>29
     DEF Next, Run, enforceTimeout, runChaos, Stop, Status

\* Appending to a sequence of no or of one element.
LEMMA AppendOne ==
  ASSUME NEW S, NEW e \in S
  PROVE  Append(<<>>, e) = <<e>>
OBVIOUS

LEMMA AppendTwo ==
  ASSUME NEW S, NEW d \in S, NEW e \in S
  PROVE  Append(<<d>>, e) = <<d, e>>
<1>1. <<d>> \in Seq(S) /\ Len(<<d>>) = 1
  OBVIOUS
<1>2. <<d, e>> \in Seq(S) /\ Len(<<d, e>>) = 2
  OBVIOUS
<1>3. Append(<<d>>, e) \in Seq(S) /\ Len(Append(<<d>>, e)) = 2
  BY <1>1, AppendProperties
<1>4. \A i \in 1 .. 2 : Append(<<d>>, e)[i] = <<d, e>>[i]
  BY <1>1, AppendProperties
<1> QED BY <1>2, <1>3, <1>4, SeqEqual

\* The chaos events follow runChaos.
LEMMA EventsStep ==
  TypeOK /\ Lifecycle /\ EventsFollowChaos /\ [Next]_vars => EventsFollowChaos'
<1> SUFFICES ASSUME TypeOK, Lifecycle, EventsFollowChaos, [Next]_vars PROVE EventsFollowChaos'
  OBVIOUS
<1> USE ConstantsAssumption
<1> USE DEF TypeOK, Lifecycle, EventsFollowChaos, runVars, dockerVars, mapVars, stopVars, pollVars
<1>1. ASSUME NEW s \in Sandboxes, Request(s) PROVE EventsFollowChaos'
  BY <1>1 DEF Request
<1>2. ASSUME NEW s \in Sandboxes, Disconnect(s) PROVE EventsFollowChaos'
  BY <1>2 DEF Disconnect
<1>3. ASSUME NEW s \in Sandboxes, RunCreate(s) PROVE EventsFollowChaos'
  BY <1>3, CallFrame DEF RunCreate, FailureKinds
<1>4. ASSUME NEW s \in Sandboxes, RunStart(s) PROVE EventsFollowChaos'
  BY <1>4, CallFrame DEF RunStart, FailureKinds
<1>5. ASSUME NEW s \in Sandboxes, RunCleanup(s) PROVE EventsFollowChaos'
  BY <1>5, CallFrame DEF RunCleanup, FailureKinds
<1>6. ASSUME NEW s \in Sandboxes, RunInspect(s) PROVE EventsFollowChaos'
  BY <1>6, CallFrame DEF RunInspect, FailureKinds
<1>7. ASSUME NEW s \in Sandboxes, RunRegister(s) PROVE EventsFollowChaos'
  BY <1>7 DEF RunRegister
<1>8. ASSUME NEW s \in Sandboxes, RunSpawn(s) PROVE EventsFollowChaos'
  BY <1>8 DEF RunSpawn
<1>9. ASSUME NEW s \in Sandboxes, EngineExit(s) PROVE EventsFollowChaos'
  BY <1>9 DEF EngineExit
<1>10. ASSUME NEW s \in Sandboxes, Deadline(s) PROVE EventsFollowChaos'
  BY <1>10 DEF Deadline
<1>11. ASSUME NEW s \in Sandboxes, EnforceDeregister(s) PROVE EventsFollowChaos'
  BY <1>11 DEF EnforceDeregister, Deregister
<1>12. ASSUME NEW s \in Sandboxes, EnforceStop(s) PROVE EventsFollowChaos'
  BY <1>12, CallFrame DEF EnforceStop, FailureKinds
<1>13. ASSUME NEW s \in Sandboxes, EnforceRemove(s) PROVE EventsFollowChaos'
  BY <1>13, CallFrame DEF EnforceRemove, FailureKinds
<1>14. ASSUME NEW s \in Sandboxes, ChaosSkip(s) PROVE EventsFollowChaos'
  BY <1>14 DEF ChaosSkip
<1>15. ASSUME NEW s \in Sandboxes, ChaosBegin(s) PROVE EventsFollowChaos'
  BY <1>15 DEF ChaosBegin
<1>16. ASSUME NEW s \in Sandboxes, ChaosAnnounce(s) PROVE EventsFollowChaos'
  <2>1. chaosPc' = [chaosPc EXCEPT ![s] = "pause"] /\ events[s] = <<>>
    BY <1>16 DEF ChaosAnnounce
  <2>2. Append(events[s], "chaos_start") = <<"chaos_start">>
    BY <2>1, AppendOne
  <2>3. events'[s] \in {<<>>, <<"chaos_start">>}
    BY <1>16, <2>1, <2>2 DEF ChaosAnnounce, publishChaosEvent
  <2>4. \A r \in Sandboxes : r # s => events'[r] = events[r] /\ chaosPc'[r] = chaosPc[r]
    BY <1>16 DEF ChaosAnnounce, publishChaosEvent
  <2>5. chaosPc'[s] = "pause"
    BY <2>1
  <2>6. UNCHANGED runPc /\ UNCHANGED chaosDone
    BY <1>16 DEF ChaosAnnounce
  <2>7. "publish" \notin MayFail /\ s \notin chaosDone => events'[s] = <<"chaos_start">>
    BY <1>16, <2>2 DEF ChaosAnnounce, publishChaosEvent
  <2>8. runPc[s] \in {"returned", "lost"}
    BY <1>16 DEF ChaosAnnounce
  <2> QED BY <2>3, <2>4, <2>5, <2>6, <2>7, <2>8
<1>17. ASSUME NEW s \in Sandboxes, ChaosPause(s) PROVE EventsFollowChaos'
  BY <1>17, CallFrame DEF ChaosPause, FailureKinds
<1>18. ASSUME NEW s \in Sandboxes, ChaosAbort(s) PROVE EventsFollowChaos'
  BY <1>18, CallFrame DEF ChaosAbort, FailureKinds
<1>19. ASSUME NEW s \in Sandboxes, ChaosWindowOver(s) PROVE EventsFollowChaos'
  BY <1>19 DEF ChaosWindowOver
<1>20. ASSUME NEW s \in Sandboxes, ChaosUnpause(s) PROVE EventsFollowChaos'
  BY <1>20, CallFrame DEF ChaosUnpause, FailureKinds
<1>21. ASSUME NEW s \in Sandboxes, ChaosEnd(s) PROVE EventsFollowChaos'
  BY <1>21 DEF ChaosEnd, publishChaosEvent
<1>22. ASSUME NEW c \in Stoppers, NEW s \in Sandboxes, StopDeregister(c, s) PROVE EventsFollowChaos'
  BY <1>22 DEF StopDeregister, Deregister
<1>23. ASSUME NEW c \in Stoppers, StopContainer(c) PROVE EventsFollowChaos'
  BY <1>23, StopCallFrame DEF StopContainer, Stop
<1>24. ASSUME NEW c \in Stoppers, StopRemove(c) PROVE EventsFollowChaos'
  BY <1>24, StopCallFrame DEF StopRemove, Stop
<1>25. ASSUME NEW p \in Pollers, NEW s \in Sandboxes, StatusLookup(p, s) PROVE EventsFollowChaos'
  BY <1>25 DEF StatusLookup
<1>26. ASSUME NEW p \in Pollers, StatusInspect(p) PROVE EventsFollowChaos'
  BY <1>26, CallFrame DEF StatusInspect, FailureKinds
<1>27. ASSUME NEW p \in Pollers, StatusUpdate(p) PROVE EventsFollowChaos'
  BY <1>27 DEF StatusUpdate
<1>28. CASE Restart
  BY <1>28 DEF Restart
<1>29. CASE UNCHANGED vars
  BY <1>29 DEF vars
<1> HIDE DEF TypeOK, Lifecycle, EventsFollowChaos
<1> QED
  BY <1>1, <1>2, <1>3, <1>4, <1>5, <1>6, <1>7, <1>8, <1>9, <1>10, <1>11, <1>12, <1>13, <1>14, <1>15, <1>16, <1>17, <1>18, <1>19, <1>20, <1>21, <1>22, <1>23, <1>24, <1>25, <1>26, <1>27, <1>28, <1>29
     DEF Next, Run, enforceTimeout, runChaos, Stop, Status

\* Only the two announcements of runChaos add an event, each at its place.
LEMMA OrderStep ==
  TypeOK /\ EventsFollowChaos /\ EventsInOrder /\ [Next]_vars => EventsInOrder'
<1> SUFFICES ASSUME TypeOK, EventsFollowChaos, EventsInOrder, [Next]_vars PROVE EventsInOrder'
  OBVIOUS
<1>1. CASE UNCHANGED events
  BY <1>1 DEF EventsInOrder
<1>2. ASSUME NEW s \in Sandboxes, NEW ev, events' = [events EXCEPT ![s] = Append(@, ev)],
             \/ ev = "chaos_start" /\ events[s] = <<>>
             \/ ev = "chaos_end" /\ events[s] \in {<<>>, <<"chaos_start">>}
      PROVE  EventsInOrder'
  <2>1. \A r \in Sandboxes : events'[r] = IF r = s THEN Append(events[s], ev) ELSE events[r]
    BY <1>2 DEF TypeOK
  <2>2. /\ Append(<<>>, "chaos_start") = <<"chaos_start">>
        /\ Append(<<>>, "chaos_end") = <<"chaos_end">>
    BY AppendOne
  <2>3. Append(<<"chaos_start">>, "chaos_end") = <<"chaos_start", "chaos_end">>
    <3>1. "chaos_start" \in {"chaos_start", "chaos_end"} /\ "chaos_end" \in {"chaos_start", "chaos_end"}
      OBVIOUS
    <3> QED BY <3>1, AppendTwo, Zenon
  <2> QED BY <1>2, <2>1, <2>2, <2>3 DEF EventsInOrder
<1>3. ASSUME NEW s \in Sandboxes, ChaosAnnounce(s) PROVE EventsInOrder'
  BY <1>1, <1>2, <1>3 DEF ChaosAnnounce, publishChaosEvent, EventsFollowChaos
<1>4. ASSUME NEW s \in Sandboxes, ChaosEnd(s) PROVE EventsInOrder'
  BY <1>1, <1>2, <1>4 DEF ChaosEnd, publishChaosEvent, EventsFollowChaos
<1>5. ASSUME Next, ~\E s \in Sandboxes : ChaosAnnounce(s) \/ ChaosEnd(s) PROVE UNCHANGED events
  BY <1>5 DEF Next, Request, Disconnect, Run, RunCreate, RunStart, RunCleanup, RunInspect, RunRegister, RunSpawn,
     EngineExit, Deadline, enforceTimeout, EnforceDeregister, EnforceStop, EnforceRemove,
     runChaos, ChaosSkip, ChaosBegin, ChaosPause, ChaosAbort, ChaosWindowOver, ChaosUnpause,
     StopDeregister, Stop, StopContainer, StopRemove, StatusLookup, Status, StatusInspect, StatusUpdate, Restart
<1> QED BY <1>1, <1>3, <1>4, <1>5 DEF vars

\* Calls keep addresses distinct and held by live containers; a successful
\* start assigns one; inspect, pause and unpause keep it.
LEMMA CallAddress ==
  ASSUME TypeOK, AddressesDistinct, ~HostNetwork, NEW s \in Sandboxes, NEW op \in FailureKinds,
         NEW done, NEW reply, Call(op, s, done, reply)
  PROVE  /\ AddressesDistinct'
         /\ \A t \in Sandboxes : t # s => addr'[t] = addr[t]
         /\ op = "start" /\ reply = "ok" => addr'[s] # NoIP
         /\ op \in {"inspect", "pause", "unpause"} => addr'[s] = addr[s]
<1> USE ConstantsAssumption
<1>1. CASE reply = "error" /\ UNCHANGED dockerVars
  <2>1. AddressesDistinct'
    BY <1>1 DEF dockerVars, AddressesDistinct
  <2> QED BY <1>1, <2>1 DEF dockerVars
<1>2. CASE Legal(op, s) /\ Effect(op, s)
  <2>1. ctr' = [ctr EXCEPT ![s] = After(op, s)]
    BY <1>2 DEF Effect
  <2>2. CASE op = "start"
    <3>1. PICK ip \in FreeIPs : addr' = [addr EXCEPT ![s] = ip]
      BY <1>2, <2>2 DEF Effect
    <3>2. ip # NoIP /\ \A t \in Sandboxes : addr[t] # ip
      BY <3>1 DEF FreeIPs
    <3>3. After(op, s) \in Alive
      BY <2>2 DEF After, Alive
    <3>4. AddressesDistinct'
      BY <2>1, <3>1, <3>2, <3>3 DEF AddressesDistinct, TypeOK
    <3> QED BY <2>2, <3>1, <3>2, <3>4 DEF TypeOK
  <2>3. CASE op # "start"
    <3>1. addr' = IF After(op, s) \in Alive THEN addr ELSE [addr EXCEPT ![s] = NoIP]
      BY <1>2, <2>3 DEF Effect
    <3>2. AddressesDistinct'
      BY <2>1, <3>1 DEF AddressesDistinct, TypeOK
    <3>3. ASSUME op \in {"inspect", "pause", "unpause"} PROVE addr'[s] = addr[s]
      <4>1. CASE addr[s] = NoIP
        BY <3>1, <4>1 DEF TypeOK
      <4>2. CASE addr[s] # NoIP
        BY <3>1, <3>3, <4>2 DEF After, Alive, AddressesDistinct, TypeOK
      <4> QED BY <4>1, <4>2
    <3> QED BY <2>3, <3>1, <3>2, <3>3 DEF TypeOK
  <2> QED BY <2>2, <2>3
<1> QED BY <1>1, <1>2 DEF Call

\* The container calls of Stop touch the address of a delisted sandbox only.
LEMMA StopCallAddress ==
  ASSUME TypeOK, BusyHasId, AddressesDistinct, ~HostNetwork, NEW c \in Stoppers, Stop(c)
  PROVE  /\ AddressesDistinct'
         /\ \A t \in Sandboxes :
              t \in sandboxes \/ runPc[t] \notin {"returned", "lost"} => addr'[t] = addr[t]
<1>1. /\ stopId[c] \in Sandboxes \ sandboxes
      /\ runPc[stopId[c]] \in {"returned", "lost"}
  BY DEF Stop, StopContainer, StopRemove, BusyHasId
<1>2. PICK op \in {"stop", "remove"}, reply \in Replies : Call(op, stopId[c], {}, reply)
  BY DEF Stop, StopContainer, StopRemove
<1>3. op \in FailureKinds
  BY DEF FailureKinds
<1>4. /\ AddressesDistinct'
      /\ \A t \in Sandboxes : t # stopId[c] => addr'[t] = addr[t]
  BY <1>1, <1>2, <1>3, CallAddress
<1> QED BY <1>1, <1>4

\* A call does not make an engine exit by itself.
LEMMA CallKeepsExits ==
  ASSUME NEW op, NEW s, NEW done, NEW reply, Call(op, s, done, reply)
  PROVE  selfExited' = selfExited
BY DEF Call, Effect, dockerVars

\* Entries are lost by registrations and teardowns only.
LEMMA EntryFrame ==
  ASSUME EntryLostOnlyToReuse, UNCHANGED <<sandboxes, ipRegistry, ipOf>>, selfExited \subseteq selfExited'
  PROVE  EntryLostOnlyToReuse'
BY DEF EntryLostOnlyToReuse

\* A sandbox that takes the entry of a listed one has its address.
LEMMA SharedAddress ==
  ASSUME TypeOK, AddressInv, NEW s \in Sandboxes, NEW t \in Sandboxes \ {s}, ipOf[s] # NoIP, ipOf[t] = ipOf[s],
         runPc[s] \in {"register", "spawn"} \/ s \in sandboxes,
         runPc[t] \in {"register", "spawn"} \/ t \in sandboxes
  PROVE  HostNetwork \/ {s, t} \cap selfExited # {}
<1> SUFFICES ASSUME ~HostNetwork, s \notin selfExited, t \notin selfExited PROVE FALSE
  OBVIOUS
<1>1. addr[s] = ipOf[s] /\ addr[t] = ipOf[t]
  BY DEF AddressInv, AddressHeld
<1> QED BY <1>1 DEF AddressInv, AddressesDistinct

\* Deleting the entry of a listed sandbox takes it from those at its address.
LEMMA DeregisterEntry ==
  ASSUME TypeOK, AddressInv, NEW s \in Sandboxes, Deregister(s), UNCHANGED <<ipOf, selfExited>>
  PROVE  EntryLostOnlyToReuse'
<1>1. CASE s \notin sandboxes
  BY <1>1, EntryFrame DEF Deregister, AddressInv
<1>2. CASE s \in sandboxes
  <2> SUFFICES ASSUME NEW u \in sandboxes', ipOf[u] # NoIP, ipRegistry'[ipOf[u]] # u
               PROVE  \E t \in Sandboxes \ {u} : ipOf[t] = ipOf[u] /\ (HostNetwork \/ {u, t} \cap selfExited # {})
    BY DEF EntryLostOnlyToReuse
  <2>1. u \in sandboxes /\ u # s /\ u \in Sandboxes /\ ipOf[u] \in IPs
    BY <1>2 DEF Deregister, TypeOK
  <2>2. CASE ipOf[s] = ipOf[u]
    <3>1. HostNetwork \/ {u, s} \cap selfExited # {}
      BY <1>2, <2>1, <2>2, SharedAddress
    <3> QED BY <2>1, <2>2, <3>1
  <2>3. CASE ipOf[s] # ipOf[u]
    <3>1. ipRegistry'[ipOf[u]] = ipRegistry[ipOf[u]]
      BY <1>2, <2>1, <2>3 DEF Deregister
    <3> QED BY <2>1, <3>1 DEF AddressInv, EntryLostOnlyToReuse
  <2> QED BY <2>2, <2>3
<1> QED BY <1>1, <1>2

\* As long as its engine has not exited by itself a listed sandbox keeps its
\* address, and its entry is lost to another one at this address only.
LEMMA AddressStep ==
  TypeOK /\ Lifecycle /\ BusyHasId /\ RegisteredIsEnforced /\ AddressInv /\ [Next]_vars => AddressInv'
<1> SUFFICES ASSUME TypeOK, Lifecycle, BusyHasId, RegisteredIsEnforced, AddressInv, [Next]_vars PROVE AddressInv'
  OBVIOUS
<1> USE ConstantsAssumption
<1> USE DEF TypeOK, Lifecycle, BusyHasId, RegisteredIsEnforced, runVars, dockerVars, mapVars, stopVars, pollVars
<1>1. ASSUME NEW s \in Sandboxes, Request(s) PROVE AddressInv'
  <2>1. EntryLostOnlyToReuse'
    BY <1>1, EntryFrame DEF Request, AddressInv
  <2> QED BY <1>1, <2>1 DEF Request, AddressInv, AddressUnread, AddressesDistinct, AddressHeld
<1>2. ASSUME NEW s \in Sandboxes, Disconnect(s) PROVE AddressInv'
  <2>1. EntryLostOnlyToReuse'
    BY <1>2, EntryFrame DEF Disconnect, AddressInv
  <2> QED BY <1>2, <2>1 DEF Disconnect, AddressInv, AddressUnread, AddressesDistinct, AddressHeld
<1>3. ASSUME NEW s \in Sandboxes, RunCreate(s) PROVE AddressInv'
  <2>1. EntryLostOnlyToReuse' /\ AddressUnread' /\ UNCHANGED selfExited
    BY <1>3, CallKeepsExits, EntryFrame DEF RunCreate, AddressInv, AddressUnread
  <2>2. CASE ~HostNetwork
    <3>1. /\ AddressesDistinct'
          /\ \A t \in Sandboxes : t # s => addr'[t] = addr[t]
      BY <1>3, <2>2, CallAddress DEF RunCreate, AddressInv, FailureKinds, Replies
    <3> QED BY <1>3, <2>1, <2>2, <3>1 DEF RunCreate, AddressInv, AddressHeld
  <2> QED BY <2>1, <2>2 DEF AddressInv
<1>4. ASSUME NEW s \in Sandboxes, RunStart(s) PROVE AddressInv'
  <2>1. EntryLostOnlyToReuse' /\ AddressUnread' /\ UNCHANGED selfExited
    BY <1>4, CallKeepsExits, EntryFrame DEF RunStart, AddressInv, AddressUnread
  <2>2. CASE ~HostNetwork
    <3>1. /\ AddressesDistinct'
          /\ \A t \in Sandboxes : t # s => addr'[t] = addr[t]
          /\ runPc'[s] = "inspect" => addr'[s] # NoIP
      BY <1>4, <2>2, CallAddress DEF RunStart, AddressInv, FailureKinds, Replies
    <3> QED BY <1>4, <2>1, <2>2, <3>1 DEF RunStart, AddressInv, AddressHeld
  <2> QED BY <2>1, <2>2 DEF AddressInv
<1>5. ASSUME NEW s \in Sandboxes, RunCleanup(s) PROVE AddressInv'
  <2>1. EntryLostOnlyToReuse' /\ AddressUnread' /\ UNCHANGED selfExited
    BY <1>5, CallKeepsExits, EntryFrame DEF RunCleanup, AddressInv, AddressUnread
  <2>2. CASE ~HostNetwork
    <3>1. /\ AddressesDistinct'
          /\ \A t \in Sandboxes : t # s => addr'[t] = addr[t]
      BY <1>5, <2>2, CallAddress DEF RunCleanup, AddressInv, FailureKinds, Replies
    <3> QED BY <1>5, <2>1, <2>2, <3>1 DEF RunCleanup, AddressInv, AddressHeld
  <2> QED BY <2>1, <2>2 DEF AddressInv
<1>6. ASSUME NEW s \in Sandboxes, RunInspect(s) PROVE AddressInv'
  <2>1. UNCHANGED selfExited /\ AddressUnread'
    BY <1>6, CallKeepsExits DEF RunInspect, AddressInv, AddressUnread
  <2>2. \A t \in Sandboxes : t # s => ipOf'[t] = ipOf[t]
    BY <1>6 DEF RunInspect
  <2>3. ipOf[s] = NoIP /\ s \notin sandboxes
    BY <1>6 DEF RunInspect, AddressInv, AddressUnread
  <2>4. UNCHANGED <<sandboxes, ipRegistry>>
    BY <1>6 DEF RunInspect
  <2>5. EntryLostOnlyToReuse'
    <3> SUFFICES ASSUME NEW u \in sandboxes, ipOf'[u] # NoIP, ipRegistry[ipOf'[u]] # u
                 PROVE  \E t \in Sandboxes \ {u} : ipOf'[t] = ipOf'[u] /\ (HostNetwork \/ {u, t} \cap selfExited # {})
      BY <2>1, <2>4 DEF EntryLostOnlyToReuse
    <3>1. u # s /\ u \in Sandboxes
      BY <2>3
    <3>2. PICK t \in Sandboxes \ {u} : ipOf[t] = ipOf[u] /\ (HostNetwork \/ {u, t} \cap selfExited # {})
      BY <2>2, <3>1 DEF AddressInv, EntryLostOnlyToReuse
    <3>3. t # s
      BY <2>2, <2>3, <3>1, <3>2
    <3> QED BY <2>2, <3>1, <3>2, <3>3
  <2>6. CASE ~HostNetwork
    <3>1. /\ AddressesDistinct'
          /\ \A t \in Sandboxes : t # s => addr'[t] = addr[t]
          /\ addr'[s] = addr[s]
      BY <1>6, <2>6, CallAddress DEF RunInspect, AddressInv, FailureKinds, Replies
    <3> QED BY <1>6, <2>1, <2>5, <2>6, <3>1 DEF RunInspect, AddressInv, AddressHeld
  <2> QED BY <2>1, <2>5, <2>6 DEF AddressInv
<1>7. ASSUME NEW s \in Sandboxes, RunRegister(s) PROVE AddressInv'
  <2>1. EntryLostOnlyToReuse'
    <3> SUFFICES ASSUME NEW u \in sandboxes', ipOf[u] # NoIP, ipRegistry'[ipOf[u]] # u
                 PROVE  \E t \in Sandboxes \ {u} : ipOf[t] = ipOf[u] /\ (HostNetwork \/ {u, t} \cap selfExited # {})
      BY <1>7 DEF RunRegister, EntryLostOnlyToReuse
    <3>1. u \in Sandboxes /\ ipOf[u] \in IPs /\ u # s /\ u \in sandboxes
      BY <1>7 DEF RunRegister
    <3>2. CASE ipOf[s] = ipOf[u]
      <4>1. HostNetwork \/ {u, s} \cap selfExited # {}
        BY <1>7, <3>1, <3>2, SharedAddress DEF RunRegister
      <4> QED BY <3>1, <3>2, <4>1
    <3>3. CASE ipOf[s] # ipOf[u]
      <4>1. ipRegistry'[ipOf[u]] = ipRegistry[ipOf[u]]
        BY <1>7, <3>1, <3>3 DEF RunRegister
      <4> QED BY <3>1, <4>1 DEF AddressInv, EntryLostOnlyToReuse
    <3> QED BY <3>2, <3>3
  <2> QED BY <1>7, <2>1 DEF RunRegister, AddressInv, AddressUnread, AddressesDistinct, AddressHeld
<1>8. ASSUME NEW s \in Sandboxes, RunSpawn(s) PROVE AddressInv'
  <2>1. EntryLostOnlyToReuse'
    BY <1>8, EntryFrame DEF RunSpawn, AddressInv
  <2> QED BY <1>8, <2>1 DEF RunSpawn, AddressInv, AddressUnread, AddressesDistinct, AddressHeld
<1>9. ASSUME NEW s \in Sandboxes, EngineExit(s) PROVE AddressInv'
  <2>1. EntryLostOnlyToReuse'
    BY <1>9, EntryFrame DEF EngineExit, AddressInv
  <2> QED BY <1>9, <2>1 DEF EngineExit, AddressInv, AddressUnread, AddressesDistinct, AddressHeld
<1>10. ASSUME NEW s \in Sandboxes, Deadline(s) PROVE AddressInv'
  <2>1. EntryLostOnlyToReuse'
    BY <1>10, EntryFrame DEF Deadline, AddressInv
  <2> QED BY <1>10, <2>1 DEF Deadline, AddressInv, AddressUnread, AddressesDistinct, AddressHeld
<1>11. ASSUME NEW s \in Sandboxes, EnforceDeregister(s) PROVE AddressInv'
  <2>1. EntryLostOnlyToReuse'
    BY <1>11, DeregisterEntry DEF EnforceDeregister
  <2> QED BY <1>11, <2>1 DEF EnforceDeregister, Deregister, AddressInv, AddressUnread, AddressesDistinct, AddressHeld
<1>12. ASSUME NEW s \in Sandboxes, EnforceStop(s) PROVE AddressInv'
  <2>1. EntryLostOnlyToReuse' /\ AddressUnread' /\ UNCHANGED selfExited
    BY <1>12, CallKeepsExits, EntryFrame DEF EnforceStop, AddressInv, AddressUnread
  <2>2. CASE ~HostNetwork
    <3>1. /\ AddressesDistinct'
          /\ \A t \in Sandboxes : t # s => addr'[t] = addr[t]
      BY <1>12, <2>2, CallAddress DEF EnforceStop, AddressInv, FailureKinds, Replies
    <3> QED BY <1>12, <2>1, <2>2, <3>1 DEF EnforceStop, AddressInv, AddressHeld
  <2> QED BY <2>1, <2>2 DEF AddressInv
<1>13. ASSUME NEW s \in Sandboxes, EnforceRemove(s) PROVE AddressInv'
  <2>1. EntryLostOnlyToReuse' /\ AddressUnread' /\ UNCHANGED selfExited
    BY <1>13, CallKeepsExits, EntryFrame DEF EnforceRemove, AddressInv, AddressUnread
  <2>2. CASE ~HostNetwork
    <3>1. /\ AddressesDistinct'
          /\ \A t \in Sandboxes : t # s => addr'[t] = addr[t]
      BY <1>13, <2>2, CallAddress DEF EnforceRemove, AddressInv, FailureKinds, Replies
    <3> QED BY <1>13, <2>1, <2>2, <3>1 DEF EnforceRemove, AddressInv, AddressHeld
  <2> QED BY <2>1, <2>2 DEF AddressInv
<1>14. ASSUME NEW s \in Sandboxes, ChaosSkip(s) PROVE AddressInv'
  <2>1. EntryLostOnlyToReuse'
    BY <1>14, EntryFrame DEF ChaosSkip, AddressInv
  <2> QED BY <1>14, <2>1 DEF ChaosSkip, AddressInv, AddressUnread, AddressesDistinct, AddressHeld
<1>15. ASSUME NEW s \in Sandboxes, ChaosBegin(s) PROVE AddressInv'
  <2>1. EntryLostOnlyToReuse'
    BY <1>15, EntryFrame DEF ChaosBegin, AddressInv
  <2> QED BY <1>15, <2>1 DEF ChaosBegin, AddressInv, AddressUnread, AddressesDistinct, AddressHeld
<1>16. ASSUME NEW s \in Sandboxes, ChaosAnnounce(s) PROVE AddressInv'
  <2>1. EntryLostOnlyToReuse'
    BY <1>16, EntryFrame DEF ChaosAnnounce, publishChaosEvent, AddressInv
  <2> QED BY <1>16, <2>1 DEF ChaosAnnounce, publishChaosEvent, AddressInv, AddressUnread, AddressesDistinct, AddressHeld
<1>17. ASSUME NEW s \in Sandboxes, ChaosPause(s) PROVE AddressInv'
  <2>1. EntryLostOnlyToReuse' /\ AddressUnread' /\ UNCHANGED selfExited
    BY <1>17, CallKeepsExits, EntryFrame DEF ChaosPause, AddressInv, AddressUnread
  <2>2. CASE ~HostNetwork
    <3>1. /\ AddressesDistinct'
          /\ \A t \in Sandboxes : t # s => addr'[t] = addr[t]
          /\ addr'[s] = addr[s]
      BY <1>17, <2>2, CallAddress DEF ChaosPause, AddressInv, FailureKinds, Replies
    <3> QED BY <1>17, <2>1, <2>2, <3>1 DEF ChaosPause, AddressInv, AddressHeld
  <2> QED BY <2>1, <2>2 DEF AddressInv
<1>18. ASSUME NEW s \in Sandboxes, ChaosAbort(s) PROVE AddressInv'
  <2>1. EntryLostOnlyToReuse' /\ AddressUnread' /\ UNCHANGED selfExited
    BY <1>18, CallKeepsExits, EntryFrame DEF ChaosAbort, AddressInv, AddressUnread
  <2>2. CASE ~HostNetwork
    <3>1. /\ AddressesDistinct'
          /\ \A t \in Sandboxes : t # s => addr'[t] = addr[t]
          /\ addr'[s] = addr[s]
      BY <1>18, <2>2, CallAddress DEF ChaosAbort, AddressInv, FailureKinds, Replies
    <3> QED BY <1>18, <2>1, <2>2, <3>1 DEF ChaosAbort, AddressInv, AddressHeld
  <2> QED BY <2>1, <2>2 DEF AddressInv
<1>19. ASSUME NEW s \in Sandboxes, ChaosWindowOver(s) PROVE AddressInv'
  <2>1. EntryLostOnlyToReuse'
    BY <1>19, EntryFrame DEF ChaosWindowOver, AddressInv
  <2> QED BY <1>19, <2>1 DEF ChaosWindowOver, AddressInv, AddressUnread, AddressesDistinct, AddressHeld
<1>20. ASSUME NEW s \in Sandboxes, ChaosUnpause(s) PROVE AddressInv'
  <2>1. EntryLostOnlyToReuse' /\ AddressUnread' /\ UNCHANGED selfExited
    BY <1>20, CallKeepsExits, EntryFrame DEF ChaosUnpause, AddressInv, AddressUnread
  <2>2. CASE ~HostNetwork
    <3>1. /\ AddressesDistinct'
          /\ \A t \in Sandboxes : t # s => addr'[t] = addr[t]
          /\ addr'[s] = addr[s]
      BY <1>20, <2>2, CallAddress DEF ChaosUnpause, AddressInv, FailureKinds, Replies
    <3> QED BY <1>20, <2>1, <2>2, <3>1 DEF ChaosUnpause, AddressInv, AddressHeld
  <2> QED BY <2>1, <2>2 DEF AddressInv
<1>21. ASSUME NEW s \in Sandboxes, ChaosEnd(s) PROVE AddressInv'
  <2>1. EntryLostOnlyToReuse'
    BY <1>21, EntryFrame DEF ChaosEnd, publishChaosEvent, AddressInv
  <2> QED BY <1>21, <2>1 DEF ChaosEnd, publishChaosEvent, AddressInv, AddressUnread, AddressesDistinct, AddressHeld
<1>22. ASSUME NEW c \in Stoppers, NEW s \in Sandboxes, StopDeregister(c, s) PROVE AddressInv'
  <2>1. EntryLostOnlyToReuse'
    BY <1>22, DeregisterEntry DEF StopDeregister
  <2> QED BY <1>22, <2>1 DEF StopDeregister, Deregister, AddressInv, AddressUnread, AddressesDistinct, AddressHeld
<1>23. ASSUME NEW c \in Stoppers, StopContainer(c) PROVE AddressInv'
  <2>1. EntryLostOnlyToReuse' /\ AddressUnread' /\ UNCHANGED selfExited
    BY <1>23, CallKeepsExits, EntryFrame DEF StopContainer, AddressInv, AddressUnread
  <2>2. CASE ~HostNetwork
    <3>1. /\ AddressesDistinct'
          /\ \A t \in Sandboxes :
               t \in sandboxes \/ runPc[t] \notin {"returned", "lost"} => addr'[t] = addr[t]
      BY <1>23, <2>2, StopCallAddress DEF Stop, AddressInv
    <3>2. UNCHANGED <<runVars, mapVars>>
      BY <1>23 DEF StopContainer
    <3> QED BY <2>1, <2>2, <3>1, <3>2 DEF AddressInv, AddressHeld
  <2> QED BY <2>1, <2>2 DEF AddressInv
<1>24. ASSUME NEW c \in Stoppers, StopRemove(c) PROVE AddressInv'
  <2>1. EntryLostOnlyToReuse' /\ AddressUnread' /\ UNCHANGED selfExited
    BY <1>24, CallKeepsExits, EntryFrame DEF StopRemove, AddressInv, AddressUnread
  <2>2. CASE ~HostNetwork
    <3>1. /\ AddressesDistinct'
          /\ \A t \in Sandboxes :
               t \in sandboxes \/ runPc[t] \notin {"returned", "lost"} => addr'[t] = addr[t]
      BY <1>24, <2>2, StopCallAddress DEF Stop, AddressInv
    <3>2. UNCHANGED <<runVars, mapVars>>
      BY <1>24 DEF StopRemove
    <3> QED BY <2>1, <2>2, <3>1, <3>2 DEF AddressInv, AddressHeld
  <2> QED BY <2>1, <2>2 DEF AddressInv
<1>25. ASSUME NEW p \in Pollers, NEW s \in Sandboxes, StatusLookup(p, s) PROVE AddressInv'
  <2>1. EntryLostOnlyToReuse'
    BY <1>25, EntryFrame DEF StatusLookup, AddressInv
  <2> QED BY <1>25, <2>1 DEF StatusLookup, AddressInv, AddressUnread, AddressesDistinct, AddressHeld
<1>26. ASSUME NEW p \in Pollers, StatusInspect(p) PROVE AddressInv'
  <2>1. EntryLostOnlyToReuse' /\ AddressUnread' /\ UNCHANGED selfExited
    BY <1>26, CallKeepsExits, EntryFrame DEF StatusInspect, AddressInv, AddressUnread
  <2>2. CASE ~HostNetwork
    <3>1. /\ AddressesDistinct'
          /\ \A t \in Sandboxes : t # pollId[p] => addr'[t] = addr[t]
          /\ addr'[pollId[p]] = addr[pollId[p]]
      BY <1>26, <2>2, CallAddress DEF StatusInspect, AddressInv, FailureKinds, Replies, BusyHasId
    <3> QED BY <1>26, <2>1, <2>2, <3>1 DEF StatusInspect, AddressInv, AddressHeld
  <2> QED BY <2>1, <2>2 DEF AddressInv
<1>27. ASSUME NEW p \in Pollers, StatusUpdate(p) PROVE AddressInv'
  <2>1. EntryLostOnlyToReuse'
    BY <1>27, EntryFrame DEF StatusUpdate, AddressInv
  <2> QED BY <1>27, <2>1 DEF StatusUpdate, AddressInv, AddressUnread, AddressesDistinct, AddressHeld
<1>28. CASE Restart
  BY <1>28 DEF Restart, AddressInv, AddressUnread, AddressesDistinct, AddressHeld, EntryLostOnlyToReuse
<1>29. CASE UNCHANGED vars
  <2>1. EntryLostOnlyToReuse'
    BY <1>29, EntryFrame DEF vars, AddressInv
  <2> QED BY <1>29, <2>1 DEF vars, AddressInv, AddressUnread, AddressesDistinct, AddressHeld
<1> HIDE DEF TypeOK, Lifecycle, BusyHasId, RegisteredIsEnforced
<1> QED
  BY <1>1, <1>2, <1>3, <1>4, <1>5, <1>6, <1>7, <1>8, <1>9, <1>10, <1>11, <1>12, <1>13, <1>14, <1>15, <1>16, <1>17, <1>18, <1>19, <1>20, <1>21, <1>22, <1>23, <1>24, <1>25, <1>26, <1>27, <1>28, <1>29
     DEF Next, Run, enforceTimeout, runChaos, Stop, Status

\* Only Run's registration and a Status call that finds its sandbox listed write
\* over a status, and neither meets a sandbox that has timed out.
LEMMA TimedOutStep ==
  TypeOK /\ Lifecycle /\ BusyHasId /\ TimedOutIsDelisted /\ [Next]_vars => TimedOutIsDelisted' /\ TimedOutStays
<1> SUFFICES ASSUME TypeOK, Lifecycle, BusyHasId, TimedOutIsDelisted, [Next]_vars PROVE TimedOutIsDelisted' /\ TimedOutStays
  OBVIOUS
<1> USE ConstantsAssumption
<1> USE DEF TypeOK, BusyHasId, TimedOutIsDelisted, TimedOutStays, runVars, dockerVars, mapVars, stopVars, pollVars
<1>1. ASSUME NEW s \in Sandboxes, Request(s) PROVE TimedOutIsDelisted' /\ TimedOutStays
  BY <1>1 DEF Request
<1>2. ASSUME NEW s \in Sandboxes, Disconnect(s) PROVE TimedOutIsDelisted' /\ TimedOutStays
  BY <1>2 DEF Disconnect
<1>3. ASSUME NEW s \in Sandboxes, RunCreate(s) PROVE TimedOutIsDelisted' /\ TimedOutStays
  BY <1>3 DEF RunCreate
<1>4. ASSUME NEW s \in Sandboxes, RunStart(s) PROVE TimedOutIsDelisted' /\ TimedOutStays
  BY <1>4 DEF RunStart
<1>5. ASSUME NEW s \in Sandboxes, RunCleanup(s) PROVE TimedOutIsDelisted' /\ TimedOutStays
  BY <1>5 DEF RunCleanup
<1>6. ASSUME NEW s \in Sandboxes, RunInspect(s) PROVE TimedOutIsDelisted' /\ TimedOutStays
  BY <1>6 DEF RunInspect
<1>7. ASSUME NEW s \in Sandboxes, RunRegister(s) PROVE TimedOutIsDelisted' /\ TimedOutStays
  BY <1>7, ZenonT(60) DEF RunRegister
<1>8. ASSUME NEW s \in Sandboxes, RunSpawn(s) PROVE TimedOutIsDelisted' /\ TimedOutStays
  BY <1>8 DEF RunSpawn
<1>9. ASSUME NEW s \in Sandboxes, EngineExit(s) PROVE TimedOutIsDelisted' /\ TimedOutStays
  BY <1>9 DEF EngineExit
<1>10. ASSUME NEW s \in Sandboxes, Deadline(s) PROVE TimedOutIsDelisted' /\ TimedOutStays
  BY <1>10 DEF Deadline
<1>11. ASSUME NEW s \in Sandboxes, EnforceDeregister(s) PROVE TimedOutIsDelisted' /\ TimedOutStays
  BY <1>11 DEF EnforceDeregister, Deregister, Lifecycle
<1>12. ASSUME NEW s \in Sandboxes, EnforceStop(s) PROVE TimedOutIsDelisted' /\ TimedOutStays
  BY <1>12 DEF EnforceStop
<1>13. ASSUME NEW s \in Sandboxes, EnforceRemove(s) PROVE TimedOutIsDelisted' /\ TimedOutStays
  BY <1>13 DEF EnforceRemove
<1>14. ASSUME NEW s \in Sandboxes, ChaosSkip(s) PROVE TimedOutIsDelisted' /\ TimedOutStays
  BY <1>14 DEF ChaosSkip
<1>15. ASSUME NEW s \in Sandboxes, ChaosBegin(s) PROVE TimedOutIsDelisted' /\ TimedOutStays
  BY <1>15 DEF ChaosBegin
<1>16. ASSUME NEW s \in Sandboxes, ChaosAnnounce(s) PROVE TimedOutIsDelisted' /\ TimedOutStays
  BY <1>16 DEF ChaosAnnounce
<1>17. ASSUME NEW s \in Sandboxes, ChaosPause(s) PROVE TimedOutIsDelisted' /\ TimedOutStays
  BY <1>17 DEF ChaosPause
<1>18. ASSUME NEW s \in Sandboxes, ChaosAbort(s) PROVE TimedOutIsDelisted' /\ TimedOutStays
  BY <1>18 DEF ChaosAbort
<1>19. ASSUME NEW s \in Sandboxes, ChaosWindowOver(s) PROVE TimedOutIsDelisted' /\ TimedOutStays
  BY <1>19 DEF ChaosWindowOver
<1>20. ASSUME NEW s \in Sandboxes, ChaosUnpause(s) PROVE TimedOutIsDelisted' /\ TimedOutStays
  BY <1>20 DEF ChaosUnpause
<1>21. ASSUME NEW s \in Sandboxes, ChaosEnd(s) PROVE TimedOutIsDelisted' /\ TimedOutStays
  BY <1>21 DEF ChaosEnd
<1>22. ASSUME NEW c \in Stoppers, NEW s \in Sandboxes, StopDeregister(c, s) PROVE TimedOutIsDelisted' /\ TimedOutStays
  BY <1>22 DEF StopDeregister, Deregister
<1>23. ASSUME NEW c \in Stoppers, StopContainer(c) PROVE TimedOutIsDelisted' /\ TimedOutStays
  BY <1>23 DEF StopContainer
<1>24. ASSUME NEW c \in Stoppers, StopRemove(c) PROVE TimedOutIsDelisted' /\ TimedOutStays
  BY <1>24 DEF StopRemove
<1>25. ASSUME NEW p \in Pollers, NEW s \in Sandboxes, StatusLookup(p, s) PROVE TimedOutIsDelisted' /\ TimedOutStays
  BY <1>25 DEF StatusLookup
<1>26. ASSUME NEW p \in Pollers, StatusInspect(p) PROVE TimedOutIsDelisted' /\ TimedOutStays
  BY <1>26 DEF StatusInspect
<1>27. ASSUME NEW p \in Pollers, StatusUpdate(p) PROVE TimedOutIsDelisted' /\ TimedOutStays
  <2>1. /\ pollId[p] \in Sandboxes /\ UNCHANGED <<runPc, sandboxes>>
        /\ pollSeen[p] \in ContainerStates /\ "timed_out" \notin ContainerStates
    BY <1>27 DEF StatusUpdate, ContainerStates
  <2>2. CASE pollId[p] \in sandboxes
    <3>1. status' = [status EXCEPT ![pollId[p]] = pollSeen[p]]
      BY <1>27, <2>2 DEF StatusUpdate
    <3>2. \A s \in Sandboxes : status'[s] = IF s = pollId[p] THEN pollSeen[p] ELSE status[s]
      BY <2>1, <3>1
    <3> QED BY <2>1, <2>2, <3>2
  <2>3. CASE pollId[p] \notin sandboxes
    BY <1>27, <2>1, <2>3 DEF StatusUpdate
  <2> QED BY <2>2, <2>3
<1>28. CASE Restart
  BY <1>28 DEF Restart
<1>29. CASE UNCHANGED vars
  BY <1>29 DEF vars
<1> HIDE DEF TypeOK, BusyHasId, TimedOutIsDelisted, TimedOutStays
<1> QED
  BY <1>1, <1>2, <1>3, <1>4, <1>5, <1>6, <1>7, <1>8, <1>9, <1>10, <1>11, <1>12, <1>13, <1>14, <1>15, <1>16, <1>17, <1>18, <1>19, <1>20, <1>21, <1>22, <1>23, <1>24, <1>25, <1>26, <1>27, <1>28, <1>29
     DEF Next, Run, enforceTimeout, runChaos, Stop, Status

-----------------------------------------------------------------------------
(* The theorems.                                                           *)

\* IInv is an invariant: whatever the interleaving of Run, Stop, Status,
\* runChaos and enforceTimeout, failing calls and restarts.
THEOREM Invariance == Spec => []IInv
<1>1. Init => IInv
  <2> SUFFICES ASSUME Init PROVE IInv
    OBVIOUS
  <2>1. TypeOK
    BY TypeInit
  <2>2. Lifecycle /\ BusyHasId /\ RegisteredIsEnforced
    BY DEF Init, Lifecycle, BusyHasId, RegisteredIsEnforced
  <2>3. RegistryNotDangling /\ DelistedIsCancelled
    BY DEF Init, RegistryNotDangling, DelistedIsCancelled
  <2>4. TornDownIsGone /\ PausedInWindow /\ EventsFollowChaos /\ EventsInOrder
    BY DEF Init, TornDownIsGone, PausedInWindow, EventsFollowChaos, EventsInOrder
  <2>5. AddressInv
    BY DEF Init, AddressInv, AddressUnread, AddressesDistinct, AddressHeld, EntryLostOnlyToReuse
  <2>6. TimedOutIsDelisted
    BY DEF Init, TimedOutIsDelisted
  <2> QED BY <2>1, <2>2, <2>3, <2>4, <2>5, <2>6 DEF IInv
<1>2. IInv /\ [Next]_vars => IInv'
  BY TypeStep, LifecycleStep, ListingStep, RegistryStep, TeardownStep, PausedStep,
     EventsStep, OrderStep, AddressStep, TimedOutStep DEF IInv
<1> QED BY <1>1, <1>2, PTL DEF Spec

\* Every variable keeps its type.
THEOREM TypeCorrect == Spec => []TypeOK
<1>1. IInv => TypeOK
  BY DEF IInv
<1> QED BY <1>1, Invariance, PTL

\* The hard timeout is never lost: a sandbox the manager lists always has its
\* enforceTimeout waiting, or Run about to start it.
THEOREM ListedHasTimeout == Spec => []RegisteredIsEnforced
<1>1. IInv => RegisteredIsEnforced
  BY DEF IInv
<1> QED BY <1>1, Invariance, PTL

\* ipRegistry and the contexts agree with the listing at every step of
\* registration and of the two teardown paths.
THEOREM RegistryConsistent == Spec => [](RegistryNotDangling /\ DelistedIsCancelled)
<1>1. IInv => RegistryNotDangling /\ DelistedIsCancelled
  BY DEF IInv
<1> QED BY <1>1, Invariance, PTL

\* A listed sandbox is found under its address unless another one was
\* registered under it, which needs an engine that exited by itself or the one
\* address of host-network mode: addresses that are reused after a teardown,
\* and teardowns that Stop and enforceTimeout both do, take no entry away.
THEOREM EntriesAreLostToReuseOnly == Spec => []EntryLostOnlyToReuse
<1>1. IInv => EntryLostOnlyToReuse
  BY DEF IInv, AddressInv
<1> QED BY <1>1, Invariance, PTL

\* A finished enforceTimeout and a successful DELETE leave no container, even
\* after a ContainerStop that failed.
THEOREM TeardownIsFinal == Spec => []TornDownIsGone
<1>1. IInv => TornDownIsGone
  BY DEF IInv
<1> QED BY <1>1, Invariance, PTL

\* No interleaving of Stop, timeout and chaos injection leaves a frozen
\* container that nobody is going to resume or remove.
THEOREM NoForgottenPause == Spec => []PausedIsOwned
<1>1. IInv => PausedIsOwned
  <2> SUFFICES ASSUME IInv, {"unpause", "remove"} \cap MayFail = {},
                      NEW s \in Sandboxes, ctr[s] = "paused", runPc[s] # "lost",
                      chaosPc[s] \notin {"window", "unpause"}
               PROVE  s \in chaosDone /\ enfPc[s] \in {"wait", "stop", "remove"}
    BY DEF PausedIsOwned
  <2>1. "unpause" \notin MayFail /\ "remove" \notin MayFail
    OBVIOUS
  <2>2. s \in chaosDone
    BY <2>1 DEF IInv, PausedInWindow
  <2>3. enfPc[s] # "off" /\ enfPc[s] # "done"
    BY <2>1 DEF IInv, Lifecycle, TornDownIsGone
  <2> QED BY <2>2, <2>3 DEF IInv, TypeOK
<1> QED BY <1>1, Invariance, PTL

\* The engine is frozen only between the two chaos events, unless a teardown
\* has cancelled the experiment.
THEOREM OutageIsBracketed == Spec => []EventsBracketOutage
<1>1. IInv => EventsBracketOutage
  <2> SUFFICES ASSUME IInv, {"publish", "unpause"} \cap MayFail = {},
                      NEW s \in Sandboxes, ctr[s] = "paused", s \notin chaosDone,
                      runPc[s] # "lost"
               PROVE  events[s] = <<"chaos_start">>
    BY DEF EventsBracketOutage
  <2>1. "publish" \notin MayFail /\ "unpause" \notin MayFail
    OBVIOUS
  <2>2. chaosPc[s] \in {"window", "unpause"}
    BY <2>1 DEF IInv, PausedInWindow
  <2> QED BY <2>1, <2>2 DEF IInv, EventsFollowChaos
<1> QED BY <1>1, Invariance, PTL

\* Whatever cancels a chaos run and whenever the manager restarts, the topic has
\* at most one start and one end of a sandbox, in this order.
THEOREM ChaosEventsInOrder == Spec => []EventsInOrder
<1>1. IInv => EventsInOrder
  BY DEF IInv
<1> QED BY <1>1, Invariance, PTL

\* A timed-out sandbox keeps that status: a Status call that looked it up before
\* the timeout does not write its older reading over it.
THEOREM TimeoutIsFinal == Spec => TimedOutIsFinal
<1>1. IInv /\ [Next]_vars => [TimedOutStays]_vars
  BY TimedOutStep DEF IInv
<1>2. TimedOutStays =>
        \A s \in Sandboxes : status[s] = "timed_out" => status'[s] \in {"timed_out", "none"}
  BY DEF TimedOutStays
<1> QED BY <1>1, <1>2, Invariance, PTL DEF Spec, TimedOutIsFinal

=============================================================================
