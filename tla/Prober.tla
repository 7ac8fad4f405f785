------------------------------- MODULE Prober -------------------------------
(***************************************************************************)
(* The eBPF prober of one sandbox: the goroutine runEBPFProber             *)
(* (sandbox/internal/manager/manager.go), the attaching, reading and       *)
(* closing of sandbox/internal/ebpf/prober.go, and the two TC programs of  *)
(* sandbox/internal/ebpf/bpf/tc_latency.c that run on the CPUs of the host *)
(* for the packets of the bridge.  The probers of several sandboxes share  *)
(* the bridge and nothing else: each loads maps and a ring of its own, so  *)
(* one is modelled, and the flows are those of every sandbox.              *)
(*                                                                         *)
(* Time is counted in ticks of a clock of Wrap values, so that the         *)
(* unsigned subtraction of the egress program can wrap as it does.         *)
(***************************************************************************)
EXTENDS Integers, Sequences, FiniteSets, Functions

CONSTANTS
  Flows,       \* request flows on the bridge
  CPUs,        \* CPUs that run the egress program
  StaleAfter,  \* the round trip that is taken for a lost request (5 s)
  Wrap,        \* values of a timestamp (2^64 in the code)
  MaxTime,     \* bound: ticks
  RingCap      \* records the ring has room for

ASSUME ClockAssumption ==
  /\ StaleAfter \in Nat /\ MaxTime \in Nat /\ RingCap \in Nat \ {0}
  /\ Wrap \in Nat /\ Wrap > StaleAfter + MaxTime + 1

Off == [at |-> "off"]
Steps == <<"memlock", "objs", "iface", "ingress", "egress", "reader", "writer">>

VARIABLES
  pc,         \* the goroutine: "resolve", a step of NewProber, "read", "publish" or "ended"
  held,       \* what it holds: objects, links, the ring's reader, the Kafka writer
  cancelled,  \* proberCtx is cancelled: the sandbox was stopped
  now,        \* bpf_ktime_get_ns
  ingress_ts, \* the map: the timestamp of each flow, {} when there is none
  cpu,        \* the egress program on each CPU
  ring,       \* latency_events
  record,     \* the event Run is publishing, {} when there is none
  stamped     \* observed: the times at which requests passed the bridge

kernelVars == <<now, ingress_ts, cpu, stamped>>
vars == <<pc, held, cancelled, kernelVars, ring, record>>

-----------------------------------------------------------------------------
(* Run of the manager starts the goroutine; Stop and the timeout cancel it *)

\* resolveBridgeIface: without a bridge, or without a broker, no prober.
Resolve ==
  /\ pc = "resolve"
  /\ pc' \in {"memlock", "ended"}
  /\ UNCHANGED <<held, cancelled, kernelVars, ring, record>>

proberStop ==
  /\ ~cancelled
  /\ cancelled' = TRUE
  /\ UNCHANGED <<pc, held, kernelVars, ring, record>>

-----------------------------------------------------------------------------
(* NewProber                                                               *)

Resources == {"objs", "ingress", "egress", "reader", "writer"}

\* Mutant: the ingress program stays when the ring cannot be opened.
Undo_KeepIngress(step) ==
  CASE step \in {"iface", "ingress"} -> {"objs"}
    [] step = "egress" -> {"ingress", "objs"}
    [] step = "reader" -> {"egress", "objs"}
    [] OTHER -> {}

\* What NewProber closes when a step fails.
Undo(step) ==
  CASE step \in {"iface", "ingress"} -> {"objs"}
    [] step = "egress" -> {"ingress", "objs"}
    [] step = "reader" -> {"egress", "ingress", "objs"}
    [] OTHER -> {}

NewProber(i) ==
  /\ pc = Steps[i]
  /\ held' = held \cup ({Steps[i]} \cap Resources)
  /\ pc' = IF i = Len(Steps) THEN "read" ELSE Steps[i + 1]
  /\ UNCHANGED <<cancelled, kernelVars, ring, record>>

\* Every step but the last, the Kafka writer, may fail.
NewProberFails(i) ==
  /\ pc = Steps[i]
  /\ i < Len(Steps)
  /\ held' = held \ Undo(Steps[i])
  /\ pc' = "ended"
  /\ UNCHANGED <<cancelled, kernelVars, ring, record>>

-----------------------------------------------------------------------------
(* The TC programs                                                         *)

Tick ==
  /\ now < MaxTime
  /\ now' = now + 1
  /\ UNCHANGED <<pc, held, cancelled, ingress_ts, cpu, stamped, ring, record>>

\* tc_ingress: a request passes the bridge.
tc_ingress(f) ==
  /\ "ingress" \in held
  /\ ingress_ts' = [ingress_ts EXCEPT ![f] = {now}]
  /\ stamped' = stamped \cup {now}
  /\ UNCHANGED <<pc, held, cancelled, now, cpu, ring, record>>

\* The map keeps the most recently used flows.
Evict(f) ==
  /\ ingress_ts[f] # {}
  /\ ingress_ts' = [ingress_ts EXCEPT ![f] = {}]
  /\ UNCHANGED <<pc, held, cancelled, now, cpu, stamped, ring, record>>

\* tc_egress: a packet of the reverse flow; the entry is looked up ...
EgressLookup(c, f) ==
  /\ "egress" \in held
  /\ cpu[c] = Off
  /\ \E ts \in ingress_ts[f] : cpu' = [cpu EXCEPT ![c] = [at |-> "found", flow |-> f, entry |-> ts]]
  /\ UNCHANGED <<pc, held, cancelled, now, ingress_ts, stamped, ring, record>>

\* ... the clock is read ...
EgressClock(c) ==
  /\ cpu[c].at = "found"
  /\ cpu' = [cpu EXCEPT ![c] = [at |-> "timed", flow |-> @.flow, entry |-> @.entry, now |-> now]]
  /\ UNCHANGED <<pc, held, cancelled, now, ingress_ts, stamped, ring, record>>

\* The entry is a pointer into the map: another CPU may have replaced the entry
\* meanwhile and its memory may serve another flow.
Loads(c) == {cpu[c].entry} \cup UNION {ingress_ts[f] : f \in Flows}

\* A difference of 64 bits.
Minus(a, b) == (Wrap + a - b) % Wrap

\* Mutant: a round trip is taken as it was computed.
EgressEmit_NoLimit(c) ==
  /\ cpu[c].at = "timed"
  /\ cpu' = [cpu EXCEPT ![c] = Off]
  /\ \E ts \in Loads(c) :
       LET e == [rtt |-> Minus(cpu[c].now, ts), egress |-> cpu[c].now] IN
       /\ ring' = IF Len(ring) < RingCap THEN Append(ring, e) ELSE ring
       /\ ingress_ts' = [ingress_ts EXCEPT ![cpu[c].flow] = {}]
  /\ UNCHANGED <<pc, held, cancelled, now, stamped, record>>

\* ... and the round trip is computed: a stale entry is deleted, a full ring
\* leaves the entry where it is, else the event is submitted and the entry
\* deleted.  Of the event, rtt_ns and egress_ns are kept.
EgressEmit(c) ==
  /\ cpu[c].at = "timed"
  /\ cpu' = [cpu EXCEPT ![c] = Off]
  /\ \E ts \in Loads(c) :
       LET e == [rtt |-> Minus(cpu[c].now, ts), egress |-> cpu[c].now]
           full == Len(ring) = RingCap
           deleted == [ingress_ts EXCEPT ![cpu[c].flow] = {}] IN
       \/ e.rtt > StaleAfter /\ ingress_ts' = deleted /\ UNCHANGED ring
       \/ e.rtt <= StaleAfter /\ full /\ UNCHANGED <<ring, ingress_ts>>
       \/ e.rtt <= StaleAfter /\ ~full /\ ring' = Append(ring, e) /\ ingress_ts' = deleted
  /\ UNCHANGED <<pc, held, cancelled, now, stamped, record>>

tc_egress(c) == (\E f \in Flows : EgressLookup(c, f)) \/ EgressClock(c) \/ EgressEmit(c)

-----------------------------------------------------------------------------
(* Run                                                                     *)

\* reader.Read blocks until there is a record; the context is not looked at.
Read ==
  /\ pc = "read"
  /\ ring # <<>>
  /\ record' = {Head(ring)}
  /\ ring' = Tail(ring)
  /\ pc' = "publish"
  /\ UNCHANGED <<held, cancelled, kernelVars>>

\* WriteMessages with the prober's context: whether it succeeds or fails is not
\* looked at, with a cancelled context either.
Publish ==
  /\ pc = "publish"
  /\ pc' = "read"
  /\ record' = {}
  /\ UNCHANGED <<held, cancelled, kernelVars, ring>>

\* A read error ends Run, with nil if the context is cancelled; close drops everything.
ReadFails ==
  /\ pc = "read"
  /\ pc' = "ended"
  /\ held' = held \ {"reader", "egress", "ingress", "objs", "writer"}
  /\ UNCHANGED <<cancelled, kernelVars, ring, record>>

Run == Read \/ Publish

-----------------------------------------------------------------------------

Init ==
  /\ pc = "resolve" /\ held = {} /\ cancelled = FALSE
  /\ now = 0
  /\ ingress_ts = [f \in Flows |-> {}]
  /\ cpu = [c \in CPUs |-> Off]
  /\ ring = <<>> /\ record = {}
  /\ stamped = {}

Next ==
  \/ Resolve \/ proberStop \/ Tick
  \/ \E i \in DOMAIN Steps : NewProber(i) \/ NewProberFails(i)
  \/ \E f \in Flows : tc_ingress(f) \/ Evict(f)
  \/ \E c \in CPUs : tc_egress(c)
  \/ Run \/ ReadFails

Spec == Init /\ [][Next]_vars

-----------------------------------------------------------------------------
(* Properties                                                              *)

\* A goroutine that has ended, at whatever step of NewProber or in Run, holds no
\* program on the bridge, no map and no connection.
EndedHoldsNothing == pc = "ended" => held = {}

\* An event on its way to the broker tells of a request that passed the bridge
\* its rtt before its egress, by the clock and not by a wrapped difference:
\* although another CPU may replace the entry, or reuse it for another flow,
\* after the clock was read, so that a time that is still to come is subtracted
\* (tc_latency.c:134-146).
RoundTripIsGenuine ==
  \A e \in Range(ring) \cup record : e.egress - e.rtt \in stamped

=============================================================================
