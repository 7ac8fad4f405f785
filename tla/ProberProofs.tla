---------------------------- MODULE ProberProofs ----------------------------
(***************************************************************************)
(* Proofs about Prober, for any flows, CPUs, clock and ring: a prober that *)
(* has ended holds nothing, and every round trip it reports is that of a   *)
(* request.                                                                *)
(***************************************************************************)
EXTENDS Prober, TLAPS

Times == 0..MaxTime

\* What the egress program on a CPU has in hand.
CPUStates ==
  {Off} \cup [at : {"found"}, flow : Flows, entry : stamped]
        \cup [at : {"timed"}, flow : Flows, entry : stamped, now : Times]

Events == [rtt : Nat, egress : Nat]

\* What is in the map was stamped, and so was what a CPU holds of it.
KernelTypes ==
  /\ now \in Times /\ stamped \subseteq Times
  /\ ingress_ts \in [Flows -> SUBSET stamped]
  /\ cpu \in [CPUs -> CPUStates]
  /\ ring \in Seq(Events) /\ record \subseteq Events

\* What the goroutine holds at each point of its way.
HeldByStep ==
  /\ pc \in {"resolve", "memlock", "objs", "ended"} => held = {}
  /\ pc = "iface" => held = {"objs"}
  /\ pc = "ingress" => held = {"objs"}
  /\ pc = "egress" => held = {"objs", "ingress"}
  /\ pc = "reader" => held = {"objs", "ingress", "egress"}
  /\ pc = "writer" => held = {"objs", "ingress", "egress", "reader"}
  /\ pc \in {"read", "publish"} => held = Resources
  /\ pc \in {"resolve", "memlock", "objs", "iface", "ingress", "egress", "reader", "writer", "read", "publish", "ended"}

-----------------------------------------------------------------------------
(* The goroutine                                                           *)

\* A step of NewProber, by its number.
LEMMA StepNames ==
  /\ DOMAIN Steps = 1..7 /\ Len(Steps) = 7
  /\ Steps[1] = "memlock" /\ Steps[2] = "objs" /\ Steps[3] = "iface" /\ Steps[4] = "ingress"
  /\ Steps[5] = "egress" /\ Steps[6] = "reader" /\ Steps[7] = "writer"
BY DEF Steps

\* A step of NewProber that succeeds acquires the resource of that step and no
\* other, so what is held stays what the steps so far acquired.
LEMMA HeldNewProber ==
  ASSUME HeldByStep, NEW i \in DOMAIN Steps, NewProber(i)
  PROVE  HeldByStep'
<1>1. i \in 1..7
  BY StepNames
<1>2. CASE i = 1
  BY <1>2, StepNames DEF NewProber, HeldByStep, Resources
<1>3. CASE i = 2
  BY <1>3, StepNames DEF NewProber, HeldByStep, Resources
<1>4. CASE i = 3
  BY <1>4, StepNames DEF NewProber, HeldByStep, Resources
<1>5. CASE i = 4
  BY <1>5, StepNames DEF NewProber, HeldByStep, Resources
<1>6. CASE i = 5
  BY <1>6, StepNames DEF NewProber, HeldByStep, Resources
<1>7. CASE i = 6
  BY <1>7, StepNames DEF NewProber, HeldByStep, Resources
<1>8. CASE i = 7
  BY <1>8, StepNames DEF NewProber, HeldByStep, Resources
<1> QED BY <1>1, <1>2, <1>3, <1>4, <1>5, <1>6, <1>7, <1>8

\* A step of NewProber that fails undoes every step before it.
LEMMA HeldNewProberFails ==
  ASSUME HeldByStep, NEW i \in DOMAIN Steps, NewProberFails(i)
  PROVE  HeldByStep'
<1>1. i \in 1..6
  BY StepNames DEF NewProberFails
<1>2. CASE i \in 1..2
  BY <1>2, StepNames DEF NewProberFails, HeldByStep, Undo
<1>3. CASE i = 3
  BY <1>3, StepNames DEF NewProberFails, HeldByStep, Undo
<1>4. CASE i = 4
  BY <1>4, StepNames DEF NewProberFails, HeldByStep, Undo
<1>5. CASE i = 5
  BY <1>5, StepNames DEF NewProberFails, HeldByStep, Undo
<1>6. CASE i = 6
  BY <1>6, StepNames DEF NewProberFails, HeldByStep, Undo
<1> QED BY <1>1, <1>2, <1>3, <1>4, <1>5, <1>6

\* Every step of the bridge keeps the held resources and the step reached in step.
LEMMA HeldStep == HeldByStep /\ [Next]_vars => HeldByStep'
<1> SUFFICES ASSUME HeldByStep, [Next]_vars PROVE HeldByStep'
  OBVIOUS
<1>1. CASE Resolve
  BY <1>1 DEF Resolve, HeldByStep
<1>2. CASE proberStop
  BY <1>2 DEF proberStop, HeldByStep
<1>3. CASE Tick
  BY <1>3 DEF Tick, HeldByStep
<1>4. ASSUME NEW i \in DOMAIN Steps, NewProber(i) \/ NewProberFails(i) PROVE HeldByStep'
  BY <1>4, HeldNewProber, HeldNewProberFails
<1>5. ASSUME NEW f \in Flows, tc_ingress(f) \/ Evict(f) PROVE HeldByStep'
  BY <1>5 DEF tc_ingress, Evict, HeldByStep
<1>6. ASSUME NEW c \in CPUs, tc_egress(c) PROVE HeldByStep'
  BY <1>6 DEF tc_egress, EgressLookup, EgressClock, EgressEmit, HeldByStep
<1>7. CASE Run
  BY <1>7 DEF Run, Read, Publish, HeldByStep
<1>8. CASE ReadFails
  BY <1>8 DEF ReadFails, HeldByStep, Resources
<1>9. CASE UNCHANGED vars
  BY <1>9 DEF vars, HeldByStep
<1> QED BY <1>1, <1>2, <1>3, <1>4, <1>5, <1>6, <1>7, <1>8, <1>9 DEF Next

\* At whatever step of NewProber or Run the goroutine ended, nothing of it is left
\* on the bridge or in the kernel (prober.go:73-137, 203-209).
THEOREM NothingIsLeft == Spec => []EndedHoldsNothing
<1>1. Init => HeldByStep
  BY DEF Init, HeldByStep
<1>2. HeldByStep => EndedHoldsNothing
  BY DEF HeldByStep, EndedHoldsNothing
<1> QED BY <1>1, <1>2, HeldStep, PTL DEF Spec

-----------------------------------------------------------------------------
(* The TC programs                                                         *)

IInv == KernelTypes /\ RoundTripIsGenuine

\* What the subtraction of the egress program may read is a timestamp.
LEMMA LoadsAreStamps ==
  ASSUME KernelTypes, NEW c \in CPUs, cpu[c].at = "timed"
  PROVE  Loads(c) \subseteq stamped /\ cpu[c].now \in Times /\ cpu[c].flow \in Flows
<1>1. cpu[c] \in [at : {"timed"}, flow : Flows, entry : stamped, now : Times]
  BY DEF KernelTypes, CPUStates, Off
<1>2. \A f \in Flows : ingress_ts[f] \subseteq stamped
  BY DEF KernelTypes
<1> QED BY <1>1, <1>2 DEF Loads

\* The remainder of a number below the modulus, and of one less than twice it.
LEMMA SmallRemainder ==
  ASSUME NEW w \in Nat, w > 0, NEW d \in Nat, d < w
  PROVE  d % w = d /\ (w + d) % w = d
OBVIOUS

\* A difference within the limit did not wrap: what wraps comes out larger than
\* any round trip the clock can show.
LEMMA SmallDifferences ==
  ASSUME NEW a \in Times, NEW b \in Times
  PROVE  /\ Minus(a, b) \in Nat
         /\ Minus(a, b) <= StaleAfter => a - Minus(a, b) = b
<1>1. /\ Wrap \in Nat /\ StaleAfter \in Nat /\ MaxTime \in Nat /\ Wrap > StaleAfter + MaxTime + 1
      /\ a \in Nat /\ b \in Nat /\ a <= MaxTime /\ b <= MaxTime
  BY ClockAssumption DEF Times
<1>2. CASE b <= a
  <2>1. a - b \in Nat /\ a - b < Wrap /\ Wrap + a - b = Wrap + (a - b)
    BY <1>1, <1>2
  <2>2. Minus(a, b) = a - b
    BY <1>1, <2>1, SmallRemainder DEF Minus
  <2> QED BY <1>1, <2>1, <2>2
<1>3. CASE a < b
  <2>1. Wrap + a - b \in Nat /\ Wrap + a - b < Wrap /\ Wrap + a - b > StaleAfter
    BY <1>1, <1>3
  <2>2. Minus(a, b) = Wrap + a - b
    BY <1>1, <2>1, SmallRemainder DEF Minus
  <2> HIDE DEF Minus
  <2>3. ~(Minus(a, b) <= StaleAfter)
    BY <1>1, <2>1, <2>2
  <2> QED BY <2>1, <2>2, <2>3
<1> QED BY <1>1, <1>2, <1>3

\* A step of the egress program puts a round trip of a request into the ring, if any.
LEMMA EmitStep ==
  ASSUME IInv, NEW c \in CPUs, EgressEmit(c)
  PROVE  IInv'
<1> DEFINE n == cpu[c].now
           deleted == [ingress_ts EXCEPT ![cpu[c].flow] = {}]
<1>1. cpu[c].at = "timed"
  BY DEF EgressEmit
<1>2. Loads(c) \subseteq stamped /\ n \in Times /\ cpu[c].flow \in Flows /\ stamped \subseteq Times
  BY <1>1, LoadsAreStamps DEF IInv, KernelTypes
<1>3. PICK ts \in Loads(c) :
        LET e == [rtt |-> Minus(n, ts), egress |-> n] IN
        \/ UNCHANGED ring /\ ingress_ts' \in {ingress_ts, deleted}
        \/ e.rtt <= StaleAfter /\ ring' = Append(ring, e) /\ ingress_ts' = deleted
  BY DEF EgressEmit
<1> DEFINE r == Minus(n, ts)
           e == [rtt |-> r, egress |-> n]
<1>4. r \in Nat /\ (r <= StaleAfter => n - r = ts) /\ ts \in stamped /\ n \in Nat
  <2>1. n \in Times /\ ts \in Times /\ ts \in stamped
    BY <1>2
  <2> HIDE DEF n
  <2>2. n \in Nat
    BY <2>1 DEF Times
  <2> QED BY <2>1, <2>2, SmallDifferences
<1>5. ingress_ts' \in [Flows -> SUBSET stamped]
  BY <1>2, <1>3 DEF IInv, KernelTypes
<1>6. cpu' \in [CPUs -> CPUStates]' /\ now' = now /\ record' = record /\ stamped' = stamped
  BY DEF EgressEmit, IInv, KernelTypes, CPUStates
<1>7. \/ ring' = ring
      \/ ring' = Append(ring, e) /\ r <= StaleAfter
  BY <1>3
<1>8. e \in Events /\ e.rtt = r /\ e.egress = n
  BY <1>4 DEF Events
<1>9. ring \in Seq(Events)
  BY DEF IInv, KernelTypes
<1> HIDE DEF r, e
<1>10. ring' \in Seq(Events) /\ \A x \in Range(ring') : x.egress - x.rtt \in stamped
  <2>1. CASE ring' = ring
    BY <1>9, <2>1 DEF IInv, RoundTripIsGenuine
  <2>2. CASE ring' = Append(ring, e) /\ r <= StaleAfter
    <3>1. ring' \in Seq(Events) /\ Range(ring') = Range(ring) \cup {e}
      BY <1>8, <1>9, <2>2 DEF Range
    <3> QED BY <1>4, <1>8, <2>2, <3>1 DEF IInv, RoundTripIsGenuine
  <2> QED BY <1>7, <2>1, <2>2
<1>11. RoundTripIsGenuine'
  BY <1>6, <1>10 DEF IInv, RoundTripIsGenuine
<1>12. KernelTypes'
  BY <1>5, <1>6, <1>10 DEF IInv, KernelTypes
<1> QED BY <1>11, <1>12 DEF IInv

\* Run takes an event from the ring.
LEMMA ReadStep == IInv /\ Read => IInv'
<1> SUFFICES ASSUME IInv, Read PROVE IInv'
  OBVIOUS
<1>1. /\ ring \in Seq(Events) /\ ring # <<>> /\ ring' = Tail(ring) /\ record' = {Head(ring)}
      /\ UNCHANGED kernelVars
  BY DEF IInv, KernelTypes, Read
<1>2. /\ ring' \in Seq(Events) /\ Head(ring) \in Range(ring) /\ Range(ring') \subseteq Range(ring)
      /\ Head(ring) \in Events
  BY <1>1 DEF Range
<1>3. RoundTripIsGenuine'
  BY <1>1, <1>2 DEF IInv, RoundTripIsGenuine, kernelVars
<1>4. KernelTypes'
  BY <1>1, <1>2 DEF IInv, KernelTypes, CPUStates, kernelVars
<1> QED BY <1>3, <1>4 DEF IInv

\* The steps that leave the ring and the records alone.
LEMMA KernelStep ==
  ASSUME IInv, UNCHANGED <<ring, record>>, now' \in Times, stamped' \subseteq Times, stamped \subseteq stamped',
         ingress_ts' \in [Flows -> SUBSET stamped'], cpu' \in [CPUs -> CPUStates']
  PROVE  IInv'
BY DEF IInv, KernelTypes, RoundTripIsGenuine

\* A CPU's state stays one when more is stamped.
LEMMA IngressStep ==
  ASSUME IInv, NEW f \in Flows, tc_ingress(f)
  PROVE  IInv'
<1>1. /\ stamped' = stamped \cup {now} /\ ingress_ts' = [ingress_ts EXCEPT ![f] = {now}]
      /\ UNCHANGED <<now, cpu, ring, record>> /\ now \in Times /\ stamped \subseteq Times
      /\ ingress_ts \in [Flows -> SUBSET stamped] /\ cpu \in [CPUs -> CPUStates]
  BY DEF tc_ingress, IInv, KernelTypes
<1>2. CPUStates \subseteq CPUStates'
  BY <1>1 DEF CPUStates
<1>3. ingress_ts' \in [Flows -> SUBSET stamped']
  BY <1>1
<1> QED BY <1>1, <1>2, <1>3, KernelStep

\* Every step keeps the invariant.
LEMMA IInvStep == IInv /\ [Next]_vars => IInv'
<1> SUFFICES ASSUME IInv, [Next]_vars PROVE IInv'
  OBVIOUS
<1>0. /\ now \in Times /\ stamped \subseteq Times /\ ingress_ts \in [Flows -> SUBSET stamped]
      /\ cpu \in [CPUs -> CPUStates] /\ record \subseteq Events
  BY DEF IInv, KernelTypes
<1>k. stamped' = stamped => CPUStates' = CPUStates
  BY DEF CPUStates
<1>1. CASE UNCHANGED <<kernelVars, ring, record>>
  BY <1>0, <1>1, <1>k, KernelStep DEF kernelVars
<1>2. CASE Tick
  <2>1. now' \in Times
    BY <1>0, <1>2, ClockAssumption DEF Tick, Times
  <2> QED BY <1>0, <1>2, <1>k, <2>1, KernelStep DEF Tick
<1>4. ASSUME NEW f \in Flows, tc_ingress(f) PROVE IInv'
  BY <1>4, IngressStep
<1>5. ASSUME NEW f \in Flows, Evict(f) PROVE IInv'
  BY <1>0, <1>5, <1>k, KernelStep DEF Evict
<1>6. ASSUME NEW c \in CPUs, NEW f \in Flows, EgressLookup(c, f) PROVE IInv'
  <2>1. cpu' \in [CPUs -> CPUStates]
    BY <1>0, <1>6 DEF EgressLookup, CPUStates
  <2> QED BY <1>0, <1>6, <1>k, <2>1, KernelStep DEF EgressLookup
<1>7. ASSUME NEW c \in CPUs, EgressClock(c) PROVE IInv'
  <2>1. cpu[c] \in [at : {"found"}, flow : Flows, entry : stamped]
    BY <1>0, <1>7 DEF EgressClock, CPUStates, Off
  <2>2. cpu' \in [CPUs -> CPUStates]
    BY <1>0, <1>7, <2>1 DEF EgressClock, CPUStates
  <2> QED BY <1>0, <1>7, <1>k, <2>2, KernelStep DEF EgressClock
<1>8. ASSUME NEW c \in CPUs, EgressEmit(c) PROVE IInv'
  BY <1>8, EmitStep
<1>9. CASE Read
  BY <1>9, ReadStep
<1>10. CASE Publish
  BY <1>0, <1>10 DEF Publish, IInv, KernelTypes, CPUStates, RoundTripIsGenuine, kernelVars
<1>11. ASSUME Resolve \/ proberStop \/ ReadFails \/ UNCHANGED vars
              \/ \E i \in DOMAIN Steps : NewProber(i) \/ NewProberFails(i)
       PROVE  UNCHANGED <<kernelVars, ring, record>>
  BY <1>11 DEF Resolve, proberStop, ReadFails, vars, NewProber, NewProberFails
<1> QED BY <1>1, <1>2, <1>4, <1>5, <1>6, <1>7, <1>8, <1>9, <1>10, <1>11 DEF Next, tc_egress, Run

\* Whatever entry the egress program reads, replaced or reused by any CPU and
\* at any time, no wrapped difference gets past its limit: the round trip of
\* every event began with a request (tc_latency.c:134-167).
THEOREM RoundTripsAreGenuine == Spec => []RoundTripIsGenuine
<1>1. Init => IInv
  <2>1. 0 \in Times
    BY ClockAssumption DEF Times
  <2> QED BY <2>1 DEF Init, IInv, KernelTypes, CPUStates, RoundTripIsGenuine, Range
<1>2. IInv => RoundTripIsGenuine
  BY DEF IInv
<1> QED BY <1>1, <1>2, IInvStep, PTL DEF Spec

=============================================================================
