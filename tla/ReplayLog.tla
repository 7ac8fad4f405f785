----------------------------- MODULE ReplayLog -----------------------------
(***************************************************************************)
(* What a bot fleet promises those who read bench.metrics and              *)
(* bench.replay_log: an answered order is numbered once, with the fleet's  *)
(* next number, for both topics; its messages never change and each is     *)
(* written once or dropped once, and dropped only if Kafka may fail; a run *)
(* ends when every answered order is accounted for, and has no message     *)
(* afterwards.  How a message travels is left to the implementation.       *)
(***************************************************************************)
EXTENDS Naturals

CONSTANTS
  Fleets,
  Topics,
  Lossy     \* whether a message may be dropped

VARIABLES
  answered,  \* the answered orders of each fleet
  seq,       \* the last number each fleet has given
  log,       \* every message there is
  kafka,     \* messages written to their topics
  lost,      \* messages dropped
  ended      \* fleets whose run is over

vars == <<answered, seq, log, kafka, lost, ended>>

Entries(f, n, o) == {[fleet |-> f, topic |-> t, seq |-> n, order |-> o] : t \in Topics}

Init ==
  /\ answered = [f \in Fleets |-> {}]
  /\ seq = [f \in Fleets |-> 0]
  /\ log = {} /\ kafka = {} /\ lost = {} /\ ended = {}

\* A fleet that runs gets an answer to one more order.
Answer(f) ==
  /\ f \notin ended
  /\ \E o \in answered'[f] \ answered[f] : answered' = [answered EXCEPT ![f] = @ \union {o}]
  /\ UNCHANGED <<seq, log, kafka, lost, ended>>

\* Messages that are not written are dropped for good.
MayDrop ==
  /\ lost \subseteq lost' /\ lost' \subseteq log' \ kafka
  /\ lost' = lost \/ Lossy

\* An answered order without messages gets the next number and its messages;
\* a batch that is full with them may be refused at once.
Number(f, o) ==
  /\ f \notin ended
  /\ \A m \in log : m.fleet = f => m.order # o
  /\ seq' = [seq EXCEPT ![f] = @ + 1]
  /\ log' = log \union Entries(f, seq[f] + 1, o)
  /\ MayDrop
  /\ UNCHANGED <<answered, kafka, ended>>

Write(m) ==
  /\ kafka' = kafka \union {m}
  /\ UNCHANGED <<answered, seq, log, lost, ended>>

Drop ==
  /\ log' = log /\ MayDrop
  /\ UNCHANGED <<answered, seq, kafka, ended>>

\* All messages of all answered orders are written or dropped.
End(f) ==
  /\ f \notin ended
  /\ \A o \in answered[f] : \A t \in Topics :
       \E m \in kafka \union lost : m.fleet = f /\ m.topic = t /\ m.order = o
  /\ ended' = ended \union {f}
  /\ UNCHANGED <<answered, seq, log, kafka, lost>>

Next ==
  \/ \E f \in Fleets : Answer(f) \/ End(f) \/ \E o \in answered[f] : Number(f, o)
  \/ \E m \in log \ (kafka \union lost) : Write(m)
  \/ Drop

Spec == Init /\ [][Next]_vars
=============================================================================
