------------------------------ MODULE FIXClient ------------------------------
(***************************************************************************)
(* The FIX 4.4 session of one FIXNoiseBot (worker/fix_client.go) against a *)
(* contestant's acceptor.  The client writes whole messages; what it reads *)
(* is a stream of fields, cut into messages at the checksum field.  The    *)
(* read deadline may strike inside a message and inside a field: what      *)
(* readMsg had read is dropped, the rest stays in the stream.              *)
(*                                                                         *)
(* An order is its number; a message is reduced to the fields the client   *)
(* looks at: 35 (MsgType), 11 (ClOrdID) and 10 (CheckSum).                 *)
(***************************************************************************)
EXTENDS Naturals, Sequences, FiniteSets, SequencesExt

CONSTANTS
  MaxOrders,   \* bound: orders the bot sends
  MaxReplies   \* bound: messages the acceptor sends

ASSUME BoundsAssumption == MaxOrders \in Nat /\ MaxReplies \in Nat

VARIABLES
  ctx,      \* the fleet's context: "live" or "done"
  pc,       \* where the bot is
  conn,     \* "none", "open", "broken" by the acceptor, "closed" by the client
  seqNum,   \* FIXClient.seqNum
  ord,      \* the order SendNOS was called with
  wire,     \* messages that reached the acceptor
  stream,   \* fields on their way to the client
  sb,       \* fields readMsg has read of the current message
  replies,  \* messages the acceptor sent
  rejected, \* observed: the acceptor refused the logon
  metrics   \* orders whose metric was put into the channel, in order

vars == <<ctx, pc, conn, seqNum, ord, wire, stream, sb, replies, rejected, metrics>>

-----------------------------------------------------------------------------
(* Writing.                                                                *)

\* sendMsg: the sequence number is taken first; a message written to a broken
\* connection reaches nobody.  The write has no deadline: as long as an open
\* connection takes no more bytes, the step that contains it does not happen.
sendMsg(type, id) ==
  /\ seqNum' = seqNum + 1
  /\ wire' = IF conn = "open" THEN Append(wire, [type |-> type, seq |-> seqNum', id |-> id]) ELSE wire

\* DialFIX: connect and send the logon, whose answer nobody waits for; without
\* an endpoint, a connection or a logon the bot turns to REST.
DialFIX ==
  /\ pc = "dial"
  /\ \/ /\ conn = "none" /\ ctx = "live"
        /\ conn' = "open"
        /\ seqNum' = 1
        /\ UNCHANGED <<pc, wire>>
     \/ /\ conn = "none"
        /\ pc' = "rest"
        /\ UNCHANGED <<conn, seqNum, wire>>
     \/ /\ conn \in {"open", "broken"}
        /\ sendMsg("A", 0)
        /\ pc' = "select"
        /\ UNCHANGED conn
     \/ /\ conn = "broken"
        /\ seqNum' = seqNum + 1
        /\ pc' = "rest"
        /\ conn' = "closed"
        /\ UNCHANGED wire
  /\ UNCHANGED <<ctx, ord, stream, sb, replies, rejected, metrics>>

\* A tick: SendNOS writes the order.  On a broken connection the write may
\* still succeed.
SendNOS ==
  /\ pc = "select"
  /\ ord < MaxOrders
  /\ ord' = ord + 1
  /\ sendMsg("D", ord')
  /\ pc' \in IF conn = "broken" THEN {"check", "select"} ELSE {"check"}
  /\ UNCHANGED <<ctx, conn, stream, sb, replies, rejected, metrics>>

\* ctx.Done() in the select: the deferred Close sends a logout and closes.
Close ==
  /\ pc = "select"
  /\ ctx = "done"
  /\ sendMsg("5", 0)
  /\ conn' = "closed"
  /\ pc' = "closed"
  /\ UNCHANGED <<ctx, ord, stream, sb, replies, rejected, metrics>>

-----------------------------------------------------------------------------
(* Reading.                                                                *)

Fields(tag) == {i \in DOMAIN sb : sb[i].tag = tag}

\* parseTags: the last field with a tag wins; a message without it has none.
parseTags(tag, none) ==
  IF Fields(tag) = {} THEN none ELSE sb[CHOOSE i \in Fields(tag) : \A j \in Fields(tag) : j <= i].val

\* SendNOS' check of the context before every message.
CheckContext ==
  /\ pc = "check"
  /\ pc' = IF ctx = "done" THEN "select" ELSE "read"
  /\ UNCHANGED <<ctx, conn, seqNum, ord, wire, stream, sb, replies, rejected, metrics>>

\* readMsg: one field.
ReadField ==
  /\ pc = "read"
  /\ stream # <<>>
  /\ sb' = Append(sb, Head(stream))
  /\ stream' = Tail(stream)
  /\ pc' = IF Head(stream).tag = 10 THEN "parse" ELSE "read"
  /\ UNCHANGED <<ctx, conn, seqNum, ord, wire, replies, rejected, metrics>>

\* Mutant: any execution report will do.
Match_AnyReport == parseTags(35, "") = "8"

\* An execution report with the order's ClOrdID.
Match == parseTags(35, "") = "8" /\ parseTags(11, 0) = ord

\* A whole message: the order's report ends SendNOS and the metric is sent,
\* anything else is drained.
ParseMsg ==
  /\ pc = "parse"
  /\ IF Match
     THEN pc' = "select" /\ metrics' = Append(metrics, ord)
     ELSE pc' = "check" /\ UNCHANGED metrics
  /\ sb' = <<>>
  /\ UNCHANGED <<ctx, conn, seqNum, ord, wire, stream, replies, rejected>>

Junk == [tag |-> 0, val |-> "", msg |-> 0]

\* Mutant: what was read of a message is kept for the next call.
Deadline_KeepsPartial ==
  /\ pc = "read"
  /\ pc' = "select"
  /\ \/ UNCHANGED stream
     \/ stream # <<>> /\ stream' = [stream EXCEPT ![1] = Junk]
  /\ UNCHANGED <<ctx, conn, seqNum, ord, wire, sb, replies, rejected, metrics>>

\* Mutant: reads have no deadline.
Deadline_NotSet ==
  /\ pc = "read" /\ conn = "broken" /\ stream = <<>>
  /\ pc' = "select"
  /\ sb' = <<>>
  /\ UNCHANGED <<ctx, conn, seqNum, ord, wire, stream, replies, rejected, metrics>>

\* The five seconds are over, or the connection has ended: what was read of the
\* message is dropped, and what was read of the field at the front with it.
Deadline ==
  /\ pc = "read"
  /\ pc' = "select"
  /\ sb' = <<>>
  /\ \/ UNCHANGED stream
     \/ stream # <<>> /\ stream' = [stream EXCEPT ![1] = Junk]
  /\ UNCHANGED <<ctx, conn, seqNum, ord, wire, replies, rejected, metrics>>

-----------------------------------------------------------------------------
(* The contestant's acceptor and the fleet.                                *)

Reply(type, id) ==
  LET n == Len(replies) + 1
  IN  /\ Len(replies) < MaxReplies
      /\ conn = "open"
      /\ replies' = Append(replies, [type |-> type, id |-> id])
      /\ stream' = stream \o <<[tag |-> 35, val |-> type, msg |-> n]>>
                          \o (IF id = 0 THEN <<>> ELSE <<[tag |-> 11, val |-> id, msg |-> n]>>)
                          \o <<[tag |-> 10, val |-> "", msg |-> n]>>

\* Reports on orders received, now or later, once or more often, and messages
\* of the session.
AcceptorReplies ==
  /\ \/ \E i \in DOMAIN wire : wire[i].type = "D" /\ Reply("8", wire[i].id)
     \/ wire # <<>> /\ Reply("A", 0)
  /\ UNCHANGED <<ctx, pc, conn, seqNum, ord, wire, sb, rejected, metrics>>

\* The acceptor hangs up; before its first reply that refuses the logon.
AcceptorCloses ==
  /\ conn = "open"
  /\ conn' = "broken"
  /\ rejected' = (Len(wire) = 1 /\ replies = <<>>)
  /\ UNCHANGED <<ctx, pc, seqNum, ord, wire, stream, sb, replies, metrics>>

Cancel ==
  /\ ctx = "live"
  /\ ctx' = "done"
  /\ UNCHANGED <<pc, conn, seqNum, ord, wire, stream, sb, replies, rejected, metrics>>

Init ==
  /\ ctx = "live" /\ pc = "dial" /\ conn = "none" /\ seqNum = 0 /\ ord = 0
  /\ wire = <<>> /\ stream = <<>> /\ sb = <<>> /\ replies = <<>>
  /\ rejected = FALSE /\ metrics = <<>>

\* What the bot does next is a write to an open connection.
Writes == conn = "open" /\ pc \in {"dial", "select"}

Bot == DialFIX \/ Close \/ CheckContext \/ ReadField \/ ParseMsg \/ Deadline
Next == Bot \/ SendNOS \/ AcceptorReplies \/ AcceptorCloses \/ Cancel

Spec == Init /\ [][Next]_vars

\* The goroutine runs, the read deadline strikes, the select takes ctx.Done()
\* in the end and the run's duration ends.  The acceptor owes nothing, not even
\* to read what the bot writes.
FairSpec == Spec /\ WF_vars(Bot /\ ~Writes) /\ WF_vars(Cancel)

-----------------------------------------------------------------------------
(* Properties.                                                             *)

\* The variables have the types of the code's fields.
TypeOK ==
  /\ ctx \in {"live", "done"}
  /\ pc \in {"dial", "select", "check", "read", "parse", "closed", "rest"}
  /\ conn \in {"none", "open", "broken", "closed"}
  /\ seqNum \in 0 .. MaxOrders + 3
  /\ ord \in 0 .. MaxOrders
  /\ Range(metrics) \subseteq 1 .. ord
  /\ rejected \in BOOLEAN

\* What readMsg has collected never mixes fields of two messages, even after a
\* deadline struck inside one: the MsgType of one message is never read with
\* the ClOrdID of another (fix_client.go:157-171).
NoMixedMessage ==
  \A i, j \in DOMAIN sb : sb[i].msg # 0 /\ sb[j].msg # 0 => sb[i].msg = sb[j].msg

\* A metric is only sent for an order the acceptor received and reported on,
\* and once, whatever late and repeated reports of timed-out orders are still
\* in the stream (fix_client.go:113-130).
MetricHasOwnReport ==
  /\ \A i, j \in DOMAIN metrics : i < j => metrics[i] < metrics[j]
  /\ \A o \in Range(metrics) : [type |-> "8", id |-> o] \in Range(replies)

\* "Returns an error if the connection or logon fails" (fix_client.go:57): a
\* refused logon is not noticed, as its answer is not read.
LogonIsAccepted == pc \in {"select", "check", "read", "parse"} => ~rejected
=============================================================================
