----------------------------- MODULE FIXProofs -----------------------------
(***************************************************************************)
(* Proofs about the FIX session of a bot, for any number of orders and     *)
(* replies: reports are never mixed up, every metric has its own report,   *)
(* and the reference engine's acceptor answers in order and is one of the  *)
(* acceptors FIXClient allows.                                             *)
(***************************************************************************)
EXTENDS FIXAcceptor, SequenceTheorems, TLAPS

Types == {"", "A", "D", "5", "8"}
FieldSet == [tag : {0, 10, 11, 35}, val : Types \cup Nat, msg : Nat]
ReplySet == [type : Types, id : Nat]

SessionTypes ==
  /\ sb \in Seq(FieldSet) /\ stream \in Seq(FieldSet)
  /\ replies \in Seq(ReplySet)
  /\ metrics \in Seq(Nat) /\ ord \in Nat

\* What the client has read of a message and what is still to come.
Incoming == sb \o stream

\* Only a field that was cut can be junk, and it is the first one; the fields of
\* two messages have a checksum between them; no message has a tag twice; the
\* last message is whole.
Framed(q) ==
  /\ \A i \in DOMAIN q : q[i].msg = 0 => i = 1 /\ q[i].tag = 0
  /\ \A i, j \in DOMAIN q :
       i < j /\ q[i].msg # 0 /\ q[i].msg # q[j].msg => \E k \in i .. j - 1 : q[k].tag = 10
  /\ \A i, j \in DOMAIN q : q[i].msg = q[j].msg /\ q[i].tag = q[j].tag => i = j
  /\ q # <<>> => q[Len(q)].tag = 10 \/ q[Len(q)].msg = 0

\* The fields are those of the replies whose numbers they bear.
Genuine(q) ==
  \A i \in DOMAIN q : q[i].msg # 0 =>
    /\ q[i].msg \in DOMAIN replies
    /\ q[i].tag = 35 => q[i].val = replies[q[i].msg].type
    /\ q[i].tag = 11 => q[i].val = replies[q[i].msg].id

\* readMsg stops at the checksum and keeps nothing between two calls.
Collected ==
  /\ pc \notin {"read", "parse"} => sb = <<>>
  /\ pc = "read" => \A i \in DOMAIN sb : sb[i].tag # 10
  /\ pc = "parse" => \A i \in DOMAIN sb : sb[i].tag = 10 => i = Len(sb)

Ordered ==
  /\ \A i \in DOMAIN metrics : metrics[i] <= ord
  /\ pc \in {"check", "read", "parse"} => ord > 0 /\ \A i \in DOMAIN metrics : metrics[i] < ord

IInv == SessionTypes /\ Framed(Incoming) /\ Genuine(Incoming) /\ Collected /\ Ordered /\ MetricHasOwnReport

MsgSet == [type : {"A", "D", "5"}, seq : Nat, id : Nat]

\* What the client has written: it logs out only when it closes.
Written ==
  /\ wire \in Seq(MsgSet) /\ seqNum \in Nat
  /\ conn \in {"none", "open"} => \A i \in DOMAIN wire : wire[i].type # "5"
  /\ conn = "none" => pc \in {"dial", "rest"}

\* The goroutine has read the first messages, holds the answer to the last of
\* them and has written those to the others while it could.
Reading ==
  /\ got \in Nat /\ got <= Len(wire)
  /\ acc \in {"none", "backlog", "read", "write", "ended"}
  /\ acc = "none" <=> conn = "none"
  /\ acc \in {"none", "backlog"} => got = 0
  /\ acc = "ended" => conn # "open"
  /\ acc = "write" => got >= 1 /\ answer = Answer(wire[got])
  /\ acc \in {"read", "write"} => accSeq = Answered + 1

Replied ==
  /\ Len(replies) <= Answered
  /\ conn = "open" => Len(replies) = Answered
  /\ \A k \in DOMAIN replies : replies[k] = Answer(wire[k])

SInv ==
  /\ Written
  /\ engine \in {"reference", "contestant"}
  /\ engine = "reference" => Reading /\ Replied
  /\ engine = "contestant" => acc = "none"

-----------------------------------------------------------------------------
(* The stream of fields                                                    *)

\* What is left of a stream when its first fields are gone is framed.
LEMMA SuffixFramed ==
  ASSUME NEW p \in Seq(FieldSet), NEW q \in Seq(FieldSet), Framed(p \o q)
  PROVE  Framed(q)
<1> DEFINE r == p \o q
           n == Len(p)
<1>1. /\ r \in Seq(FieldSet) /\ Len(r) = n + Len(q) /\ n \in Nat /\ Len(q) \in Nat
      /\ \A i \in DOMAIN q : i + n \in DOMAIN r /\ r[i + n] = q[i]
  OBVIOUS
<1>0. Framed(r)
  OBVIOUS
<1> HIDE DEF r, n
<1>2. \A i \in DOMAIN q : i \in 1..Len(q)
  OBVIOUS
<1>3. \A i \in DOMAIN q : q[i].msg = 0 => i = 1 /\ q[i].tag = 0
  BY <1>0, <1>1, <1>2 DEF Framed
<1>4. ASSUME NEW i \in DOMAIN q, NEW j \in DOMAIN q, i < j, q[i].msg # 0, q[i].msg # q[j].msg
      PROVE  \E k \in i .. j - 1 : q[k].tag = 10
  <2>1. i + n \in DOMAIN r /\ j + n \in DOMAIN r /\ r[i + n] = q[i] /\ r[j + n] = q[j] /\ i + n < j + n
    BY <1>1, <1>2, <1>4
  <2>2. PICK k \in i + n .. (j + n) - 1 : r[k].tag = 10
    BY <1>0, <1>4, <2>1 DEF Framed
  <2>3. i \in 1..Len(q) /\ j \in 1..Len(q) /\ k \in Int
    BY <1>1, <1>2
  <2>4. k - n \in i .. j - 1 /\ k - n \in 1..Len(q) /\ (k - n) + n = k
    <3>1. n \in Nat /\ Len(q) \in Nat
      BY <1>1
    <3> QED BY <2>3, <3>1, SMTT(60)
  <2>5. k - n \in DOMAIN q
    BY <2>4
  <2>6. r[k] = q[k - n]
    BY <1>1, <2>4, <2>5
  <2> QED BY <2>2, <2>4, <2>6
<1>5. ASSUME NEW i \in DOMAIN q, NEW j \in DOMAIN q, q[i].msg = q[j].msg, q[i].tag = q[j].tag
      PROVE  i = j
  <2>1. i + n \in DOMAIN r /\ j + n \in DOMAIN r /\ r[i + n] = q[i] /\ r[j + n] = q[j]
    BY <1>1
  <2>2. i + n = j + n
    BY <1>0, <1>5, <2>1 DEF Framed
  <2> QED BY <1>1, <1>2, <2>2
<1>6. q # <<>> => q[Len(q)].tag = 10 \/ q[Len(q)].msg = 0
  <2>1. SUFFICES ASSUME q # <<>> PROVE q[Len(q)].tag = 10 \/ q[Len(q)].msg = 0
    OBVIOUS
  <2>2. Len(q) \in DOMAIN q /\ r # <<>> /\ Len(r) = Len(q) + n
    BY <1>1, <2>1
  <2> QED BY <1>0, <1>1, <2>2 DEF Framed
<1> QED BY <1>3, <1>4, <1>5, <1>6 DEF Framed

\* A stream whose first field was cut is framed.
LEMMA CutFramed ==
  ASSUME NEW q \in Seq(FieldSet), q # <<>>, Framed(q)
  PROVE  /\ [q EXCEPT ![1] = Junk] \in Seq(FieldSet)
         /\ Framed([q EXCEPT ![1] = Junk])
<1> DEFINE r == [q EXCEPT ![1] = Junk]
<1>1. Junk \in FieldSet /\ Junk.msg = 0 /\ Junk.tag = 0
  BY DEF Junk, FieldSet, Types
<1>2. /\ r \in Seq(FieldSet) /\ DOMAIN r = DOMAIN q /\ Len(r) = Len(q) /\ DOMAIN q = 1..Len(q)
      /\ 1 \in DOMAIN q /\ r[1] = Junk /\ \A i \in DOMAIN q : i # 1 => r[i] = q[i]
  BY <1>1
<1>3. Len(q) \in Nat /\ r # <<>>
  BY <1>2
<1> HIDE DEF r
<1>4. \A i \in DOMAIN r : r[i].msg = 0 => i = 1 /\ r[i].tag = 0
  BY <1>1, <1>2 DEF Framed
<1>5. ASSUME NEW i \in DOMAIN r, NEW j \in DOMAIN r, i < j, r[i].msg # 0, r[i].msg # r[j].msg
      PROVE  \E k \in i .. j - 1 : r[k].tag = 10
  <2>1. i # 1 /\ j # 1
    BY <1>1, <1>2, <1>5
  <2>2. PICK k \in i .. j - 1 : q[k].tag = 10
    BY <1>2, <1>5, <2>1 DEF Framed
  <2>3. k \in DOMAIN q /\ k # 1
    BY <1>2, <1>3, <1>5, <2>1
  <2> QED BY <1>2, <2>2, <2>3
<1>6. \A i, j \in DOMAIN r : r[i].msg = r[j].msg /\ r[i].tag = r[j].tag => i = j
  BY <1>1, <1>2 DEF Framed
<1>7. r[Len(r)].tag = 10 \/ r[Len(r)].msg = 0
  BY <1>1, <1>2, <1>3 DEF Framed
<1>8. Framed(r)
  BY <1>4, <1>5, <1>6, <1>7 DEF Framed
<1> QED BY <1>2, <1>8 DEF r

\* A whole message with a new number may follow.
LEMMA AppendFramed ==
  ASSUME NEW q \in Seq(FieldSet), NEW g \in Seq(FieldSet), NEW n \in Nat, Framed(q), g # <<>>, n # 0,
         \A i \in DOMAIN q : q[i].msg # n,
         \A i \in DOMAIN g : g[i].msg = n,
         \A i, j \in DOMAIN g : g[i].tag = g[j].tag => i = j,
         g[Len(g)].tag = 10
  PROVE  Framed(q \o g)
<1> DEFINE r == q \o g
           l == Len(q)
<1>len. l = Len(q)
  OBVIOUS
<1>1. /\ l \in Nat /\ Len(g) \in Nat /\ Len(g) > 0 /\ Len(r) = l + Len(g) /\ DOMAIN r = 1..(l + Len(g))
      /\ DOMAIN q = 1..l /\ DOMAIN g = 1..Len(g)
      /\ \A i \in 1..l : r[i] = q[i]
      /\ \A i \in (l + 1)..(l + Len(g)) : r[i] = g[i - l] /\ i - l \in DOMAIN g
      /\ r \in Seq(FieldSet)
  OBVIOUS
<1> HIDE DEF r, l
<1>0. ASSUME NEW i \in DOMAIN r
      PROVE  IF i <= l THEN i \in DOMAIN q /\ r[i] = q[i]
                       ELSE i - l \in DOMAIN g /\ r[i] = g[i - l] /\ r[i].msg = n
  <2>1. CASE i <= l
    BY <1>1, <2>1
  <2>2. CASE i > l
    <3>1. i \in (l + 1)..(l + Len(g))
      BY <1>1, <2>2
    <3> QED BY <1>1, <2>2, <3>1
  <2> QED BY <1>1, <2>1, <2>2
<1>2. ASSUME NEW i \in DOMAIN r, r[i].msg = 0
      PROVE  i = 1 /\ r[i].tag = 0
  <2>1. i \in DOMAIN q /\ q[i].msg = 0 /\ r[i] = q[i]
    BY <1>0, <1>2
  <2> QED BY <2>1 DEF Framed
<1>3. ASSUME NEW i \in DOMAIN r, NEW j \in DOMAIN r, i < j, r[i].msg # 0, r[i].msg # r[j].msg
      PROVE  \E k \in i .. j - 1 : r[k].tag = 10
  <2>1. i \in 1..l
    BY <1>0, <1>1, <1>3
  <2>2. CASE j \in 1..l
    <3>0. i \in DOMAIN q /\ j \in DOMAIN q /\ r[i] = q[i] /\ r[j] = q[j]
      BY <1>1, <2>1, <2>2
    <3>1. PICK k \in i .. j - 1 : q[k].tag = 10
      BY <1>3, <3>0 DEF Framed
    <3>2. k \in 1..l /\ i \in 1..l /\ j \in 1..l
      <4>1. l \in Nat
        BY <1>1
      <4> QED BY <2>1, <2>2, <4>1, SMTT(60)
    <3>3. r[k] = q[k]
      BY <1>1, <3>2
    <3> QED BY <3>1, <3>3
  <2>3. CASE j \notin 1..l
    <3>1. l \in i .. j - 1 /\ l \in 1..l
      BY <1>1, <1>3, <2>1, <2>3
    <3>2. q[l].tag = 10 \/ (q[l].msg = 0 /\ l = 1)
      <4>1. q # <<>> /\ l \in DOMAIN q
        BY <1>1, <3>1
      <4>2. q[Len(q)].tag = 10 \/ q[Len(q)].msg = 0
        BY <4>1 DEF Framed
      <4> QED BY <1>len, <4>1, <4>2 DEF Framed
    <3>3. q[l].tag = 10
      <4>1. SUFFICES ASSUME q[l].msg = 0, l = 1 PROVE FALSE
        BY <3>2
      <4>2. i = l /\ r[i] = q[l]
        BY <1>1, <2>1, <4>1
      <4> QED BY <1>3, <4>1, <4>2
    <3> QED BY <1>1, <3>1, <3>3
  <2> QED BY <2>2, <2>3
<1>4. ASSUME NEW i \in DOMAIN r, NEW j \in DOMAIN r, r[i].msg = r[j].msg, r[i].tag = r[j].tag
      PROVE  i = j
  <2>1. CASE i \in 1..l /\ j \in 1..l
    BY <1>1, <1>4, <2>1, SMTT(60) DEF Framed
  <2>2. CASE i \notin 1..l /\ j \notin 1..l
    <3>1. i - l \in DOMAIN g /\ j - l \in DOMAIN g /\ r[i] = g[i - l] /\ r[j] = g[j - l]
      BY <1>1, <2>2
    <3>2. i - l = j - l
      BY <1>4, <3>1
    <3> QED BY <1>1, <3>2
  <2>3. CASE (i \in 1..l) # (j \in 1..l)
    BY <1>0, <1>1, <1>4, <2>3
  <2> QED BY <2>1, <2>2, <2>3
<1>5. r[Len(r)].tag = 10
  BY <1>1
<1> QED BY <1>2, <1>3, <1>4, <1>5 DEF Framed, r

\* Any part of a genuine stream is genuine, and a cut field claims nothing.
LEMMA SuffixGenuine ==
  ASSUME NEW p \in Seq(FieldSet), NEW q \in Seq(FieldSet), Genuine(p \o q)
  PROVE  Genuine(q) /\ (q # <<>> => Genuine([q EXCEPT ![1] = Junk]))
<1>1. Genuine(q)
  <2> DEFINE r == p \o q
  <2>1. \A i \in DOMAIN q : i + Len(p) \in DOMAIN r /\ r[i + Len(p)] = q[i]
    OBVIOUS
  <2>2. Genuine(r)
    OBVIOUS
  <2> HIDE DEF r
  <2> QED BY <2>1, <2>2 DEF Genuine
<1>2. ASSUME q # <<>>, NEW i \in DOMAIN [q EXCEPT ![1] = Junk], [q EXCEPT ![1] = Junk][i].msg # 0
      PROVE  i \in DOMAIN q /\ [q EXCEPT ![1] = Junk][i] = q[i]
  BY <1>2 DEF Junk
<1>3. q # <<>> => Genuine([q EXCEPT ![1] = Junk])
  BY <1>1, <1>2 DEF Genuine
<1> QED BY <1>1, <1>3

-----------------------------------------------------------------------------
(* The client                                                              *)

\* Nothing is read or on its way at first.
LEMMA InitInv == Init => IInv
<1> SUFFICES ASSUME Init PROVE IInv
  OBVIOUS
<1>1. sb = <<>> /\ stream = <<>> /\ Incoming = <<>>
  BY DEF Init, Incoming
<1>2. Framed(Incoming) /\ Genuine(Incoming)
  BY <1>1 DEF Framed, Genuine
<1>3. SessionTypes /\ Collected /\ Ordered /\ MetricHasOwnReport
  BY <1>1 DEF Init, SessionTypes, Collected, Ordered, MetricHasOwnReport, Range
<1> QED BY <1>2, <1>3 DEF IInv

\* A step that leaves the incoming fields and what was read of them alone.
LEMMA QuietStep ==
  ASSUME IInv, UNCHANGED <<stream, sb, replies, metrics>>,
         ord' \in Nat, ord' >= ord,
         sb = <<>> \/ pc' = pc,
         pc' \in {"check", "read", "parse"} => ord' > ord \/ (pc \in {"check", "read", "parse"} /\ ord' = ord)
  PROVE  IInv'
<1>1. Incoming' = Incoming
  BY DEF Incoming
<1>2. Framed(Incoming)' /\ Genuine(Incoming)'
  BY <1>1 DEF IInv, Framed, Genuine
<1>3. SessionTypes' /\ Collected'
  BY DEF IInv, SessionTypes, Collected
<1>4. Ordered'
  BY DEF IInv, SessionTypes, Ordered
<1>5. MetricHasOwnReport'
  BY DEF IInv, MetricHasOwnReport, Range
<1> QED BY <1>2, <1>3, <1>4, <1>5 DEF IInv

\* Steps that write, look at the context or end the connection.
LEMMA WriteStep ==
  ASSUME IInv, DialFIX \/ SendNOS \/ Close \/ CheckContext \/ AcceptorCloses \/ Cancel
  PROVE  IInv'
<1>0. ord \in Nat /\ (pc \notin {"read", "parse"} => sb = <<>>)
  BY DEF IInv, SessionTypes, Collected
<1>1. CASE DialFIX
  BY <1>0, <1>1, QuietStep DEF DialFIX
<1>2. CASE SendNOS
  BY <1>0, <1>2, QuietStep DEF SendNOS
<1>3. CASE Close
  BY <1>0, <1>3, QuietStep DEF Close
<1>4. CASE CheckContext
  BY <1>0, <1>4, QuietStep DEF CheckContext
<1>5. CASE AcceptorCloses \/ Cancel
  BY <1>0, <1>5, QuietStep DEF AcceptorCloses, Cancel
<1> QED BY <1>1, <1>2, <1>3, <1>4, <1>5

\* readMsg takes a field from the stream: together they stay what they are.
LEMMA ReadFieldStep == IInv /\ ReadField => IInv'
<1> SUFFICES ASSUME IInv, ReadField PROVE IInv'
  OBVIOUS
<1>1. /\ sb \in Seq(FieldSet) /\ stream \in Seq(FieldSet) /\ stream # <<>>
      /\ sb' = Append(sb, Head(stream)) /\ stream' = Tail(stream)
      /\ UNCHANGED <<replies, metrics, ord>> /\ pc = "read" /\ pc' \in {"parse", "read"}
  BY DEF IInv, SessionTypes, ReadField
<1>2. Incoming' = Incoming /\ sb' \in Seq(FieldSet) /\ stream' \in Seq(FieldSet)
  BY <1>1 DEF Incoming
<1>3. Framed(Incoming)' /\ Genuine(Incoming)'
  BY <1>1, <1>2 DEF IInv, Framed, Genuine
<1>4. SessionTypes' /\ Ordered'
  BY <1>1, <1>2 DEF IInv, SessionTypes, Ordered
<1>5. Collected'
  <2>1. \A i \in DOMAIN sb : sb[i].tag # 10
    BY <1>1 DEF IInv, Collected
  <2>2. Len(sb') = Len(sb) + 1 /\ sb'[Len(sb')] = Head(stream) /\ \A i \in DOMAIN sb' : i # Len(sb') => i \in DOMAIN sb /\ sb'[i] = sb[i]
    BY <1>1
  <2> QED BY <1>1, <2>1, <2>2 DEF ReadField, Collected
<1>6. MetricHasOwnReport'
  BY <1>1 DEF IInv, MetricHasOwnReport, Range
<1> QED BY <1>3, <1>4, <1>5, <1>6 DEF IInv

\* What readMsg has collected belongs to one message.
LEMMA OneMessage ==
  ASSUME SessionTypes, Framed(Incoming), Collected
  PROVE  NoMixedMessage
<1> DEFINE q == Incoming
<1>1. \A i \in DOMAIN sb : i \in DOMAIN q /\ q[i] = sb[i] /\ i \in 1..Len(sb)
  BY DEF SessionTypes, Incoming
<1>2. Framed(q)
  OBVIOUS
<1> HIDE DEF q
<1>3. ASSUME NEW i \in DOMAIN sb, NEW j \in DOMAIN sb, i < j, sb[i].msg # 0, sb[i].msg # sb[j].msg
      PROVE  FALSE
  <2>1. PICK k \in i .. j - 1 : q[k].tag = 10
    BY <1>1, <1>2, <1>3 DEF Framed
  <2>2. k \in DOMAIN sb /\ k # Len(sb) /\ sb[k].tag = 10
    <3>1. Len(sb) \in Nat /\ DOMAIN sb = 1..Len(sb)
      BY DEF SessionTypes
    <3>2. k \in 1..Len(sb) /\ k # Len(sb)
      BY <1>1, <1>3, <3>1
    <3> QED BY <1>1, <2>1, <3>1, <3>2
  <2>3. pc \in {"read", "parse"}
    BY <2>2 DEF Collected
  <2> QED BY <2>2, <2>3 DEF Collected
<1>4. ASSUME NEW i \in DOMAIN sb, NEW j \in DOMAIN sb, sb[i].msg # 0, sb[j].msg # 0
      PROVE  sb[i].msg = sb[j].msg
  <2>1. i \in Nat /\ j \in Nat
    BY <1>1
  <2> QED BY <1>3, <1>4, <2>1
<1> QED BY <1>4 DEF NoMixedMessage

\* The value of a tag is that of its only field.
LEMMA ParsedIsRead ==
  ASSUME SessionTypes, Framed(Incoming), Collected,
         NEW tag \in {11, 35}, NEW none, parseTags(tag, none) # none
  PROVE  \E i \in DOMAIN sb : sb[i].tag = tag /\ sb[i].msg # 0 /\ parseTags(tag, none) = sb[i].val
<1>1. /\ Fields(tag) # {}
      /\ parseTags(tag, none) = sb[CHOOSE i \in Fields(tag) : \A j \in Fields(tag) : j <= i].val
  BY DEF parseTags
<1>2. PICK i \in Fields(tag) : TRUE
  BY <1>1
<1> DEFINE q == Incoming
<1>3. \A k \in DOMAIN sb : k \in DOMAIN q /\ q[k] = sb[k] /\ k \in Nat
  BY DEF SessionTypes, Incoming
<1>4. Framed(q)
  OBVIOUS
<1> HIDE DEF q
<1>5. \A k \in Fields(tag) : k \in DOMAIN sb /\ sb[k].tag = tag /\ sb[k].msg # 0
  BY <1>3, <1>4 DEF Fields, Framed
<1>6. \A j \in Fields(tag) : j = i
  <2>1. SUFFICES ASSUME NEW j \in Fields(tag) PROVE j = i
    OBVIOUS
  <2>2. sb[i].msg = sb[j].msg
    BY <1>5, OneMessage DEF NoMixedMessage
  <2> QED BY <1>3, <1>4, <1>5, <2>2 DEF Framed
<1>7. (CHOOSE k \in Fields(tag) : \A j \in Fields(tag) : j <= k) = i
  <2>1. i <= i
    BY <1>3, <1>5
  <2> QED BY <1>6, <2>1
<1> QED BY <1>1, <1>5, <1>7

\* A metric is added only for the order's own report, which was read whole.
LEMMA ParseMsgStep == IInv /\ ParseMsg => IInv'
<1> SUFFICES ASSUME IInv, ParseMsg PROVE IInv'
  OBVIOUS
<1>1. /\ sb \in Seq(FieldSet) /\ stream \in Seq(FieldSet) /\ metrics \in Seq(Nat) /\ ord \in Nat
      /\ sb' = <<>> /\ UNCHANGED <<stream, replies, ord>> /\ pc = "parse" /\ pc' \in {"select", "check"}
  BY DEF IInv, SessionTypes, ParseMsg
<1>2. Incoming' = stream
  BY <1>1 DEF Incoming
<1>3. Framed(Incoming)'
  <2>1. Framed(stream)
    BY <1>1, SuffixFramed DEF IInv, Incoming
  <2> QED BY <1>2, <2>1 DEF Framed
<1>4. Genuine(Incoming)'
  <2>1. Genuine(stream)
    BY <1>1, SuffixGenuine DEF IInv, Incoming
  <2> QED BY <1>1, <1>2, <2>1 DEF Genuine
<1>5. Collected'
  BY <1>1 DEF Collected
<1>6. CASE ~Match
  <2>1. UNCHANGED metrics /\ pc' = "check"
    BY <1>6 DEF ParseMsg
  <2>2. SessionTypes' /\ Ordered' /\ MetricHasOwnReport'
    BY <1>1, <2>1 DEF IInv, SessionTypes, Ordered, MetricHasOwnReport, Range
  <2> QED BY <1>3, <1>4, <1>5, <2>2 DEF IInv
<1>7. CASE Match
  <2>1. metrics' = Append(metrics, ord) /\ pc' = "select"
    BY <1>7 DEF ParseMsg
  <2>2. ord > 0 /\ \A i \in DOMAIN metrics : metrics[i] < ord
    BY <1>1 DEF IInv, Ordered
  <2>3. PICK i \in DOMAIN sb : sb[i].tag = 35 /\ sb[i].msg # 0 /\ sb[i].val = "8"
    BY <1>7, ParsedIsRead DEF IInv, Match
  <2>4. PICK j \in DOMAIN sb : sb[j].tag = 11 /\ sb[j].msg # 0 /\ sb[j].val = ord
    <3>1. ord # 0
      BY <1>1, <2>2
    <3>2. parseTags(11, 0) = ord
      BY <1>7 DEF Match
    <3> QED BY <3>1, <3>2, ParsedIsRead DEF IInv
  <2>5. sb[i].msg = sb[j].msg
    BY <2>3, <2>4, OneMessage DEF IInv, NoMixedMessage
  <2>6. \A k \in DOMAIN sb : k \in DOMAIN Incoming /\ Incoming[k] = sb[k]
    BY <1>1 DEF Incoming
  <2> DEFINE m == sb[i].msg
  <2>7. m \in DOMAIN replies /\ replies[m].type = "8" /\ replies[m].id = ord
    BY <2>3, <2>4, <2>5, <2>6 DEF IInv, Genuine
  <2>8. replies[m] = [type |-> "8", id |-> ord]
    <3>1. replies[m] \in ReplySet
      BY <2>7 DEF IInv, SessionTypes
    <3> QED BY <2>7, <3>1 DEF ReplySet
  <2> HIDE DEF m
  <2>9. [type |-> "8", id |-> ord] \in Range(replies)
    BY <2>7, <2>8 DEF Range
  <2>10. /\ metrics' \in Seq(Nat) /\ Len(metrics') = Len(metrics) + 1 /\ metrics'[Len(metrics')] = ord
         /\ DOMAIN metrics' = 1..Len(metrics') /\ DOMAIN metrics = 1..Len(metrics) /\ Len(metrics) \in Nat
         /\ \A k \in DOMAIN metrics : metrics'[k] = metrics[k]
    BY <1>1, <2>1
  <2>11. \A k \in DOMAIN metrics' : k = Len(metrics') \/ k \in DOMAIN metrics
    BY <2>10
  <2>12. SessionTypes'
    BY <1>1, <2>10 DEF IInv, SessionTypes
  <2>13. Ordered'
    BY <1>1, <2>1, <2>2, <2>10, <2>11 DEF Ordered
  <2>14. \A k, l \in DOMAIN metrics' : k < l => metrics'[k] < metrics'[l]
    <3>1. SUFFICES ASSUME NEW k \in DOMAIN metrics', NEW l \in DOMAIN metrics', k < l
                   PROVE  metrics'[k] < metrics'[l]
      OBVIOUS
    <3>2. k \in DOMAIN metrics
      BY <2>10, <3>1
    <3>3. CASE l \in DOMAIN metrics
      BY <2>10, <3>1, <3>2, <3>3 DEF IInv, MetricHasOwnReport
    <3>4. CASE l = Len(metrics')
      BY <2>2, <2>10, <3>2, <3>4
    <3> QED BY <2>11, <3>3, <3>4
  <2>15. \A o \in Range(metrics') : [type |-> "8", id |-> o] \in Range(replies)
    BY <2>9, <2>10, <2>11 DEF IInv, MetricHasOwnReport, Range
  <2>16. MetricHasOwnReport'
    BY <1>1, <2>14, <2>15 DEF MetricHasOwnReport, Range
  <2> QED BY <1>3, <1>4, <1>5, <2>12, <2>13, <2>16 DEF IInv
<1> QED BY <1>6, <1>7

\* The deadline drops what was read, and cuts a field perhaps.
LEMMA DeadlineStep == IInv /\ Deadline => IInv'
<1> SUFFICES ASSUME IInv, Deadline PROVE IInv'
  OBVIOUS
<1>1. /\ sb \in Seq(FieldSet) /\ stream \in Seq(FieldSet)
      /\ sb' = <<>> /\ UNCHANGED <<replies, ord, metrics>> /\ pc' = "select"
      /\ stream' = stream \/ (stream # <<>> /\ stream' = [stream EXCEPT ![1] = Junk])
  BY DEF IInv, SessionTypes, Deadline
<1>2. Framed(stream) /\ Genuine(stream)
  BY <1>1, SuffixFramed, SuffixGenuine DEF IInv, Incoming
<1>3. stream' \in Seq(FieldSet) /\ Framed(stream')
  BY <1>1, <1>2, CutFramed
<1>4. Genuine(stream')
  BY <1>1, <1>2, SuffixGenuine DEF IInv, Incoming
<1>5. Incoming' = stream'
  BY <1>1, <1>3 DEF Incoming
<1>6. Framed(Incoming)' /\ Genuine(Incoming)'
  BY <1>1, <1>3, <1>4, <1>5 DEF Framed, Genuine
<1>7. SessionTypes' /\ Collected' /\ Ordered' /\ MetricHasOwnReport'
  BY <1>1, <1>3 DEF IInv, SessionTypes, Collected, Ordered, MetricHasOwnReport, Range
<1> QED BY <1>6, <1>7 DEF IInv

\* The fields of a reply, without and with a ClOrdID.
LEMMA ReplyFields ==
  ASSUME NEW x \in FieldSet, NEW y \in FieldSet, NEW z \in FieldSet
  PROVE  /\ <<x>> \o <<>> \o <<z>> = <<x, z>>
         /\ <<x>> \o <<y>> \o <<z>> = <<x, y, z>>
<1>1. /\ <<x>> \in Seq(FieldSet) /\ <<y>> \in Seq(FieldSet) /\ <<z>> \in Seq(FieldSet)
      /\ <<x, z>> \in Seq(FieldSet) /\ <<x, y>> \in Seq(FieldSet) /\ <<x, y, z>> \in Seq(FieldSet)
  OBVIOUS
<1> DEFINE p == <<x>> \o <<z>>
           q == <<x>> \o <<y>>
           r == <<x, y>> \o <<z>>
<1>2. p = <<x, z>>
  <2>1. p \in Seq(FieldSet) /\ Len(p) = 2 /\ p[1] = x /\ p[2] = z
    BY <1>1, ConcatProperties
  <2> HIDE DEF p
  <2>2. \A i \in 1..Len(p) : p[i] = <<x, z>>[i]
    BY <2>1
  <2>3. Len(<<x, z>>) = Len(p)
    BY <2>1
  <2> QED BY <1>1, <2>1, <2>2, <2>3, SeqEqual
<1>3. q = <<x, y>>
  <2>1. q \in Seq(FieldSet) /\ Len(q) = 2 /\ q[1] = x /\ q[2] = y
    BY <1>1, ConcatProperties
  <2> HIDE DEF q
  <2>2. \A i \in 1..Len(q) : q[i] = <<x, y>>[i]
    BY <2>1
  <2>3. Len(<<x, y>>) = Len(q)
    BY <2>1
  <2> QED BY <1>1, <2>1, <2>2, <2>3, SeqEqual
<1>4. r = <<x, y, z>>
  <2>1. r \in Seq(FieldSet) /\ Len(r) = 3 /\ r[1] = x /\ r[2] = y /\ r[3] = z
    BY <1>1, ConcatProperties
  <2> HIDE DEF r
  <2>2. \A i \in 1..Len(r) : r[i] = <<x, y, z>>[i]
    BY <2>1
  <2>3. Len(<<x, y, z>>) = Len(r)
    BY <2>1
  <2> QED BY <1>1, <2>1, <2>2, <2>3, SeqEqual
<1>5. <<x>> \o <<>> = <<x>>
  BY <1>1, ConcatEmptySeq
<1> QED BY <1>2, <1>3, <1>4, <1>5

\* Reply adds a whole message to the stream.
LEMMA ReplyStep ==
  ASSUME IInv, NEW type \in Types, NEW id \in Nat, Reply(type, id), UNCHANGED <<pc, ord, sb, metrics>>
  PROVE  IInv'
<1> DEFINE n == Len(replies) + 1
           x == [tag |-> 35, val |-> type, msg |-> n]
           y == [tag |-> 11, val |-> id, msg |-> n]
           z == [tag |-> 10, val |-> "", msg |-> n]
           g == IF id = 0 THEN <<x, z>> ELSE <<x, y, z>>
<1>1. /\ sb \in Seq(FieldSet) /\ stream \in Seq(FieldSet) /\ replies \in Seq(ReplySet)
      /\ replies' = Append(replies, [type |-> type, id |-> id])
  BY DEF IInv, SessionTypes, Reply
<1>2. n \in Nat /\ n # 0 /\ n \notin DOMAIN replies
  BY <1>1
<1>3. /\ replies' \in Seq(ReplySet) /\ n \in DOMAIN replies' /\ replies'[n].type = type /\ replies'[n].id = id
      /\ \A k \in DOMAIN replies : k \in DOMAIN replies' /\ replies'[k] = replies[k]
  BY <1>1 DEF ReplySet
<1>4. stream' = stream \o <<x>> \o (IF id = 0 THEN <<>> ELSE <<y>>) \o <<z>>
  BY DEF Reply
<1>x. /\ x \in FieldSet /\ x.tag = 35 /\ x.val = type /\ x.msg = n
      /\ y \in FieldSet /\ y.tag = 11 /\ y.val = id /\ y.msg = n
      /\ z \in FieldSet /\ z.tag = 10 /\ z.msg = n
  BY <1>2 DEF FieldSet, Types
<1> HIDE DEF n, x, y, z
<1>g. /\ g \in Seq(FieldSet) /\ g # <<>> /\ g[Len(g)].tag = 10
      /\ \A i \in DOMAIN g : /\ g[i].msg = n
                             /\ g[i].tag = 35 => g[i].val = type
                             /\ g[i].tag = 11 => g[i].val = id
      /\ \A i, j \in DOMAIN g : g[i].tag = g[j].tag => i = j
  <2>1. CASE id = 0
    <3>1. g = <<x, z>>
      BY <2>1
    <3> HIDE DEF g
    <3> QED BY <1>x, <3>1
  <2>2. CASE id # 0
    <3>1. g = <<x, y, z>>
      BY <2>2
    <3> HIDE DEF g
    <3> QED BY <1>x, <3>1
  <2> QED BY <2>1, <2>2
<1>5. stream' = stream \o g
  <2> DEFINE t == <<x>>
             u == IF id = 0 THEN <<>> ELSE <<y>>
             v == <<z>>
  <2>1. /\ stream \in Seq(FieldSet)
        /\ t \in Seq(FieldSet) /\ u \in Seq(FieldSet) /\ v \in Seq(FieldSet)
    BY <1>1, <1>x
  <2>2. t \o u \o v = IF id = 0 THEN <<x, z>> ELSE <<x, y, z>>
    BY <1>x, ReplyFields
  <2> DEFINE w == t \o u
             p == (stream \o t) \o u
             q == stream \o w
             r == w \o v
  <2>3. p = q
    <3> HIDE DEF t, u
    <3> QED BY <2>1, ConcatAssociative
  <2>4. q \o v = stream \o r
    <3>1. w \in Seq(FieldSet)
      BY <2>1, ConcatProperties
    <3> HIDE DEF w, v
    <3> QED BY <2>1, <3>1, ConcatAssociative
  <2>5. p \o v = stream \o r
    <3> HIDE DEF p, q, r, v
    <3> QED BY <2>3, <2>4
  <2>6. r = IF id = 0 THEN <<x, z>> ELSE <<x, y, z>>
    BY <2>2
  <2>7. stream \o r = stream \o (IF id = 0 THEN <<x, z>> ELSE <<x, y, z>>)
    <3> HIDE DEF r
    <3> QED BY <2>6
  <2> QED BY <1>4, <2>5, <2>7
<1> HIDE DEF g
<1> DEFINE q == Incoming
<1>6. q \in Seq(FieldSet) /\ Framed(q) /\ Genuine(q)
  BY <1>1 DEF IInv, Incoming
<1>7. Incoming' = q \o g /\ stream' \in Seq(FieldSet)
  BY <1>1, <1>g, <1>5, SMTT(60) DEF Incoming
<1> HIDE DEF q
<1>8. Framed(q \o g)
  <2>1. \A i \in DOMAIN q : q[i].msg # n
    BY <1>2, <1>6 DEF Genuine
  <2> QED BY <1>2, <1>g, <1>6, <2>1, AppendFramed
<1>9. Framed(Incoming)'
  <2> DEFINE r == q \o g
  <2>1. Incoming' = r /\ Framed(r)
    BY <1>7, <1>8
  <2> HIDE DEF r
  <2> QED BY <2>1 DEF Framed
<1>10. Genuine(Incoming)'
  <2>1. ASSUME NEW i \in DOMAIN (q \o g)
        PROVE  (i \in DOMAIN q /\ (q \o g)[i] = q[i]) \/ (\E j \in DOMAIN g : (q \o g)[i] = g[j])
    BY <1>g, <1>6
  <2> DEFINE r == q \o g
  <2>2. \A i \in DOMAIN r : (i \in DOMAIN q /\ r[i] = q[i]) \/ (\E j \in DOMAIN g : r[i] = g[j])
    BY <2>1
  <2> HIDE DEF r
  <2>3. ASSUME NEW i \in DOMAIN r, r[i].msg # 0
        PROVE  /\ r[i].msg \in DOMAIN replies'
               /\ r[i].tag = 35 => r[i].val = replies'[r[i].msg].type
               /\ r[i].tag = 11 => r[i].val = replies'[r[i].msg].id
    <3>1. CASE i \in DOMAIN q /\ r[i] = q[i]
      BY <1>3, <1>6, <2>3, <3>1 DEF Genuine
    <3>2. CASE \E j \in DOMAIN g : r[i] = g[j]
      BY <1>3, <1>g, <3>2
    <3> QED BY <2>2, <3>1, <3>2
  <2>4. Incoming' = r
    BY <1>7 DEF r
  <2> QED BY <2>3, <2>4 DEF Genuine
<1>11. SessionTypes' /\ Collected' /\ Ordered'
  BY <1>1, <1>3, <1>7 DEF IInv, SessionTypes, Collected, Ordered
<1>12. MetricHasOwnReport'
  <2>1. \A m \in Range(replies) : m \in Range(replies')
    <3>1. SUFFICES ASSUME NEW i \in DOMAIN replies PROVE replies[i] \in Range(replies')
      BY DEF Range
    <3>2. i \in DOMAIN replies' /\ replies'[i] = replies[i]
      BY <1>3
    <3> QED BY <3>2 DEF Range
  <2> QED BY <1>1, <2>1 DEF IInv, MetricHasOwnReport
<1> QED BY <1>9, <1>10, <1>11, <1>12 DEF IInv

-----------------------------------------------------------------------------
(* What the client writes                                                  *)

\* sendMsg adds a message to the wire at most, and a logout only with Close.
LEMMA SendMsgStep ==
  ASSUME Written, NEW type \in {"A", "D", "5"}, NEW id \in Nat, sendMsg(type, id)
  PROVE  /\ wire' \in Seq(MsgSet) /\ seqNum' \in Nat /\ Len(wire') >= Len(wire)
         /\ \A i \in DOMAIN wire : i \in DOMAIN wire' /\ wire'[i] = wire[i]
         /\ type # "5" /\ conn = "open" => \A i \in DOMAIN wire' : wire'[i].type # "5"
<1>1. wire \in Seq(MsgSet) /\ seqNum' \in Nat
  BY DEF Written, sendMsg
<1>2. CASE conn # "open"
  BY <1>1, <1>2 DEF sendMsg
<1>3. CASE conn = "open"
  <2> DEFINE m == [type |-> type, seq |-> seqNum', id |-> id]
  <2>1. m \in MsgSet /\ m.type = type /\ wire' = Append(wire, m)
    BY <1>1, <1>3 DEF sendMsg, MsgSet
  <2> HIDE DEF m
  <2>2. \A i \in DOMAIN wire : wire[i].type # "5"
    BY <1>3 DEF Written
  <2>3. /\ wire' \in Seq(MsgSet) /\ Len(wire') = Len(wire) + 1 /\ wire'[Len(wire')] = m
        /\ \A i \in DOMAIN wire : i \in DOMAIN wire' /\ wire'[i] = wire[i]
        /\ \A i \in DOMAIN wire' : i = Len(wire') \/ i \in DOMAIN wire
    BY <1>1, <2>1
  <2> QED BY <1>1, <2>1, <2>2, <2>3
<1> QED BY <1>2, <1>3

\* What every step of the session leaves of the wire.
LEMMA WrittenStep ==
  ASSUME Written, ord \in Nat, [Next]_vars
  PROVE  /\ Written' /\ Len(wire') >= Len(wire)
         /\ \A i \in DOMAIN wire : i \in DOMAIN wire' /\ wire'[i] = wire[i]
<1>0. wire \in Seq(MsgSet) /\ seqNum \in Nat
  BY DEF Written
<1>1. CASE DialFIX
  <2>1. CASE conn = "none"
    BY <1>0, <1>1, <2>1 DEF DialFIX, Written
  <2>2. CASE conn \in {"open", "broken"} /\ sendMsg("A", 0) /\ UNCHANGED conn
    BY <2>2, SendMsgStep DEF Written
  <2>3. CASE conn' = "closed" /\ UNCHANGED wire /\ seqNum' = seqNum + 1
    BY <1>0, <2>3 DEF Written
  <2> QED BY <1>1, <2>1, <2>2, <2>3 DEF DialFIX
<1>2. CASE SendNOS
  <2>1. ord' \in Nat /\ conn # "none" /\ UNCHANGED conn /\ sendMsg("D", ord')
    BY <1>2 DEF SendNOS, Written
  <2>2. \A id \in Nat : sendMsg("D", id) =>
          /\ wire' \in Seq(MsgSet) /\ seqNum' \in Nat /\ Len(wire') >= Len(wire)
          /\ \A i \in DOMAIN wire : i \in DOMAIN wire' /\ wire'[i] = wire[i]
          /\ conn = "open" => \A i \in DOMAIN wire' : wire'[i].type # "5"
    BY SendMsgStep
  <2> QED BY <2>1, <2>2 DEF Written
<1>3. CASE Close
  <2>1. sendMsg("5", 0) /\ conn' = "closed"
    BY <1>3 DEF Close
  <2> QED BY <2>1, SendMsgStep DEF Written
<1>4. CASE CheckContext \/ ReadField \/ ParseMsg \/ Deadline
  <2>1. pc \notin {"dial", "rest"} /\ UNCHANGED <<wire, conn, seqNum>>
    BY <1>4 DEF CheckContext, ReadField, ParseMsg, Deadline
  <2> QED BY <1>0, <2>1 DEF Written
<1>5. CASE AcceptorReplies \/ AcceptorCloses \/ Cancel \/ UNCHANGED vars
  <2>1. UNCHANGED <<wire, seqNum, pc>> /\ (conn' = conn \/ conn' = "broken")
    BY <1>5 DEF AcceptorReplies, AcceptorCloses, Cancel, vars
  <2> QED BY <1>0, <2>1 DEF Written
<1> QED BY <1>1, <1>2, <1>3, <1>4, <1>5 DEF Next, Bot

\* Every step of the bot, its acceptor and the fleet keeps the invariant.
LEMMA NextInv == IInv /\ Written /\ [Next]_vars => IInv' /\ Written'
<1> SUFFICES ASSUME IInv, Written, [Next]_vars PROVE IInv' /\ Written'
  OBVIOUS
<1>0. ord \in Nat
  BY DEF IInv, SessionTypes
<1>1. Written'
  BY <1>0, WrittenStep
<1>2. CASE AcceptorReplies
  <2>1. UNCHANGED <<pc, ord, sb, metrics>>
    BY <1>2 DEF AcceptorReplies
  <2>0. \A type \in {"8", "A"}, id \in Nat : Reply(type, id) => IInv'
    BY <2>1, ReplyStep DEF Types
  <2>2. CASE \E i \in DOMAIN wire : wire[i].type = "D" /\ Reply("8", wire[i].id)
    <3>1. PICK i \in DOMAIN wire : Reply("8", wire[i].id)
      BY <2>2
    <3>2. wire[i] \in MsgSet
      BY DEF Written
    <3>3. wire[i].id \in Nat
      BY <3>2 DEF MsgSet
    <3> QED BY <1>1, <2>0, <3>1, <3>3
  <2>3. CASE Reply("A", 0)
    BY <1>1, <2>0, <2>3
  <2> QED BY <1>2, <2>2, <2>3 DEF AcceptorReplies
<1>3. CASE UNCHANGED vars
  <2>1. UNCHANGED <<stream, sb, replies, metrics>> /\ pc' = pc /\ ord' = ord
    BY <1>3 DEF vars
  <2>2. ord' \in Nat /\ ord' >= ord
    BY <1>0, <2>1
  <2> QED BY <1>1, <2>1, <2>2, QuietStep
<1>4. IInv'
  BY <1>2, <1>3, WriteStep, ReadFieldStep, ParseMsgStep, DeadlineStep DEF Next, Bot
<1> QED BY <1>1, <1>4

\* The inductive invariant of a bot's session with any acceptor.
LEMMA InductiveInv == Spec => [](IInv /\ Written)
<1>1. Init => Written
  BY DEF Init, Written
<1> QED BY <1>1, InitInv, NextInv, PTL DEF Spec

\* A deadline that strikes inside a message or a field never makes readMsg read
\* the MsgType of one message with the ClOrdID of another.
THEOREM MessagesAreNotMixed == Spec => []NoMixedMessage
<1>1. IInv => NoMixedMessage
  BY OneMessage DEF IInv
<1> QED BY <1>1, InductiveInv, PTL

\* SendNOS puts a metric into the channel for an order at most once and only
\* when the acceptor has sent an execution report for this very order.
THEOREM MetricsHaveReports == Spec => []MetricHasOwnReport
<1>1. IInv => MetricHasOwnReport
  BY DEF IInv
<1> QED BY <1>1, InductiveInv, PTL

-----------------------------------------------------------------------------
(* The reference engine                                                    *)

\* Neither engine has read anything at first.
LEMMA SessionInitInv == SessionInit => SInv
<1> SUFFICES ASSUME SessionInit PROVE SInv
  OBVIOUS
<1>1. Written
  BY DEF SessionInit, Init, Written
<1>2. Reading /\ Replied
  BY DEF SessionInit, Init, Reading, Replied, Answered
<1> QED BY <1>1, <1>2 DEF SessionInit, SInv

\* Every step of the session is one FIXClient allows: the reference engine
\* writes a reply only for a message it has read.
LEMMA SessionStep == SInv /\ [SessionNext]_sessionVars => [Next]_vars
<1> SUFFICES ASSUME SInv, [SessionNext]_sessionVars PROVE [Next]_vars
  OBVIOUS
<1>1. CASE Client
  BY <1>1 DEF Client, Next
<1>2. CASE Contestant
  BY <1>2 DEF Contestant, Next
<1>3. CASE Listen \/ Accept \/ ReadMsg
  BY <1>3 DEF Listen, Accept, ReadMsg
<1>4. CASE StopListening
  BY <1>4 DEF StopListening, Next, vars
<1>5. CASE ReadError \/ EngineExit
  BY <1>5 DEF ReadError, EngineExit, End, Next
<1>6. CASE sendFIXMsg
  <2>1. CASE UNCHANGED vars
    BY <2>1
  <2>2. CASE conn = "open" /\ Reply(answer.type, answer.id) /\ UNCHANGED <<ctx, pc, conn, seqNum, ord, wire, sb, rejected, metrics>>
    <3>1. engine = "reference" /\ acc = "write"
      BY <1>6 DEF sendFIXMsg, SInv
    <3>2. got \in Nat /\ got >= 1 /\ got <= Len(wire) /\ answer = Answer(wire[got]) /\ wire \in Seq(MsgSet)
      BY <3>1 DEF SInv, Reading, Written
    <3>3. got \in DOMAIN wire
      BY <3>2
    <3>4. wire[got] \in MsgSet /\ wire[got].type # "5" /\ wire # <<>>
      BY <2>2, <3>2, <3>3 DEF SInv, Written
    <3>5. CASE wire[got].type = "D"
      <4>1. answer.type = "8" /\ answer.id = wire[got].id
        BY <3>2, <3>5 DEF Answer
      <4>2. Reply("8", wire[got].id)
        BY <2>2, <4>1
      <4> QED BY <2>2, <3>3, <3>5, <4>2 DEF AcceptorReplies, Next
    <3>6. CASE wire[got].type = "A"
      <4>1. answer.type = "A" /\ answer.id = 0
        BY <3>2, <3>6 DEF Answer
      <4>2. Reply("A", 0)
        BY <2>2, <4>1
      <4> QED BY <2>2, <3>4, <4>2 DEF AcceptorReplies, Next
    <3> QED BY <3>4, <3>5, <3>6 DEF MsgSet
  <2> QED BY <1>6, <2>1, <2>2 DEF sendFIXMsg
<1>7. CASE UNCHANGED sessionVars
  BY <1>7 DEF sessionVars, vars
<1> QED BY <1>1, <1>2, <1>3, <1>4, <1>5, <1>6, <1>7 DEF SessionNext, handleFIXConn

\* What was read and answered stays so when the client writes more.
LEMMA WireGrows ==
  ASSUME Reading, Replied, wire \in Seq(MsgSet), wire' \in Seq(MsgSet), Len(wire') >= Len(wire),
         \A i \in DOMAIN wire : i \in DOMAIN wire' /\ wire'[i] = wire[i],
         replies \in Seq(ReplySet), UNCHANGED <<replies, got>>
  PROVE  /\ got' \in Nat /\ got' <= Len(wire')
         /\ got >= 1 => Answer(wire[got])' = Answer(wire[got])
         /\ \A k \in DOMAIN replies' : replies'[k] = Answer(wire'[k])
<1>1. got \in Nat /\ got <= Len(wire) /\ Len(wire) \in Nat /\ DOMAIN wire = 1..Len(wire) /\ Len(wire') \in Nat
  BY DEF Reading
<1>2. got >= 1 => got \in DOMAIN wire
  BY <1>1
<1>3. Answered <= got
  BY <1>1 DEF Answered
<1>4. Len(replies) \in Nat /\ DOMAIN replies = 1..Len(replies) /\ Len(replies) <= Answered
  BY DEF Replied
<1>5. Answered \in Int
  BY <1>1 DEF Answered
<1>6. \A k \in DOMAIN replies : k \in DOMAIN wire
  BY <1>1, <1>3, <1>4, <1>5
<1>7. got >= 1 => Answer(wire[got])' = Answer(wire[got])
  BY <1>2 DEF Answer
<1>8. \A k \in DOMAIN replies' : replies'[k] = Answer(wire'[k])
  BY <1>6 DEF Replied, Answer
<1> QED BY <1>1, <1>7, <1>8

\* The client's steps: it closes the connection or opens it, and the latter
\* only with a listener.
LEMMA ClientStep ==
  ASSUME SInv, replies \in Seq(ReplySet), ord \in Nat, Client
  PROVE  SInv'
<1>1. /\ Written /\ Written' /\ Len(wire') >= Len(wire)
      /\ \A i \in DOMAIN wire : i \in DOMAIN wire' /\ wire'[i] = wire[i]
  BY WrittenStep DEF Client, Next, SInv
<1>2. UNCHANGED <<engine, listener, got, accSeq, answer>> /\ engine \in {"reference", "contestant"}
  BY DEF Client, SInv
<1>3. /\ UNCHANGED replies
      /\ conn' = conn \/ (conn = "none" /\ conn' = "open") \/ (conn # "none" /\ conn' = "closed")
  BY DEF Client, Bot, DialFIX, Close, CheckContext, ReadField, ParseMsg, Deadline, SendNOS, Cancel, SInv, Written
<1>4. CASE engine = "contestant"
  BY <1>1, <1>2, <1>4 DEF Client, SInv
<1>5. CASE engine = "reference"
  <2>0. Reading /\ Replied /\ wire \in Seq(MsgSet) /\ wire' \in Seq(MsgSet)
    BY <1>1, <1>5 DEF SInv, Written
  <2>1. /\ got' \in Nat /\ got' <= Len(wire')
        /\ got >= 1 => Answer(wire[got])' = Answer(wire[got])
        /\ \A k \in DOMAIN replies' : replies'[k] = Answer(wire'[k])
    BY <1>1, <1>2, <1>3, <2>0, WireGrows
  <2>2. CASE conn = "none" /\ conn' = "open"
    <3>1. acc = "none" /\ got = 0 /\ got' = 0 /\ acc' = "backlog"
      BY <1>2, <1>5, <2>0, <2>2 DEF Reading, Client
    <3>2. Answered = 0 /\ Answered' = 0
      BY <3>1 DEF Answered
    <3>3. Len(replies) = 0
      BY <2>0, <3>2 DEF Replied
    <3>4. Reading'
      BY <2>1, <2>2, <3>1 DEF Reading
    <3>5. Replied'
      BY <1>3, <2>1, <3>2, <3>3 DEF Replied
    <3> QED BY <1>1, <1>2, <1>5, <3>4, <3>5 DEF SInv
  <2>3. CASE ~(conn = "none" /\ conn' = "open")
    <3>1. acc' = acc /\ (conn' = "open" => conn = "open") /\ (conn' = "none" <=> conn = "none")
      BY <1>3, <2>3 DEF Client
    <3>2. Answered' = Answered
      BY <1>2, <3>1 DEF Answered
    <3>3. Reading'
      BY <1>2, <2>0, <2>1, <3>1, <3>2 DEF Reading
    <3>4. Replied'
      BY <1>3, <2>0, <2>1, <3>1, <3>2 DEF Replied
    <3> QED BY <1>1, <1>2, <1>5, <3>3, <3>4 DEF SInv
  <2> QED BY <2>2, <2>3
<1> QED BY <1>2, <1>4, <1>5

\* ReadMsg takes the next message and with it the answer.
LEMMA ReadMsgStep ==
  ASSUME SInv, Written', engine = "reference", ReadMsg
  PROVE  SInv'
<1>1. Reading /\ Replied /\ wire \in Seq(MsgSet)
  BY DEF SInv, Written
<1>2. /\ acc = "read" /\ acc' = "write" /\ got < Len(wire) /\ got' = got + 1 /\ answer' = Answer(wire[got'])
      /\ UNCHANGED <<conn, wire, replies, engine, accSeq>>
  BY DEF ReadMsg, vars
<1>3. got \in Nat /\ Len(wire) \in Nat
  BY <1>1 DEF Reading
<1>4. Answered' = Answered
  BY <1>2, <1>3 DEF Answered
<1>5. Reading'
  BY <1>1, <1>2, <1>3, <1>4 DEF Reading, Answer
<1>6. Replied'
  BY <1>1, <1>2, <1>4 DEF Replied, Answer
<1> QED BY <1>2, <1>5, <1>6 DEF SInv

\* sendFIXMsg writes the answer to the message read last.
LEMMA SendStep ==
  ASSUME SInv, Written', engine = "reference", replies \in Seq(ReplySet), sendFIXMsg
  PROVE  SInv'
<1>1. Reading /\ Replied /\ wire \in Seq(MsgSet)
  BY DEF SInv, Written
<1>2. acc = "write" /\ acc' \in {"read", "ended"} /\ accSeq' = accSeq + 1 /\ UNCHANGED <<engine, got, answer, conn, wire>>
  BY DEF sendFIXMsg, vars
<1>3. /\ got \in Nat /\ got >= 1 /\ got <= Len(wire) /\ Len(wire) \in Nat /\ answer = Answer(wire[got])
      /\ accSeq = got /\ Answered = got - 1 /\ Answered' = got
  BY <1>1, <1>2 DEF Reading, Answered
<1>4. CASE conn = "open" /\ Reply(answer.type, answer.id) /\ acc' = "read"
  <2>1. replies' = Append(replies, [type |-> answer.type, id |-> answer.id]) /\ Len(replies) = got - 1
    BY <1>1, <1>3, <1>4 DEF Reply, Replied
  <2>2. [type |-> answer.type, id |-> answer.id] = Answer(wire[got])
    BY <1>3 DEF Answer
  <2>3. Len(replies') = got /\ \A k \in DOMAIN replies' : replies'[k] = IF k = got THEN Answer(wire[got]) ELSE Answer(wire[k])
    BY <1>1, <1>3, <2>1, <2>2 DEF Replied
  <2>4. Replied'
    BY <1>2, <1>3, <2>3 DEF Replied, Answer
  <2>5. Reading'
    BY <1>1, <1>2, <1>3, <1>4 DEF Reading
  <2> QED BY <1>2, <2>4, <2>5 DEF SInv
<1>5. CASE conn = "closed" /\ UNCHANGED vars
  <2>1. UNCHANGED replies /\ conn' = "closed"
    BY <1>5 DEF vars
  <2>2. Reading'
    BY <1>1, <1>2, <1>3, <1>5, <2>1 DEF Reading
  <2>3. Replied'
    BY <1>1, <1>2, <1>3, <1>5, <2>1 DEF Replied, Answer
  <2> QED BY <1>2, <2>2, <2>3 DEF SInv
<1> QED BY <1>4, <1>5 DEF sendFIXMsg

\* Every step of the session keeps the reference engine's invariant.
LEMMA SessionInvStep ==
  ASSUME SInv, IInv, [SessionNext]_sessionVars
  PROVE  SInv'
<1>0. /\ replies \in Seq(ReplySet) /\ ord \in Nat /\ engine \in {"reference", "contestant"} /\ Written
      /\ engine = "reference" => Reading /\ Replied
      /\ engine = "contestant" => acc = "none"
  BY DEF IInv, SessionTypes, SInv
<1>1. Written'
  BY <1>0, SessionStep, WrittenStep
<1>2. CASE Client
  BY <1>0, <1>2, ClientStep
<1>3. CASE Contestant
  BY <1>1, <1>3 DEF Contestant, acceptor, SInv
<1>4. CASE engine = "contestant" /\ ~Client /\ ~Contestant
  <2>1. UNCHANGED <<acc, engine>>
    BY <1>0, <1>4 DEF SessionNext, Listen, StopListening, Accept, handleFIXConn, ReadMsg, sendFIXMsg, ReadError,
                 EngineExit, sessionVars, acceptor
  <2> QED BY <1>1, <1>4, <2>1 DEF SInv
<1>5. CASE engine = "reference" /\ (ReadMsg \/ sendFIXMsg)
  BY <1>0, <1>1, <1>5, ReadMsgStep, SendStep
<1>6. CASE engine = "reference" /\ (Listen \/ UNCHANGED sessionVars \/ (StopListening /\ acc # "backlog"))
  <2>1. UNCHANGED <<engine, acc, got, accSeq, answer, conn, wire, replies>>
    BY <1>6 DEF Listen, StopListening, sessionVars, acceptor, vars
  <2>2. Answered' = Answered
    BY <2>1 DEF Answered
  <2>3. Reading'
    BY <1>0, <1>6, <2>1, <2>2 DEF Reading, Answer
  <2>4. Replied'
    BY <1>0, <1>6, <2>1, <2>2 DEF Replied, Answer
  <2> QED BY <1>1, <1>6, <2>1, <2>3, <2>4 DEF SInv
<1>7. CASE engine = "reference" /\ Accept
  <2>1. /\ acc = "backlog" /\ acc' = "read" /\ accSeq' = 1 /\ got = 0
        /\ UNCHANGED <<engine, got, answer, conn, wire, replies>>
    BY <1>0, <1>7 DEF Accept, vars, Reading
  <2>2. Answered = 0 /\ Answered' = 0
    BY <2>1 DEF Answered
  <2>3. Reading'
    BY <1>0, <1>7, <2>1, <2>2 DEF Reading
  <2>4. Replied'
    BY <1>0, <1>7, <2>1, <2>2 DEF Replied, Answer
  <2> QED BY <1>1, <1>7, <2>1, <2>3, <2>4 DEF SInv
<1>8. CASE engine = "reference" /\ (ReadError \/ EngineExit \/ (StopListening /\ acc = "backlog"))
  <2>1. /\ acc \in {"backlog", "read", "write"} /\ acc' = "ended" /\ conn' # "open"
        /\ conn' = conn \/ (conn = "open" /\ conn' = "broken")
        /\ UNCHANGED <<engine, got, answer, wire, replies>>
    BY <1>8 DEF ReadError, EngineExit, StopListening, End, AcceptorCloses, vars
  <2>2. got \in Nat /\ Len(replies) \in Nat
    BY <1>0, <1>8 DEF Reading
  <2>3. Answered <= Answered' /\ Answered \in Int /\ Answered' \in Int
    BY <2>1, <2>2 DEF Answered
  <2>4. Reading'
    BY <1>0, <1>8, <2>1 DEF Reading
  <2>5. Replied'
    BY <1>0, <1>8, <2>1, <2>2, <2>3 DEF Replied, Answer
  <2> QED BY <1>1, <1>8, <2>1, <2>4, <2>5 DEF SInv
<1> QED BY <1>0, <1>2, <1>3, <1>4, <1>5, <1>6, <1>7, <1>8 DEF SessionNext, handleFIXConn

\* The inductive invariant of a session with either engine.
LEMMA SessionInductiveInv == SessionSpec => [](IInv /\ SInv)
<1>1. SessionInit => IInv /\ SInv
  BY InitInv, SessionInitInv DEF SessionInit
<1>2. IInv /\ SInv /\ [SessionNext]_sessionVars => IInv' /\ SInv'
  <2>1. SInv => Written
    BY DEF SInv
  <2> QED BY <2>1, SessionStep, NextInv, SessionInvStep
<1> QED BY <1>1, <1>2, PTL DEF SessionSpec

\* The reference engine is one of the acceptors FIXClient allows: it reports
\* only on orders it has read, whatever the client or the listener does.
THEOREM ReferenceEngineImplements == SessionSpec => ImplementsAcceptor
<1>1. SessionInit => Init
  BY DEF SessionInit
<1> QED BY <1>1, SessionStep, SessionInductiveInv, PTL DEF SessionSpec, ImplementsAcceptor, Spec

\* So a bot pointed at the reference engine has its metrics and messages right.
THEOREM SessionKeepsMessages == SessionSpec => []NoMixedMessage /\ []MetricHasOwnReport
<1>1. SessionSpec => Spec
  BY ReferenceEngineImplements DEF ImplementsAcceptor
<1> QED BY <1>1, MessagesAreNotMixed, MetricsHaveReports, PTL

\* handleFIXConn answers every message once, in the order of arrival and with
\* consecutive sequence numbers.
THEOREM AnswersAreInOrder == SessionSpec => []AnswersInOrder
<1>1. SInv => AnswersInOrder
  BY DEF SInv, Reading, Replied, AnswersInOrder
<1> QED BY <1>1, SessionInductiveInv, PTL
=============================================================================
