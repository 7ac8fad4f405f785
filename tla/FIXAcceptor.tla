---------------------------- MODULE FIXAcceptor ----------------------------
(***************************************************************************)
(* The FIX 4.4 acceptor of the reference engine (dummy-engine/main.go) at  *)
(* the other end of a bot's session: the accept loop and one goroutine per *)
(* connection that answers every message it reads.  FIXClient leaves the   *)
(* acceptor to the contestant, who may answer late, twice or not at all;   *)
(* here the bot is pointed either at such an engine or at the reference    *)
(* engine, and the latter is shown to be one of those FIXClient allows.    *)
(*                                                                         *)
(* Execution reports are drawn at random without the order book: whether   *)
(* an order fills is left out.                                             *)
(***************************************************************************)
EXTENDS FIXClient

VARIABLES
  engine,    \* the engine the bot is pointed at: "reference" or "contestant"
  listener,  \* the reference engine's listener
  acc,       \* handleFIXConn's goroutine for the bot's connection
  got,       \* messages it has read
  accSeq,    \* its seqNum
  answer     \* the answer it is about to write

acceptor == <<engine, listener, acc, got, accSeq, answer>>
sessionVars == <<vars, acceptor>>

None == [type |-> "", id |-> 0]

-----------------------------------------------------------------------------
(* startFIXAcceptor.                                                       *)

\* net.Listen; if it fails the engine runs without FIX.
Listen ==
  /\ engine = "reference" /\ listener = "starting"
  /\ listener' \in {"on", "off"}
  /\ UNCHANGED <<vars, engine, acc, got, accSeq, answer>>

\* A connection the listener has not accepted is reset with it.
StopListening ==
  /\ listener = "on"
  /\ listener' = "off"
  /\ IF acc = "backlog"
     THEN AcceptorCloses /\ acc' = "ended"
     ELSE UNCHANGED <<vars, acc>>
  /\ UNCHANGED <<engine, got, accSeq, answer>>

\* ln.Accept and go handleFIXConn.
Accept ==
  /\ acc = "backlog" /\ listener = "on"
  /\ acc' = "read"
  /\ accSeq' = 1
  /\ UNCHANGED <<vars, engine, listener, got, answer>>

-----------------------------------------------------------------------------
(* handleFIXConn.                                                          *)

\* The deferred conn.Close.
End ==
  /\ acc' = "ended"
  /\ IF conn = "open" THEN AcceptorCloses ELSE UNCHANGED vars

\* Mutant: a report names the order by the engine's own number.
Answer_OwnOrderID(m) ==
  IF m.type = "D" THEN [type |-> "8", id |-> m.seq] ELSE [type |-> m.type, id |-> 0]

\* The switch on the message type: an order gets its report (handleFIXNOS),
\* logon, heartbeat and logout get a message of their own type.
Answer(m) ==
  IF m.type = "D" THEN [type |-> "8", id |-> m.id] ELSE [type |-> m.type, id |-> 0]

\* Mutant: every message is read through a new buffer, and what the last one
\* had read ahead is lost.
ReadMsg_NewReader ==
  /\ acc = "read" /\ conn # "broken"
  /\ got < Len(wire)
  /\ got' = Len(wire)
  /\ answer' = Answer(wire[got + 1])
  /\ acc' = "write"
  /\ UNCHANGED <<vars, engine, listener, accSeq>>

\* readFIXMsg and parseFIXTags: the next message of the connection, also when
\* the client has closed it meanwhile.
ReadMsg ==
  /\ acc = "read" /\ conn # "broken"
  /\ got < Len(wire)
  /\ got' = got + 1
  /\ answer' = Answer(wire[got'])
  /\ acc' = "write"
  /\ UNCHANGED <<vars, engine, listener, accSeq>>

\* Mutant: the write has no deadline and waits for a client that is gone.
sendFIXMsg_NoDeadline ==
  /\ acc = "write" /\ conn = "open"
  /\ accSeq' = accSeq + 1
  /\ Reply(answer.type, answer.id)
  /\ acc' = "read"
  /\ UNCHANGED <<ctx, pc, conn, seqNum, ord, wire, sb, rejected, metrics, engine, listener, got, answer>>

\* sendFIXMsg: the number is taken, and an error of the write, at the latest
\* after five seconds, is ignored.  A logout ends the connection.
sendFIXMsg ==
  /\ acc = "write"
  /\ accSeq' = accSeq + 1
  /\ \/ /\ conn = "open"
        /\ Reply(answer.type, answer.id)
        /\ acc' = "read"
        /\ UNCHANGED <<ctx, pc, conn, seqNum, ord, wire, sb, rejected, metrics>>
     \/ /\ conn = "closed"
        /\ acc' = IF answer.type = "5" THEN "ended" ELSE "read"
        /\ UNCHANGED vars
  /\ UNCHANGED <<engine, listener, got, answer>>

\* The client closed the connection, which may also reset it before all is
\* read, or sent nothing for sixty seconds.
ReadError ==
  /\ acc = "read"
  /\ conn = "closed" \/ got = Len(wire)
  /\ End
  /\ UNCHANGED <<engine, listener, got, accSeq, answer>>

\* main returns: the process and its connections end.
EngineExit ==
  /\ engine = "reference" /\ listener = "off"
  /\ acc \in {"read", "write"}
  /\ End
  /\ UNCHANGED <<engine, listener, got, accSeq, answer>>

handleFIXConn == ReadMsg \/ sendFIXMsg \/ ReadError
-----------------------------------------------------------------------------
(* The session.                                                            *)

\* The bot's steps; a dial of the reference engine needs its listener.
Client ==
  /\ Bot \/ SendNOS \/ Cancel
  /\ IF engine = "reference" /\ conn = "none" /\ conn' = "open"
     THEN listener = "on" /\ acc' = "backlog"
     ELSE UNCHANGED acc
  /\ UNCHANGED <<engine, listener, got, accSeq, answer>>

Contestant ==
  /\ engine = "contestant"
  /\ AcceptorReplies \/ AcceptorCloses
  /\ UNCHANGED acceptor

SessionInit ==
  /\ Init
  /\ engine \in {"reference", "contestant"}
  /\ listener = "starting" /\ acc = "none" /\ got = 0 /\ accSeq = 0 /\ answer = None

SessionNext ==
  Client \/ Contestant \/ Listen \/ StopListening \/ Accept \/ handleFIXConn \/ EngineExit

SessionSpec == SessionInit /\ [][SessionNext]_sessionVars

\* As in FIXClient, and the reference engine's goroutines run: a blocked read
\* ends with its deadline, a connection in the backlog is accepted, and what
\* the bot writes is read.
SessionFairSpec ==
  /\ SessionSpec
  /\ WF_sessionVars(Bot /\ Client /\ (engine = "reference" \/ ~Writes)) /\ WF_sessionVars(Cancel /\ Client)
  /\ WF_sessionVars(Listen) /\ WF_sessionVars(Accept) /\ WF_sessionVars(handleFIXConn)

-----------------------------------------------------------------------------
(* Properties.                                                             *)

\* The reference engine is one of the acceptors FIXClient is checked against:
\* it reports only on orders it received, whatever the client or the listener
\* does in between (dummy-engine/main.go:222-309).
ImplementsAcceptor == Spec

\* A FIX bot ends, also when its acceptor never answers (fix_client.go:114).
\* Only a contestant who holds the connection open and no longer reads can keep
\* it, in a write (fix_client.go:153).
BotEnds ==
  \/ <>(pc \in {"closed", "rest"})
  \/ <>[](engine = "contestant" /\ Writes)

\* Messages whose answer is written.
Answered == IF acc = "write" THEN got - 1 ELSE got

\* The reference engine answers each message once, in the order of arrival and
\* with consecutive numbers, however many reads of the client timed out
\* (dummy-engine/main.go:227-257, 311-330).
AnswersInOrder ==
  engine = "reference" /\ acc # "none" =>
    /\ \A k \in DOMAIN replies : replies[k] = Answer(wire[k])
    /\ conn = "open" => Len(replies) = Answered
    /\ acc \in {"read", "write"} => accSeq = Answered + 1

\* No goroutine of the acceptor outlives its client, also when the client
\* closes while an answer is being written (dummy-engine/main.go:223-231, 328).
ConnectionEnds == (acc = "backlog") ~> (acc = "ended")
=============================================================================
