------------------------------- MODULE Store -------------------------------
(***************************************************************************)
(* The telemetry service's database writer                                 *)
(* (telemetry/internal/store/store.go) with the main function that opens   *)
(* it (telemetry/cmd/main.go) and the two readers that fill it: a bounded  *)
(* channel in front of one worker, a store that may be nil, a connection   *)
(* that is retried with a growing pause, and an exit that closes nothing   *)
(* (main leaves by os.Exit, so the deferred Close is never reached).       *)
(*                                                                         *)
(* A row is its table, the reader that wrote it and a number; columns are  *)
(* left out.                                                               *)
(***************************************************************************)
EXTENDS Naturals, Sequences, FiniteSets

CONSTANTS
  Cap,           \* capacity of the channel (8192 in the code)
  FirstBackoff,  \* the first pause between attempts, in seconds (2)
  MaxBackoff,    \* the pause that is not doubled any more (16)
  Deadline,      \* seconds after which a failed attempt is the last (90)
  Attempts,      \* seconds an attempt to connect may take
  MaxCalls       \* bound: metrics and samples the readers handle

ASSUME StoreAssumption ==
  /\ Cap \in Nat \ {0} /\ MaxCalls \in Nat
  /\ FirstBackoff \in Nat \ {0} /\ MaxBackoff \in Nat /\ Deadline \in Nat
  /\ Attempts \subseteq Nat /\ Attempts # {} /\ IsFiniteSet(Attempts)

\* Doubling the first pause three times at the most yields the last one.
ASSUME DoublingAssumption == \E n \in {1, 2, 4, 8} : MaxBackoff = n * FirstBackoff

Writers == {"metrics", "ebpf"}
NoRow == <<>>

VARIABLES
  main,      \* main: "connect", "pause", "run" or "exit"
  elapsed,   \* seconds connectStore has taken
  backoff,   \* connectStore's pause
  signalled, \* the signal context is cancelled
  store,     \* the *Store: "nil" or "open"
  ch,        \* its channel
  inHand,    \* the row the worker is inserting
  pending,   \* rows the current call of each reader has still to write
  calls,     \* calls each reader has begun
  db,        \* the tables, rows in the order of insertion
  accepted,  \* observed: rows that entered the channel, in order
  failed     \* observed: rows whose insertion reported an error

mainVars == <<main, elapsed, backoff, signalled, store>>
workerVars == <<inHand, db, failed>>
storeVars == <<mainVars, workerVars, ch, pending, calls, accepted>>

-----------------------------------------------------------------------------
(* connectStore and main                                                   *)

\* connectStore returns, and with it go its deadline and its pause.
Connected == main' = "run" /\ elapsed' = 0 /\ backoff' = FirstBackoff

\* store.New: the ping answers ...
Connect ==
  /\ main = "connect"
  /\ ~signalled
  /\ store' = "open"
  /\ Connected
  /\ UNCHANGED <<signalled, workerVars, ch, pending, calls, accepted>>

\* ... or fails, the pool is closed, and connectStore gives up or pauses.
ConnectFails(d) ==
  /\ main = "connect"
  /\ \/ elapsed + d > Deadline /\ Connected
     \/ elapsed + d <= Deadline /\ main' = "pause" /\ elapsed' = elapsed + d /\ UNCHANGED backoff
  /\ UNCHANGED <<signalled, store, workerVars, ch, pending, calls, accepted>>

\* Mutant: the pause is doubled without a limit.
Pause_Unbounded ==
  /\ main = "pause"
  /\ elapsed' = elapsed + backoff
  /\ backoff' = 2 * backoff
  /\ main' = "connect"
  /\ UNCHANGED <<signalled, store, workerVars, ch, pending, calls, accepted>>

Pause ==
  /\ main = "pause"
  /\ elapsed' = elapsed + backoff
  /\ backoff' = IF backoff < MaxBackoff THEN 2 * backoff ELSE backoff
  /\ main' = "connect"
  /\ UNCHANGED <<signalled, store, workerVars, ch, pending, calls, accepted>>

\* A signal during the pause: no store, and Run returns at once.
PauseCancelled ==
  /\ main = "pause"
  /\ signalled
  /\ Connected
  /\ UNCHANGED <<signalled, store, workerVars, ch, pending, calls, accepted>>

Signal ==
  /\ ~signalled
  /\ signalled' = TRUE
  /\ UNCHANGED <<main, elapsed, backoff, store, workerVars, ch, pending, calls, accepted>>

\* Run returns and os.Exit ends every goroutine where it is.
ExitProcess ==
  /\ main = "run"
  /\ signalled
  /\ main' = "exit"
  /\ UNCHANGED <<elapsed, backoff, signalled, store, workerVars, ch, pending, calls, accepted>>

-----------------------------------------------------------------------------
(* The readers.  A metric is a raw row and the score that is published     *)
(* after it; a kernel sample has a row of its own before these.            *)

Row(kind, w) == <<kind, w, calls'[w]>>

HandleRows(w) ==
  /\ main = "run"
  /\ pending[w] = <<>>
  /\ calls["metrics"] + calls["ebpf"] < MaxCalls
  /\ calls' = [calls EXCEPT ![w] = @ + 1]
  /\ pending' = [pending EXCEPT ![w] =
       IF w = "ebpf" THEN <<Row("kernel", w), Row("raw", w), Row("score", w)>>
                     ELSE <<Row("raw", w), Row("score", w)>>]
  /\ UNCHANGED <<mainVars, workerVars, ch, accepted>>

\* WriteRawMetric, WriteCompositeScore, WriteKernelLatency: nothing on a nil
\* store, a send if there is room, else the row is dropped.
Write(w) ==
  /\ main = "run"
  /\ pending[w] # <<>>
  /\ pending' = [pending EXCEPT ![w] = Tail(@)]
  /\ IF store = "open" /\ Len(ch) < Cap
       THEN /\ ch' = Append(ch, Head(pending[w]))
            /\ accepted' = Append(accepted, Head(pending[w]))
       ELSE UNCHANGED <<ch, accepted>>
  /\ UNCHANGED <<mainVars, workerVars, calls>>

-----------------------------------------------------------------------------
(* The worker and the database                                             *)

Receive ==
  /\ main = "run" /\ store = "open"
  /\ inHand = NoRow
  /\ ch # <<>>
  /\ inHand' = Head(ch)
  /\ ch' = Tail(ch)
  /\ UNCHANGED <<mainVars, db, failed, pending, calls, accepted>>

\* Mutant: a failed row goes back to the channel, if there is room.
Insert_Requeue ==
  /\ main = "run"
  /\ inHand # NoRow
  /\ \/ db' = Append(db, inHand) /\ UNCHANGED <<failed, ch>>
     \/ /\ db' \in {db, Append(db, inHand)}
        /\ failed' = failed \cup {inHand}
        /\ ch' = IF Len(ch) < Cap THEN Append(ch, inHand) ELSE ch
  /\ inHand' = NoRow
  /\ UNCHANGED <<mainVars, pending, calls, accepted>>

\* insertRawMetric, insertCompositeScore, insertKernelLatency: an error is
\* logged, whether or not the statement took effect before the connection broke.
Insert ==
  /\ main = "run"
  /\ inHand # NoRow
  /\ \/ db' = Append(db, inHand) /\ UNCHANGED failed
     \/ /\ db' \in {db, Append(db, inHand)}
        /\ failed' = failed \cup {inHand}
  /\ inHand' = NoRow
  /\ UNCHANGED <<mainVars, ch, pending, calls, accepted>>

-----------------------------------------------------------------------------

StoreInit ==
  /\ main = "connect" /\ elapsed = 0 /\ backoff = FirstBackoff /\ signalled = FALSE /\ store = "nil"
  /\ ch = <<>> /\ inHand = NoRow
  /\ pending = [w \in Writers |-> <<>>] /\ calls = [w \in Writers |-> 0]
  /\ db = <<>> /\ accepted = <<>> /\ failed = {}

StoreNext ==
  \/ Connect \/ \E d \in Attempts : ConnectFails(d)
  \/ Pause \/ PauseCancelled \/ Signal \/ ExitProcess
  \/ \E w \in Writers : HandleRows(w) \/ Write(w)
  \/ Receive \/ Insert

StoreSpec == StoreInit /\ [][StoreNext]_storeVars

-----------------------------------------------------------------------------
(* Properties                                                              *)

\* The places of the rows that have left the channel and the worker's hands.
Settled == 1 .. (Len(accepted) - Len(ch) - (IF inHand = NoRow THEN 0 ELSE 1))

\* The tables have the rows that entered the channel in the order they
\* entered it, none twice, and all but the ones on their way and the ones
\* whose insertion failed: an error, a full channel or the second reader
\* neither repeats, reorders nor loses a row of the queue.
TablesFollowQueue ==
  /\ \A p, q \in DOMAIN accepted : accepted[p] = accepted[q] => p = q
  /\ \A i \in DOMAIN db : \E p \in Settled : db[i] = accepted[p]
  /\ \A i, j \in DOMAIN db : i < j =>
       \E p, q \in Settled : p < q /\ db[i] = accepted[p] /\ db[j] = accepted[q]
  /\ \A p \in Settled : accepted[p] \in failed \/ \E i \in DOMAIN db : db[i] = accepted[p]

\* No attempt to connect begins later than one pause after the deadline: the
\* service starts scoring with or without a database.
ConnectIsBounded == main = "connect" => elapsed <= Deadline + MaxBackoff

=============================================================================
