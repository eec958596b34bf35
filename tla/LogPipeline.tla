----------------------------- MODULE LogPipeline -----------------------------
(***************************************************************************)
(* LogManager: any thread hands events to a bounded channel with try_send; *)
(* one worker thread drains it into a buffer, writes batches to DuckDB in  *)
(* a transaction, drops rows past retention, and on shutdown writes what   *)
(* is left and ends.  DuckDB may refuse any statement (I/O error, or the   *)
(* QueryWatchdog interrupting it): every statement has a failing twin.     *)
(*                                                                         *)
(* Events are distinct and their content is abstracted to the table they   *)
(* go to.  The worker's buffer is a set: the order of rows in a table is   *)
(* not observable.  flush_buffer clears the buffer after retention has     *)
(* run; nothing reads it in between, so it is cleared with the batch's     *)
(* outcome here.                                                           *)
(***************************************************************************)
EXTENDS Naturals, Sequences, FiniteSets, Functions

CONSTANTS
  Access, Proxy, Audit,  \* the events of each table
  OldRows,               \* rows that earlier runs left in the tables
  ChannelCap,            \* config.log.channel_cap
  FlushBatch,            \* config.log.flush_batch
  RetentionEvery,        \* config.log.retention_every, 0 switches it off
  Shutdown               \* LogEvent::Shutdown

Events == Access \cup Proxy \cup Audit
Tables == {"access", "proxy", "audit"}

ASSUME LogAssumption ==
  /\ ChannelCap \in Nat \ {0}
  /\ FlushBatch \in Nat \ {0}
  /\ RetentionEvery \in Nat
  /\ Shutdown \notin Events
  /\ OldRows \cap Events = {}
  /\ IsFiniteSet(Events)

VARIABLES
  chan,        \* the sync_channel
  senders,     \* "live", or "dropped" when every LogManager is gone
  wpc,         \* the worker's place in worker_loop / flush_events
  shutdown,    \* worker_loop's local flag
  ret,         \* where worker_loop goes on after the batch being written;
               \* "checkpoint" for the last one, which is flush_events alone
  buffer,      \* worker_loop's buffer
  appended,    \* rows appended in the open transaction
  txOpen,      \* the connection is inside a transaction
  table,       \* committed rows of the three tables
  flushCount,  \* flush_count
  spc,         \* the place of LogManager::shutdown's caller
  fresh,       \* history: events not logged yet
  dropped,     \* history: events try_send refused
  aged,        \* rows whose timestamp is more than retention_days ago
  failed,      \* history: events of batches that were not written
  expired,     \* history: rows that retention has deleted
  early        \* history: events accepted before the shutdown signal was

db == <<appended, txOpen, table, flushCount, failed, expired>>
worker == <<wpc, shutdown, ret, buffer, db>>
callers == <<fresh, dropped, early>>
vars == <<chan, senders, worker, spc, callers, aged>>

WorkerPlaces ==
  {"recv", "drain", "check", "begin", "access", "proxy", "audit", "commit",
   "rollback", "retention", "after", "checkpoint", "exited"}

\* "live": shutdown not called; "signal" and "join": inside shutdown(), before
\* and after the signal was delivered; "joined": it returns with the worker
\* gone; "left": it returns and leaves the worker running; "gone": the process
\* has ended.
CallerPlaces == {"live", "signal", "join", "joined", "left", "gone"}

\* The type invariant; the channel holds at most ChannelCap messages.
TypeOK ==
  /\ chan \in Seq(Events \cup {Shutdown}) /\ Len(chan) <= ChannelCap
  /\ senders \in {"live", "dropped"}
  /\ wpc \in WorkerPlaces
  /\ shutdown \in BOOLEAN
  /\ ret \in {"drain", "after", "checkpoint"}
  /\ buffer \in SUBSET Events
  /\ appended \in SUBSET Events
  /\ txOpen \in BOOLEAN
  /\ table \in SUBSET (Events \cup OldRows)
  /\ flushCount \in Nat
  /\ spc \in CallerPlaces
  /\ fresh \in SUBSET Events
  /\ dropped \in SUBSET Events
  /\ aged \in SUBSET (Events \cup OldRows)
  /\ failed \in SUBSET Events
  /\ expired \in SUBSET (Events \cup OldRows)
  /\ early \in SUBSET Events

\* LogManager::new: the tables may hold rows of earlier runs.
Init ==
  /\ chan = <<>>
  /\ senders = "live"
  /\ wpc = "recv"
  /\ shutdown = FALSE
  /\ ret = "drain"
  /\ buffer = {}
  /\ appended = {}
  /\ txOpen = FALSE
  /\ table = OldRows
  /\ flushCount = 0
  /\ spc = "live"
  /\ fresh = Events
  /\ dropped = {}
  /\ aged = {}
  /\ failed = {}
  /\ expired = {}
  /\ early = {}

Running == spc # "gone"

-----------------------------------------------------------------------------
(* callers: log_access, log_proxy, log_audit, shutdown *)

\* try_send succeeds: the receiver is there and the channel has room.
LogAccepted(e) ==
  /\ Running /\ senders = "live"
  /\ e \in fresh
  /\ wpc # "exited" /\ Len(chan) < ChannelCap
  /\ chan' = Append(chan, e)
  /\ fresh' = fresh \ {e}
  /\ early' = IF spc \in {"live", "signal", "left"} THEN early \cup {e} ELSE early
  /\ UNCHANGED <<senders, worker, spc, dropped, aged>>

\* try_send fails, Full or Disconnected: the event is dropped with a warning.
LogDropped(e) ==
  /\ Running /\ senders = "live"
  /\ e \in fresh
  /\ wpc = "exited" \/ Len(chan) = ChannelCap
  /\ fresh' = fresh \ {e}
  /\ dropped' = dropped \cup {e}
  /\ UNCHANGED <<chan, senders, worker, spc, early, aged>>

\* main calls log_manager.shutdown() (server done, grace period over, or a
\* second signal); other threads may go on logging.
CallShutdown ==
  /\ spc = "live" /\ senders = "live"
  /\ spc' = "signal"
  /\ UNCHANGED <<chan, senders, worker, callers, aged>>

\* signal_shutdown: try_send(Shutdown) succeeds.
Signal ==
  /\ spc = "signal"
  /\ wpc # "exited" /\ Len(chan) < ChannelCap
  /\ chan' = Append(chan, Shutdown)
  /\ spc' = "join"
  /\ UNCHANGED <<senders, worker, callers, aged>>

\* signal_shutdown: still Full after 5 s of retries.
SignalTimesOut ==
  /\ spc = "signal"
  /\ wpc # "exited" /\ Len(chan) = ChannelCap
  /\ spc' = "left"
  /\ UNCHANGED <<chan, senders, worker, callers, aged>>

\* handle.join() returns.
Join ==
  /\ spc = "join"
  /\ wpc = "exited"
  /\ spc' = "joined"
  /\ UNCHANGED <<chan, senders, worker, callers, aged>>

\* main returns or calls exit(0) after shutdown(); or the process is killed.
ProcessEnds ==
  /\ Running
  /\ spc' = "gone"
  /\ UNCHANGED <<chan, senders, worker, callers, aged>>

\* The last LogManager is dropped without shutdown(): AppState::new failed
\* after LogManager::new.
DropManagers ==
  /\ spc = "live" /\ senders = "live"
  /\ senders' = "dropped"
  /\ UNCHANGED <<chan, worker, spc, callers, aged>>

-----------------------------------------------------------------------------
(* worker_loop *)

WGoto(place) == wpc' = place

\* Take the head of the channel: Shutdown raises the flag, an event is buffered.
Take ==
  /\ chan # <<>>
  /\ chan' = Tail(chan)
  /\ IF Head(chan) = Shutdown
     THEN shutdown' = TRUE /\ buffer' = buffer
     ELSE shutdown' = shutdown /\ buffer' = buffer \cup {Head(chan)}

\* recv_timeout returns a message.
Recv ==
  /\ Running /\ wpc = "recv"
  /\ Take
  /\ WGoto("drain")
  /\ UNCHANGED <<senders, ret, db, spc, callers, aged>>

\* Mutant: only a full batch is flushed, never an interval.
RecvTimeoutWaits ==
  /\ Running /\ wpc = "recv"
  /\ chan = <<>> /\ senders = "live"
  /\ WGoto("drain")
  /\ ret' = "drain"
  /\ UNCHANGED <<chan, senders, shutdown, buffer, db, spc, callers, aged>>

\* recv_timeout returns Timeout: the channel stayed empty for flush_interval.
RecvTimeout ==
  /\ Running /\ wpc = "recv"
  /\ chan = <<>> /\ senders = "live"
  /\ WGoto(IF buffer # {} THEN "begin" ELSE "drain")
  /\ ret' = "drain"
  /\ UNCHANGED <<chan, senders, shutdown, buffer, db, spc, callers, aged>>

\* recv_timeout returns Disconnected: no sender left and nothing queued.
RecvDisconnected ==
  /\ Running /\ wpc = "recv"
  /\ chan = <<>> /\ senders = "dropped"
  /\ WGoto(IF buffer # {} THEN "begin" ELSE "checkpoint")
  /\ ret' = "checkpoint"
  /\ UNCHANGED <<chan, senders, shutdown, buffer, db, spc, callers, aged>>

\* while let Ok(event) = receiver.try_recv()
DrainOne ==
  /\ Running /\ wpc = "drain"
  /\ Take
  /\ UNCHANGED <<senders, wpc, ret, db, spc, callers, aged>>

DrainEnds ==
  /\ Running /\ wpc = "drain"
  /\ chan = <<>>
  /\ WGoto("check")
  /\ UNCHANGED <<chan, senders, shutdown, ret, buffer, db, spc, callers, aged>>

\* buffer.len() >= flush_batch
CheckBatch ==
  /\ Running /\ wpc = "check"
  /\ WGoto(IF Cardinality(buffer) >= FlushBatch THEN "begin" ELSE "after")
  /\ ret' = "after"
  /\ UNCHANGED <<chan, senders, shutdown, buffer, db, spc, callers, aged>>

\* Mutant: a shutdown ends the loop without the final flush_events.
ExitWithoutFlush ==
  /\ Running /\ wpc = "after"
  /\ WGoto(IF shutdown THEN "checkpoint" ELSE "recv")
  /\ UNCHANGED <<chan, senders, shutdown, ret, buffer, db, spc, callers, aged>>

\* if shutdown { final flush_events unless the buffer is empty }, or loop.
LoopOrExit ==
  /\ Running /\ wpc = "after"
  /\ WGoto(IF ~shutdown THEN "recv" ELSE IF buffer # {} THEN "begin" ELSE "checkpoint")
  /\ ret' = IF shutdown THEN "checkpoint" ELSE ret
  /\ UNCHANGED <<chan, senders, shutdown, buffer, db, spc, callers, aged>>

\* CHECKPOINT (its failure is ignored), watchdog.stop(), and the thread ends,
\* which drops the receiver.
Exit ==
  /\ Running /\ wpc = "checkpoint"
  /\ WGoto("exited")
  /\ UNCHANGED <<chan, senders, shutdown, ret, buffer, db, spc, callers, aged>>

-----------------------------------------------------------------------------
(* flush_buffer and flush_events *)

\* BEGIN TRANSACTION; inside a transaction it can only fail.
Begin ==
  /\ Running /\ wpc = "begin"
  /\ ~txOpen
  /\ txOpen' = TRUE
  /\ appended' = {}
  /\ WGoto("access")
  /\ UNCHANGED <<chan, senders, shutdown, ret, buffer, table, flushCount, failed,
                 expired, spc, callers, aged>>

\* Mutant: a failed batch is reported as dropped and kept for a retry.
KeepBatch ==
  /\ failed' = failed \cup buffer
  /\ buffer' = buffer
  /\ WGoto(ret)

\* A batch that was not written: warned about and dropped.
GiveUpBatch ==
  /\ failed' = failed \cup buffer
  /\ buffer' = {}
  /\ WGoto(ret)

BeginFails ==
  /\ Running /\ wpc = "begin"
  /\ GiveUpBatch
  /\ UNCHANGED <<chan, senders, shutdown, ret, appended, txOpen, table, flushCount,
                 expired, spc, callers, aged>>

\* The next step after an append: the tables are written in this order.
AppendTo(place, rows, next) ==
  /\ Running /\ wpc = place
  /\ appended' = appended \cup (buffer \cap rows)
  /\ WGoto(next)
  /\ UNCHANGED <<chan, senders, shutdown, ret, buffer, txOpen, table, flushCount, failed,
                 expired, spc, callers, aged>>

\* Mutant: an append error is logged and the batch goes on.
AppendFailsUnnoticed ==
  /\ Running /\ wpc \in Tables
  /\ WGoto(CASE wpc = "access" -> "proxy" [] wpc = "proxy" -> "audit" [] OTHER -> "commit")
  /\ UNCHANGED <<chan, senders, shutdown, ret, buffer, db, spc, callers, aged>>

\* append_accesses, append_proxies or append_audits fails part-way.
AppendFails ==
  /\ Running /\ wpc \in Tables
  /\ \E part \in SUBSET buffer : appended' = appended \cup part
  /\ WGoto("rollback")
  /\ UNCHANGED <<chan, senders, shutdown, ret, buffer, txOpen, table, flushCount, failed,
                 expired, spc, callers, aged>>

Flushed == flushCount' = IF ret = "checkpoint" THEN flushCount ELSE flushCount + 1

\* COMMIT.  flush_buffer then counts the flush and every RetentionEvery-th time
\* checkpoints and deletes; the last batch is flush_events alone.
Commit ==
  /\ Running /\ wpc = "commit"
  /\ txOpen' = FALSE
  /\ table' = table \cup appended
  /\ appended' = {}
  /\ buffer' = {}
  /\ Flushed
  /\ WGoto(IF ret # "checkpoint" /\ RetentionEvery > 0 /\ flushCount' % RetentionEvery = 0
           THEN "retention" ELSE ret)
  /\ UNCHANGED <<chan, senders, shutdown, ret, failed, expired, spc, callers, aged>>

\* COMMIT fails and flush_events returns without a ROLLBACK: DuckDB has ended the
\* transaction, or an interrupt left the connection inside it (external).
CommitFails ==
  /\ Running /\ wpc = "commit"
  /\ \/ txOpen' = FALSE /\ appended' = {}
     \/ UNCHANGED <<txOpen, appended>>
  /\ GiveUpBatch
  /\ UNCHANGED <<chan, senders, shutdown, ret, table, flushCount, expired, spc, callers,
                 aged>>

\* ROLLBACK; when it fails the connection may be left inside the transaction.
Rollback ==
  /\ Running /\ wpc = "rollback"
  /\ \/ txOpen' = FALSE /\ appended' = {}
     \/ UNCHANGED <<txOpen, appended>>
  /\ GiveUpBatch
  /\ UNCHANGED <<chan, senders, shutdown, ret, table, flushCount, expired, spc, callers,
                 aged>>

\* Time passes: a stored row, of an earlier run or of this one, falls behind
\* cleanup_expired's cutoff, now - retention_days.  An event's age matters only
\* once it is stored.
Ages(r) ==
  /\ Running
  /\ r \in table \ aged
  /\ aged' = aged \cup {r}
  /\ UNCHANGED <<chan, senders, worker, spc, callers>>

\* Delete rows and go on.
Delete(rows) ==
  /\ table' = table \ rows
  /\ expired' = expired \cup rows
  /\ WGoto(ret)
  /\ UNCHANGED <<chan, senders, shutdown, ret, buffer, appended, txOpen, flushCount, failed,
                 spc, callers, aged>>

\* Mutant: retention deletes without comparing timestamps.
RetentionDeletesAll ==
  /\ Running /\ wpc = "retention"
  /\ \E gone \in SUBSET table : Delete(gone)

\* CHECKPOINT, then cleanup_expired: each table's DELETE may fail by itself, so
\* any part of the rows behind the cutoff may go.
Retention ==
  /\ Running /\ wpc = "retention"
  /\ \E gone \in SUBSET (table \cap aged) : Delete(gone)

-----------------------------------------------------------------------------
WorkerStep ==
  \/ Recv \/ RecvTimeout \/ RecvDisconnected \/ DrainOne \/ DrainEnds
  \/ CheckBatch \/ LoopOrExit \/ Exit
  \/ Begin \/ BeginFails
  \/ AppendTo("access", Access, "proxy")
  \/ AppendTo("proxy", Proxy, "audit")
  \/ AppendTo("audit", Audit, "commit")
  \/ AppendFails \/ Commit \/ CommitFails \/ Rollback \/ Retention

ShutdownStep == Signal \/ SignalTimesOut \/ Join

Next ==
  \/ \E e \in Events : LogAccepted(e) \/ LogDropped(e)
  \/ CallShutdown \/ ShutdownStep \/ ProcessEnds \/ DropManagers
  \/ \E r \in Events \cup OldRows : Ages(r)
  \/ WorkerStep

Spec == Init /\ [][Next]_vars

\* The worker is a thread of its own and every statement it issues returns (or
\* is interrupted); shutdown()'s caller is a running thread.  Nothing obliges
\* anybody to log, to shut down or to end the process.
FairSpec == Spec /\ WF_vars(WorkerStep) /\ WF_vars(ShutdownStep)

-----------------------------------------------------------------------------
(* properties *)

Queued == Range(chan) \ {Shutdown}

\* Every event handed to log_access, log_proxy or log_audit is in exactly one
\* place: not yet sent, queued, buffered, stored, counted as lost by a refused
\* send or a failed batch, or stored and later deleted because it had aged past
\* retention.  None is written twice, and none is deleted young.
EachEventOnce ==
  /\ Events \subseteq fresh \cup Queued \cup buffer \cup dropped \cup failed \cup table
                     \cup expired
  /\ fresh \cap (Queued \cup buffer \cup dropped \cup failed \cup table \cup expired) = {}
  /\ Queued \cap (buffer \cup dropped \cup failed \cup table \cup expired) = {}
  /\ buffer \cap (dropped \cup failed \cup table \cup expired) = {}
  /\ dropped \cap (failed \cup table \cup expired) = {}
  /\ failed \cap (table \cup expired) = {}
  /\ table \cap expired = {}
  /\ expired \subseteq aged

\* When shutdown() has joined the worker, every event accepted before the
\* signal was has reached the tables, where it is unless retention has deleted
\* it since, or its batch failed: none is left in the channel or in the buffer.
ShutdownFlushes ==
  spc = "joined" => early \subseteq table \cup failed \cup expired

\* A batch is written whole or not at all, whichever statement fails: the buffer
\* is let go of in one step, stored with nothing lost or given up with no row
\* left, and rows and losses come from nowhere else.
WholeBatches ==
  [][LET stores == table' = table \cup buffer /\ failed' = failed
         givesUp == table' = table /\ failed' = failed \cup buffer
     IN /\ ~(buffer \subseteq buffer') => stores \/ givesUp
        /\ ~(table' \subseteq table) => stores
        /\ failed' # failed => givesUp]_vars

\* An event the worker has taken is written or given up in the end: by a full
\* batch, an idle flush interval or the shutdown, provided the process goes on.
BufferedIsResolved ==
  \A e \in Events :
    e \in buffer ~> (e \in table \cup failed \/ spc = "gone")

\* The pipeline implements the abstract event log.
Log == INSTANCE EventLog WITH
         held <- Queued \cup buffer, stored <- table, lost <- dropped \cup failed,
         closed <- spc = "gone"

ImplementsEventLog == Log!LogSpec
=============================================================================
