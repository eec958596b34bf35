--------------------------- MODULE ProcessShutdown ---------------------------
(***************************************************************************)
(* How the process stops: main() with its signals and graceful timeout,    *)
(* the requests still running, and LogManager::shutdown, which stops the   *)
(* log worker, then the Loki worker, then the analytics workers.           *)
(*                                                                         *)
(* A request hands over one record when it ends, to the Loki channel and   *)
(* then to the log channel.  The log worker appears as LogPipeline shows   *)
(* it from outside, with batches that succeed; the Loki worker is modelled *)
(* here, and AnalyticsPool shows that Analytics::shutdown returns.         *)
(***************************************************************************)
EXTENDS Naturals, Sequences, FiniteSets

CONSTANTS
  Requests,    \* the requests, and their records
  LogCap,      \* config.log.channel_cap
  LokiCap,     \* LOKI_CHANNEL_CAP
  LokiBatch,   \* config.log.loki.batch_size
  MaxSignals,  \* bound: SIGTERM and SIGINT the process gets
  Shutdown     \* LogEvent::Shutdown

ASSUME ShutdownAssumption ==
  /\ Shutdown \notin Requests /\ IsFiniteSet(Requests)
  /\ LogCap \in Nat \ {0} /\ LokiCap \in Nat \ {0} /\ LokiBatch \in Nat \ {0}
  /\ MaxSignals \in Nat \ {0}

VARIABLES
  main,        \* main()'s place, see MainPlaces
  forced,      \* shutdown() was called by shutdown_watcher
  signals,     \* signals received
  req,         \* "none", "running", "logging" (Loki has its copy), "ended"
  logChan, logBuf, stored,  \* the log channel, the worker's buffer, the table
  logPc,       \* "loop", "leaving" (has the signal), "last" (final flush), "gone"
  lokiChan, lokiBuf,        \* the Loki channel and the worker's buffer
  sending,     \* the batch being pushed
  lokiShut,    \* loki_worker's flag
  lokiPc,      \* "off" (no sink), "recv", "drain", "push" or "gone"
  lokiRet,     \* where the push returns to
  pushed,      \* history: records of pushes that succeeded
  unpushed,    \* history: records of pushes that failed
  refused,     \* history: records the log channel refused
  logEarly,    \* history: records the log channel took before shutdown() began
  lokiEarly,   \* history: records the Loki channel took before its signal
  delivered    \* history: the workers whose Shutdown was delivered

logVars   == <<logChan, logBuf, stored, logPc>>
lokiVars  == <<lokiChan, lokiBuf, sending, lokiShut, lokiPc, lokiRet, pushed, unpushed>>
mainVars  == <<main, forced, signals>>
histories == <<refused, logEarly, lokiEarly, delivered>>
vars == <<mainVars, req, logVars, lokiVars, histories>>

\* "gap": the first signal was taken and the listeners for a second one are
\* not there yet; "draining": waiting for the server, the timeout or a second
\* signal; the others are the steps of LogManager::shutdown.
MainPlaces ==
  {"serving", "gap", "draining", "logSignal", "logJoin", "lokiSignal",
   "lokiJoin", "analytics", "exit"}

\* The type invariant, with the capacities of both channels; the Loki worker
\* pushes a batch exactly while it holds one.
TypeOK ==
  /\ main \in MainPlaces /\ forced \in BOOLEAN /\ signals \in 0 .. MaxSignals
  /\ req \in [Requests -> {"none", "running", "logging", "ended"}]
  /\ logChan \in Seq(Requests \cup {Shutdown}) /\ Len(logChan) <= LogCap
  /\ logBuf \subseteq Requests /\ stored \subseteq Requests
  /\ logPc \in {"loop", "leaving", "last", "gone"}
  /\ lokiChan \in Seq(Requests \cup {Shutdown}) /\ Len(lokiChan) <= LokiCap
  /\ lokiBuf \subseteq Requests /\ sending \subseteq Requests
  /\ lokiShut \in BOOLEAN
  /\ lokiPc \in {"off", "recv", "drain", "push", "gone"}
  /\ lokiRet \in {"recv", "drain", "gone"}
  /\ lokiPc = "push" <=> sending # {}
  /\ pushed \subseteq Requests /\ unpushed \subseteq Requests
  /\ refused \subseteq Requests
  /\ logEarly \subseteq Requests /\ lokiEarly \subseteq Requests
  /\ delivered \subseteq {"log", "loki"}

Init ==
  /\ main = "serving" /\ forced = FALSE /\ signals = 0
  /\ req = [r \in Requests |-> "none"]
  /\ logChan = <<>> /\ logBuf = {} /\ stored = {} /\ logPc = "loop"
  /\ lokiChan = <<>> /\ lokiBuf = {} /\ sending = {} /\ lokiShut = FALSE
  /\ lokiPc \in {"off", "recv"} /\ lokiRet = "recv"
  /\ pushed = {} /\ unpushed = {}
  /\ refused = {} /\ logEarly = {} /\ lokiEarly = {} /\ delivered = {}

Alive == main # "exit"
Goto(place) == main' = place

-----------------------------------------------------------------------------
(* requests *)

\* A request is taken until the server and its connections have noticed that
\* the token is cancelled, which is before the server future resolves.
Arrive(r) ==
  /\ main \in {"serving", "gap", "draining"} /\ req[r] = "none"
  /\ req' = [req EXCEPT ![r] = "running"]
  /\ UNCHANGED <<mainVars, logVars, lokiVars, histories>>

LokiTakes == lokiPc \notin {"off", "gone"} /\ Len(lokiChan) < LokiCap

\* log_proxy, first half: loki.send, if there is a sink; a refusal is a warning.
SendToLoki(r) ==
  /\ Alive /\ req[r] = "running"
  /\ req' = [req EXCEPT ![r] = "logging"]
  /\ lokiChan' = IF LokiTakes THEN Append(lokiChan, r) ELSE lokiChan
  /\ lokiEarly' = IF LokiTakes /\ "loki" \notin delivered THEN lokiEarly \cup {r}
                  ELSE lokiEarly
  /\ UNCHANGED <<mainVars, logVars, lokiBuf, sending, lokiShut, lokiPc, lokiRet,
                 pushed, unpushed, refused, logEarly, delivered>>

LogTakes == logPc # "gone" /\ Len(logChan) < LogCap

\* Second half: sender.try_send.
SendToLog(r) ==
  /\ Alive /\ req[r] = "logging"
  /\ req' = [req EXCEPT ![r] = "ended"]
  /\ IF LogTakes
       THEN /\ logChan' = Append(logChan, r)
            /\ logEarly' = IF main \in {"serving", "gap", "draining"}
                             THEN logEarly \cup {r} ELSE logEarly
            /\ UNCHANGED refused
       ELSE refused' = refused \cup {r} /\ UNCHANGED <<logChan, logEarly>>
  /\ UNCHANGED <<mainVars, logBuf, stored, logPc, lokiVars, lokiEarly, delivered>>

-----------------------------------------------------------------------------
(* the log worker, as LogPipeline shows it from outside *)

LogTake ==
  /\ Alive /\ logPc \in {"loop", "leaving"} /\ logChan # <<>>
  /\ logChan' = Tail(logChan)
  /\ IF Head(logChan) = Shutdown
       THEN logPc' = "leaving" /\ UNCHANGED logBuf
       ELSE logBuf' = logBuf \cup {Head(logChan)} /\ UNCHANGED logPc
  /\ UNCHANGED <<mainVars, req, stored, lokiVars, histories>>

\* A full batch or an idle interval.
LogFlush ==
  /\ Alive /\ logPc \in {"loop", "leaving"} /\ logBuf # {}
  /\ stored' = stored \cup logBuf
  /\ logBuf' = {}
  /\ UNCHANGED <<mainVars, req, logChan, logPc, lokiVars, histories>>

\* With the signal taken and the channel found empty, the last flush and the
\* CHECKPOINT follow; a record sent from now on is not read any more.
LogLast ==
  /\ Alive /\ logPc = "leaving" /\ logChan = <<>>
  /\ stored' = stored \cup logBuf
  /\ logBuf' = {}
  /\ logPc' = "last"
  /\ UNCHANGED <<mainVars, req, logChan, lokiVars, histories>>

LogExit ==
  /\ Alive /\ logPc = "last"
  /\ logPc' = "gone"
  /\ logChan' = <<>>
  /\ UNCHANGED <<mainVars, req, logBuf, stored, lokiVars, histories>>

-----------------------------------------------------------------------------
(* loki_worker *)

LokiFrame == UNCHANGED <<mainVars, req, logVars, histories>>

\* One message from the channel, in recv_timeout or in the try_recv loop.
LokiTake ==
  /\ Alive /\ lokiPc \in {"recv", "drain"} /\ lokiChan # <<>>
  /\ lokiChan' = Tail(lokiChan)
  /\ IF Head(lokiChan) = Shutdown
       THEN lokiShut' = TRUE /\ UNCHANGED lokiBuf
       ELSE lokiBuf' = lokiBuf \cup {Head(lokiChan)} /\ UNCHANGED lokiShut
  /\ lokiPc' = "drain"
  /\ UNCHANGED <<sending, lokiRet, pushed, unpushed>> /\ LokiFrame

\* flush_loki begins: the payload is built and the buffer cleared at once.
Push(ret) ==
  /\ sending' = lokiBuf
  /\ lokiBuf' = {}
  /\ lokiPc' = "push" /\ lokiRet' = ret

\* recv_timeout: the interval passed.
LokiInterval ==
  /\ Alive /\ lokiPc = "recv" /\ lokiChan = <<>> /\ lokiBuf # {}
  /\ Push("drain")
  /\ UNCHANGED <<lokiChan, lokiShut, pushed, unpushed>> /\ LokiFrame

\* After the drain: a full batch goes out, and on shutdown whatever there is;
\* then the loop goes on or the worker returns.
LokiCheck ==
  /\ Alive /\ lokiPc = "drain" /\ lokiChan = <<>>
  /\ \/ /\ Cardinality(lokiBuf) >= LokiBatch \/ (lokiShut /\ lokiBuf # {})
        /\ Push(IF lokiShut THEN "gone" ELSE "recv")
     \/ /\ Cardinality(lokiBuf) < LokiBatch /\ ~(lokiShut /\ lokiBuf # {})
        /\ lokiPc' = IF lokiShut THEN "gone" ELSE "recv"
        /\ UNCHANGED <<lokiBuf, sending, lokiRet>>
  /\ UNCHANGED <<lokiChan, lokiShut, pushed, unpushed>> /\ LokiFrame

\* send() answered, failed or timed out (log.loki.timeout_secs): the batch is
\* not kept.  A worker that returns drops the channel with it.
LokiPushed ==
  /\ Alive /\ lokiPc = "push"
  /\ \/ pushed' = pushed \cup sending /\ UNCHANGED unpushed
     \/ unpushed' = unpushed \cup sending /\ UNCHANGED pushed
  /\ sending' = {}
  /\ lokiPc' = lokiRet
  /\ lokiChan' = IF lokiRet = "gone" THEN <<>> ELSE lokiChan
  /\ UNCHANGED <<lokiBuf, lokiShut, lokiRet>> /\ LokiFrame

-----------------------------------------------------------------------------
(* main *)

\* Mutant: the first signal goes straight to log_manager.shutdown().
SignalWithoutDraining ==
  /\ Alive /\ signals < MaxSignals
  /\ signals' = signals + 1
  /\ Goto(IF main = "serving" THEN "logSignal" ELSE main)
  /\ UNCHANGED <<forced, req, logVars, lokiVars, histories>>

\* SIGTERM or Ctrl+C.  The first cancels the token; one that comes before the
\* second pair of listeners exists is not seen; one during the wait forces the
\* exit; nobody listens after that.
Signal ==
  /\ Alive /\ signals < MaxSignals
  /\ signals' = signals + 1
  /\ Goto(CASE main = "serving" -> "gap"
            [] main = "draining" -> "logSignal"
            [] OTHER -> main)
  /\ forced' = (forced \/ main = "draining")
  /\ UNCHANGED <<req, logVars, lokiVars, histories>>

Listen ==
  /\ main = "gap"
  /\ Goto("draining")
  /\ UNCHANGED <<forced, signals, req, logVars, lokiVars, histories>>

\* axum's graceful shutdown resolves when every connection has finished.
ServerEnds ==
  /\ main = "draining"
  /\ \A r \in Requests : req[r] \in {"none", "ended"}
  /\ Goto("logSignal")
  /\ UNCHANGED <<forced, signals, req, logVars, lokiVars, histories>>

\* Mutant: only a second signal ends the wait for a request that hangs.
NoGracefulTimeout ==
  /\ main = "draining"
  /\ \A r \in Requests : req[r] \in {"none", "ended"}
  /\ forced' = TRUE
  /\ Goto("logSignal")
  /\ UNCHANGED <<signals, req, logVars, lokiVars, histories>>

GracefulTimeout ==
  /\ main = "draining"
  /\ forced' = TRUE
  /\ Goto("logSignal")
  /\ UNCHANGED <<signals, req, logVars, lokiVars, histories>>

\* LogManager::signal_shutdown: retries while the channel is full, for 5 s.
SignalLog ==
  /\ main = "logSignal"
  /\ \/ /\ Len(logChan) < LogCap
        /\ logChan' = Append(logChan, Shutdown)
        /\ delivered' = delivered \cup {"log"}
        /\ Goto("logJoin")
     \/ /\ Len(logChan) = LogCap
        /\ Goto("lokiSignal")
        /\ UNCHANGED <<logChan, delivered>>
  /\ UNCHANGED <<forced, signals, req, logBuf, stored, logPc, lokiVars,
                 refused, logEarly, lokiEarly>>

JoinLog ==
  /\ main = "logJoin" /\ logPc = "gone"
  /\ Goto("lokiSignal")
  /\ UNCHANGED <<forced, signals, req, logVars, lokiVars, histories>>

\* LokiSink::signal_shutdown, if there is a sink.
SignalLoki ==
  /\ main = "lokiSignal"
  /\ \/ /\ lokiPc # "off" /\ Len(lokiChan) < LokiCap
        /\ lokiChan' = Append(lokiChan, Shutdown)
        /\ delivered' = delivered \cup {"loki"}
        /\ Goto("lokiJoin")
     \/ /\ lokiPc = "off" \/ Len(lokiChan) = LokiCap
        /\ Goto("analytics")
        /\ UNCHANGED <<lokiChan, delivered>>
  /\ UNCHANGED <<forced, signals, req, logVars, lokiBuf, sending, lokiShut, lokiPc,
                 lokiRet, pushed, unpushed, refused, logEarly, lokiEarly>>

JoinLoki ==
  /\ main = "lokiJoin" /\ lokiPc = "gone"
  /\ Goto("analytics")
  /\ UNCHANGED <<forced, signals, req, logVars, lokiVars, histories>>

\* Analytics::shutdown, then the end of the process: every thread and every
\* request still running goes with it, and no Drop runs.
Exit ==
  /\ main = "analytics"
  /\ Goto("exit")
  /\ UNCHANGED <<forced, signals, req, logVars, lokiVars, histories>>

-----------------------------------------------------------------------------
MainStep ==
  \/ Listen \/ ServerEnds \/ GracefulTimeout
  \/ SignalLog \/ JoinLog \/ SignalLoki \/ JoinLoki \/ Exit

LogStep == LogTake \/ LogFlush \/ LogLast \/ LogExit
LokiStep == LokiTake \/ LokiInterval \/ LokiCheck \/ LokiPushed

Next ==
  \/ \E r \in Requests : Arrive(r) \/ SendToLoki(r) \/ SendToLog(r)
  \/ Signal \/ MainStep \/ LogStep \/ LokiStep

\* main's task and the two worker threads are scheduled, and the timers main
\* and the push wait on fire.  No request need ever end and no signal come.
Spec == /\ Init /\ [][Next]_vars
        /\ WF_vars(MainStep) /\ WF_vars(LogStep) /\ WF_vars(LokiStep)

-----------------------------------------------------------------------------
(* properties *)

\* A record handed over before LogManager::shutdown began is stored when the
\* process ends, forced or not, unless the worker never got its signal; and on
\* a graceful exit that is every record but those a full channel refused: no
\* request is still writing while the log worker leaves.
StoredAtExit ==
  main = "exit" /\ "log" \in delivered =>
    /\ logEarly \subseteq stored
    /\ ~forced => \A r \in Requests : req[r] = "none" \/ r \in stored \cup refused

\* When the process ends every record the Loki worker accepted before its
\* signal has been pushed, once, or its push has failed, once: none is left in
\* the buffer, although it is the second worker to be stopped and requests may
\* still be sending to it.
PushedAtExit ==
  /\ pushed \cap unpushed = {}
  /\ main = "exit" /\ "loki" \in delivered => lokiEarly \subseteq pushed \cup unpushed

\* Neither log loses at exit what it had accepted before.
RecordsSurvive == StoredAtExit /\ PushedAtExit

\* After a signal the process ends, whether or not the requests do, the
\* channels are full or the Loki server answers.
ProcessEnds == main = "gap" ~> main = "exit"
=============================================================================
