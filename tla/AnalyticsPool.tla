---------------------------- MODULE AnalyticsPool ----------------------------
(***************************************************************************)
(* The analytics workers: threads with a DuckDB connection each, fed from  *)
(* one unbounded mpsc channel whose receiver they share behind a mutex.    *)
(* HTTP handlers send a request with a oneshot reply and wait at most      *)
(* `timeout` for it; LogManager::shutdown sends one Shutdown per worker    *)
(* and joins them while handlers may still be sending.                     *)
(*                                                                         *)
(* A query replies (with rows, or AnalyticsError::Failed after a DuckDB    *)
(* error or a watchdog interrupt: told apart nowhere below) or panics.  A  *)
(* request of Heavy may scan for ever; how the watchdog ends a scan is     *)
(* QueryWatchdog's subject.                                                *)
(***************************************************************************)
EXTENDS Naturals, Sequences, FiniteSets

CONSTANTS
  Requests,    \* the calls of the query methods, one element per call
  Heavy,       \* those whose query need not end
  MaxWorkers,  \* bound: config.analytics_workers (1 .. MAX_ANALYTICS_WORKERS)
  Shutdown     \* AnalyticsRequest::Shutdown

ASSUME PoolAssumption ==
  /\ Heavy \subseteq Requests
  /\ MaxWorkers \in Nat \ {0}
  /\ Shutdown \notin Requests

Workers == 1 .. MaxWorkers
NoOne == 0

VARIABLES
  queue,    \* the mpsc channel
  rx,       \* the holder of the receiver's mutex, or NoOne
  worker,   \* "unborn", "parked", "recv", "query", "checkpoint" or "exited"
  job,      \* the request a worker runs
  call,     \* the handler's call: "idle", "waiting" on its oneshot, or how it
            \* ended: "answered", "unavailable", "timeout"
  handles,  \* the join handles
  left,     \* Shutdown messages shutdown() has still to send
  main,     \* "serving", "signalling", "joining" or "done"
  early,    \* history: requests sent before shutdown() began
  ran       \* history: requests whose query a worker has run to its end

mainVars == <<handles, left, main>>
vars == <<queue, rx, worker, job, call, early, mainVars, ran>>

Running == {w \in Workers : worker[w] \in {"parked", "recv", "query"}}

\* The receiver lives in the workers' closures alone and goes with the last.
ReceiverGone == \A w \in Workers : worker[w] \in {"unborn", "exited"}

Queued(r) == \E i \in DOMAIN queue : queue[i] = r

\* The type invariant; the receiver's mutex is held exactly by the worker that
\* waits in recv().
TypeOK ==
  /\ queue \in Seq(Requests \cup {Shutdown})
  /\ rx \in Workers \cup {NoOne}
  /\ worker \in [Workers -> {"unborn", "parked", "recv", "query", "checkpoint", "exited"}]
  /\ \A w \in Workers : worker[w] = "recv" <=> rx = w
  /\ job \in [Workers -> Requests \cup {NoOne}]
  /\ \A w \in Workers : worker[w] = "query" => job[w] \in Requests
  /\ call \in [Requests -> {"idle", "waiting", "answered", "unavailable", "timeout"}]
  /\ handles \subseteq Workers
  /\ left \in 0 .. MaxWorkers
  /\ main \in {"serving", "signalling", "joining", "done"}
  /\ early \subseteq Requests
  /\ ran \subseteq Requests

\* Analytics::new: a connection that cannot be cloned means fewer workers, but
\* the one passed in always serves.
Init ==
  /\ \E n \in 1 .. MaxWorkers :
       /\ handles = 1 .. n
       /\ worker = [w \in Workers |-> IF w <= n THEN "parked" ELSE "unborn"]
  /\ queue = <<>>
  /\ rx = NoOne
  /\ job = [w \in Workers |-> NoOne]
  /\ call = [r \in Requests |-> "idle"]
  /\ left = 0
  /\ main = "serving"
  /\ early = {}
  /\ ran = {}

-----------------------------------------------------------------------------
(* a query method, run by an HTTP handler *)

\* tx.send fails once the receiver is gone.
Call(r) ==
  /\ call[r] = "idle"
  /\ IF ReceiverGone
       THEN /\ call' = [call EXCEPT ![r] = "unavailable"]
            /\ UNCHANGED <<queue, early>>
       ELSE /\ queue' = Append(queue, r)
            /\ call' = [call EXCEPT ![r] = "waiting"]
            /\ early' = IF main = "serving" THEN early \cup {r} ELSE early
  /\ UNCHANGED <<rx, worker, job, mainVars, ran>>

\* The wait ends without an answer: analytics_timeout_secs passed, or the HTTP
\* client left and the handler was dropped.  The request stays where it is,
\* and its answer will find the receiving half closed.
GiveUp(r) ==
  /\ call[r] = "waiting"
  /\ call' = [call EXCEPT ![r] = "timeout"]
  /\ UNCHANGED <<queue, rx, worker, job, early, mainVars, ran>>

-----------------------------------------------------------------------------
(* worker_loop *)

\* rx.lock()
Lock(w) ==
  /\ worker[w] = "parked" /\ rx = NoOne
  /\ rx' = w
  /\ worker' = [worker EXCEPT ![w] = "recv"]
  /\ UNCHANGED <<queue, job, call, early, mainVars, ran>>

\* Mutant: the guard lives until the request has been served.
RecvHoldingTheLock(w) ==
  /\ worker[w] = "recv" /\ queue # <<>>
  /\ queue' = Tail(queue)
  /\ IF Head(queue) = Shutdown
       THEN /\ worker' = [worker EXCEPT ![w] = "checkpoint"]
            /\ rx' = NoOne
            /\ UNCHANGED job
       ELSE /\ worker' = [worker EXCEPT ![w] = "query"]
            /\ job' = [job EXCEPT ![w] = Head(queue)]
            /\ UNCHANGED rx
  /\ UNCHANGED <<call, early, mainVars, ran>>

\* Mutant: a worker leaves when the pool is being shut down, not when it is told.
RecvUntilShutdownBegins(w) ==
  /\ worker[w] = "recv" /\ (queue # <<>> \/ main # "serving")
  /\ rx' = NoOne
  /\ IF main # "serving"
       THEN /\ worker' = [worker EXCEPT ![w] = "checkpoint"]
            /\ UNCHANGED <<queue, job>>
       ELSE /\ worker' = [worker EXCEPT ![w] = "query"]
            /\ job' = [job EXCEPT ![w] = Head(queue)]
            /\ queue' = Tail(queue)
  /\ UNCHANGED <<call, early, mainVars, ran>>

\* recv() returns and the guard is dropped before the request is looked at.
\* (The senders outlive the workers, so recv() itself never fails.)
Recv(w) ==
  /\ worker[w] = "recv" /\ queue # <<>>
  /\ queue' = Tail(queue)
  /\ rx' = NoOne
  /\ IF Head(queue) = Shutdown
       THEN /\ worker' = [worker EXCEPT ![w] = "checkpoint"]
            /\ UNCHANGED job
       ELSE /\ worker' = [worker EXCEPT ![w] = "query"]
            /\ job' = [job EXCEPT ![w] = Head(queue)]
  /\ UNCHANGED <<call, early, mainVars, ran>>

\* resp.send, or the sender dropped; timeout() polls the oneshot before its
\* timer, so from here on the call has this result.  Nothing happens when
\* nobody waits any more.
Reply(r, outcome) ==
  call' = IF call[r] = "waiting" THEN [call EXCEPT ![r] = outcome] ELSE call

\* Mutant: a panic unwinds out of the loop and takes the thread with it.
FinishUnguarded(w) ==
  /\ worker[w] = "query"
  /\ \E outcome \in {"answered", "unavailable"} :
       /\ Reply(job[w], outcome)
       /\ worker' = [worker EXCEPT ![w] = IF outcome = "unavailable" THEN "exited" ELSE "parked"]
  /\ ran' = ran \cup {job[w]}
  /\ job' = [job EXCEPT ![w] = NoOne]
  /\ UNCHANGED <<queue, rx, early, mainVars>>

\* run_query: the query ends with rows or an error, or panics, in which case
\* run_guarded drops the sender; the worker goes back to the queue either way.
Finish(w) ==
  /\ worker[w] = "query"
  /\ \E outcome \in {"answered", "unavailable"} : Reply(job[w], outcome)
  /\ worker' = [worker EXCEPT ![w] = "parked"]
  /\ ran' = ran \cup {job[w]}
  /\ job' = [job EXCEPT ![w] = NoOne]
  /\ UNCHANGED <<queue, rx, early, mainVars>>

\* CHECKPOINT (its error ignored), watchdog.stop(), return.  The last worker
\* drops the receiver and with it the senders of every request still queued.
Exit(w) ==
  /\ worker[w] = "checkpoint"
  /\ worker' = [worker EXCEPT ![w] = "exited"]
  /\ IF \A v \in Workers \ {w} : worker[v] \in {"unborn", "exited"}
       THEN /\ queue' = <<>>
            /\ call' = [r \in Requests |->
                          IF Queued(r) /\ call[r] = "waiting" THEN "unavailable" ELSE call[r]]
       ELSE UNCHANGED <<queue, call>>
  /\ UNCHANGED <<rx, job, early, mainVars, ran>>

-----------------------------------------------------------------------------
(* shutdown *)

\* Mutant: the count forgets the worker that got the original connection.
BeginShutdownOneShort ==
  /\ main = "serving"
  /\ main' = "signalling"
  /\ left' = Cardinality(handles) - 1
  /\ UNCHANGED <<queue, rx, worker, job, call, early, handles, ran>>

BeginShutdown ==
  /\ main = "serving"
  /\ main' = "signalling"
  /\ left' = Cardinality(handles)
  /\ UNCHANGED <<queue, rx, worker, job, call, early, handles, ran>>

\* tx.send(Shutdown); a failure is ignored.
SendShutdown ==
  /\ main = "signalling" /\ left > 0
  /\ queue' = IF ReceiverGone THEN queue ELSE Append(queue, Shutdown)
  /\ left' = left - 1
  /\ UNCHANGED <<rx, worker, job, call, early, handles, main, ran>>

BeginJoin ==
  /\ main = "signalling" /\ left = 0
  /\ main' = "joining"
  /\ UNCHANGED <<queue, rx, worker, job, call, early, handles, left, ran>>

\* handles.drain(..) and join each: returns when the last has exited.
JoinAll ==
  /\ main = "joining"
  /\ \A w \in handles : worker[w] = "exited"
  /\ handles' = {}
  /\ main' = "done"
  /\ UNCHANGED <<queue, rx, worker, job, call, early, left, ran>>

-----------------------------------------------------------------------------
Next ==
  \/ \E r \in Requests : Call(r) \/ GiveUp(r)
  \/ \E w \in Workers : Lock(w) \/ Recv(w) \/ Finish(w) \/ Exit(w)
  \/ BeginShutdown \/ SendShutdown \/ BeginJoin \/ JoinAll

\* The worker threads and the thread in shutdown() are scheduled; a mutex and
\* a channel that stay available are taken (the mutex need not be fair); a
\* query that is not heavy ends.  Nothing makes a caller call or give up,
\* or the process shut down.
Fairness ==
  /\ \A w \in Workers :
       /\ WF_vars(Lock(w)) /\ WF_vars(Recv(w)) /\ WF_vars(Exit(w))
       /\ WF_vars(Finish(w) /\ job[w] \notin Heavy)
  /\ WF_vars(SendShutdown) /\ WF_vars(BeginJoin) /\ WF_vars(JoinAll)

Spec == Init /\ [][Next]_vars /\ Fairness

-----------------------------------------------------------------------------
(* properties *)

\* "One Shutdown per worker: each worker drains queued requests until it
\* consumes one, so every thread exits exactly once": while the pool serves no
\* worker is missing, whatever its queries do; from then on there are exactly
\* as many Shutdowns sent or still to send as workers that have not taken one.
EachWorkerOneShutdown ==
  Cardinality(Running) =
    IF main = "serving" THEN Cardinality(handles)
    ELSE left + Cardinality({i \in DOMAIN queue : queue[i] = Shutdown})

\* Shutdown leaves nobody behind: a request sent before it began is never thrown
\* away unrun, even though the handlers still waiting race the workers' exits;
\* and once it has returned no handler waits for a reply that can no longer come:
\* it had its answer, or saw its sender dropped, or gave up.
NobodyLeftBehind ==
  /\ \A r \in early : ReceiverGone => r \in ran
  /\ main = "done" => \A r \in Requests : call[r] # "waiting"

\* A scan that never ends occupies its own worker only: every request sent
\* before shutdown is picked up as long as there are more workers than such
\* scans ("a heavy query_proxy_logs no longer blocks a concurrent /api/stats").
HeavyBlocksNoOther ==
  \A r \in Requests :
    (r \in early /\ Queued(r) /\ Cardinality(handles) > Cardinality(Heavy)) ~> ~Queued(r)

\* shutdown() returns unless a query runs for ever.
ShutdownReturns ==
  <>[](\A w \in Workers : job[w] \notin Heavy) => (main = "signalling" ~> main = "done")
=============================================================================
