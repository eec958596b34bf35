---------------------------- MODULE QueryWatchdog ----------------------------
(***************************************************************************)
(* A worker thread (the log worker or an analytics worker) runs DuckDB     *)
(* operations under QueryWatchdog::run; the watchdog thread interrupts the *)
(* connection when the armed deadline has passed.                          *)
(*                                                                         *)
(* Operations are numbered in the order they run, and a deadline is named  *)
(* by the operation that armed it (0 is IDLE).  Deadlines grow, so time is *)
(* the number of deadlines that have passed.  An operation issues one or   *)
(* more statements; interrupt() reaches only a statement that is running.  *)
(* A "stuck" statement is the pathological scan: it ends by interruption   *)
(* or not at all.                                                          *)
(***************************************************************************)
EXTENDS Naturals

CONSTANTS
  MaxOps,    \* bound: operations the worker runs before it stops
  MaxStmts   \* statements one operation issues at most

ASSUME WatchdogAssumption ==
  MaxOps \in Nat \ {0} /\ MaxStmts \in Nat \ {0}

VARIABLES
  deadline,  \* the AtomicU64: the operation whose deadline is armed, or 0
  stop,      \* the AtomicBool
  passed,    \* deadlines 1 .. passed lie in the past
  op,        \* the last operation the worker began
  wpc,       \* worker: "idle", "op", "stopping", "joined"
  toIssue,   \* statements the operation has still to issue
  stmt,      \* the running statement: "none", "fast", "stuck" or "hit"
  dpc,       \* the watchdog thread's place in its loop
  due        \* the value it loaded

workerVars == <<op, wpc, toIssue>>
watchdogVars == <<deadline, stop, passed, workerVars, stmt, dpc, due>>

IDLE == 0

WatchdogInit ==
  /\ deadline = IDLE
  /\ stop = FALSE
  /\ passed = 0
  /\ op = 0
  /\ wpc = "idle"
  /\ toIssue = 0
  /\ stmt = "none"
  /\ dpc = "stopcheck"
  /\ due = IDLE

-----------------------------------------------------------------------------
(* the worker: QueryWatchdog::run, then stop *)

\* deadline.store(now + timeout)
Arm ==
  /\ wpc = "idle" /\ op < MaxOps
  /\ op' = op + 1
  /\ deadline' = op + 1
  /\ toIssue' \in 1 .. MaxStmts
  /\ wpc' = "op"
  /\ UNCHANGED <<stop, passed, stmt, dpc, due>>

\* f() issues its next statement.
StartStatement ==
  /\ wpc = "op" /\ stmt = "none" /\ toIssue > 0
  /\ stmt' \in {"fast", "stuck"}
  /\ toIssue' = toIssue - 1
  /\ UNCHANGED <<deadline, stop, passed, op, wpc, dpc, due>>

\* A statement returns, with its result or interrupted; after an error f() may
\* leave out some of the statements it had left, or issue them all (ROLLBACK
\* after a failed append, the next table's DELETE).
StatementReturns ==
  /\ stmt \in {"fast", "hit"}
  /\ stmt' = "none"
  /\ IF stmt = "hit" THEN toIssue' \in 0 .. toIssue ELSE toIssue' = toIssue
  /\ UNCHANGED <<deadline, stop, passed, op, wpc, dpc, due>>

\* f() has returned: deadline.store(IDLE)
FinishOp ==
  /\ wpc = "op" /\ stmt = "none" /\ toIssue = 0
  /\ deadline' = IDLE
  /\ wpc' = "idle"
  /\ UNCHANGED <<stop, passed, op, toIssue, stmt, dpc, due>>

\* stop(): the worker is about to exit.
Stop ==
  /\ wpc = "idle"
  /\ stop' = TRUE
  /\ wpc' = "stopping"
  /\ UNCHANGED <<deadline, passed, op, toIssue, stmt, dpc, due>>

\* thread.join()
Join ==
  /\ wpc = "stopping" /\ dpc = "gone"
  /\ wpc' = "joined"
  /\ UNCHANGED <<deadline, stop, passed, op, toIssue, stmt, dpc, due>>

-----------------------------------------------------------------------------
(* the watchdog thread *)

DGoto(place) == dpc' = place

CheckStop ==
  /\ dpc = "stopcheck"
  /\ DGoto(IF stop THEN "gone" ELSE "load")
  /\ UNCHANGED <<deadline, stop, passed, workerVars, stmt, due>>

Load ==
  /\ dpc = "load"
  /\ due' = deadline
  /\ DGoto("compare")
  /\ UNCHANGED <<deadline, stop, passed, workerVars, stmt>>

\* Mutant: any armed operation is interrupted at the next poll.
CompareIgnoringTime ==
  /\ dpc = "compare"
  /\ DGoto(IF due # IDLE THEN "interrupt" ELSE "sleep")
  /\ UNCHANGED <<deadline, stop, passed, workerVars, stmt, due>>

\* Mutant: off by one, the deadline that has just passed does not count.
CompareLate ==
  /\ dpc = "compare"
  /\ DGoto(IF due # IDLE /\ due < passed THEN "interrupt" ELSE "sleep")
  /\ UNCHANGED <<deadline, stop, passed, workerVars, stmt, due>>

\* due != IDLE && now_ms() >= due, on the value loaded before
Compare ==
  /\ dpc = "compare"
  /\ DGoto(IF due # IDLE /\ due <= passed THEN "interrupt" ELSE "sleep")
  /\ UNCHANGED <<deadline, stop, passed, workerVars, stmt, due>>

\* interrupt.interrupt(): lost when no statement is running.
Interrupt ==
  /\ dpc = "interrupt"
  /\ stmt' = IF stmt = "none" THEN "none" ELSE "hit"
  /\ DGoto("disarm")
  /\ UNCHANGED <<deadline, stop, passed, workerVars, due>>

\* deadline.store(IDLE), whatever is armed by now
Disarm ==
  /\ dpc = "disarm"
  /\ deadline' = IDLE
  /\ DGoto("sleep")
  /\ UNCHANGED <<stop, passed, workerVars, stmt, due>>

Sleep ==
  /\ dpc = "sleep"
  /\ DGoto("stopcheck")
  /\ UNCHANGED <<deadline, stop, passed, workerVars, stmt, due>>

\* The clock reaches the next deadline.
TimePasses ==
  /\ passed < op
  /\ passed' = passed + 1
  /\ UNCHANGED <<deadline, stop, workerVars, stmt, dpc, due>>

-----------------------------------------------------------------------------
WorkerStep == Arm \/ StartStatement \/ StatementReturns \/ FinishOp \/ Stop \/ Join
WatchdogStep == CheckStop \/ Load \/ Compare \/ Interrupt \/ Disarm \/ Sleep

WatchdogNext == WorkerStep \/ WatchdogStep \/ TimePasses

\* Both are operating-system threads, and the clock runs.  Of the worker's
\* steps only those inside run() and stop() are owed: it may stay idle.
WatchdogSpec ==
  /\ WatchdogInit /\ [][WatchdogNext]_watchdogVars
  /\ WF_watchdogVars(StartStatement \/ StatementReturns \/ FinishOp \/ Join)
  /\ WF_watchdogVars(WatchdogStep)
  /\ WF_watchdogVars(TimePasses)

-----------------------------------------------------------------------------
(* properties *)

Firing == dpc \in {"interrupt", "disarm"}

\* A statement is interrupted only if its operation is past its deadline, or
\* the watchdog had loaded the deadline of an earlier operation, that deadline
\* has passed, and the operation was over before the interrupt came.
NoFalseAlarm ==
  [][(stmt \in {"fast", "stuck"} /\ stmt' = "hit") =>
        \/ op <= passed
        \/ due \in 1 .. passed /\ due < op]_watchdogVars

\* A running statement past its deadline, still armed and met by no earlier
\* alarm, is over in the end, stuck or not.
OverrunIsEnded ==
  \A n \in 1 .. MaxOps :
    (op = n /\ stmt # "none" /\ deadline = n /\ n <= passed /\ ~Firing)
      ~> (op > n \/ wpc # "op" \/ stmt = "none")
=============================================================================
