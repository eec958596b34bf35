----------------------------- MODULE ProxyRequest -----------------------------
(***************************************************************************)
(* One call of proxy_request: the checks, the resolution, the upstream     *)
(* call of proxy_streamed or proxy_non_streamed with its ProxyLogGuard,    *)
(* and, when the answer is streamed, SseTransformStream (module SseStream) *)
(* from there on.  The client may hang up at every await.                  *)
(*                                                                         *)
(* "upstream" stands for whatever status code the upstream answered with,  *)
(* "refused" for the error statuses of the steps before the upstream call. *)
(***************************************************************************)
EXTENDS SseStream

VARIABLES
  phase,     \* the await or stretch the call is in, see Phases
  streamed,  \* body.stream && config.proxy.stream
  guard,     \* ProxyLogGuard: "none", "armed", or "finalized"
  healthy,   \* the upstream answered with a success status
  blocked,   \* history: rejected by DLP
  answer     \* the status the client was answered with

requestVars == <<phase, streamed, guard, healthy, blocked, answer>>
vars == <<requestVars, streamVars>>

Phases ==
  {"checks", "resolve", "prepare", "execute", "errorbody", "body",
   "streaming", "answered", "gone"}

\* The type invariant.
TypeOK ==
  /\ StreamTypes
  /\ records \in Nat /\ logged \in Records
  /\ phase \in Phases
  /\ streamed \in BOOLEAN
  /\ guard \in {"none", "armed", "finalized"}
  /\ healthy \in BOOLEAN /\ blocked \in BOOLEAN
  /\ answer \in {"none", "200", "400", "408", "502", "upstream", "refused"}

Init ==
  /\ StreamInit
  /\ phase = "checks"
  /\ streamed = FALSE
  /\ guard = "none"
  /\ healthy = FALSE
  /\ blocked = FALSE
  /\ answer = "none"

Answer(st) == phase' = "answered" /\ answer' = st

WriteRecord(st, usage) ==
  /\ records' = records + 1
  /\ logged' = [status |-> st, usage |-> usage]

streamOnly == <<fields, clocks, wakers, task, source, forwarded, usageSeen, unread>>

-----------------------------------------------------------------------------
(* proxy_request, up to the upstream call *)

\* Body too large, no model, unknown model, unsupported endpoint, a request
\* that cannot be built, a refused address, no client: answered, not recorded.
Refuse ==
  /\ phase \in {"checks", "resolve", "prepare"}
  /\ Answer("refused")
  /\ UNCHANGED <<streamed, guard, healthy, blocked, streamVars>>

\* dlp_rejection
DlpBlocks ==
  /\ phase = "checks"
  /\ WriteRecord("400", FALSE)
  /\ blocked' = TRUE
  /\ Answer("400")
  /\ UNCHANGED <<streamed, guard, healthy, streamOnly>>

PassChecks ==
  /\ phase = "checks"
  /\ phase' = "resolve"
  /\ UNCHANGED <<streamed, guard, healthy, blocked, answer, streamVars>>

\* resolve_model_and_provider
Resolve ==
  /\ phase = "resolve"
  /\ phase' = "prepare"
  /\ UNCHANGED <<streamed, guard, healthy, blocked, answer, streamVars>>

\* build_request, check_ssrf, pinned_client; then the guard is made and the
\* request goes out.
Prepare ==
  /\ phase = "prepare"
  /\ streamed' \in BOOLEAN
  /\ guard' = "armed"
  /\ phase' = "execute"
  /\ UNCHANGED <<healthy, blocked, answer, streamVars>>

-----------------------------------------------------------------------------
(* proxy_streamed, proxy_non_streamed and the end of proxy_request *)

\* guard.finalize
Finalize(st, usage) ==
  /\ guard' = "finalized"
  /\ WriteRecord(st, usage)

\* No connection, no headers in time, or a redirect.
ExecuteFails(st) ==
  /\ phase = "execute"
  /\ Finalize(st, FALSE)
  /\ Answer(st)
  /\ UNCHANGED <<streamed, healthy, blocked, streamOnly>>

\* Headers other than a redirect's, of an answer that is not to be streamed.
PlainHeaders ==
  /\ phase = "execute" /\ ~streamed
  /\ healthy' \in BOOLEAN
  /\ phase' = "body"
  /\ UNCHANGED <<streamed, guard, blocked, answer, streamVars>>

ErrorHeaders ==
  /\ phase = "execute" /\ streamed
  /\ phase' = "errorbody"
  /\ UNCHANGED <<streamed, guard, healthy, blocked, answer, streamVars>>

\* Mutant: the guard stays armed beside the stream.
StreamHeadersUnsuppressed ==
  /\ phase = "execute" /\ streamed
  /\ healthy' = TRUE
  /\ WriteRecord("499", FALSE)
  /\ phase' = "streaming" /\ answer' = "200"
  /\ UNCHANGED <<streamed, guard, blocked, streamOnly>>

\* suppress_drop_log, and the stream takes over.
StreamHeaders ==
  /\ phase = "execute" /\ streamed
  /\ healthy' = TRUE
  /\ guard' = "finalized"
  /\ phase' = "streaming" /\ answer' = "200"
  /\ UNCHANGED <<streamed, blocked, streamVars>>

\* The error body was read, or could not be and counts as empty.
ErrorBodyRead ==
  /\ phase = "errorbody"
  /\ Finalize("upstream", FALSE)
  /\ Answer("upstream")
  /\ UNCHANGED <<streamed, healthy, blocked, streamOnly>>

\* `?` on the read timeout: the guard is dropped as it is.
ErrorBodyTimesOut ==
  /\ phase = "errorbody"
  /\ WriteRecord("499", FALSE)
  /\ Answer("408")
  /\ UNCHANGED <<streamed, guard, healthy, blocked, streamOnly>>

\* The body was read in time and within max_body.
BodyRead ==
  /\ phase = "body"
  /\ IF healthy
     THEN \E usage \in BOOLEAN : Finalize("200", usage) /\ Answer("200")
     ELSE Finalize("upstream", FALSE) /\ Answer("upstream")
  /\ UNCHANGED <<streamed, healthy, blocked, streamOnly>>

\* Mutant: a body error is answered without touching the guard.
BodyFailsUnrecorded(st) ==
  /\ phase = "body"
  /\ WriteRecord("499", FALSE)
  /\ Answer(st)
  /\ UNCHANGED <<streamed, guard, healthy, blocked, streamOnly>>

\* Read timeout; read error or too large.
BodyFails(st) ==
  /\ phase = "body"
  /\ Finalize(st, FALSE)
  /\ Answer(st)
  /\ UNCHANGED <<streamed, healthy, blocked, streamOnly>>

\* The client hangs up at an await and the future is dropped, with it the
\* guard.
HangUpEarly ==
  /\ phase \in {"resolve", "prepare", "execute", "errorbody", "body"}
  /\ phase' = "gone"
  /\ IF guard = "armed" THEN WriteRecord("499", FALSE) ELSE UNCHANGED record
  /\ UNCHANGED <<streamed, guard, healthy, blocked, answer, streamOnly>>

-----------------------------------------------------------------------------
RequestStep ==
  \/ Refuse \/ DlpBlocks \/ PassChecks \/ Resolve \/ Prepare
  \/ \E st \in {"502", "408"} : ExecuteFails(st) \/ BodyFails(st)
  \/ PlainHeaders \/ ErrorHeaders \/ StreamHeaders
  \/ ErrorBodyRead \/ ErrorBodyTimesOut \/ BodyRead \/ HangUpEarly

Streaming(step) == phase = "streaming" /\ step /\ UNCHANGED requestVars

Next ==
  \/ RequestStep
  \/ Streaming(StreamNext)
  \/ Outside /\ UNCHANGED requestVars

\* tokio polls a task that was woken, and timers go off.  Neither the upstream
\* nor the client owes anything.
Spec ==
  /\ Init /\ [][Next]_vars
  /\ WF_vars(Streaming(Poll))
  /\ WF_vars(Streaming(TimerFires))

-----------------------------------------------------------------------------
(* properties *)

Over ==
  \/ phase \in {"answered", "gone"}
  \/ phase = "streaming" /\ (done \/ task = "over")

\* Every request that reached the upstream call (or was blocked by DLP) leaves
\* exactly one proxy_log record, written when it is over, however it ends: the
\* guard, its Drop, the stream and its Drop never write two and never none.
ExactlyOneRecord ==
  records = IF Over /\ (guard # "none" \/ blocked) THEN 1 ELSE 0

\* The record carries the status the client was answered with, with one
\* exception: the error body of a streamed call times out, the client is
\* answered 408 and the guard's Drop records 499.
RecordMatchesAnswer ==
  phase = "answered" /\ records > 0 /\ logged.status # answer
    => streamed /\ answer = "408" /\ logged.status = "499"

\* A stream that waits for its upstream holds back no complete event and no
\* oversized buffer, wherever the chunks were cut: the scan that starts at
\* `scanned` finds whatever a scan of the whole buffer would.
NothingHeldBack ==
  task = "parked" => FindEventBoundary(buf, 0) = 0 /\ Len(buf) <= MaxBuffer

\* What was read is forwarded or still buffered, an end that is not a failure
\* (end of upstream, shutdown, timeout) leaves nothing in the buffer, and all
\* that is forwarded stays within max_response_body_bytes.
NoByteLost ==
  /\ logged.status # "502" => forwarded + Len(buf) = total
  /\ phase = "streaming" /\ done /\ inner # "error" /\ logged.status # "502" => buf = <<>>
  /\ MaxBytes > 0 => forwarded <= MaxBytes

\* Usage that reached the client is in the record, whatever came after it and
\* however the stream ended, unless it was handed on unread: in an event that is
\* not UTF-8, or in the buffer that finalize_stream hands on after the record.
\* That buffer holds a complete event only when a timeout overtook it.
ReportedUsageIsRecorded ==
  phase = "streaming" /\ records > 0 =>
    /\ logged.usage => usageSeen
    /\ usageSeen => logged.usage \/ unread # {}
    /\ "complete" \in unread => logged.status = "504"

\* No stream stays parked on a silent upstream: the idle timer wakes it.
ParkedIsWoken ==
  (phase = "streaming" /\ task = "parked") ~> task \in {"sent", "over"}
=============================================================================
