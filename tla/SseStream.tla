------------------------------ MODULE SseStream ------------------------------
(***************************************************************************)
(* SseTransformStream: the body of a streamed proxy answer.  hyper polls   *)
(* it when its task was woken and the connection can take output; one call *)
(* of poll_next runs its checks and then reads the upstream until an event *)
(* is complete, the upstream has nothing more, or the stream is over.      *)
(*                                                                         *)
(* The upstream's bytes are abstracted to line feeds, carriage returns and *)
(* contents of a line: "usage" (a data line that reports token usage),     *)
(* "text" and "invalid" (not UTF-8).  A line's content is one symbol: it   *)
(* is looked at only once the line is complete.  Forwarded output is       *)
(* counted, not kept; transform_response is left out.                      *)
(***************************************************************************)
EXTENDS Naturals, Sequences

CONSTANTS
  Chunks,     \* the chunks the upstream may send, sequences of bytes
  MaxBuffer,  \* MAX_SSE_BUFFER_BYTES
  MaxBytes,   \* config.proxy.max_response_body_bytes, 0 means no limit
  MaxInput    \* bound: bytes the upstream sends in all

Byte == {"CR", "LF", "usage", "text", "invalid"}

ASSUME StreamAssumption ==
  /\ Chunks \subseteq Seq(Byte) \ {<<>>}
  /\ MaxBuffer \in Nat /\ MaxBytes \in Nat /\ MaxInput \in Nat

VARIABLES
  buf, scanned, done, total,   \* the fields of the same names (total_bytes)
  tokens,      \* user_tokens is Some
  status,      \* event.status
  timer,       \* idle_timer: "armed", or "fired" when its deadline has passed
  tooLong,     \* max_duration has passed since start
  cancelled,   \* the shutdown token
  wakers,      \* who will wake the task: "timer", "shutdown", "inner"
  task,        \* "scheduled", "reading" (in poll_next's loop), "parked",
               \* "sent" (an item is with the client), "over" (dropped)
  inner,       \* the upstream: "open", "eof" or "error"
  chunk,       \* a chunk that has arrived and is not read yet
  received,    \* bytes that arrived
  forwarded,   \* history: bytes split off the buffer for the client
  usageSeen,   \* history: usage was in something handed on to the client
  unread,      \* history: how usage was handed on without being looked at
  records,     \* history: calls of log_proxy
  logged       \* history: status and usage flag of the last record

fields == <<buf, scanned, done, total, tokens, status>>
clocks == <<timer, tooLong, cancelled>>
source == <<inner, chunk, received>>
record == <<records, logged>>
streamVars == <<fields, clocks, wakers, task, source, forwarded, usageSeen, unread, record>>

\* In an event that is not UTF-8, or in the buffer when the stream ends, with no
\* complete event or with one.
Unread == {"not UTF-8", "unfinished", "complete"}

NotLogged == [status |-> "none", usage |-> FALSE]

Records ==
  [status : {"none", "200", "400", "408", "499", "502", "504", "upstream"}, usage : BOOLEAN]

\* What the stream's variables hold; part of ProxyRequest's type invariant.
StreamTypes ==
  /\ buf \in Seq(Byte) /\ scanned \in Nat /\ done \in BOOLEAN /\ total \in Nat
  /\ tokens \in BOOLEAN /\ status \in {"200", "502", "504", "499"}
  /\ timer \in {"armed", "fired"} /\ tooLong \in BOOLEAN /\ cancelled \in BOOLEAN
  /\ wakers \subseteq {"timer", "shutdown", "inner"}
  /\ task \in {"scheduled", "reading", "parked", "sent", "over"}
  /\ inner \in {"open", "eof", "error"} /\ chunk \in Chunks \cup {<<>>}
  /\ received \in 0 .. MaxInput /\ total <= received
  /\ forwarded \in Nat /\ usageSeen \in BOOLEAN /\ unread \subseteq Unread

StreamInit ==
  /\ buf = <<>> /\ scanned = 0 /\ done = FALSE /\ total = 0
  /\ tokens = FALSE /\ status = "200"
  /\ timer = "armed" /\ tooLong = FALSE /\ cancelled = FALSE
  /\ wakers = {} /\ task = "scheduled"
  /\ inner = "open" /\ chunk = <<>> /\ received = 0
  /\ forwarded = 0 /\ usageSeen = FALSE /\ unread = {}
  /\ records = 0 /\ logged = NotLogged

-----------------------------------------------------------------------------
(* the buffer *)

\* The offsets at or after start where pat occurs in b.
Occurrences(b, pat, start) ==
  {i \in start .. Len(b) : i + Len(pat) <= Len(b) /\ SubSeq(b, i + 1, i + Len(pat)) = pat}

\* find_event_boundary: the end of the first CRLF CRLF, else of the first
\* LF LF, at or after the scan position; 0 when there is none.
FindEventBoundary(b, start) ==
  LET crlf == Occurrences(b, <<"CR", "LF", "CR", "LF">>, start)
      lf   == Occurrences(b, <<"LF", "LF">>, start)
      First(offsets) == CHOOSE i \in offsets : \A j \in offsets : i <= j
  IN  CASE crlf # {}             -> First(crlf) + 4
        [] crlf = {} /\ lf # {} -> First(lf) + 2
        [] OTHER                 -> 0

\* Mutant: one byte too few is kept for the next scan.
ScannedButTwo(b) == IF Len(b) > 2 THEN Len(b) - 2 ELSE 0

\* The scan position after a search that found nothing.
ScannedTo(b) == IF Len(b) > 3 THEN Len(b) - 3 ELSE 0

\* force_split_oversized: the end of the last complete line, 0 without one.
LastLineEnd(b) ==
  IF \E i \in DOMAIN b : b[i] = "LF"
  THEN CHOOSE i \in DOMAIN b : b[i] = "LF" /\ \A j \in (i + 1) .. Len(b) : b[j] # "LF"
  ELSE 0

HasUsage(b) == \E i \in DOMAIN b : b[i] = "usage"

\* transform_event looks for usage in every data line, and in none when the
\* event is not UTF-8.
ReportsUsage(event) == HasUsage(event) /\ ~\E i \in DOMAIN event : event[i] = "invalid"

\* History: usage in an event that is split off, and in a buffer handed on whole.
SeeEvent(event) ==
  /\ usageSeen' = (usageSeen \/ HasUsage(event))
  /\ unread' = IF HasUsage(event) /\ ~ReportsUsage(event)
               THEN unread \cup {"not UTF-8"} ELSE unread

SeeRest(b) ==
  /\ usageSeen' = (usageSeen \/ HasUsage(b))
  /\ unread' = IF ~HasUsage(b) THEN unread
               ELSE unread \cup {IF FindEventBoundary(b, 0) = 0
                                 THEN "unfinished" ELSE "complete"}

\* What poll_next does with a buffer it has just looked at, searched from s:
\* hand on an event, hand on whole lines of an oversized buffer, give up on an
\* oversized buffer, or go on.
NextPiece(b, s) ==
  IF FindEventBoundary(b, s) # 0 THEN FindEventBoundary(b, s)
  ELSE IF Len(b) > MaxBuffer THEN LastLineEnd(b) ELSE 0

Broken(b, s) ==
  FindEventBoundary(b, s) = 0 /\ Len(b) > MaxBuffer /\ LastLineEnd(b) = 0

\* Mutant: an event that reports no usage erases what an earlier one reported.
SplitForgetsUsage(b, n) ==
  LET event == SubSeq(b, 1, n)
  IN  /\ buf' = SubSeq(b, n + 1, Len(b))
      /\ scanned' = 0
      /\ tokens' = ReportsUsage(event)
      /\ SeeEvent(event)
      /\ forwarded' = forwarded + n
      /\ task' = "sent"

\* split_event; a later report of usage replaces an earlier one.
Split(b, n) ==
  LET event == SubSeq(b, 1, n)
  IN  /\ buf' = SubSeq(b, n + 1, Len(b))
      /\ scanned' = 0
      /\ tokens' = (tokens \/ ReportsUsage(event))
      /\ SeeEvent(event)
      /\ forwarded' = forwarded + n
      /\ task' = "sent"

\* finalize_log
FinalizeLog(st) ==
  /\ status' = st
  /\ records' = records + 1
  /\ logged' = [status |-> st, usage |-> tokens]
  /\ tokens' = FALSE

\* Mutant: what is left in the buffer is not handed on.
FinalizeDropsRest(st) ==
  /\ done' = TRUE
  /\ FinalizeLog(st)
  /\ buf' = <<>>
  /\ forwarded' = forwarded
  /\ task' = "over"
  /\ UNCHANGED <<scanned, usageSeen, unread>>

\* finalize_stream: the record, then what is left in the buffer as it is, with
\* no look at its usage.
FinalizeStream(st) ==
  /\ done' = TRUE
  /\ FinalizeLog(st)
  /\ buf' = <<>>
  /\ forwarded' = forwarded + Len(buf)
  /\ task' = IF buf # <<>> THEN "sent" ELSE "over"
  /\ SeeRest(buf)
  /\ UNCHANGED scanned

\* fail_stream: the buffer is discarded.
FailStream(b, st) ==
  /\ done' = TRUE
  /\ FinalizeLog(st)
  /\ buf' = b
  /\ task' = "over"
  /\ UNCHANGED <<scanned, usageSeen, unread, forwarded>>

-----------------------------------------------------------------------------
(* poll_next *)

\* Everything was handed on: None, and hyper drops the body.
PollDone ==
  /\ task = "scheduled" /\ done
  /\ task' = "over"
  /\ UNCHANGED <<fields, clocks, wakers, source, forwarded, usageSeen, unread, record>>

TimedOut == tooLong \/ timer = "fired"

PollTimesOut ==
  /\ task = "scheduled" /\ ~done /\ TimedOut
  /\ FinalizeStream("504")
  /\ UNCHANGED <<total, clocks, wakers, source>>

\* A piece left over from an earlier chunk.
PollPiece ==
  /\ task = "scheduled" /\ ~done /\ ~TimedOut
  /\ NextPiece(buf, scanned) # 0
  /\ Split(buf, NextPiece(buf, scanned))
  /\ UNCHANGED <<done, total, status, clocks, wakers, source, record>>

PollBroken ==
  /\ task = "scheduled" /\ ~done /\ ~TimedOut
  /\ Broken(buf, scanned)
  /\ FailStream(buf, "502")
  /\ UNCHANGED <<total, clocks, wakers, source>>

Quiet == ~done /\ ~TimedOut /\ NextPiece(buf, scanned) = 0 /\ ~Broken(buf, scanned)

PollShutdown ==
  /\ task = "scheduled" /\ Quiet /\ cancelled
  /\ FinalizeStream(status)
  /\ UNCHANGED <<total, clocks, wakers, source>>

\* Mutant: the deadline is compared, the timer itself is not polled.
PollInnerTimerless ==
  /\ task = "scheduled" /\ Quiet /\ ~cancelled
  /\ scanned' = ScannedTo(buf)
  /\ wakers' = {"shutdown"}
  /\ task' = "reading"
  /\ UNCHANGED <<buf, done, total, tokens, status, clocks, source, forwarded, usageSeen,
                 unread, record>>

\* The timer and the token were polled and will wake the task; read on.
PollInner ==
  /\ task = "scheduled" /\ Quiet /\ ~cancelled
  /\ scanned' = ScannedTo(buf)
  /\ wakers' = {"timer", "shutdown"}
  /\ task' = "reading"
  /\ UNCHANGED <<buf, done, total, tokens, status, clocks, source, forwarded, usageSeen,
                 unread, record>>

OverLimit == MaxBytes > 0 /\ total + Len(chunk) > MaxBytes

\* A chunk arrived: re-arm the timer, count it, buffer it, look for a piece.
ReadChunk ==
  /\ task = "reading" /\ chunk # <<>>
  /\ timer' = "armed"
  /\ total' = total + Len(chunk)
  /\ chunk' = <<>>
  /\ LET b == buf \o chunk IN
       \/ /\ OverLimit
          /\ FailStream(buf, "502")
       \/ /\ ~OverLimit /\ NextPiece(b, scanned) # 0
          /\ Split(b, NextPiece(b, scanned))
          /\ UNCHANGED <<done, status, record>>
       \/ /\ ~OverLimit /\ Broken(b, scanned)
          /\ FailStream(b, "502")
       \/ /\ ~OverLimit /\ NextPiece(b, scanned) = 0 /\ ~Broken(b, scanned)
          /\ buf' = b
          /\ scanned' = ScannedTo(b)
          /\ UNCHANGED <<done, tokens, status, task, forwarded, usageSeen, unread, record>>
  /\ UNCHANGED <<tooLong, cancelled, wakers, inner, received>>

\* The upstream's error is passed on, and hyper drops the body.
ReadError ==
  /\ task = "reading" /\ chunk = <<>> /\ inner = "error"
  /\ FinalizeLog(status)
  /\ done' = TRUE
  /\ task' = "over"
  /\ UNCHANGED <<buf, scanned, total, clocks, wakers, source, forwarded, usageSeen, unread>>

ReadEof ==
  /\ task = "reading" /\ chunk = <<>> /\ inner = "eof"
  /\ FinalizeStream(status)
  /\ UNCHANGED <<total, clocks, wakers, source>>

\* A waker that went off while the task was running has it polled again.
ReadPending ==
  /\ task = "reading" /\ chunk = <<>> /\ inner = "open"
  /\ wakers' = wakers \cup {"inner"}
  /\ task' = IF ("timer" \in wakers /\ timer = "fired") \/ cancelled
             THEN "scheduled" ELSE "parked"
  /\ UNCHANGED <<fields, clocks, source, forwarded, usageSeen, unread, record>>

-----------------------------------------------------------------------------
(* the upstream, the clocks, the client *)

Wake(who) == task' = IF task = "parked" /\ who \in wakers THEN "scheduled" ELSE task

Arrive(c) ==
  /\ inner = "open" /\ chunk = <<>> /\ task # "over"
  /\ received + Len(c) <= MaxInput
  /\ chunk' = c
  /\ received' = received + Len(c)
  /\ Wake("inner")
  /\ UNCHANGED <<fields, clocks, wakers, inner, forwarded, usageSeen, unread, record>>

UpstreamEnds(how) ==
  /\ inner = "open" /\ task # "over"
  /\ inner' = how
  /\ Wake("inner")
  /\ UNCHANGED <<fields, clocks, wakers, chunk, received, forwarded, usageSeen, unread,
                 record>>

TimerFires ==
  /\ timer = "armed" /\ task # "over"
  /\ timer' = "fired"
  /\ Wake("timer")
  /\ UNCHANGED <<fields, tooLong, cancelled, wakers, source, forwarded, usageSeen,
                 unread, record>>

\* max_duration has no timer of its own.
DurationPasses ==
  /\ ~tooLong /\ task # "over"
  /\ tooLong' = TRUE
  /\ UNCHANGED <<fields, timer, cancelled, wakers, task, source, forwarded, usageSeen,
                 unread, record>>

\* main cancels the shutdown token.
Cancel ==
  /\ ~cancelled
  /\ cancelled' = TRUE
  /\ Wake("shutdown")
  /\ UNCHANGED <<fields, timer, tooLong, wakers, source, forwarded, usageSeen, unread,
                 record>>

\* The connection takes the item and can take another.
ClientTakes ==
  /\ task = "sent"
  /\ task' = "scheduled"
  /\ UNCHANGED <<fields, clocks, wakers, source, forwarded, usageSeen, unread, record>>

\* The client is gone and hyper drops the body: Drop writes the record unless
\* the stream was done.
HangUp ==
  /\ task \in {"scheduled", "parked", "sent"}
  /\ task' = "over"
  /\ IF done THEN UNCHANGED <<status, tokens, record>> ELSE FinalizeLog("499")
  /\ UNCHANGED <<buf, scanned, done, total, clocks, wakers, source, forwarded, usageSeen,
                 unread>>

Poll ==
  \/ PollDone \/ PollTimesOut \/ PollPiece \/ PollBroken \/ PollShutdown \/ PollInner
  \/ ReadChunk \/ ReadError \/ ReadEof \/ ReadPending

\* The lifetime of the request and the shutdown token run before the stream
\* exists as well.
Outside == DurationPasses \/ Cancel

StreamNext ==
  \/ Poll
  \/ \E c \in Chunks : Arrive(c)
  \/ \E how \in {"eof", "error"} : UpstreamEnds(how)
  \/ TimerFires \/ ClientTakes \/ HangUp
=============================================================================
