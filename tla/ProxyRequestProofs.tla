--------------------------- MODULE ProxyRequestProofs ---------------------------
(***************************************************************************)
(* What holds of ProxyRequest, and of the stream it hands an answer to,    *)
(* for every way the upstream may cut its bytes into chunks and for every  *)
(* size of the buffer and of the answer.                                   *)
(***************************************************************************)
EXTENDS ProxyRequest, SequenceTheorems, WellFoundedInduction, TLAPS

CRLFs == <<"CR", "LF", "CR", "LF">>
LFs   == <<"LF", "LF">>

\* Where an event of the buffer ends, as offsets of the blank line.
Boundaries(b) == Occurrences(b, CRLFs, 0) \cup Occurrences(b, LFs, 0)

\* No boundary begins before the scan position, and that leaves out the last
\* three bytes: a boundary that a later chunk completes is not behind it.
ScanSound(b, s) ==
  /\ s \in Nat
  /\ s = 0 \/ s + 3 <= Len(b)
  /\ \A i \in Boundaries(b) : s <= i

\* What arrived has been read or waits to be.
Shape == TypeOK /\ total + Len(chunk) = received

\* The stream does not exist before the headers of the upstream's answer.
NotBegun ==
  phase # "streaming" =>
    /\ buf = <<>> /\ scanned = 0 /\ ~done /\ total = 0 /\ ~tokens
    /\ task = "scheduled" /\ inner = "open" /\ chunk = <<>> /\ received = 0
    /\ forwarded = 0 /\ ~usageSeen /\ unread = {}

\* Who is responsible for the record: nobody, then the guard, then the stream.
Responsible ==
  /\ phase \in {"checks", "resolve", "prepare"} => guard = "none" /\ ~blocked
  /\ phase \in {"execute", "errorbody", "body"} => guard = "armed" /\ ~blocked
  /\ phase = "errorbody" => streamed
  /\ phase = "streaming" => guard = "finalized" /\ ~blocked
  /\ ~Over => logged = NotLogged

\* Unless the stream has failed, what was read is forwarded or buffered, and it
\* is within the limit.
Bytes ==
  phase = "streaming" /\ logged.status # "502" =>
    /\ forwarded + Len(buf) = total
    /\ MaxBytes > 0 => total <= MaxBytes

\* The scan position is sound as long as anything is scanned, and a stream that
\* reads on, or waits, has nothing to hand on.
Scan ==
  /\ ~done => ScanSound(buf, scanned)
  /\ task \in {"reading", "parked"} =>
       ~done /\ FindEventBoundary(buf, 0) = 0 /\ Len(buf) <= MaxBuffer

\* The tokens that the next record will carry are those that were handed on, the
\* unread ones apart; no complete event is unread as long as the stream runs.
Accounted ==
  /\ tokens => usageSeen
  /\ usageSeen => tokens \/ unread # {}
  /\ "complete" \notin unread

Usage == phase = "streaming" /\ ~done /\ task # "over" => Accounted

Inv ==
  /\ Shape /\ NotBegun /\ Responsible /\ ExactlyOneRecord /\ RecordMatchesAnswer
  /\ Bytes /\ NoByteLost /\ Scan /\ Usage /\ ReportedUsageIsRecorded

-----------------------------------------------------------------------------
(* numbers *)

\* A non-empty set of natural numbers has a least element.
LEMMA Least ==
  ASSUME NEW T \in SUBSET Nat, T # {}
  PROVE  \E x \in T : \A y \in T : x <= y
<1> DEFINE R == {ss \in Nat \X Nat : ss[1] < ss[2]}
<1>1. IsWellFoundedOn(R, Nat)
  BY NatLessThanWellFounded DEF OpToRel
<1>2. \A x, y \in Nat : y < x => <<y, x>> \in R
  OBVIOUS
<1> HIDE DEF R
<1>3. PICK x \in T : \A y \in T : <<y, x>> \notin R
  BY <1>1, WFMin
<1>4. ASSUME NEW y \in T PROVE x <= y
  <2>1. x \in Nat /\ y \in Nat /\ ~(y < x)
    BY <1>2, <1>3
  <2>2. QED
    BY <2>1
<1>5. QED
  BY <1>3, <1>4

\* A non-empty set of numbers up to n has a greatest element.
LEMMA Greatest ==
  ASSUME NEW n \in Nat, NEW T \in SUBSET (1 .. n), T # {}
  PROVE  \E x \in T : \A y \in T : y <= x
<1> DEFINE U == {m \in Nat : \A y \in T : y <= m}
<1>1. PICK u \in U : \A v \in U : u <= v
  <2>1. U \in SUBSET Nat /\ n \in U
    OBVIOUS
  <2>2. QED
    BY <2>1, Least
<1>2. u \in T
  <2>1. SUFFICES ASSUME u \notin T PROVE FALSE
    OBVIOUS
  <2>2. \A y \in T : y \in 1 .. n /\ y <= u - 1 /\ u \in Nat
    BY <1>1, <2>1
  <2>3. PICK y \in T : TRUE
    OBVIOUS
  <2>4. u - 1 \in Nat
    BY <2>2, <2>3
  <2>5. u - 1 \in U
    BY <2>2, <2>4
  <2>6. QED
    BY <1>1, <2>4, <2>5
<1>3. QED
  BY <1>1, <1>2

-----------------------------------------------------------------------------
(* the buffer *)

\* find_event_boundary ends within the buffer, and returns 0 exactly when there
\* is no boundary at or after the scan position.
LEMMA BoundaryFacts ==
  ASSUME NEW b \in Seq(Byte), NEW s \in Nat
  PROVE  /\ FindEventBoundary(b, s) \in 0 .. Len(b)
         /\ FindEventBoundary(b, s) = 0 <=>
              Occurrences(b, CRLFs, s) = {} /\ Occurrences(b, LFs, s) = {}
<1> DEFINE First(offsets) == CHOOSE i \in offsets : \A j \in offsets : i <= j
           crlf == Occurrences(b, CRLFs, s)
           lf   == Occurrences(b, LFs, s)
<1>1. Len(b) \in Nat /\ Len(CRLFs) = 4 /\ Len(LFs) = 2
  BY DEF CRLFs, LFs
<1>2. /\ crlf \in SUBSET Nat /\ \A i \in crlf : i + 4 <= Len(b)
      /\ lf \in SUBSET Nat /\ \A i \in lf : i + 2 <= Len(b)
  BY <1>1 DEF Occurrences
<1>3. FindEventBoundary(b, s) =
        CASE crlf # {}            -> First(crlf) + 4
          [] crlf = {} /\ lf # {} -> First(lf) + 2
          [] OTHER                -> 0
  BY DEF FindEventBoundary, CRLFs, LFs
<1> HIDE DEF First, crlf, lf
<1>4. CASE crlf # {}
  <2>1. First(crlf) \in crlf
    <3>1. \E i \in crlf : \A j \in crlf : i <= j
      BY <1>2, <1>4, Least
    <3>2. QED
      BY <3>1 DEF First
  <2>2. First(crlf) \in Nat /\ First(crlf) + 4 <= Len(b)
    BY <1>2, <2>1
  <2>3. FindEventBoundary(b, s) = First(crlf) + 4
    BY <1>3, <1>4
  <2>4. FindEventBoundary(b, s) \in 0 .. Len(b) /\ FindEventBoundary(b, s) # 0
    BY <1>1, <2>2, <2>3
  <2>5. QED
    BY <1>4, <2>4 DEF crlf
<1>5. CASE crlf = {} /\ lf # {}
  <2>1. First(lf) \in lf
    <3>1. \E i \in lf : \A j \in lf : i <= j
      BY <1>2, <1>5, Least
    <3>2. QED
      BY <3>1 DEF First
  <2>2. First(lf) \in Nat /\ First(lf) + 2 <= Len(b)
    BY <1>2, <2>1
  <2>3. FindEventBoundary(b, s) = First(lf) + 2
    BY <1>3, <1>5
  <2>4. FindEventBoundary(b, s) \in 0 .. Len(b) /\ FindEventBoundary(b, s) # 0
    BY <1>1, <2>2, <2>3
  <2>5. QED
    BY <1>5, <2>4 DEF lf
<1>6. CASE crlf = {} /\ lf = {}
  <2>1. FindEventBoundary(b, s) = 0
    BY <1>3, <1>6
  <2>2. QED
    BY <1>1, <1>6, <2>1 DEF crlf, lf
<1>7. QED
  BY <1>4, <1>5, <1>6

\* force_split_oversized splits within the buffer.
LEMMA LastLineFacts ==
  ASSUME NEW b \in Seq(Byte)
  PROVE  LastLineEnd(b) \in 0 .. Len(b)
<1> DEFINE T == {i \in 1 .. Len(b) : b[i] = "LF"}
<1>1. Len(b) \in Nat /\ DOMAIN b = 1 .. Len(b)
  OBVIOUS
<1>2. CASE \E i \in DOMAIN b : b[i] = "LF"
  <2>1. T \in SUBSET (1 .. Len(b)) /\ T # {}
    BY <1>1, <1>2
  <2>2. PICK x \in T : \A y \in T : y <= x
    BY <1>1, <2>1, Greatest
  <2>3. x \in DOMAIN b /\ b[x] = "LF" /\ \A j \in (x + 1) .. Len(b) : b[j] # "LF"
    BY <1>1, <2>2
  <2>4. (CHOOSE i \in DOMAIN b : b[i] = "LF" /\ \A j \in (i + 1) .. Len(b) : b[j] # "LF")
          \in DOMAIN b
    BY <2>3
  <2>5. QED
    BY <1>1, <1>2, <2>4 DEF LastLineEnd
<1>3. CASE ~\E i \in DOMAIN b : b[i] = "LF"
  BY <1>1, <1>3 DEF LastLineEnd
<1>4. QED
  BY <1>2, <1>3

\* A piece of the buffer is no longer than the buffer; without a piece, and when
\* the buffer is not given up, it holds no boundary and is not oversized.
LEMMA PieceFacts ==
  ASSUME NEW b \in Seq(Byte), NEW s \in Nat
  PROVE  /\ NextPiece(b, s) \in 0 .. Len(b)
         /\ NextPiece(b, s) = 0 /\ ~Broken(b, s) =>
              FindEventBoundary(b, s) = 0 /\ Len(b) <= MaxBuffer
<1>1. /\ FindEventBoundary(b, s) \in 0 .. Len(b) /\ LastLineEnd(b) \in 0 .. Len(b)
      /\ Len(b) \in Nat
  BY BoundaryFacts, LastLineFacts
<1>2. QED
  BY <1>1, StreamAssumption DEF NextPiece, Broken

\* Where the rest of the scan finds nothing there is no boundary at all, and the
\* scan may go on three bytes before the end.
LEMMA ScanFacts ==
  ASSUME NEW b \in Seq(Byte), NEW s, ScanSound(b, s), FindEventBoundary(b, s) = 0
  PROVE  FindEventBoundary(b, 0) = 0 /\ ScanSound(b, ScannedTo(b))
<1>1. s \in Nat /\ Len(b) \in Nat
  BY DEF ScanSound
<1>2. Occurrences(b, CRLFs, s) = {} /\ Occurrences(b, LFs, s) = {}
  BY <1>1, BoundaryFacts
<1>3. Boundaries(b) = {}
  <2>1. ASSUME NEW i \in Occurrences(b, CRLFs, 0) PROVE FALSE
    <3>1. s <= i
      BY <2>1 DEF ScanSound, Boundaries
    <3>2. i \in Occurrences(b, CRLFs, s)
      BY <1>1, <2>1, <3>1 DEF Occurrences
    <3>3. QED
      BY <1>2, <3>2
  <2>2. ASSUME NEW i \in Occurrences(b, LFs, 0) PROVE FALSE
    <3>1. s <= i
      BY <2>2 DEF ScanSound, Boundaries
    <3>2. i \in Occurrences(b, LFs, s)
      BY <1>1, <2>2, <3>1 DEF Occurrences
    <3>3. QED
      BY <1>2, <3>2
  <2>3. QED
    BY <2>1, <2>2 DEF Boundaries
<1>4. FindEventBoundary(b, 0) = 0
  BY <1>3, BoundaryFacts DEF Boundaries
<1>5. ScanSound(b, ScannedTo(b))
  BY <1>1, <1>3 DEF ScanSound, ScannedTo
<1>6. QED
  BY <1>4, <1>5

\* A chunk that is appended completes no boundary before the scan position.
LEMMA AppendScan ==
  ASSUME NEW b \in Seq(Byte), NEW c \in Seq(Byte), NEW s, ScanSound(b, s)
  PROVE  ScanSound(b \o c, s)
<1>1. s \in Nat /\ Len(b) \in Nat /\ Len(c) \in Nat /\ Len(b \o c) = Len(b) + Len(c)
  BY DEF ScanSound
<1>2. Len(CRLFs) = 4 /\ Len(LFs) = 2
  BY DEF CRLFs, LFs
<1>3. ASSUME NEW i \in Nat, i < s, NEW n \in {2, 4}
      PROVE  i + n <= Len(b) /\ SubSeq(b \o c, i + 1, i + n) = SubSeq(b, i + 1, i + n)
  <2>1. i + 4 <= Len(b)
    BY <1>1, <1>3 DEF ScanSound
  <2>2. i + 1 \in 1 .. Len(b) /\ i + n \in 1 .. Len(b)
    BY <1>1, <2>1
  <2>3. QED
    BY <2>2, SubSeqOfConcat1
<1>4. ASSUME NEW i \in Occurrences(b \o c, CRLFs, 0) PROVE s <= i
  <2>1. SUFFICES ASSUME i < s PROVE FALSE
    BY <1>1 DEF Occurrences
  <2>2. i \in Nat /\ SubSeq(b \o c, i + 1, i + 4) = CRLFs
    BY <1>1, <1>2 DEF Occurrences
  <2>3. i + 4 <= Len(b) /\ SubSeq(b, i + 1, i + 4) = CRLFs
    BY <1>3, <2>1, <2>2
  <2>4. i \in Occurrences(b, CRLFs, 0)
    BY <1>1, <1>2, <2>2, <2>3 DEF Occurrences
  <2>5. QED
    BY <1>1, <2>1, <2>2, <2>4 DEF ScanSound, Boundaries
<1>5. ASSUME NEW i \in Occurrences(b \o c, LFs, 0) PROVE s <= i
  <2>1. SUFFICES ASSUME i < s PROVE FALSE
    BY <1>1 DEF Occurrences
  <2>2. i \in Nat /\ SubSeq(b \o c, i + 1, i + 2) = LFs
    BY <1>1, <1>2 DEF Occurrences
  <2>3. i + 2 <= Len(b) /\ SubSeq(b, i + 1, i + 2) = LFs
    BY <1>3, <2>1, <2>2
  <2>4. i \in Occurrences(b, LFs, 0)
    BY <1>1, <1>2, <2>2, <2>3 DEF Occurrences
  <2>5. QED
    BY <1>1, <2>1, <2>2, <2>4 DEF ScanSound, Boundaries
<1>6. s = 0 \/ s + 3 <= Len(b \o c)
  BY <1>1 DEF ScanSound
<1>7. QED
  BY <1>1, <1>4, <1>5, <1>6 DEF ScanSound, Boundaries

\* A scan from the beginning is sound.
LEMMA ScanFromStart ==
  ASSUME NEW b \in Seq(Byte)
  PROVE  ScanSound(b, 0)
<1>1. Len(b) \in Nat
  OBVIOUS
<1>2. \A i \in Boundaries(b) : i \in 0 .. Len(b)
  BY <1>1 DEF Boundaries, Occurrences
<1>3. QED
  BY <1>1, <1>2 DEF ScanSound

\* split_event takes a piece off the front of the buffer.
LEMMA SplitFacts ==
  ASSUME TypeOK, NEW b \in Seq(Byte), NEW n \in 0 .. Len(b), Split(b, n)
  PROVE  /\ buf' \in Seq(Byte) /\ Len(buf') = Len(b) - n
         /\ scanned' = 0 /\ task' = "sent" /\ forwarded' = forwarded + n
         /\ tokens' \in BOOLEAN /\ usageSeen' \in BOOLEAN /\ unread' \subseteq Unread
         /\ Accounted => Accounted'
<1>1. buf' = SubSeq(b, n + 1, Len(b)) /\ scanned' = 0 /\ task' = "sent"
  BY DEF Split
<1>2. buf' \in Seq(Byte) /\ Len(buf') = Len(b) - n
  BY <1>1
<1>3. forwarded' = forwarded + n
  BY DEF Split
<1> DEFINE u == ReportsUsage(SubSeq(b, 1, n))
           h == HasUsage(SubSeq(b, 1, n))
<1>4. /\ tokens' = (tokens \/ u) /\ usageSeen' = (usageSeen \/ h)
      /\ unread' = IF h /\ ~u THEN unread \cup {"not UTF-8"} ELSE unread
      /\ u => h
  BY Zenon DEF Split, SeeEvent, ReportsUsage
<1> HIDE DEF u, h
<1>5. tokens' \in BOOLEAN /\ usageSeen' \in BOOLEAN
  BY <1>4, Zenon
<1>6. unread' \subseteq Unread
  BY <1>4 DEF TypeOK, StreamTypes, Unread
<1>7. ASSUME Accounted PROVE Accounted'
  BY <1>4, <1>7 DEF Accounted
<1>8. QED
  BY <1>1, <1>2, <1>3, <1>5, <1>6, <1>7

\* A record of a status and a flag has the type of a record.
LEMMA RecordType ==
  ASSUME NEW st \in {"none", "200", "400", "408", "499", "502", "504", "upstream"},
         NEW u \in BOOLEAN
  PROVE  [status |-> st, usage |-> u] \in Records
  BY Zenon DEF Records

\* What WriteRecord writes is a record.
LEMMA WriteRecordFacts ==
  ASSUME records \in Nat,
         NEW st \in {"none", "200", "400", "408", "499", "502", "504", "upstream"},
         NEW u \in BOOLEAN, WriteRecord(st, u)
  PROVE  records' \in Nat /\ logged' \in Records
<1>1. records' = records + 1 /\ logged' = [status |-> st, usage |-> u]
  BY DEF WriteRecord
<1>2. [status |-> st, usage |-> u] \in Records
  BY RecordType
<1>3. QED
  BY <1>1, <1>2

\* finalize_log writes one record, with the tokens there are.
LEMMA FinalizeLogFacts ==
  ASSUME Shape, NEW st \in {"200", "502", "504", "499"}, FinalizeLog(st)
  PROVE  /\ records' = records + 1 /\ logged' \in Records
         /\ logged'.status = st /\ logged'.usage = tokens
         /\ tokens' = FALSE /\ status' = st
<1>1. /\ st \in {"none", "200", "400", "408", "499", "502", "504", "upstream"}
      /\ tokens \in BOOLEAN
  BY DEF Shape, TypeOK, StreamTypes
<1>2. /\ logged' = [status |-> st, usage |-> tokens] /\ records' = records + 1
      /\ tokens' = FALSE /\ status' = st
  BY DEF FinalizeLog
<1>3. logged' \in Records
  BY <1>1, <1>2, RecordType
<1>4. QED
  BY <1>2, <1>3

\* finalize_stream writes the record and hands on the rest of the buffer.
LEMMA FinalizeStreamFacts ==
  ASSUME Shape, NEW st \in {"200", "502", "504", "499"}, FinalizeStream(st)
  PROVE  /\ records' = records + 1 /\ logged' \in Records
         /\ logged'.status = st /\ logged'.usage = tokens
         /\ tokens' = FALSE /\ status' = st /\ done' = TRUE
         /\ buf' = <<>> /\ buf' \in Seq(Byte) /\ Len(buf') = 0
         /\ forwarded' = forwarded + Len(buf) /\ Len(buf) \in Nat
         /\ task' \in {"sent", "over"} /\ scanned' = scanned
         /\ usageSeen' \in BOOLEAN /\ unread' \subseteq Unread
<1>1. FinalizeLog(st) /\ buf \in Seq(Byte)
  BY DEF FinalizeStream, Shape, TypeOK, StreamTypes
<1>2. /\ records' = records + 1 /\ logged' \in Records
      /\ logged'.status = st /\ logged'.usage = tokens
      /\ tokens' = FALSE /\ status' = st
  BY <1>1, FinalizeLogFacts
<1>3. usageSeen' \in BOOLEAN
  BY Zenon DEF FinalizeStream, SeeRest
<1>4. unread' \subseteq Unread
  BY DEF FinalizeStream, SeeRest, Shape, TypeOK, StreamTypes, Unread
<1>5. QED
  BY <1>1, <1>2, <1>3, <1>4 DEF FinalizeStream

\* The record is written before the rest of the buffer is handed on, so usage in
\* the rest is unread; it holds a complete event only if a search would find one.
LEMMA FinalizeUsage ==
  ASSUME Shape, NEW st \in {"200", "502", "504", "499"}, FinalizeStream(st), Accounted
  PROVE  /\ logged'.usage => usageSeen'
         /\ usageSeen' => logged'.usage \/ unread' # {}
         /\ FindEventBoundary(buf, 0) = 0 => "complete" \notin unread'
         /\ logged'.status = st /\ done'
<1> DEFINE h == HasUsage(buf)
           found == FindEventBoundary(buf, 0) # 0
<1>1. /\ usageSeen' = (usageSeen \/ h)
      /\ unread' = IF ~h THEN unread
                   ELSE unread \cup {IF ~found THEN "unfinished" ELSE "complete"}
  BY DEF FinalizeStream, SeeRest
<1>2. logged'.usage = tokens /\ logged'.status = st /\ done'
  BY FinalizeStreamFacts
<1> HIDE DEF h, found
<1>3. /\ logged'.usage => usageSeen'
      /\ usageSeen' => logged'.usage \/ unread' # {}
      /\ ~found => "complete" \notin unread'
  BY <1>1, <1>2 DEF Accounted
<1>4. QED
  BY <1>2, <1>3 DEF found

\* fail_stream writes the record and ends the stream.
LEMMA FailStreamFacts ==
  ASSUME Shape, NEW b, FailStream(b, "502")
  PROVE  /\ records' = records + 1 /\ logged' \in Records
         /\ logged'.status = "502" /\ logged'.usage = tokens
         /\ tokens' = FALSE /\ status' = "502" /\ done' = TRUE
         /\ buf' = b /\ task' = "over"
         /\ scanned' = scanned /\ UNCHANGED <<usageSeen, unread, forwarded>>
<1>1. FinalizeLog("502")
  BY DEF FailStream
<1>2. QED
  BY <1>1, FinalizeLogFacts DEF FailStream

\* What a chunk adds to the buffer.
LEMMA ChunkFacts ==
  ASSUME Shape, chunk # <<>>
  PROVE  /\ buf \o chunk \in Seq(Byte) /\ Len(buf \o chunk) = Len(buf) + Len(chunk)
         /\ chunk \in Seq(Byte) /\ Len(chunk) \in Nat /\ Len(buf) \in Nat /\ total \in Nat
<1>1. buf \in Seq(Byte) /\ chunk \in Seq(Byte) /\ total \in Nat
  BY StreamAssumption DEF Shape, TypeOK, StreamTypes
<1>2. QED
  BY <1>1

\* The steps of proxy_request itself leave the stream alone.
LEMMA RequestFrame ==
  ASSUME RequestStep
  PROVE  UNCHANGED streamOnly /\ phase # "streaming"
  BY DEF RequestStep, Refuse, DlpBlocks, PassChecks, Resolve, Prepare, ExecuteFails,
     BodyFails,
     PlainHeaders, ErrorHeaders, StreamHeaders, ErrorBodyRead, ErrorBodyTimesOut, BodyRead,
     HangUpEarly, streamOnly, streamVars

-----------------------------------------------------------------------------
(* Inv is inductive *)

\* The initial state satisfies the invariant.
LEMMA InitInv == Init => Inv
<1> SUFFICES ASSUME Init PROVE Inv
  OBVIOUS
<1> USE DEF Init, StreamInit
<1>1. buf \in Seq(Byte) /\ Len(buf) = 0 /\ Len(chunk) = 0
  OBVIOUS
<1>2. logged = [status |-> "none", usage |-> FALSE]
  BY DEF NotLogged
<1>3. Shape
  <2>1. logged \in Records
    BY <1>2, RecordType
  <2>2. /\ scanned \in Nat /\ total \in Nat /\ forwarded \in Nat
        /\ received \in 0 .. MaxInput /\ total <= received
    BY StreamAssumption
  <2>3. StreamTypes
    BY <1>1, <2>2, Zenon DEF StreamTypes
  <2>4. records \in Nat /\ total + Len(chunk) = received
    BY <1>1
  <2>5. phase \in Phases
    BY DEF Phases
  <2>6. QED
    BY <2>1, <2>3, <2>4, <2>5, Zenon DEF Shape, TypeOK
<1>4. NotBegun /\ Responsible /\ ExactlyOneRecord /\ RecordMatchesAnswer
  BY DEF NotBegun, Responsible, ExactlyOneRecord, RecordMatchesAnswer, Over
<1>5. Bytes /\ NoByteLost /\ Usage /\ ReportedUsageIsRecorded
  BY <1>1, StreamAssumption DEF Bytes, NoByteLost, Usage, ReportedUsageIsRecorded
<1>6. Scan
  BY <1>1, ScanFromStart DEF Scan
<1>7. QED
  BY <1>3, <1>4, <1>5, <1>6 DEF Inv

\* Every step keeps the types of the stream, and counts what arrived.
LEMMA StreamTypesStep ==
  ASSUME Inv, [Next]_vars
  PROVE  StreamTypes' /\ total' + Len(chunk') = received'
<1> DEFINE Goal == StreamTypes /\ total + Len(chunk) = received
<1>0. Shape /\ StreamAssumption
  BY StreamAssumption DEF Inv
<1> SUFFICES Goal'
  OBVIOUS
<1>1. ASSUME RequestStep PROVE Goal'
  <2>1. UNCHANGED <<fields, clocks, wakers, source, task, forwarded, usageSeen, unread>>
    BY <1>1, RequestFrame DEF streamOnly
  <2>2. QED
    BY <1>0, <2>1 DEF Shape, TypeOK, StreamTypes, fields, clocks, source
<1>2. ASSUME phase = "streaming", PollDone, UNCHANGED requestVars PROVE Goal'
  BY <1>0, <1>2 DEF PollDone, fields, clocks, source, record, requestVars, Shape,
     TypeOK, StreamTypes, StreamAssumption, ScannedTo
<1>3. ASSUME phase = "streaming", PollTimesOut, UNCHANGED requestVars PROVE Goal'
  <2>1. /\ records' = records + 1 /\ logged' \in Records
        /\ logged'.status = "504" /\ logged'.usage = tokens
        /\ tokens' = FALSE /\ status' = "504" /\ done' = TRUE
        /\ buf' = <<>> /\ buf' \in Seq(Byte) /\ Len(buf') = 0
        /\ forwarded' = forwarded + Len(buf) /\ Len(buf) \in Nat
        /\ task' \in {"sent", "over"} /\ scanned' = scanned
        /\ usageSeen' \in BOOLEAN /\ unread' \subseteq Unread
    BY <1>0, <1>3, FinalizeStreamFacts DEF PollTimesOut
  <2>2. /\ scanned' \in Nat /\ total' \in Nat /\ forwarded' \in Nat
        /\ received' \in 0 .. MaxInput /\ total' <= received'
        /\ total' + Len(chunk') = received'
    BY <1>0, <1>3, <2>1 DEF PollTimesOut, Shape, TypeOK, StreamTypes, source, fields
  <2>3. StreamTypes'
    BY <1>0, <1>3, <2>1, <2>2, Zenon
    DEF PollTimesOut, Shape, TypeOK, StreamTypes, clocks, source, fields
  <2>4. QED
    BY <2>2, <2>3
<1>4. ASSUME phase = "streaming", PollPiece, UNCHANGED requestVars PROVE Goal'
  <2>1. buf \in Seq(Byte) /\ scanned \in Nat
    BY <1>0 DEF Shape, TypeOK, StreamTypes
  <2>2. NextPiece(buf, scanned) \in 0 .. Len(buf)
    BY <2>1, PieceFacts
  <2>3. /\ buf' \in Seq(Byte) /\ scanned' = 0 /\ task' = "sent"
        /\ tokens' \in BOOLEAN /\ usageSeen' \in BOOLEAN /\ unread' \subseteq Unread
        /\ forwarded' = forwarded + NextPiece(buf, scanned)
    BY <1>0, <1>4, <2>1, <2>2, SplitFacts DEF PollPiece, Shape
  <2>4. /\ scanned' \in Nat /\ total' \in Nat /\ forwarded' \in Nat
        /\ received' \in 0 .. MaxInput /\ total' <= received'
        /\ total' + Len(chunk') = received'
    BY <1>0, <1>4, <2>1, <2>2, <2>3 DEF PollPiece, Shape, TypeOK, StreamTypes, source,
       fields
  <2>5. StreamTypes'
    BY <1>0, <1>4, <2>3, <2>4, Zenon
    DEF PollPiece, Shape, TypeOK, StreamTypes, clocks, source
  <2>6. QED
    BY <2>4, <2>5
<1>5. ASSUME phase = "streaming", PollBroken, UNCHANGED requestVars PROVE Goal'
  <2>1. /\ records' = records + 1 /\ logged' \in Records
        /\ logged'.status = "502" /\ logged'.usage = tokens
        /\ tokens' = FALSE /\ status' = "502" /\ done' = TRUE
        /\ buf' = buf /\ task' = "over"
        /\ scanned' = scanned /\ UNCHANGED <<usageSeen, unread, forwarded>>
    BY <1>0, <1>5, FailStreamFacts DEF PollBroken
  <2>2. /\ scanned' \in Nat /\ total' \in Nat /\ forwarded' \in Nat
        /\ received' \in 0 .. MaxInput /\ total' <= received'
        /\ total' + Len(chunk') = received'
    BY <1>0, <1>5, <2>1 DEF PollBroken, Shape, TypeOK, StreamTypes, source, fields
  <2>3. StreamTypes'
    BY <1>0, <1>5, <2>1, <2>2, Zenon
    DEF PollBroken, Shape, TypeOK, StreamTypes, clocks, source, fields
  <2>4. QED
    BY <2>2, <2>3
<1>6. ASSUME phase = "streaming", PollShutdown, UNCHANGED requestVars PROVE Goal'
  <2>1. status \in {"200", "502", "504", "499"}
    BY <1>0 DEF Shape, TypeOK, StreamTypes
  <2>2. /\ records' = records + 1 /\ logged' \in Records
        /\ logged'.status = status /\ logged'.usage = tokens
        /\ tokens' = FALSE /\ status' = status /\ done' = TRUE
        /\ buf' = <<>> /\ buf' \in Seq(Byte) /\ Len(buf') = 0
        /\ forwarded' = forwarded + Len(buf) /\ Len(buf) \in Nat
        /\ task' \in {"sent", "over"} /\ scanned' = scanned
        /\ usageSeen' \in BOOLEAN /\ unread' \subseteq Unread
    BY <1>0, <1>6, <2>1, FinalizeStreamFacts DEF PollShutdown
  <2>3. /\ scanned' \in Nat /\ total' \in Nat /\ forwarded' \in Nat
        /\ received' \in 0 .. MaxInput /\ total' <= received'
        /\ total' + Len(chunk') = received'
    BY <1>0, <1>6, <2>2 DEF PollShutdown, Shape, TypeOK, StreamTypes, source, fields
  <2>4. StreamTypes'
    BY <1>0, <1>6, <2>2, <2>3, <2>1, Zenon
    DEF PollShutdown, Shape, TypeOK, StreamTypes, clocks, source, fields
  <2>5. QED
    BY <2>3, <2>4
<1>7. ASSUME phase = "streaming", PollInner, UNCHANGED requestVars PROVE Goal'
  BY <1>0, <1>7 DEF PollInner, fields, clocks, source, record, requestVars, Shape,
     TypeOK, StreamTypes, StreamAssumption, ScannedTo
<1>8. ASSUME phase = "streaming", ReadChunk, UNCHANGED requestVars PROVE Goal'
  <2>1. /\ buf \o chunk \in Seq(Byte) /\ Len(buf \o chunk) = Len(buf) + Len(chunk)
        /\ chunk \in Seq(Byte) /\ Len(chunk) \in Nat /\ Len(buf) \in Nat /\ total \in Nat
    BY <1>0, <1>8, ChunkFacts DEF ReadChunk
  <2>2. /\ total' \in Nat /\ received' \in 0 .. MaxInput /\ total' <= received'
        /\ total' + Len(chunk') = received' /\ chunk' = <<>>
    BY <1>0, <1>8, <2>1 DEF ReadChunk, Shape, TypeOK, StreamTypes
  <2>3. /\ scanned \in Nat /\ forwarded \in Nat /\ buf \in Seq(Byte)
        /\ NextPiece(buf \o chunk, scanned) \in 0 .. Len(buf \o chunk)
        /\ ScannedTo(buf \o chunk) \in Nat
    <3>1. scanned \in Nat /\ forwarded \in Nat /\ buf \in Seq(Byte)
      BY <1>0 DEF Shape, TypeOK, StreamTypes
    <3>2. NextPiece(buf \o chunk, scanned) \in 0 .. Len(buf \o chunk)
      BY <2>1, <3>1, PieceFacts
    <3>3. ScannedTo(buf \o chunk) \in Nat
      BY <2>1 DEF ScannedTo
    <3>4. QED
      BY <3>1, <3>2, <3>3
  <2>4. ASSUME NEW b \in Seq(Byte), FailStream(b, "502") PROVE StreamTypes'
    <3>1. /\ tokens' = FALSE /\ status' = "502" /\ done' = TRUE
          /\ buf' = b /\ task' = "over"
          /\ scanned' = scanned /\ UNCHANGED <<usageSeen, unread, forwarded>>
      BY <1>0, <2>4, FailStreamFacts
    <3>2. QED
      BY <1>0, <1>8, <2>2, <2>4, <3>1, Zenon DEF ReadChunk, Shape, TypeOK, StreamTypes
  <2>5. ASSUME Split(buf \o chunk, NextPiece(buf \o chunk, scanned)),
               UNCHANGED <<done, status, record>>
        PROVE  StreamTypes'
    <3>1. /\ buf' \in Seq(Byte) /\ scanned' = 0 /\ task' = "sent"
          /\ tokens' \in BOOLEAN /\ usageSeen' \in BOOLEAN /\ unread' \subseteq Unread
          /\ forwarded' = forwarded + NextPiece(buf \o chunk, scanned)
      BY <1>0, <2>1, <2>3, <2>5, SplitFacts DEF Shape
    <3>2. scanned' \in Nat /\ forwarded' \in Nat
      BY <2>1, <2>3, <3>1
    <3>3. QED
      BY <1>0, <1>8, <2>2, <2>5, <3>1, <3>2, Zenon DEF ReadChunk, Shape, TypeOK,
         StreamTypes
  <2>6. ASSUME buf' = buf \o chunk, scanned' = ScannedTo(buf \o chunk),
               UNCHANGED <<done, tokens, status, task, forwarded, usageSeen, unread, record>>
        PROVE  StreamTypes'
    BY <1>0, <1>8, <2>1, <2>2, <2>3, <2>6, Zenon DEF ReadChunk, Shape, TypeOK,
       StreamTypes
  <2>7. StreamTypes'
    BY <1>8, <2>1, <2>3, <2>4, <2>5, <2>6 DEF ReadChunk
  <2>8. QED
    BY <2>2, <2>7
<1>9. ASSUME phase = "streaming", ReadError, UNCHANGED requestVars PROVE Goal'
  <2>1. status \in {"200", "502", "504", "499"}
    BY <1>0 DEF Shape, TypeOK, StreamTypes
  <2>2. /\ records' = records + 1 /\ logged' \in Records
        /\ logged'.status = status /\ logged'.usage = tokens
        /\ tokens' = FALSE /\ status' = status
    BY <1>0, <1>9, <2>1, FinalizeLogFacts DEF ReadError
  <2>3. /\ scanned' \in Nat /\ total' \in Nat /\ forwarded' \in Nat
        /\ received' \in 0 .. MaxInput /\ total' <= received'
        /\ total' + Len(chunk') = received'
    BY <1>0, <1>9, <2>2 DEF ReadError, Shape, TypeOK, StreamTypes, source, fields
  <2>4. StreamTypes'
    BY <1>0, <1>9, <2>2, <2>3, <2>1, Zenon
    DEF ReadError, Shape, TypeOK, StreamTypes, clocks, source, fields
  <2>5. QED
    BY <2>3, <2>4
<1>10. ASSUME phase = "streaming", ReadEof, UNCHANGED requestVars PROVE Goal'
  <2>1. status \in {"200", "502", "504", "499"}
    BY <1>0 DEF Shape, TypeOK, StreamTypes
  <2>2. /\ records' = records + 1 /\ logged' \in Records
        /\ logged'.status = status /\ logged'.usage = tokens
        /\ tokens' = FALSE /\ status' = status /\ done' = TRUE
        /\ buf' = <<>> /\ buf' \in Seq(Byte) /\ Len(buf') = 0
        /\ forwarded' = forwarded + Len(buf) /\ Len(buf) \in Nat
        /\ task' \in {"sent", "over"} /\ scanned' = scanned
        /\ usageSeen' \in BOOLEAN /\ unread' \subseteq Unread
    BY <1>0, <1>10, <2>1, FinalizeStreamFacts DEF ReadEof
  <2>3. /\ scanned' \in Nat /\ total' \in Nat /\ forwarded' \in Nat
        /\ received' \in 0 .. MaxInput /\ total' <= received'
        /\ total' + Len(chunk') = received'
    BY <1>0, <1>10, <2>2 DEF ReadEof, Shape, TypeOK, StreamTypes, source, fields
  <2>4. StreamTypes'
    BY <1>0, <1>10, <2>2, <2>3, <2>1, Zenon
    DEF ReadEof, Shape, TypeOK, StreamTypes, clocks, source, fields
  <2>5. QED
    BY <2>3, <2>4
<1>11. ASSUME phase = "streaming", ReadPending, UNCHANGED requestVars PROVE Goal'
  BY <1>0, <1>11 DEF ReadPending, fields, clocks, source, record, requestVars,
     Shape, TypeOK, StreamTypes, StreamAssumption, ScannedTo
<1>12. ASSUME NEW c \in Chunks, phase = "streaming", Arrive(c), UNCHANGED requestVars
       PROVE  Goal'
  BY <1>0, <1>12 DEF Arrive, Wake, fields, clocks, source, record, requestVars,
     Shape, TypeOK, StreamTypes, StreamAssumption, ScannedTo
<1>13. ASSUME NEW how \in {"eof",
              "error"}, phase = "streaming", UpstreamEnds(how), UNCHANGED requestVars
       PROVE  Goal'
  BY <1>0, <1>13 DEF UpstreamEnds, Wake, fields, clocks, source, record,
     requestVars, Shape, TypeOK, StreamTypes, StreamAssumption, ScannedTo
<1>14. ASSUME phase = "streaming", TimerFires, UNCHANGED requestVars PROVE Goal'
  BY <1>0, <1>14 DEF TimerFires, Wake, fields, clocks, source, record, requestVars,
     Shape, TypeOK, StreamTypes, StreamAssumption, ScannedTo
<1>15. ASSUME phase = "streaming", ClientTakes, UNCHANGED requestVars PROVE Goal'
  BY <1>0, <1>15 DEF ClientTakes, fields, clocks, source, record, requestVars,
     Shape, TypeOK, StreamTypes, StreamAssumption, ScannedTo
<1>16. ASSUME phase = "streaming", HangUp, UNCHANGED requestVars PROVE Goal'
  <2>1. /\ scanned' \in Nat /\ total' \in Nat /\ forwarded' \in Nat
        /\ received' \in 0 .. MaxInput /\ total' <= received'
        /\ total' + Len(chunk') = received'
    BY <1>0, <1>16 DEF HangUp, Shape, TypeOK, StreamTypes, source, fields
  <2>2. tokens' \in BOOLEAN /\ status' \in {"200", "502", "504", "499"}
    BY <1>0, <1>16 DEF HangUp, FinalizeLog, Shape, TypeOK, StreamTypes
  <2>3. StreamTypes'
    BY <1>0, <1>16, <2>1, <2>2, Zenon DEF HangUp, Shape, TypeOK, StreamTypes, clocks,
       source
  <2>4. QED
    BY <2>1, <2>3
<1>17. ASSUME DurationPasses, UNCHANGED requestVars PROVE Goal'
  BY <1>0, <1>17 DEF DurationPasses, fields, clocks, source, record, requestVars,
     Shape, TypeOK, StreamTypes, StreamAssumption, ScannedTo
<1>18. ASSUME Cancel, UNCHANGED requestVars PROVE Goal'
  BY <1>0, <1>18 DEF Cancel, Wake, fields, clocks, source, record, requestVars,
     Shape, TypeOK, StreamTypes, StreamAssumption, ScannedTo
<1>19. CASE UNCHANGED vars
  BY <1>0, <1>19 DEF vars, streamVars, fields, clocks, source, record, requestVars,
     Shape, TypeOK, StreamTypes
<1>20. QED
  BY <1>1, <1>2, <1>3, <1>4, <1>5, <1>6, <1>7, <1>8, <1>9, <1>10, <1>11, <1>12,
     <1>13, <1>14, <1>15, <1>16, <1>17, <1>18, <1>19 DEF Next, Streaming,
     StreamNext, Poll, Outside

\* Every step keeps the type of the record.
LEMMA RecordStep ==
  ASSUME Inv, [Next]_vars
  PROVE  records' \in Nat /\ logged' \in Records
<1> DEFINE Goal == records \in Nat /\ logged \in Records
<1>0. Shape /\ records \in Nat /\ logged \in Records
  BY DEF Inv, Shape, TypeOK
<1> SUFFICES Goal'
  OBVIOUS
<1>1. ASSUME RequestStep PROVE Goal'
  <2>1. ASSUME Refuse PROVE Goal'
    BY <1>0, <2>1 DEF Refuse, WriteRecord, Answer, streamVars, record
  <2>2. ASSUME DlpBlocks PROVE Goal'
    <3>1. WriteRecord("400", FALSE)
      BY <2>2 DEF DlpBlocks, Finalize
    <3>2. QED
      BY <1>0, <3>1, WriteRecordFacts
  <2>3. ASSUME PassChecks PROVE Goal'
    BY <1>0, <2>3 DEF PassChecks, WriteRecord, Answer, streamVars, record
  <2>4. ASSUME Resolve PROVE Goal'
    BY <1>0, <2>4 DEF Resolve, WriteRecord, Answer, streamVars, record
  <2>5. ASSUME Prepare PROVE Goal'
    BY <1>0, <2>5 DEF Prepare, WriteRecord, Answer, streamVars, record
  <2>6. ASSUME NEW st \in {"502", "408"}, ExecuteFails(st) PROVE Goal'
    <3>1. WriteRecord(st, FALSE)
      BY <2>6 DEF ExecuteFails, Finalize
    <3>2. QED
      BY <1>0, <3>1, WriteRecordFacts
  <2>7. ASSUME NEW st \in {"502", "408"}, BodyFails(st) PROVE Goal'
    <3>1. WriteRecord(st, FALSE)
      BY <2>7 DEF BodyFails, Finalize
    <3>2. QED
      BY <1>0, <3>1, WriteRecordFacts
  <2>8. ASSUME PlainHeaders PROVE Goal'
    BY <1>0, <2>8 DEF PlainHeaders, WriteRecord, Answer, streamVars, record
  <2>9. ASSUME ErrorHeaders PROVE Goal'
    BY <1>0, <2>9 DEF ErrorHeaders, WriteRecord, Answer, streamVars, record
  <2>10. ASSUME StreamHeaders PROVE Goal'
    BY <1>0, <2>10 DEF StreamHeaders, WriteRecord, Answer, streamVars, record
  <2>11. ASSUME ErrorBodyRead PROVE Goal'
    <3>1. WriteRecord("upstream", FALSE)
      BY <2>11 DEF ErrorBodyRead, Finalize
    <3>2. QED
      BY <1>0, <3>1, WriteRecordFacts
  <2>12. ASSUME ErrorBodyTimesOut PROVE Goal'
    <3>1. WriteRecord("499", FALSE)
      BY <2>12 DEF ErrorBodyTimesOut, Finalize
    <3>2. QED
      BY <1>0, <3>1, WriteRecordFacts
  <2>13. ASSUME BodyRead PROVE Goal'
    <3>1. PICK st \in {"200", "upstream"}, u \in BOOLEAN : WriteRecord(st, u)
      BY <2>13 DEF BodyRead, Finalize
    <3>2. QED
      BY <1>0, <3>1, WriteRecordFacts
  <2>14. ASSUME HangUpEarly PROVE Goal'
    <3>1. CASE guard = "armed"
      <4>1. WriteRecord("499", FALSE)
        BY <2>14, <3>1 DEF HangUpEarly
      <4>2. QED
        BY <1>0, <4>1, WriteRecordFacts
    <3>2. CASE guard # "armed"
      BY <1>0, <2>14, <3>2 DEF HangUpEarly, record
    <3>3. QED
      BY <3>1, <3>2
  <2>15. QED
    BY <1>1, <2>1, <2>2, <2>3, <2>4, <2>5, <2>6, <2>7, <2>8, <2>9, <2>10, <2>11,
       <2>12, <2>13, <2>14 DEF RequestStep
<1>2. ASSUME phase = "streaming", PollDone, UNCHANGED requestVars PROVE Goal'
  BY <1>0, <1>2 DEF PollDone, fields, clocks, source, record, requestVars
<1>3. ASSUME phase = "streaming", PollTimesOut, UNCHANGED requestVars PROVE Goal'
  <2>1. /\ records' = records + 1 /\ logged' \in Records
      /\ logged'.status = "504" /\ logged'.usage = tokens
      /\ tokens' = FALSE /\ status' = "504" /\ done' = TRUE
      /\ buf' = <<>> /\ buf' \in Seq(Byte) /\ Len(buf') = 0
      /\ forwarded' = forwarded + Len(buf) /\ Len(buf) \in Nat
      /\ task' \in {"sent", "over"} /\ scanned' = scanned
      /\ usageSeen' \in BOOLEAN /\ unread' \subseteq Unread
    BY <1>0, <1>3, FinalizeStreamFacts DEF PollTimesOut
  <2>2. QED
    BY <1>0, <1>3, <2>1 DEF PollTimesOut, fields, clocks, source, record,
       requestVars
<1>4. ASSUME phase = "streaming", PollPiece, UNCHANGED requestVars PROVE Goal'
  BY <1>0, <1>4 DEF PollPiece, fields, clocks, source, record, requestVars
<1>5. ASSUME phase = "streaming", PollBroken, UNCHANGED requestVars PROVE Goal'
  <2>1. /\ records' = records + 1 /\ logged' \in Records
      /\ logged'.status = "502" /\ logged'.usage = tokens
      /\ tokens' = FALSE /\ status' = "502" /\ done' = TRUE
      /\ buf' = buf /\ task' = "over"
      /\ scanned' = scanned /\ UNCHANGED <<usageSeen, unread, forwarded>>
    BY <1>0, <1>5, FailStreamFacts DEF PollBroken
  <2>2. QED
    BY <1>0, <1>5, <2>1 DEF PollBroken, fields, clocks, source, record, requestVars
<1>6. ASSUME phase = "streaming", PollShutdown, UNCHANGED requestVars PROVE Goal'
  <2>1. status \in {"200", "502", "504", "499"}
    BY <1>0 DEF Shape, TypeOK, StreamTypes
  <2>2. /\ records' = records + 1 /\ logged' \in Records
      /\ logged'.status = status /\ logged'.usage = tokens
      /\ tokens' = FALSE /\ status' = status /\ done' = TRUE
      /\ buf' = <<>> /\ buf' \in Seq(Byte) /\ Len(buf') = 0
      /\ forwarded' = forwarded + Len(buf) /\ Len(buf) \in Nat
      /\ task' \in {"sent", "over"} /\ scanned' = scanned
      /\ usageSeen' \in BOOLEAN /\ unread' \subseteq Unread
    BY <1>0, <1>6, <2>1, FinalizeStreamFacts DEF PollShutdown
  <2>3. QED
    BY <1>0, <1>6, <2>1, <2>2 DEF PollShutdown, fields, clocks, source, record,
       requestVars
<1>7. ASSUME phase = "streaming", PollInner, UNCHANGED requestVars PROVE Goal'
  BY <1>0, <1>7 DEF PollInner, fields, clocks, source, record, requestVars
<1>8. ASSUME phase = "streaming", ReadChunk, UNCHANGED requestVars PROVE Goal'
  <2>1. CASE UNCHANGED record
    BY <1>0, <2>1 DEF record
  <2>2. ASSUME NEW b, FailStream(b, "502") PROVE Goal'
    <3>1. records' = records + 1 /\ logged' \in Records
      BY <1>0, <2>2, FailStreamFacts
    <3>2. QED
      BY <1>0, <3>1
  <2>3. QED
    BY <1>8, <2>1, <2>2 DEF ReadChunk, record
<1>9. ASSUME phase = "streaming", ReadError, UNCHANGED requestVars PROVE Goal'
  <2>1. status \in {"200", "502", "504", "499"}
    BY <1>0 DEF Shape, TypeOK, StreamTypes
  <2>2. /\ records' = records + 1 /\ logged' \in Records
      /\ logged'.status = status /\ logged'.usage = tokens
      /\ tokens' = FALSE /\ status' = status
    BY <1>0, <1>9, <2>1, FinalizeLogFacts DEF ReadError
  <2>3. QED
    BY <1>0, <1>9, <2>1, <2>2 DEF ReadError, fields, clocks, source, record,
       requestVars
<1>10. ASSUME phase = "streaming", ReadEof, UNCHANGED requestVars PROVE Goal'
  <2>1. status \in {"200", "502", "504", "499"}
    BY <1>0 DEF Shape, TypeOK, StreamTypes
  <2>2. /\ records' = records + 1 /\ logged' \in Records
      /\ logged'.status = status /\ logged'.usage = tokens
      /\ tokens' = FALSE /\ status' = status /\ done' = TRUE
      /\ buf' = <<>> /\ buf' \in Seq(Byte) /\ Len(buf') = 0
      /\ forwarded' = forwarded + Len(buf) /\ Len(buf) \in Nat
      /\ task' \in {"sent", "over"} /\ scanned' = scanned
      /\ usageSeen' \in BOOLEAN /\ unread' \subseteq Unread
    BY <1>0, <1>10, <2>1, FinalizeStreamFacts DEF ReadEof
  <2>3. QED
    BY <1>0, <1>10, <2>1, <2>2 DEF ReadEof, fields, clocks, source, record,
       requestVars
<1>11. ASSUME phase = "streaming", ReadPending, UNCHANGED requestVars PROVE Goal'
  BY <1>0, <1>11 DEF ReadPending, fields, clocks, source, record, requestVars
<1>12. ASSUME NEW c \in Chunks, phase = "streaming", Arrive(c), UNCHANGED requestVars
       PROVE  Goal'
  BY <1>0, <1>12 DEF Arrive, Wake, fields, clocks, source, record, requestVars
<1>13. ASSUME NEW how \in {"eof",
              "error"}, phase = "streaming", UpstreamEnds(how), UNCHANGED requestVars
       PROVE  Goal'
  BY <1>0, <1>13 DEF UpstreamEnds, Wake, fields, clocks, source, record, requestVars
<1>14. ASSUME phase = "streaming", TimerFires, UNCHANGED requestVars PROVE Goal'
  BY <1>0, <1>14 DEF TimerFires, Wake, fields, clocks, source, record, requestVars
<1>15. ASSUME phase = "streaming", ClientTakes, UNCHANGED requestVars PROVE Goal'
  BY <1>0, <1>15 DEF ClientTakes, fields, clocks, source, record, requestVars
<1>16. ASSUME phase = "streaming", HangUp, UNCHANGED requestVars PROVE Goal'
  <2>1. CASE done
    BY <1>0, <1>16, <2>1 DEF HangUp, fields, clocks, source, record, requestVars
  <2>2. CASE ~done
    <3>1. /\ records' = records + 1 /\ logged' \in Records
        /\ logged'.status = "499" /\ logged'.usage = tokens
        /\ tokens' = FALSE /\ status' = "499"
      BY <1>0, <1>16, <2>2, FinalizeLogFacts DEF HangUp
    <3>2. QED
      BY <1>0, <1>16, <2>2, <3>1 DEF HangUp, fields, clocks, source, record,
         requestVars
  <2>3. QED
    BY <2>1, <2>2
<1>17. ASSUME DurationPasses, UNCHANGED requestVars PROVE Goal'
  BY <1>0, <1>17 DEF DurationPasses, fields, clocks, source, record, requestVars
<1>18. ASSUME Cancel, UNCHANGED requestVars PROVE Goal'
  BY <1>0, <1>18 DEF Cancel, Wake, fields, clocks, source, record, requestVars
<1>19. CASE UNCHANGED vars
  BY <1>0, <1>19 DEF vars, streamVars, fields, clocks, source, record, requestVars
<1>20. QED
  BY <1>1, <1>2, <1>3, <1>4, <1>5, <1>6, <1>7, <1>8, <1>9, <1>10, <1>11, <1>12,
     <1>13, <1>14, <1>15, <1>16, <1>17, <1>18, <1>19 DEF Next, Streaming,
     StreamNext, Poll, Outside

\* Every step keeps the types of the request.
LEMMA ShapeStep ==
  ASSUME Inv, [Next]_vars
  PROVE  Shape'
<1> DEFINE Goal ==
      /\ phase \in Phases
      /\ streamed \in BOOLEAN
      /\ guard \in {"none", "armed", "finalized"}
      /\ healthy \in BOOLEAN /\ blocked \in BOOLEAN
      /\ answer \in {"none", "200", "400", "408", "502", "upstream", "refused"}
<1>0. Goal
  BY DEF Inv, Shape, TypeOK
<1> SUFFICES Goal'
  BY StreamTypesStep, RecordStep, Zenon DEF Shape, TypeOK
<1>1. ASSUME RequestStep PROVE Goal'
  <2>1. ASSUME Refuse PROVE Goal'
    BY <1>0, <2>1 DEF Refuse, Answer, Phases, streamVars
  <2>2. ASSUME DlpBlocks PROVE Goal'
    BY <1>0, <2>2 DEF DlpBlocks, Answer, Phases, streamVars
  <2>3. ASSUME PassChecks PROVE Goal'
    BY <1>0, <2>3 DEF PassChecks, Answer, Phases, streamVars
  <2>4. ASSUME Resolve PROVE Goal'
    BY <1>0, <2>4 DEF Resolve, Answer, Phases, streamVars
  <2>5. ASSUME Prepare PROVE Goal'
    BY <1>0, <2>5 DEF Prepare, Answer, Phases, streamVars
  <2>6. ASSUME NEW st \in {"502", "408"}, ExecuteFails(st) PROVE Goal'
    BY <1>0, <2>6 DEF ExecuteFails, Finalize, Answer, Phases, streamVars
  <2>7. ASSUME NEW st \in {"502", "408"}, BodyFails(st) PROVE Goal'
    BY <1>0, <2>7 DEF BodyFails, Finalize, Answer, Phases, streamVars
  <2>8. ASSUME PlainHeaders PROVE Goal'
    BY <1>0, <2>8 DEF PlainHeaders, Answer, Phases, streamVars
  <2>9. ASSUME ErrorHeaders PROVE Goal'
    BY <1>0, <2>9 DEF ErrorHeaders, Answer, Phases, streamVars
  <2>10. ASSUME StreamHeaders PROVE Goal'
    BY <1>0, <2>10 DEF StreamHeaders, Answer, Phases, streamVars
  <2>11. ASSUME ErrorBodyRead PROVE Goal'
    BY <1>0, <2>11 DEF ErrorBodyRead, Finalize, Answer, Phases, streamVars
  <2>12. ASSUME ErrorBodyTimesOut PROVE Goal'
    BY <1>0, <2>12 DEF ErrorBodyTimesOut, Answer, Phases, streamVars
  <2>13. ASSUME BodyRead PROVE Goal'
    BY <1>0, <2>13 DEF BodyRead, Finalize, Answer, Phases, streamVars
  <2>14. ASSUME HangUpEarly PROVE Goal'
    BY <1>0, <2>14 DEF HangUpEarly, Answer, Phases, streamVars
  <2>15. QED
    BY <1>1, <2>1, <2>2, <2>3, <2>4, <2>5, <2>6, <2>7, <2>8, <2>9, <2>10, <2>11,
       <2>12, <2>13, <2>14 DEF RequestStep
<1>2. CASE UNCHANGED requestVars
  BY <1>0, <1>2 DEF requestVars
<1>3. QED
  BY <1>1, <1>2 DEF Next, Streaming, vars

\* Before the upstream's headers no step touches the stream.
LEMMA NotBegunStep ==
  ASSUME Inv, [Next]_vars
  PROVE  NotBegun'
<1>0. NotBegun
  BY DEF Inv
<1>1. ASSUME RequestStep PROVE NotBegun'
  <2>1. UNCHANGED <<fields, clocks, wakers, source, task, forwarded, usageSeen, unread>>
    BY <1>1, RequestFrame DEF streamOnly
  <2>2. phase # "streaming"
    BY <1>1, RequestFrame
  <2>3. QED
    BY <1>0, <2>1, <2>2 DEF NotBegun, fields, source
<1>2. ASSUME Streaming(StreamNext) PROVE NotBegun'
  BY <1>2 DEF Streaming, requestVars, NotBegun
<1>3. ASSUME Outside, UNCHANGED requestVars PROVE NotBegun'
  BY <1>0, <1>3
  DEF Outside, DurationPasses, Cancel, Wake, requestVars, NotBegun, fields, source
<1>4. CASE UNCHANGED vars
  BY <1>0, <1>4 DEF vars, streamVars, requestVars, NotBegun, fields, source
<1>5. QED
  BY <1>1, <1>2, <1>3, <1>4 DEF Next

\* Every step keeps one party responsible for the record.
LEMMA ResponsibleStep ==
  ASSUME Inv, [Next]_vars
  PROVE  Responsible'
<1>0. Shape /\ NotBegun /\ Responsible
  BY DEF Inv
<1>1. ASSUME RequestStep PROVE Responsible'
  <2>1. ASSUME Refuse PROVE Responsible'
    BY <1>0, <2>1 DEF Refuse, WriteRecord, Answer, NotBegun, Responsible, Over,
       streamVars, streamOnly, fields, record
  <2>2. ASSUME DlpBlocks PROVE Responsible'
    BY <1>0, <2>2 DEF DlpBlocks, WriteRecord, Answer, NotBegun, Responsible, Over,
       streamVars, streamOnly, fields, record
  <2>3. ASSUME PassChecks PROVE Responsible'
    BY <1>0, <2>3 DEF PassChecks, WriteRecord, Answer, NotBegun, Responsible, Over,
       streamVars, streamOnly, fields, record
  <2>4. ASSUME Resolve PROVE Responsible'
    BY <1>0, <2>4 DEF Resolve, WriteRecord, Answer, NotBegun, Responsible, Over,
       streamVars, streamOnly, fields, record
  <2>5. ASSUME Prepare PROVE Responsible'
    BY <1>0, <2>5 DEF Prepare, WriteRecord, Answer, NotBegun, Responsible, Over,
       streamVars, streamOnly, fields, record
  <2>6. ASSUME NEW st \in {"502", "408"}, ExecuteFails(st) PROVE Responsible'
    BY <1>0, <2>6 DEF ExecuteFails, Finalize, WriteRecord, Answer, NotBegun,
       Responsible, Over, streamVars, streamOnly, fields, record
  <2>7. ASSUME NEW st \in {"502", "408"}, BodyFails(st) PROVE Responsible'
    BY <1>0, <2>7 DEF BodyFails, Finalize, WriteRecord, Answer, NotBegun,
       Responsible, Over, streamVars, streamOnly, fields, record
  <2>8. ASSUME PlainHeaders PROVE Responsible'
    BY <1>0, <2>8 DEF PlainHeaders, WriteRecord, Answer, NotBegun, Responsible,
       Over, streamVars, streamOnly, fields, record
  <2>9. ASSUME ErrorHeaders PROVE Responsible'
    BY <1>0, <2>9 DEF ErrorHeaders, WriteRecord, Answer, NotBegun, Responsible,
       Over, streamVars, streamOnly, fields, record
  <2>10. ASSUME StreamHeaders PROVE Responsible'
    BY <1>0, <2>10 DEF StreamHeaders, WriteRecord, Answer, NotBegun, Responsible,
       Over, streamVars, streamOnly, fields, record
  <2>11. ASSUME ErrorBodyRead PROVE Responsible'
    BY <1>0, <2>11 DEF ErrorBodyRead, Finalize, WriteRecord, Answer, NotBegun,
       Responsible, Over, streamVars, streamOnly, fields, record
  <2>12. ASSUME ErrorBodyTimesOut PROVE Responsible'
    BY <1>0, <2>12 DEF ErrorBodyTimesOut, WriteRecord, Answer, NotBegun,
       Responsible, Over, streamVars, streamOnly, fields, record
  <2>13. ASSUME BodyRead PROVE Responsible'
    BY <1>0, <2>13 DEF BodyRead, Finalize, WriteRecord, Answer, NotBegun,
       Responsible, Over, streamVars, streamOnly, fields, record
  <2>14. ASSUME HangUpEarly PROVE Responsible'
    BY <1>0, <2>14 DEF HangUpEarly, WriteRecord, Answer, NotBegun, Responsible,
       Over, streamVars, streamOnly, fields, record
  <2>15. QED
    BY <1>1, <2>1, <2>2, <2>3, <2>4, <2>5, <2>6, <2>7, <2>8, <2>9, <2>10, <2>11,
       <2>12, <2>13, <2>14 DEF RequestStep
<1>2. ASSUME phase = "streaming", PollDone, UNCHANGED requestVars PROVE Responsible'
  BY <1>0, <1>2 DEF PollDone, fields, clocks, source, record, requestVars,
     Responsible, Over
<1>3. ASSUME phase = "streaming", PollTimesOut, UNCHANGED requestVars
       PROVE  Responsible'
  <2>1. /\ records' = records + 1 /\ logged' \in Records
      /\ logged'.status = "504" /\ logged'.usage = tokens
      /\ tokens' = FALSE /\ status' = "504" /\ done' = TRUE
      /\ buf' = <<>> /\ buf' \in Seq(Byte) /\ Len(buf') = 0
      /\ forwarded' = forwarded + Len(buf) /\ Len(buf) \in Nat
      /\ task' \in {"sent", "over"} /\ scanned' = scanned
      /\ usageSeen' \in BOOLEAN /\ unread' \subseteq Unread
    BY <1>0, <1>3, FinalizeStreamFacts DEF PollTimesOut
  <2>2. QED
    BY <1>0, <1>3, <2>1 DEF PollTimesOut, fields, clocks, source, record,
       requestVars, Responsible, Over
<1>4. ASSUME phase = "streaming", PollPiece, UNCHANGED requestVars
       PROVE  Responsible'
  BY <1>0, <1>4 DEF PollPiece, record, requestVars, Responsible, Over
<1>5. ASSUME phase = "streaming", PollBroken, UNCHANGED requestVars
       PROVE  Responsible'
  <2>1. /\ records' = records + 1 /\ logged' \in Records
      /\ logged'.status = "502" /\ logged'.usage = tokens
      /\ tokens' = FALSE /\ status' = "502" /\ done' = TRUE
      /\ buf' = buf /\ task' = "over"
      /\ scanned' = scanned /\ UNCHANGED <<usageSeen, unread, forwarded>>
    BY <1>0, <1>5, FailStreamFacts DEF PollBroken
  <2>2. QED
    BY <1>0, <1>5, <2>1 DEF PollBroken, fields, clocks, source, record, requestVars,
       Responsible, Over
<1>6. ASSUME phase = "streaming", PollShutdown, UNCHANGED requestVars
       PROVE  Responsible'
  <2>1. status \in {"200", "502", "504", "499"}
    BY <1>0 DEF Shape, TypeOK, StreamTypes
  <2>2. /\ records' = records + 1 /\ logged' \in Records
      /\ logged'.status = status /\ logged'.usage = tokens
      /\ tokens' = FALSE /\ status' = status /\ done' = TRUE
      /\ buf' = <<>> /\ buf' \in Seq(Byte) /\ Len(buf') = 0
      /\ forwarded' = forwarded + Len(buf) /\ Len(buf) \in Nat
      /\ task' \in {"sent", "over"} /\ scanned' = scanned
      /\ usageSeen' \in BOOLEAN /\ unread' \subseteq Unread
    BY <1>0, <1>6, <2>1, FinalizeStreamFacts DEF PollShutdown
  <2>3. QED
    BY <1>0, <1>6, <2>1, <2>2 DEF PollShutdown, fields, clocks, source, record,
       requestVars, Responsible, Over
<1>7. ASSUME phase = "streaming", PollInner, UNCHANGED requestVars
       PROVE  Responsible'
  BY <1>0, <1>7 DEF PollInner, fields, clocks, source, record, requestVars,
     Responsible, Over
<1>8. ASSUME phase = "streaming", ReadChunk, UNCHANGED requestVars
       PROVE  Responsible'
  BY <1>0, <1>8 DEF ReadChunk, FailStream, record, requestVars, Responsible, Over
<1>9. ASSUME phase = "streaming", ReadError, UNCHANGED requestVars
       PROVE  Responsible'
  <2>1. status \in {"200", "502", "504", "499"}
    BY <1>0 DEF Shape, TypeOK, StreamTypes
  <2>2. /\ records' = records + 1 /\ logged' \in Records
      /\ logged'.status = status /\ logged'.usage = tokens
      /\ tokens' = FALSE /\ status' = status
    BY <1>0, <1>9, <2>1, FinalizeLogFacts DEF ReadError
  <2>3. QED
    BY <1>0, <1>9, <2>1, <2>2 DEF ReadError, fields, clocks, source, record,
       requestVars, Responsible, Over
<1>10. ASSUME phase = "streaming", ReadEof, UNCHANGED requestVars PROVE Responsible'
  <2>1. status \in {"200", "502", "504", "499"}
    BY <1>0 DEF Shape, TypeOK, StreamTypes
  <2>2. /\ records' = records + 1 /\ logged' \in Records
      /\ logged'.status = status /\ logged'.usage = tokens
      /\ tokens' = FALSE /\ status' = status /\ done' = TRUE
      /\ buf' = <<>> /\ buf' \in Seq(Byte) /\ Len(buf') = 0
      /\ forwarded' = forwarded + Len(buf) /\ Len(buf) \in Nat
      /\ task' \in {"sent", "over"} /\ scanned' = scanned
      /\ usageSeen' \in BOOLEAN /\ unread' \subseteq Unread
    BY <1>0, <1>10, <2>1, FinalizeStreamFacts DEF ReadEof
  <2>3. QED
    BY <1>0, <1>10, <2>1, <2>2 DEF ReadEof, fields, clocks, source, record,
       requestVars, Responsible, Over
<1>11. ASSUME phase = "streaming", ReadPending, UNCHANGED requestVars
       PROVE  Responsible'
  BY <1>0, <1>11 DEF ReadPending, fields, clocks, source, record, requestVars,
     Responsible, Over
<1>12. ASSUME NEW c \in Chunks, phase = "streaming", Arrive(c), UNCHANGED requestVars
       PROVE  Responsible'
  BY <1>0, <1>12 DEF Arrive, Wake, fields, clocks, source, record, requestVars,
     Responsible, Over
<1>13. ASSUME NEW how \in {"eof",
              "error"}, phase = "streaming", UpstreamEnds(how), UNCHANGED requestVars
       PROVE  Responsible'
  BY <1>0, <1>13 DEF UpstreamEnds, Wake, fields, clocks, source, record,
     requestVars, Responsible, Over
<1>14. ASSUME phase = "streaming", TimerFires, UNCHANGED requestVars
       PROVE  Responsible'
  BY <1>0, <1>14 DEF TimerFires, Wake, fields, clocks, source, record, requestVars,
     Responsible, Over
<1>15. ASSUME phase = "streaming", ClientTakes, UNCHANGED requestVars
       PROVE  Responsible'
  BY <1>0, <1>15 DEF ClientTakes, fields, clocks, source, record, requestVars,
     Responsible, Over
<1>16. ASSUME phase = "streaming", HangUp, UNCHANGED requestVars PROVE Responsible'
  <2>1. CASE done
    BY <1>0, <1>16, <2>1 DEF HangUp, fields, clocks, source, record, requestVars,
       Responsible, Over
  <2>2. CASE ~done
    <3>1. /\ records' = records + 1 /\ logged' \in Records
        /\ logged'.status = "499" /\ logged'.usage = tokens
        /\ tokens' = FALSE /\ status' = "499"
      BY <1>0, <1>16, <2>2, FinalizeLogFacts DEF HangUp
    <3>2. QED
      BY <1>0, <1>16, <2>2, <3>1 DEF HangUp, fields, clocks, source, record,
         requestVars, Responsible, Over
  <2>3. QED
    BY <2>1, <2>2
<1>17. ASSUME DurationPasses, UNCHANGED requestVars PROVE Responsible'
  BY <1>0, <1>17 DEF DurationPasses, fields, clocks, source, record, requestVars,
     Responsible, Over
<1>18. ASSUME Cancel, UNCHANGED requestVars PROVE Responsible'
  BY <1>0, <1>18 DEF Cancel, Wake, fields, clocks, source, record, requestVars,
     Responsible, Over
<1>19. CASE UNCHANGED vars
  BY <1>0, <1>19 DEF vars, streamVars, fields, clocks, source, record, requestVars,
     Responsible, Over
<1>20. QED
  BY <1>1, <1>2, <1>3, <1>4, <1>5, <1>6, <1>7, <1>8, <1>9, <1>10, <1>11, <1>12,
     <1>13, <1>14, <1>15, <1>16, <1>17, <1>18, <1>19 DEF Next, Streaming,
     StreamNext, Poll, Outside

\* Every step keeps the record single: it is written by the step that ends the
\* request.
LEMMA OneRecordStep ==
  ASSUME Inv, [Next]_vars
  PROVE  ExactlyOneRecord'
<1>0. Shape /\ NotBegun /\ Responsible /\ ExactlyOneRecord /\ Scan
  BY DEF Inv
<1>1. ASSUME RequestStep PROVE ExactlyOneRecord'
  <2>1. ASSUME Refuse PROVE ExactlyOneRecord'
    BY <1>0, <2>1 DEF Refuse, WriteRecord, Answer, NotBegun, Responsible, Over,
       ExactlyOneRecord, streamVars, streamOnly, fields, record
  <2>2. ASSUME DlpBlocks PROVE ExactlyOneRecord'
    BY <1>0, <2>2 DEF DlpBlocks, WriteRecord, Answer, NotBegun, Responsible, Over,
       ExactlyOneRecord, streamVars, streamOnly, fields, record
  <2>3. ASSUME PassChecks PROVE ExactlyOneRecord'
    BY <1>0, <2>3 DEF PassChecks, WriteRecord, Answer, NotBegun, Responsible, Over,
       ExactlyOneRecord, streamVars, streamOnly, fields, record
  <2>4. ASSUME Resolve PROVE ExactlyOneRecord'
    BY <1>0, <2>4 DEF Resolve, WriteRecord, Answer, NotBegun, Responsible, Over,
       ExactlyOneRecord, streamVars, streamOnly, fields, record
  <2>5. ASSUME Prepare PROVE ExactlyOneRecord'
    BY <1>0, <2>5 DEF Prepare, WriteRecord, Answer, NotBegun, Responsible, Over,
       ExactlyOneRecord, streamVars, streamOnly, fields, record
  <2>6. ASSUME NEW st \in {"502", "408"}, ExecuteFails(st) PROVE ExactlyOneRecord'
    BY <1>0, <2>6 DEF ExecuteFails, Finalize, WriteRecord, Answer, NotBegun,
       Responsible, Over, ExactlyOneRecord, streamVars, streamOnly, fields, record
  <2>7. ASSUME NEW st \in {"502", "408"}, BodyFails(st) PROVE ExactlyOneRecord'
    BY <1>0, <2>7 DEF BodyFails, Finalize, WriteRecord, Answer, NotBegun,
       Responsible, Over, ExactlyOneRecord, streamVars, streamOnly, fields, record
  <2>8. ASSUME PlainHeaders PROVE ExactlyOneRecord'
    BY <1>0, <2>8 DEF PlainHeaders, WriteRecord, Answer, NotBegun, Responsible,
       Over, ExactlyOneRecord, streamVars, streamOnly, fields, record
  <2>9. ASSUME ErrorHeaders PROVE ExactlyOneRecord'
    BY <1>0, <2>9 DEF ErrorHeaders, WriteRecord, Answer, NotBegun, Responsible,
       Over, ExactlyOneRecord, streamVars, streamOnly, fields, record
  <2>10. ASSUME StreamHeaders PROVE ExactlyOneRecord'
    BY <1>0, <2>10 DEF StreamHeaders, WriteRecord, Answer, NotBegun, Responsible,
       Over, ExactlyOneRecord, streamVars, streamOnly, fields, record
  <2>11. ASSUME ErrorBodyRead PROVE ExactlyOneRecord'
    BY <1>0, <2>11 DEF ErrorBodyRead, Finalize, WriteRecord, Answer, NotBegun,
       Responsible, Over, ExactlyOneRecord, streamVars, streamOnly, fields, record
  <2>12. ASSUME ErrorBodyTimesOut PROVE ExactlyOneRecord'
    BY <1>0, <2>12 DEF ErrorBodyTimesOut, WriteRecord, Answer, NotBegun,
       Responsible, Over, ExactlyOneRecord, streamVars, streamOnly, fields, record
  <2>13. ASSUME BodyRead PROVE ExactlyOneRecord'
    BY <1>0, <2>13 DEF BodyRead, Finalize, WriteRecord, Answer, NotBegun,
       Responsible, Over, ExactlyOneRecord, streamVars, streamOnly, fields, record
  <2>14. ASSUME HangUpEarly PROVE ExactlyOneRecord'
    BY <1>0, <2>14 DEF HangUpEarly, WriteRecord, Answer, NotBegun, Responsible,
       Over, ExactlyOneRecord, streamVars, streamOnly, fields, record
  <2>15. QED
    BY <1>1, <2>1, <2>2, <2>3, <2>4, <2>5, <2>6, <2>7, <2>8, <2>9, <2>10, <2>11,
       <2>12, <2>13, <2>14 DEF RequestStep
<1>2. ASSUME phase = "streaming", PollDone, UNCHANGED requestVars
       PROVE  ExactlyOneRecord'
  BY <1>0, <1>2 DEF PollDone, fields, clocks, source, record, requestVars,
     Responsible, Over, ExactlyOneRecord, Scan
<1>3. ASSUME phase = "streaming", PollTimesOut, UNCHANGED requestVars
       PROVE  ExactlyOneRecord'
  <2>1. /\ records' = records + 1 /\ logged' \in Records
      /\ logged'.status = "504" /\ logged'.usage = tokens
      /\ tokens' = FALSE /\ status' = "504" /\ done' = TRUE
      /\ buf' = <<>> /\ buf' \in Seq(Byte) /\ Len(buf') = 0
      /\ forwarded' = forwarded + Len(buf) /\ Len(buf) \in Nat
      /\ task' \in {"sent", "over"} /\ scanned' = scanned
      /\ usageSeen' \in BOOLEAN /\ unread' \subseteq Unread
    BY <1>0, <1>3, FinalizeStreamFacts DEF PollTimesOut
  <2>2. QED
    BY <1>0, <1>3, <2>1 DEF PollTimesOut, fields, clocks, source, record,
       requestVars, Responsible, Over, ExactlyOneRecord, Scan
<1>4. ASSUME phase = "streaming", PollPiece, UNCHANGED requestVars
       PROVE  ExactlyOneRecord'
  BY <1>0, <1>4 DEF PollPiece, Split, record, requestVars, Responsible, Over,
     ExactlyOneRecord
<1>5. ASSUME phase = "streaming", PollBroken, UNCHANGED requestVars
       PROVE  ExactlyOneRecord'
  <2>1. /\ records' = records + 1 /\ logged' \in Records
      /\ logged'.status = "502" /\ logged'.usage = tokens
      /\ tokens' = FALSE /\ status' = "502" /\ done' = TRUE
      /\ buf' = buf /\ task' = "over"
      /\ scanned' = scanned /\ UNCHANGED <<usageSeen, unread, forwarded>>
    BY <1>0, <1>5, FailStreamFacts DEF PollBroken
  <2>2. QED
    BY <1>0, <1>5, <2>1 DEF PollBroken, fields, clocks, source, record, requestVars,
       Responsible, Over, ExactlyOneRecord, Scan
<1>6. ASSUME phase = "streaming", PollShutdown, UNCHANGED requestVars
       PROVE  ExactlyOneRecord'
  <2>1. status \in {"200", "502", "504", "499"} /\ records \in Nat
    BY <1>0 DEF Shape, TypeOK, StreamTypes
  <2>2. records' = records + 1 /\ done'
    BY <1>0, <1>6, <2>1, FinalizeStreamFacts DEF PollShutdown
  <2>3. ~done /\ task = "scheduled"
    BY <1>6 DEF PollShutdown, Quiet
  <2>4. QED
    BY <1>0, <1>6, <2>1, <2>2, <2>3 DEF requestVars, Responsible, Over, ExactlyOneRecord
<1>7. ASSUME phase = "streaming", PollInner, UNCHANGED requestVars
       PROVE  ExactlyOneRecord'
  BY <1>0, <1>7 DEF PollInner, fields, clocks, source, record, requestVars,
     Responsible, Over, ExactlyOneRecord, Scan
<1>8. ASSUME phase = "streaming", ReadChunk, UNCHANGED requestVars
       PROVE  ExactlyOneRecord'
  BY <1>0, <1>8
  DEF ReadChunk, Split, FailStream, FinalizeLog, record, requestVars, Responsible, Over,
      ExactlyOneRecord, Scan
<1>9. ASSUME phase = "streaming", ReadError, UNCHANGED requestVars
       PROVE  ExactlyOneRecord'
  <2>1. status \in {"200", "502", "504", "499"}
    BY <1>0 DEF Shape, TypeOK, StreamTypes
  <2>2. /\ records' = records + 1 /\ logged' \in Records
      /\ logged'.status = status /\ logged'.usage = tokens
      /\ tokens' = FALSE /\ status' = status
    BY <1>0, <1>9, <2>1, FinalizeLogFacts DEF ReadError
  <2>3. QED
    BY <1>0, <1>9, <2>1, <2>2 DEF ReadError, fields, clocks, source, record,
       requestVars, Responsible, Over, ExactlyOneRecord, Scan
<1>10. ASSUME phase = "streaming", ReadEof, UNCHANGED requestVars
       PROVE  ExactlyOneRecord'
  <2>1. status \in {"200", "502", "504", "499"}
    BY <1>0 DEF Shape, TypeOK, StreamTypes
  <2>2. /\ records' = records + 1 /\ logged' \in Records
      /\ logged'.status = status /\ logged'.usage = tokens
      /\ tokens' = FALSE /\ status' = status /\ done' = TRUE
      /\ buf' = <<>> /\ buf' \in Seq(Byte) /\ Len(buf') = 0
      /\ forwarded' = forwarded + Len(buf) /\ Len(buf) \in Nat
      /\ task' \in {"sent", "over"} /\ scanned' = scanned
      /\ usageSeen' \in BOOLEAN /\ unread' \subseteq Unread
    BY <1>0, <1>10, <2>1, FinalizeStreamFacts DEF ReadEof
  <2>3. QED
    BY <1>0, <1>10, <2>1, <2>2 DEF ReadEof, fields, clocks, source, record,
       requestVars, Responsible, Over, ExactlyOneRecord, Scan
<1>11. ASSUME phase = "streaming", ReadPending, UNCHANGED requestVars
       PROVE  ExactlyOneRecord'
  BY <1>0, <1>11 DEF ReadPending, fields, clocks, source, record, requestVars,
     Responsible, Over, ExactlyOneRecord, Scan
<1>12. ASSUME NEW c \in Chunks, phase = "streaming", Arrive(c), UNCHANGED requestVars
       PROVE  ExactlyOneRecord'
  BY <1>0, <1>12 DEF Arrive, Wake, fields, clocks, source, record, requestVars,
     Responsible, Over, ExactlyOneRecord, Scan
<1>13. ASSUME NEW how \in {"eof",
              "error"}, phase = "streaming", UpstreamEnds(how), UNCHANGED requestVars
       PROVE  ExactlyOneRecord'
  BY <1>0, <1>13 DEF UpstreamEnds, Wake, fields, clocks, source, record,
     requestVars, Responsible, Over, ExactlyOneRecord, Scan
<1>14. ASSUME phase = "streaming", TimerFires, UNCHANGED requestVars
       PROVE  ExactlyOneRecord'
  BY <1>0, <1>14 DEF TimerFires, Wake, fields, clocks, source, record, requestVars,
     Responsible, Over, ExactlyOneRecord, Scan
<1>15. ASSUME phase = "streaming", ClientTakes, UNCHANGED requestVars
       PROVE  ExactlyOneRecord'
  BY <1>0, <1>15 DEF ClientTakes, fields, clocks, source, record, requestVars,
     Responsible, Over, ExactlyOneRecord, Scan
<1>16. ASSUME phase = "streaming", HangUp, UNCHANGED requestVars
       PROVE  ExactlyOneRecord'
  <2>1. CASE done
    BY <1>0, <1>16, <2>1 DEF HangUp, fields, clocks, source, record, requestVars,
       Responsible, Over, ExactlyOneRecord, Scan
  <2>2. CASE ~done
    <3>1. /\ records' = records + 1 /\ logged' \in Records
        /\ logged'.status = "499" /\ logged'.usage = tokens
        /\ tokens' = FALSE /\ status' = "499"
      BY <1>0, <1>16, <2>2, FinalizeLogFacts DEF HangUp
    <3>2. QED
      BY <1>0, <1>16, <2>2, <3>1 DEF HangUp, fields, clocks, source, record,
         requestVars, Responsible, Over, ExactlyOneRecord, Scan
  <2>3. QED
    BY <2>1, <2>2
<1>17. ASSUME DurationPasses, UNCHANGED requestVars PROVE ExactlyOneRecord'
  BY <1>0, <1>17 DEF DurationPasses, fields, clocks, source, record, requestVars,
     Responsible, Over, ExactlyOneRecord, Scan
<1>18. ASSUME Cancel, UNCHANGED requestVars PROVE ExactlyOneRecord'
  BY <1>0, <1>18 DEF Cancel, Wake, fields, clocks, source, record, requestVars,
     Responsible, Over, ExactlyOneRecord, Scan
<1>19. CASE UNCHANGED vars
  BY <1>0, <1>19 DEF vars, streamVars, fields, clocks, source, record, requestVars,
     Responsible, Over, ExactlyOneRecord
<1>20. QED
  BY <1>1, <1>2, <1>3, <1>4, <1>5, <1>6, <1>7, <1>8, <1>9, <1>10, <1>11, <1>12,
     <1>13, <1>14, <1>15, <1>16, <1>17, <1>18, <1>19 DEF Next, Streaming,
     StreamNext, Poll, Outside

\* Every step that answers records what it answers, but for the error body.
LEMMA MatchesStep ==
  ASSUME Inv, [Next]_vars
  PROVE  RecordMatchesAnswer'
<1>0. Responsible /\ ExactlyOneRecord /\ RecordMatchesAnswer
  BY DEF Inv
<1>1. ASSUME RequestStep PROVE RecordMatchesAnswer'
  <2>1. ASSUME Refuse PROVE RecordMatchesAnswer'
    BY <1>0, <2>1 DEF Refuse, WriteRecord, Answer, Responsible, Over,
       ExactlyOneRecord, RecordMatchesAnswer, streamVars, record
  <2>2. ASSUME DlpBlocks PROVE RecordMatchesAnswer'
    BY <1>0, <2>2 DEF DlpBlocks, WriteRecord, Answer, Responsible, Over,
       ExactlyOneRecord, RecordMatchesAnswer, streamVars, record
  <2>3. ASSUME PassChecks PROVE RecordMatchesAnswer'
    BY <1>0, <2>3 DEF PassChecks, WriteRecord, Answer, Responsible, Over,
       ExactlyOneRecord, RecordMatchesAnswer, streamVars, record
  <2>4. ASSUME Resolve PROVE RecordMatchesAnswer'
    BY <1>0, <2>4 DEF Resolve, WriteRecord, Answer, Responsible, Over,
       ExactlyOneRecord, RecordMatchesAnswer, streamVars, record
  <2>5. ASSUME Prepare PROVE RecordMatchesAnswer'
    BY <1>0, <2>5 DEF Prepare, WriteRecord, Answer, Responsible, Over,
       ExactlyOneRecord, RecordMatchesAnswer, streamVars, record
  <2>6. ASSUME NEW st \in {"502", "408"}, ExecuteFails(st) PROVE RecordMatchesAnswer'
    BY <1>0, <2>6 DEF ExecuteFails, Finalize, WriteRecord, Answer, Responsible,
       Over, ExactlyOneRecord, RecordMatchesAnswer, streamVars, record
  <2>7. ASSUME NEW st \in {"502", "408"}, BodyFails(st) PROVE RecordMatchesAnswer'
    BY <1>0, <2>7 DEF BodyFails, Finalize, WriteRecord, Answer, Responsible, Over,
       ExactlyOneRecord, RecordMatchesAnswer, streamVars, record
  <2>8. ASSUME PlainHeaders PROVE RecordMatchesAnswer'
    BY <1>0, <2>8 DEF PlainHeaders, WriteRecord, Answer, Responsible, Over,
       ExactlyOneRecord, RecordMatchesAnswer, streamVars, record
  <2>9. ASSUME ErrorHeaders PROVE RecordMatchesAnswer'
    BY <1>0, <2>9 DEF ErrorHeaders, WriteRecord, Answer, Responsible, Over,
       ExactlyOneRecord, RecordMatchesAnswer, streamVars, record
  <2>10. ASSUME StreamHeaders PROVE RecordMatchesAnswer'
    BY <1>0, <2>10 DEF StreamHeaders, WriteRecord, Answer, Responsible, Over,
       ExactlyOneRecord, RecordMatchesAnswer, streamVars, record
  <2>11. ASSUME ErrorBodyRead PROVE RecordMatchesAnswer'
    BY <1>0, <2>11 DEF ErrorBodyRead, Finalize, WriteRecord, Answer, Responsible,
       Over, ExactlyOneRecord, RecordMatchesAnswer, streamVars, record
  <2>12. ASSUME ErrorBodyTimesOut PROVE RecordMatchesAnswer'
    BY <1>0, <2>12 DEF ErrorBodyTimesOut, WriteRecord, Answer, Responsible, Over,
       ExactlyOneRecord, RecordMatchesAnswer, streamVars, record
  <2>13. ASSUME BodyRead PROVE RecordMatchesAnswer'
    BY <1>0, <2>13 DEF BodyRead, Finalize, WriteRecord, Answer, Responsible, Over,
       ExactlyOneRecord, RecordMatchesAnswer, streamVars, record
  <2>14. ASSUME HangUpEarly PROVE RecordMatchesAnswer'
    BY <1>0, <2>14 DEF HangUpEarly, WriteRecord, Answer, Responsible, Over,
       ExactlyOneRecord, RecordMatchesAnswer, streamVars, record
  <2>15. QED
    BY <1>1, <2>1, <2>2, <2>3, <2>4, <2>5, <2>6, <2>7, <2>8, <2>9, <2>10, <2>11,
       <2>12, <2>13, <2>14 DEF RequestStep
<1>2. ASSUME Streaming(StreamNext) PROVE RecordMatchesAnswer'
  BY <1>2 DEF Streaming, requestVars, RecordMatchesAnswer
<1>3. ASSUME Outside, UNCHANGED requestVars PROVE RecordMatchesAnswer'
  BY <1>0, <1>3 DEF Outside, DurationPasses, Cancel, requestVars, RecordMatchesAnswer,
     record
<1>4. CASE UNCHANGED vars
  BY <1>0, <1>4 DEF vars, streamVars, requestVars, RecordMatchesAnswer, record
<1>5. QED
  BY <1>1, <1>2, <1>3, <1>4 DEF Next

\* A stream that is not over has not failed: what it read is accounted for.
LEMMA LiveFacts ==
  ASSUME Shape, Responsible, Bytes, phase = "streaming", ~done, task # "over"
  PROVE  /\ logged.status # "502" /\ forwarded + Len(buf) = total
         /\ MaxBytes > 0 => total <= MaxBytes
         /\ Len(buf) \in Nat /\ forwarded \in Nat /\ total \in Nat
<1>1. buf \in Seq(Byte) /\ forwarded \in Nat /\ total \in Nat
  BY DEF Shape, TypeOK, StreamTypes
<1>2. logged.status # "502"
  BY DEF Responsible, Over, NotLogged
<1>3. QED
  BY <1>1, <1>2 DEF Bytes

\* Every step keeps account of the bytes.
LEMMA BytesStep ==
  ASSUME Inv, [Next]_vars
  PROVE  Bytes' /\ NoByteLost'
<1> DEFINE Goal == Bytes /\ NoByteLost
<1>0. /\ Shape /\ NotBegun /\ Responsible /\ Bytes /\ NoByteLost /\ Scan
      /\ StreamAssumption
  BY StreamAssumption DEF Inv
<1> SUFFICES Goal'
  OBVIOUS
<1>1. ASSUME RequestStep PROVE Goal'
  <2>1. UNCHANGED <<fields, clocks, wakers, source, task, forwarded, usageSeen, unread>>
    BY <1>1, RequestFrame DEF streamOnly
  <2>2. forwarded' = 0 /\ buf' = <<>> /\ total' = 0
    BY <1>0, <1>1, <2>1, RequestFrame DEF NotBegun, fields
  <2>3. QED
    BY <1>0, <2>2 DEF StreamAssumption, Bytes, NoByteLost
<1>2. ASSUME phase = "streaming", PollDone, UNCHANGED requestVars PROVE Goal'
  BY <1>0, <1>2 DEF PollDone, fields, clocks, source, record, requestVars, Bytes,
     NoByteLost
<1>3. ASSUME phase = "streaming", PollTimesOut, UNCHANGED requestVars PROVE Goal'
  <2>1. /\ logged.status # "502" /\ forwarded + Len(buf) = total
        /\ MaxBytes > 0 => total <= MaxBytes
        /\ Len(buf) \in Nat /\ forwarded \in Nat /\ total \in Nat
    BY <1>0, <1>3, LiveFacts DEF PollTimesOut
  <2>2. /\ records' = records + 1 /\ logged' \in Records
        /\ logged'.status = "504" /\ logged'.usage = tokens
        /\ tokens' = FALSE /\ status' = "504" /\ done' = TRUE
        /\ buf' = <<>> /\ buf' \in Seq(Byte) /\ Len(buf') = 0
        /\ forwarded' = forwarded + Len(buf) /\ Len(buf) \in Nat
        /\ task' \in {"sent", "over"} /\ scanned' = scanned
        /\ usageSeen' \in BOOLEAN /\ unread' \subseteq Unread
    BY <1>0, <1>3, FinalizeStreamFacts DEF PollTimesOut
  <2>3. QED
    BY <1>0, <1>3, <2>1, <2>2 DEF PollTimesOut, Bytes, NoByteLost, source, requestVars
<1>4. ASSUME phase = "streaming", PollPiece, UNCHANGED requestVars PROVE Goal'
  <2>1. /\ logged.status # "502" /\ forwarded + Len(buf) = total
        /\ MaxBytes > 0 => total <= MaxBytes
        /\ Len(buf) \in Nat /\ forwarded \in Nat /\ total \in Nat
    BY <1>0, <1>4, LiveFacts DEF PollPiece
  <2>2. buf \in Seq(Byte) /\ scanned \in Nat
    BY <1>0 DEF Shape, TypeOK, StreamTypes
  <2>3. NextPiece(buf, scanned) \in 0 .. Len(buf)
    BY <2>2, PieceFacts
  <2>4. /\ Len(buf') = Len(buf) - NextPiece(buf, scanned)
        /\ forwarded' = forwarded + NextPiece(buf, scanned)
    BY <1>0, <1>4, <2>2, <2>3, SplitFacts DEF PollPiece, Shape
  <2>5. QED
    BY <1>0, <1>4, <2>1, <2>3, <2>4
    DEF PollPiece, Bytes, NoByteLost, source, record, requestVars
<1>5. ASSUME phase = "streaming", PollBroken, UNCHANGED requestVars PROVE Goal'
  <2>1. /\ logged.status # "502" /\ forwarded + Len(buf) = total
        /\ MaxBytes > 0 => total <= MaxBytes
        /\ Len(buf) \in Nat /\ forwarded \in Nat /\ total \in Nat
    BY <1>0, <1>5, LiveFacts DEF PollBroken
  <2>2. /\ records' = records + 1 /\ logged' \in Records
        /\ logged'.status = "502" /\ logged'.usage = tokens
        /\ tokens' = FALSE /\ status' = "502" /\ done' = TRUE
        /\ buf' = buf /\ task' = "over"
        /\ scanned' = scanned /\ UNCHANGED <<usageSeen, unread, forwarded>>
    BY <1>0, <1>5, FailStreamFacts DEF PollBroken
  <2>3. QED
    BY <1>0, <1>5, <2>1, <2>2 DEF PollBroken, Bytes, NoByteLost, source, requestVars
<1>6. ASSUME phase = "streaming", PollShutdown, UNCHANGED requestVars PROVE Goal'
  <2>1. /\ logged.status # "502" /\ forwarded + Len(buf) = total
        /\ MaxBytes > 0 => total <= MaxBytes
        /\ Len(buf) \in Nat /\ forwarded \in Nat /\ total \in Nat
    BY <1>0, <1>6, LiveFacts DEF PollShutdown, Quiet
  <2>2. status \in {"200", "502", "504", "499"}
    BY <1>0 DEF Shape, TypeOK, StreamTypes
  <2>3. /\ records' = records + 1 /\ logged' \in Records
        /\ logged'.status = status /\ logged'.usage = tokens
        /\ tokens' = FALSE /\ status' = status /\ done' = TRUE
        /\ buf' = <<>> /\ buf' \in Seq(Byte) /\ Len(buf') = 0
        /\ forwarded' = forwarded + Len(buf) /\ Len(buf) \in Nat
        /\ task' \in {"sent", "over"} /\ scanned' = scanned
        /\ usageSeen' \in BOOLEAN /\ unread' \subseteq Unread
    BY <1>0, <1>6, <2>2, FinalizeStreamFacts DEF PollShutdown
  <2>4. QED
    BY <1>0, <1>6, <2>1, <2>3 DEF PollShutdown, Bytes, NoByteLost, source, requestVars
<1>7. ASSUME phase = "streaming", PollInner, UNCHANGED requestVars PROVE Goal'
  BY <1>0, <1>7 DEF PollInner, fields, clocks, source, record, requestVars, Bytes,
     NoByteLost
<1>8. ASSUME phase = "streaming", ReadChunk, UNCHANGED requestVars PROVE Goal'
  <2>1. /\ buf \o chunk \in Seq(Byte) /\ Len(buf \o chunk) = Len(buf) + Len(chunk)
        /\ chunk \in Seq(Byte) /\ Len(chunk) \in Nat /\ Len(buf) \in Nat /\ total \in Nat
    BY <1>0, <1>8, ChunkFacts DEF ReadChunk
  <2>2. /\ scanned \in Nat /\ buf \in Seq(Byte)
        /\ NextPiece(buf \o chunk, scanned) \in 0 .. Len(buf \o chunk)
    <3>1. scanned \in Nat /\ buf \in Seq(Byte)
      BY <1>0 DEF Shape, TypeOK, StreamTypes
    <3>2. QED
      BY <2>1, <3>1, PieceFacts
  <2>3. /\ logged.status # "502" /\ forwarded + Len(buf) = total
        /\ MaxBytes > 0 => total <= MaxBytes
        /\ Len(buf) \in Nat /\ forwarded \in Nat /\ total \in Nat
    BY <1>0, <1>8, LiveFacts DEF ReadChunk, Scan
  <2>4. ~done /\ total' = total + Len(chunk) /\ inner' = inner /\ phase' = phase
    BY <1>0, <1>8 DEF ReadChunk, Scan, requestVars
  <2>5. ASSUME NEW b, FailStream(b, "502") PROVE Goal'
    <3>1. logged'.status = "502" /\ forwarded' = forwarded
      BY <1>0, <2>5, FailStreamFacts
    <3>2. QED
      BY <1>0, <2>3, <3>1 DEF Bytes, NoByteLost
  <2>6. ASSUME ~OverLimit, Split(buf \o chunk, NextPiece(buf \o chunk, scanned)),
               UNCHANGED <<done, status, record>>
        PROVE  Goal'
    <3>1. /\ Len(buf') = Len(buf \o chunk) - NextPiece(buf \o chunk, scanned)
          /\ forwarded' = forwarded + NextPiece(buf \o chunk, scanned)
      BY <1>0, <2>1, <2>2, <2>6, SplitFacts DEF Shape
    <3>2. MaxBytes > 0 => total' <= MaxBytes
      BY <1>0, <2>1, <2>4, <2>6 DEF OverLimit, StreamAssumption
    <3>3. PICK n \in Nat : n = NextPiece(buf \o chunk, scanned)
      BY <2>1, <2>2
    <3>4. n <= Len(buf) + Len(chunk)
      BY <2>1, <2>2, <3>3
    <3>5. Len(buf') = Len(buf) + Len(chunk) - n /\ forwarded' = forwarded + n
      BY <2>1, <3>1, <3>3
    <3>6. forwarded' + Len(buf') = total' /\ forwarded' <= total'
      BY <2>1, <2>3, <2>4, <3>4, <3>5
    <3>7. total' \in Nat /\ forwarded' \in Nat /\ ~done'
      BY <2>1, <2>3, <2>4, <2>6, <3>5
    <3>8. QED
      BY <1>0, <3>2, <3>6, <3>7 DEF Bytes, NoByteLost, StreamAssumption
  <2>7. ASSUME ~OverLimit, buf' = buf \o chunk,
               UNCHANGED <<done, tokens, status, task, forwarded, usageSeen, unread, record>>
        PROVE  Goal'
    <3>1. /\ forwarded' + Len(buf') = total'
          /\ MaxBytes > 0 => total' <= MaxBytes /\ forwarded' <= MaxBytes
      BY <1>0, <2>1, <2>3, <2>4, <2>7 DEF OverLimit, StreamAssumption
    <3>2. ~done'
      BY <2>4, <2>7
    <3>3. QED
      BY <3>1, <3>2 DEF Bytes, NoByteLost
  <2>8. QED
    BY <1>8, <2>5, <2>6, <2>7 DEF ReadChunk
<1>9. ASSUME phase = "streaming", ReadError, UNCHANGED requestVars PROVE Goal'
  <2>1. /\ logged.status # "502" /\ forwarded + Len(buf) = total
        /\ MaxBytes > 0 => total <= MaxBytes
        /\ Len(buf) \in Nat /\ forwarded \in Nat /\ total \in Nat
    BY <1>0, <1>9, LiveFacts DEF ReadError, Scan
  <2>2. status \in {"200", "502", "504", "499"}
    BY <1>0 DEF Shape, TypeOK, StreamTypes
  <2>3. /\ records' = records + 1 /\ logged' \in Records
        /\ logged'.status = status /\ logged'.usage = tokens
        /\ tokens' = FALSE /\ status' = status
    BY <1>0, <1>9, <2>2, FinalizeLogFacts DEF ReadError
  <2>4. QED
    BY <1>0, <1>9, <2>1, <2>3 DEF ReadError, Bytes, NoByteLost, source, requestVars
<1>10. ASSUME phase = "streaming", ReadEof, UNCHANGED requestVars PROVE Goal'
  <2>1. /\ logged.status # "502" /\ forwarded + Len(buf) = total
        /\ MaxBytes > 0 => total <= MaxBytes
        /\ Len(buf) \in Nat /\ forwarded \in Nat /\ total \in Nat
    BY <1>0, <1>10, LiveFacts DEF ReadEof, Scan
  <2>2. status \in {"200", "502", "504", "499"}
    BY <1>0 DEF Shape, TypeOK, StreamTypes
  <2>3. /\ records' = records + 1 /\ logged' \in Records
        /\ logged'.status = status /\ logged'.usage = tokens
        /\ tokens' = FALSE /\ status' = status /\ done' = TRUE
        /\ buf' = <<>> /\ buf' \in Seq(Byte) /\ Len(buf') = 0
        /\ forwarded' = forwarded + Len(buf) /\ Len(buf) \in Nat
        /\ task' \in {"sent", "over"} /\ scanned' = scanned
        /\ usageSeen' \in BOOLEAN /\ unread' \subseteq Unread
    BY <1>0, <1>10, <2>2, FinalizeStreamFacts DEF ReadEof
  <2>4. QED
    BY <1>0, <1>10, <2>1, <2>3 DEF ReadEof, Bytes, NoByteLost, source, requestVars
<1>11. ASSUME phase = "streaming", ReadPending, UNCHANGED requestVars PROVE Goal'
  BY <1>0, <1>11 DEF ReadPending, fields, clocks, source, record, requestVars,
     Bytes, NoByteLost
<1>12. ASSUME NEW c \in Chunks, phase = "streaming", Arrive(c), UNCHANGED requestVars
       PROVE  Goal'
  BY <1>0, <1>12 DEF Arrive, Wake, fields, clocks, source, record, requestVars,
     Bytes, NoByteLost
<1>13. ASSUME NEW how \in {"eof",
              "error"}, phase = "streaming", UpstreamEnds(how), UNCHANGED requestVars
       PROVE  Goal'
  BY <1>0, <1>13 DEF UpstreamEnds, Wake, fields, clocks, source, record,
     requestVars, Bytes, NoByteLost
<1>14. ASSUME phase = "streaming", TimerFires, UNCHANGED requestVars PROVE Goal'
  BY <1>0, <1>14 DEF TimerFires, Wake, fields, clocks, source, record, requestVars,
     Bytes, NoByteLost
<1>15. ASSUME phase = "streaming", ClientTakes, UNCHANGED requestVars PROVE Goal'
  BY <1>0, <1>15 DEF ClientTakes, fields, clocks, source, record, requestVars,
     Bytes, NoByteLost
<1>16. ASSUME phase = "streaming", HangUp, UNCHANGED requestVars PROVE Goal'
  <2>1. CASE done
    BY <1>0, <1>16, <2>1 DEF HangUp, Bytes, NoByteLost, source, record, requestVars
  <2>2. CASE ~done
    <3>1. /\ logged.status # "502" /\ forwarded + Len(buf) = total
          /\ MaxBytes > 0 => total <= MaxBytes
          /\ Len(buf) \in Nat /\ forwarded \in Nat /\ total \in Nat
      BY <1>0, <1>16, <2>2, LiveFacts DEF HangUp
    <3>2. logged'.status = "499"
      BY <1>0, <1>16, <2>2, FinalizeLogFacts DEF HangUp
    <3>3. QED
      BY <1>0, <1>16, <2>2, <3>1, <3>2 DEF HangUp, Bytes, NoByteLost, source,
         requestVars
  <2>3. QED
    BY <2>1, <2>2
<1>17. ASSUME DurationPasses, UNCHANGED requestVars PROVE Goal'
  BY <1>0, <1>17 DEF DurationPasses, fields, clocks, source, record, requestVars,
     Bytes, NoByteLost
<1>18. ASSUME Cancel, UNCHANGED requestVars PROVE Goal'
  BY <1>0, <1>18 DEF Cancel, Wake, fields, clocks, source, record, requestVars,
     Bytes, NoByteLost
<1>19. CASE UNCHANGED vars
  BY <1>0, <1>19 DEF vars, streamVars, fields, clocks, source, record, requestVars,
     Bytes, NoByteLost
<1>20. QED
  BY <1>1, <1>2, <1>3, <1>4, <1>5, <1>6, <1>7, <1>8, <1>9, <1>10, <1>11, <1>12,
     <1>13, <1>14, <1>15, <1>16, <1>17, <1>18, <1>19 DEF Next, Streaming,
     StreamNext, Poll, Outside

\* Every step keeps the scan position sound, and none lets the stream wait with
\* a piece in hand.
LEMMA ScanStep ==
  ASSUME Inv, [Next]_vars
  PROVE  Scan'
<1>0. Shape /\ Scan
  BY DEF Inv
<1>1. ASSUME RequestStep PROVE Scan'
  <2>1. UNCHANGED <<fields, clocks, wakers, source, task, forwarded, usageSeen, unread>>
    BY <1>1, RequestFrame DEF streamOnly
  <2>2. QED
    BY <1>0, <2>1 DEF Scan, fields
<1>2. ASSUME phase = "streaming", PollDone, UNCHANGED requestVars PROVE Scan'
  BY <1>0, <1>2 DEF PollDone, fields, clocks, source, record, requestVars, Scan
<1>3. ASSUME phase = "streaming", PollTimesOut, UNCHANGED requestVars PROVE Scan'
  BY <1>3 DEF PollTimesOut, FinalizeStream, Scan
<1>4. ASSUME phase = "streaming", PollPiece, UNCHANGED requestVars PROVE Scan'
  <2>1. buf \in Seq(Byte) /\ scanned \in Nat
    BY <1>0 DEF Shape, TypeOK, StreamTypes
  <2>2. NextPiece(buf, scanned) \in 0 .. Len(buf)
    BY <2>1, PieceFacts
  <2>3. buf' \in Seq(Byte) /\ scanned' = 0 /\ task' = "sent"
    BY <1>0, <1>4, <2>1, <2>2, SplitFacts DEF PollPiece, Shape
  <2>4. ScanSound(buf', 0)
    BY <2>3, ScanFromStart
  <2>5. QED
    BY <2>3, <2>4 DEF Scan
<1>5. ASSUME phase = "streaming", PollBroken, UNCHANGED requestVars PROVE Scan'
  BY <1>5 DEF PollBroken, FailStream, Scan
<1>6. ASSUME phase = "streaming", PollShutdown, UNCHANGED requestVars PROVE Scan'
  BY <1>6 DEF PollShutdown, FinalizeStream, Scan
<1>7. ASSUME phase = "streaming", PollInner, UNCHANGED requestVars PROVE Scan'
  <2>1. buf \in Seq(Byte) /\ scanned \in Nat
    BY <1>0 DEF Shape, TypeOK, StreamTypes
  <2>2. FindEventBoundary(buf, scanned) = 0 /\ Len(buf) <= MaxBuffer
    BY <1>7, <2>1, PieceFacts DEF PollInner, Quiet
  <2>3. ScanSound(buf, scanned)
    BY <1>0, <1>7 DEF PollInner, Quiet, Scan
  <2>4. FindEventBoundary(buf, 0) = 0 /\ ScanSound(buf, ScannedTo(buf))
    BY <2>1, <2>2, <2>3, ScanFacts
  <2>5. ~done /\ done' = done /\ buf' = buf /\ scanned' = ScannedTo(buf)
    BY <1>7 DEF PollInner, Quiet
  <2>6. QED
    BY <2>2, <2>4, <2>5 DEF Scan
<1>8. ASSUME phase = "streaming", ReadChunk, UNCHANGED requestVars PROVE Scan'
  <2>1. /\ buf \o chunk \in Seq(Byte) /\ Len(buf \o chunk) = Len(buf) + Len(chunk)
        /\ chunk \in Seq(Byte) /\ Len(chunk) \in Nat /\ Len(buf) \in Nat /\ total \in Nat
    BY <1>0, <1>8, ChunkFacts DEF ReadChunk
  <2>2. /\ scanned \in Nat /\ buf \in Seq(Byte)
        /\ NextPiece(buf \o chunk, scanned) \in 0 .. Len(buf \o chunk)
    <3>1. scanned \in Nat /\ buf \in Seq(Byte)
      BY <1>0 DEF Shape, TypeOK, StreamTypes
    <3>2. QED
      BY <2>1, <3>1, PieceFacts
  <2>3. ScanSound(buf, scanned) /\ ~done
    BY <1>0, <1>8 DEF ReadChunk, Scan
  <2>4. ASSUME NEW b, FailStream(b, "502") PROVE Scan'
    BY <2>4 DEF FailStream, Scan
  <2>5. ASSUME Split(buf \o chunk, NextPiece(buf \o chunk, scanned))
        PROVE  Scan'
    <3>1. buf' \in Seq(Byte) /\ scanned' = 0 /\ task' = "sent"
      BY <1>0, <2>1, <2>2, <2>5, SplitFacts DEF Shape
    <3>2. ScanSound(buf', 0)
      BY <3>1, ScanFromStart
    <3>3. QED
      BY <3>1, <3>2 DEF Scan
  <2>6. ASSUME NextPiece(buf \o chunk, scanned) = 0, ~Broken(buf \o chunk, scanned),
               buf' = buf \o chunk, scanned' = ScannedTo(buf \o chunk),
               UNCHANGED <<done, tokens, status, task, forwarded, usageSeen, unread, record>>
        PROVE  Scan'
    <3>1. FindEventBoundary(buf \o chunk, scanned) = 0 /\ Len(buf \o chunk) <= MaxBuffer
      BY <2>1, <2>2, <2>6, PieceFacts
    <3>2. ScanSound(buf \o chunk, scanned)
      BY <2>1, <2>2, <2>3, AppendScan
    <3>3. /\ FindEventBoundary(buf \o chunk, 0) = 0
          /\ ScanSound(buf \o chunk, ScannedTo(buf \o chunk))
      BY <2>1, <3>1, <3>2, ScanFacts
    <3>4. QED
      BY <2>3, <2>6, <3>1, <3>3 DEF Scan
  <2>7. QED
    BY <1>8, <2>4, <2>5, <2>6 DEF ReadChunk
<1>9. ASSUME phase = "streaming", ReadError, UNCHANGED requestVars PROVE Scan'
  BY <1>9 DEF ReadError, Scan
<1>10. ASSUME phase = "streaming", ReadEof, UNCHANGED requestVars PROVE Scan'
  BY <1>10 DEF ReadEof, FinalizeStream, Scan
<1>11. ASSUME phase = "streaming", ReadPending, UNCHANGED requestVars PROVE Scan'
  BY <1>0, <1>11 DEF ReadPending, fields, clocks, source, record, requestVars, Scan
<1>12. ASSUME NEW c \in Chunks, phase = "streaming", Arrive(c), UNCHANGED requestVars
       PROVE  Scan'
  BY <1>0, <1>12 DEF Arrive, Wake, fields, clocks, source, record, requestVars, Scan
<1>13. ASSUME NEW how \in {"eof",
              "error"}, phase = "streaming", UpstreamEnds(how), UNCHANGED requestVars
       PROVE  Scan'
  BY <1>0, <1>13 DEF UpstreamEnds, Wake, fields, clocks, source, record,
     requestVars, Scan
<1>14. ASSUME phase = "streaming", TimerFires, UNCHANGED requestVars PROVE Scan'
  BY <1>0, <1>14 DEF TimerFires, Wake, fields, clocks, source, record, requestVars,
     Scan
<1>15. ASSUME phase = "streaming", ClientTakes, UNCHANGED requestVars PROVE Scan'
  BY <1>0, <1>15 DEF ClientTakes, fields, clocks, source, record, requestVars, Scan
<1>16. ASSUME phase = "streaming", HangUp, UNCHANGED requestVars PROVE Scan'
  BY <1>0, <1>16 DEF HangUp, Scan
<1>17. ASSUME DurationPasses, UNCHANGED requestVars PROVE Scan'
  BY <1>0, <1>17 DEF DurationPasses, fields, clocks, source, record, requestVars,
     Scan
<1>18. ASSUME Cancel, UNCHANGED requestVars PROVE Scan'
  BY <1>0, <1>18 DEF Cancel, Wake, fields, clocks, source, record, requestVars, Scan
<1>19. CASE UNCHANGED vars
  BY <1>0, <1>19 DEF vars, streamVars, fields, clocks, source, record, requestVars,
     Scan
<1>20. QED
  BY <1>1, <1>2, <1>3, <1>4, <1>5, <1>6, <1>7, <1>8, <1>9, <1>10, <1>11, <1>12,
     <1>13, <1>14, <1>15, <1>16, <1>17, <1>18, <1>19 DEF Next, Streaming,
     StreamNext, Poll, Outside

\* Every step keeps what was reported for the record.
LEMMA UsageStep ==
  ASSUME Inv, [Next]_vars
  PROVE  Usage' /\ ReportedUsageIsRecorded'
<1> DEFINE Goal == Usage /\ ReportedUsageIsRecorded
<1>0. /\ Shape /\ NotBegun /\ ExactlyOneRecord /\ Scan /\ Usage
      /\ ReportedUsageIsRecorded
  BY DEF Inv
<1> SUFFICES Goal'
  OBVIOUS
<1>1. ASSUME RequestStep PROVE Goal'
  <2>1. UNCHANGED <<fields, clocks, wakers, source, task, forwarded, usageSeen, unread>>
    BY <1>1, RequestFrame DEF streamOnly
  <2>2. CASE StreamHeaders
    <3>1. records' = 0
      BY <1>0, <2>2 DEF StreamHeaders, ExactlyOneRecord, Over, streamVars, record
    <3>2. tokens \in BOOLEAN /\ usageSeen \in BOOLEAN
      BY <1>0 DEF Shape, TypeOK, StreamTypes
    <3>3. ~tokens /\ ~usageSeen /\ unread = {}
      BY <1>0, <2>2 DEF NotBegun, StreamHeaders
    <3>4. Accounted
      BY <3>2, <3>3 DEF Accounted
    <3>5. Accounted'
      BY <2>1, <3>4 DEF fields, Accounted
    <3>6. QED
      BY <3>1, <3>5 DEF Usage, ReportedUsageIsRecorded, Accounted
  <2>3. CASE ~StreamHeaders
    <3>1. phase' # "streaming"
      BY <1>1, <2>3 DEF RequestStep, Answer, Refuse, DlpBlocks, PassChecks, Resolve,
         Prepare,
         ExecuteFails, BodyFails, PlainHeaders, ErrorHeaders, ErrorBodyRead,
         ErrorBodyTimesOut, BodyRead, HangUpEarly
    <3>2. QED
      BY <3>1 DEF Usage, ReportedUsageIsRecorded, Accounted
  <2>4. QED
    BY <2>2, <2>3
<1>2. ASSUME phase = "streaming", PollDone, UNCHANGED requestVars PROVE Goal'
  BY <1>0, <1>2 DEF PollDone, fields, clocks, source, record, requestVars, Usage,
     ReportedUsageIsRecorded, Accounted, Scan
<1>3. ASSUME phase = "streaming", PollTimesOut, UNCHANGED requestVars PROVE Goal'
  <2>1. Accounted
    BY <1>0, <1>3 DEF PollTimesOut, Usage
  <2>2. /\ logged'.usage => usageSeen'
        /\ usageSeen' => logged'.usage \/ unread' # {}
        /\ logged'.status = "504" /\ done'
    BY <1>0, <1>3, <2>1, FinalizeUsage DEF PollTimesOut
  <2>3. QED
    BY <2>2 DEF Usage, ReportedUsageIsRecorded, Accounted
<1>4. ASSUME phase = "streaming", PollPiece, UNCHANGED requestVars PROVE Goal'
  <2>1. buf \in Seq(Byte) /\ scanned \in Nat
    BY <1>0 DEF Shape, TypeOK, StreamTypes
  <2>2. NextPiece(buf, scanned) \in 0 .. Len(buf)
    BY <2>1, PieceFacts
  <2>3. Accounted
    BY <1>0, <1>4 DEF PollPiece, Usage
  <2>4. Accounted'
    BY <1>0, <1>4, <2>1, <2>2, <2>3, SplitFacts DEF PollPiece, Shape
  <2>5. records' = 0
    BY <1>0, <1>4 DEF PollPiece, ExactlyOneRecord, Over, record
  <2>6. QED
    BY <2>4, <2>5 DEF Usage, ReportedUsageIsRecorded, Accounted
<1>5. ASSUME phase = "streaming", PollBroken, UNCHANGED requestVars PROVE Goal'
  <2>1. Accounted
    BY <1>0, <1>5 DEF PollBroken, Usage
  <2>2. logged'.usage = tokens /\ UNCHANGED <<usageSeen, unread>> /\ done'
    BY <1>0, <1>5, FailStreamFacts DEF PollBroken
  <2>3. QED
    BY <2>1, <2>2 DEF Usage, ReportedUsageIsRecorded, Accounted
<1>6. ASSUME phase = "streaming", PollShutdown, UNCHANGED requestVars PROVE Goal'
  <2>1. Accounted
    BY <1>0, <1>6 DEF PollShutdown, Quiet, Usage
  <2>2. status \in {"200", "502", "504", "499"}
    BY <1>0 DEF Shape, TypeOK, StreamTypes
  <2>3. FindEventBoundary(buf, 0) = 0
    BY <1>0, <1>6, ScanFacts DEF PollShutdown, Quiet, NextPiece, Scan, Shape, TypeOK,
       StreamTypes
  <2>4. /\ logged'.usage => usageSeen'
        /\ usageSeen' => logged'.usage \/ unread' # {}
        /\ "complete" \notin unread' /\ done'
    BY <1>0, <1>6, <2>1, <2>2, <2>3, FinalizeUsage DEF PollShutdown
  <2>5. QED
    BY <2>4 DEF Usage, ReportedUsageIsRecorded, Accounted
<1>7. ASSUME phase = "streaming", PollInner, UNCHANGED requestVars PROVE Goal'
  BY <1>0, <1>7 DEF PollInner, fields, clocks, source, record, requestVars, Usage,
     ReportedUsageIsRecorded, Accounted, Scan
<1>8. ASSUME phase = "streaming", ReadChunk, UNCHANGED requestVars PROVE Goal'
  <2>1. /\ buf \o chunk \in Seq(Byte) /\ Len(buf \o chunk) = Len(buf) + Len(chunk)
        /\ chunk \in Seq(Byte) /\ Len(chunk) \in Nat /\ Len(buf) \in Nat /\ total \in Nat
    BY <1>0, <1>8, ChunkFacts DEF ReadChunk
  <2>2. /\ scanned \in Nat /\ buf \in Seq(Byte)
        /\ NextPiece(buf \o chunk, scanned) \in 0 .. Len(buf \o chunk)
    <3>1. scanned \in Nat /\ buf \in Seq(Byte)
      BY <1>0 DEF Shape, TypeOK, StreamTypes
    <3>2. QED
      BY <2>1, <3>1, PieceFacts
  <2>3. Accounted /\ ~done /\ records = 0
    BY <1>0, <1>8 DEF ReadChunk, Scan, Usage, ExactlyOneRecord, Over
  <2>4. ASSUME NEW b, FailStream(b, "502") PROVE Goal'
    <3>1. logged'.usage = tokens /\ UNCHANGED <<usageSeen, unread>> /\ done'
      BY <1>0, <2>4, FailStreamFacts
    <3>2. QED
      BY <2>3, <3>1 DEF Usage, ReportedUsageIsRecorded, Accounted
  <2>5. ASSUME Split(buf \o chunk, NextPiece(buf \o chunk, scanned)),
               UNCHANGED <<done, status, record>>
        PROVE  Goal'
    <3>1. Accounted'
      BY <1>0, <2>1, <2>2, <2>3, <2>5, SplitFacts DEF Shape
    <3>2. QED
      BY <2>3, <2>5, <3>1 DEF Usage, ReportedUsageIsRecorded, Accounted, record
  <2>6. ASSUME UNCHANGED <<done, tokens, status, task, forwarded, usageSeen, unread, record>>
        PROVE  Goal'
    BY <2>3, <2>6 DEF Usage, ReportedUsageIsRecorded, Accounted, record
  <2>7. QED
    BY <1>8, <2>4, <2>5, <2>6 DEF ReadChunk
<1>9. ASSUME phase = "streaming", ReadError, UNCHANGED requestVars PROVE Goal'
  <2>1. Accounted
    BY <1>0, <1>9 DEF ReadError, Scan, Usage
  <2>2. status \in {"200", "502", "504", "499"}
    BY <1>0 DEF Shape, TypeOK, StreamTypes
  <2>3. logged'.usage = tokens /\ UNCHANGED <<usageSeen, unread>> /\ done'
    BY <1>0, <1>9, <2>2, FinalizeLogFacts DEF ReadError
  <2>4. QED
    BY <2>1, <2>3 DEF Usage, ReportedUsageIsRecorded, Accounted
<1>10. ASSUME phase = "streaming", ReadEof, UNCHANGED requestVars PROVE Goal'
  <2>1. Accounted
    BY <1>0, <1>10 DEF ReadEof, Scan, Usage
  <2>2. status \in {"200", "502", "504", "499"}
    BY <1>0 DEF Shape, TypeOK, StreamTypes
  <2>3. FindEventBoundary(buf, 0) = 0
    BY <1>0, <1>10 DEF ReadEof, Scan
  <2>4. /\ logged'.usage => usageSeen'
        /\ usageSeen' => logged'.usage \/ unread' # {}
        /\ "complete" \notin unread' /\ done'
    BY <1>0, <1>10, <2>1, <2>2, <2>3, FinalizeUsage DEF ReadEof
  <2>5. QED
    BY <2>4 DEF Usage, ReportedUsageIsRecorded, Accounted
<1>11. ASSUME phase = "streaming", ReadPending, UNCHANGED requestVars PROVE Goal'
  BY <1>0, <1>11 DEF ReadPending, fields, clocks, source, record, requestVars,
     Usage, ReportedUsageIsRecorded, Accounted, Scan
<1>12. ASSUME NEW c \in Chunks, phase = "streaming", Arrive(c), UNCHANGED requestVars
       PROVE  Goal'
  BY <1>0, <1>12 DEF Arrive, Wake, fields, clocks, source, record, requestVars,
     Usage, ReportedUsageIsRecorded, Accounted, Scan
<1>13. ASSUME NEW how \in {"eof",
              "error"}, phase = "streaming", UpstreamEnds(how), UNCHANGED requestVars
       PROVE  Goal'
  BY <1>0, <1>13 DEF UpstreamEnds, Wake, fields, clocks, source, record,
     requestVars, Usage, ReportedUsageIsRecorded, Accounted, Scan
<1>14. ASSUME phase = "streaming", TimerFires, UNCHANGED requestVars PROVE Goal'
  BY <1>0, <1>14 DEF TimerFires, Wake, fields, clocks, source, record, requestVars,
     Usage, ReportedUsageIsRecorded, Accounted, Scan
<1>15. ASSUME phase = "streaming", ClientTakes, UNCHANGED requestVars PROVE Goal'
  BY <1>0, <1>15 DEF ClientTakes, fields, clocks, source, record, requestVars,
     Usage, ReportedUsageIsRecorded, Accounted, Scan
<1>16. ASSUME phase = "streaming", HangUp, UNCHANGED requestVars PROVE Goal'
  <2>1. CASE done
    BY <1>0, <1>16, <2>1 DEF HangUp, Usage, ReportedUsageIsRecorded, record, requestVars
  <2>2. CASE ~done
    <3>1. Accounted
      BY <1>0, <1>16, <2>2 DEF HangUp, Usage
    <3>2. logged'.usage = tokens
      BY <1>0, <1>16, <2>2, FinalizeLogFacts DEF HangUp
    <3>3. QED
      BY <1>16, <3>1, <3>2 DEF HangUp, Usage, ReportedUsageIsRecorded, Accounted
  <2>3. QED
    BY <2>1, <2>2
<1>17. ASSUME DurationPasses, UNCHANGED requestVars PROVE Goal'
  BY <1>0, <1>17 DEF DurationPasses, fields, clocks, source, record, requestVars,
     Usage, ReportedUsageIsRecorded, Accounted, Scan
<1>18. ASSUME Cancel, UNCHANGED requestVars PROVE Goal'
  BY <1>0, <1>18 DEF Cancel, Wake, fields, clocks, source, record, requestVars,
     Usage, ReportedUsageIsRecorded, Accounted, Scan
<1>19. CASE UNCHANGED vars
  BY <1>0, <1>19 DEF vars, streamVars, fields, clocks, source, record, requestVars,
     Usage, ReportedUsageIsRecorded, Accounted
<1>20. QED
  BY <1>1, <1>2, <1>3, <1>4, <1>5, <1>6, <1>7, <1>8, <1>9, <1>10, <1>11, <1>12,
     <1>13, <1>14, <1>15, <1>16, <1>17, <1>18, <1>19 DEF Next, Streaming,
     StreamNext, Poll, Outside

\* The invariant holds in every reachable state.
LEMMA Invariance == Spec => []Inv
<1>1. Init => Inv
  BY InitInv
<1>2. Inv /\ [Next]_vars => Inv'
  BY ShapeStep, NotBegunStep, ResponsibleStep, OneRecordStep, MatchesStep, BytesStep,
     ScanStep, UsageStep DEF Inv
<1>3. QED
  BY <1>1, <1>2, PTL DEF Spec

-----------------------------------------------------------------------------
(* theorems *)

\* proxy_request, its guard and the stream keep the types of their state.
THEOREM TypeCorrect == Spec => []TypeOK
<1>1. Inv => TypeOK
  BY DEF Inv, Shape
<1>2. QED
  BY <1>1, Invariance, PTL

\* The guard, its Drop, the stream and its Drop between them write exactly one
\* proxy_log record for a request that reached the upstream call or was blocked
\* by DLP, and none before the request is over.
THEOREM OneRecordPerRequest == Spec => []ExactlyOneRecord
<1>1. Inv => ExactlyOneRecord
  BY DEF Inv
<1>2. QED
  BY <1>1, Invariance, PTL

\* The record of a request carries the status the client was answered with, but
\* for the error body of a streamed call that times out.
THEOREM RecordTellsTheAnswer == Spec => []RecordMatchesAnswer
<1>1. Inv => RecordMatchesAnswer
  BY DEF Inv
<1>2. QED
  BY <1>1, Invariance, PTL

\* However the upstream cuts its bytes into chunks, poll_next never waits for
\* more while the buffer holds a complete event or more than
\* MAX_SSE_BUFFER_BYTES: the three bytes kept back from the scan are enough.
THEOREM IncrementalScanIsComplete == Spec => []NothingHeldBack
<1>1. Inv => NothingHeldBack
  BY DEF Inv, Scan, NothingHeldBack
<1>2. QED
  BY <1>1, Invariance, PTL

\* Every byte read from the upstream is forwarded or in the buffer, finalize_stream
\* leaves none behind, and what is forwarded is within max_response_body_bytes.
THEOREM BytesAreAccountedFor == Spec => []NoByteLost
<1>1. Inv => NoByteLost
  BY DEF Inv
<1>2. QED
  BY <1>1, Invariance, PTL

\* Token usage handed on to the client is in finalize_log's record, or was handed
\* on unread: in an event that is not UTF-8 or in finalize_stream's rest, which
\* holds a complete event only after a timeout.
THEOREM UsageReachesTheRecord == Spec => []ReportedUsageIsRecorded
<1>1. Inv => ReportedUsageIsRecorded
  BY DEF Inv
<1>2. QED
  BY <1>1, Invariance, PTL
=============================================================================
