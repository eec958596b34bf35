------------------------------ MODULE LogsPage ------------------------------
(***************************************************************************)
(* The console's log page (frontend/src/pages/logs.rs) over the paged      *)
(* query it calls (handlers/logs.rs, query_proxy_logs_impl), while the log *)
(* worker commits rows and retention deletes the oldest.                   *)
(*                                                                         *)
(* A row is a number; Ties neighbours share a timestamp, and the query has *)
(* nothing but the timestamp to order rows by.  log gives the value of the *)
(* column that the filter compares; the eleven filters of the form are     *)
(* one.  A row is stamped before it is queued, so rows may be committed    *)
(* out of timestamp order.                                                 *)
(*                                                                         *)
(* LocalResource (leptos) runs one fetch at a time: a trigger that comes   *)
(* during a fetch makes it fetch once more when it has ended, with the     *)
(* signals of that moment.                                                 *)
(***************************************************************************)
EXTENDS Naturals, FiniteSets, FiniteSetsExt

CONSTANTS
  Kinds,      \* values of the filtered column
  Filters,    \* the ones the user asks for
  All,        \* the empty filter
  PerPages,   \* the page sizes offered
  MaxPerPage, \* MAX_PER_PAGE
  MaxOffset,  \* MAX_OFFSET_ROWS
  MaxRows,    \* bound: rows ever committed
  Ties        \* bound: rows of one timestamp

ASSUME LogsAssumption ==
  /\ Filters \subseteq Kinds /\ All \notin Kinds
  /\ PerPages \subseteq 1 .. MaxPerPage /\ PerPages # {}
  /\ MaxPerPage \in Nat /\ MaxOffset \in Nat /\ MaxRows \in Nat
  /\ Ties \in Nat \ {0}

VARIABLES
  log,      \* the rows committed and not deleted
  horizon,  \* retention has deleted the rows stamped before it
  page, perPage, filter,  \* the page's signals
  dirty,    \* the resource has been triggered
  rsc,      \* the fetch in progress: its phase, arguments and COUNT
  value,    \* the resource's value
  detail,   \* detail_item: a row is shown in the modal
  overtaken,\* history: page, not the first, comes from a total that no longer holds
  walk      \* history: the pages looked at in order, from page 1

signals == <<page, perPage, filter>>
table   == <<log, horizon>>
vars    == <<table, signals, dirty, rsc, value, detail, overtaken, walk>>

-----------------------------------------------------------------------------
(* the query *)

Matching(f) == {r \in DOMAIN log : f = All \/ log[r] = f}

\* proxy_log.timestamp
Stamp(r) == r \div Ties

\* Mutant: the oldest rows come first.
OldestLead(S, M) == \A r \in S, q \in M \ S : Stamp(q) >= Stamp(r)

\* ORDER BY timestamp DESC: the rows of M may begin with those of S.
Lead(S, M) == \A r \in S, q \in M \ S : Stamp(q) <= Stamp(r)

\* LIMIT pp OFFSET offset: the sets of rows that may be returned.  Rows with the
\* same timestamp come in any order, not always the same.
Rows(f, pp, offset) ==
  LET M == Matching(f)
      n == Min({offset, Cardinality(M)})
  IN  {W \in SUBSET M :
         /\ Cardinality(W) = Min({pp, Cardinality(M) - n})
         /\ \E S \in SUBSET (M \ W) :
              Cardinality(S) = n /\ Lead(S, M) /\ Lead(S \cup W, M)}

\* Mutant: the page named is the number of pages skipped.
ServedPageFromZero(p, pp) == Min({(p - 1) * pp, MaxOffset}) \div pp

\* list_proxy_logs: the skip is capped and the page is derived from it again.
ServedPage(p, pp) == Min({(p - 1) * pp, MaxOffset}) \div pp + 1

\* query_proxy_logs_impl: page.saturating_sub(1) * per_page
Offset(p, pp) == IF p = 0 THEN 0 ELSE (p - 1) * pp

LastPage(total, pp) == Max({(total + pp - 1) \div pp, 1})

-----------------------------------------------------------------------------
NoFetch == [phase |-> "idle", page |-> 1, perPage |-> 1, filter |-> All,
            total |-> 0, raced |-> FALSE]
NoValue == [phase |-> "none", page |-> 1, perPage |-> 1, filter |-> All,
            total |-> 0, raced |-> FALSE, shown |-> 0, old |-> FALSE]
NoWalk  == [at |-> 0, left |-> {}]

Init ==
  /\ log = [r \in {} |-> All] /\ horizon = 0
  /\ page = 1 /\ perPage = Min(PerPages) /\ filter = All
  /\ dirty = TRUE
  /\ rsc = NoFetch /\ value = NoValue
  /\ detail = FALSE /\ overtaken = FALSE /\ walk = NoWalk

-----------------------------------------------------------------------------
(* the log worker *)

\* A commit or a retention DELETE between the COUNT and the SELECT of a query.
Races == rsc' = [rsc EXCEPT !.raced = @ \/ rsc.phase = "counted"]

Commit(r, k) ==
  /\ r \notin DOMAIN log /\ Stamp(r) >= horizon
  /\ log' = [q \in DOMAIN log \cup {r} |-> IF q = r THEN k ELSE log[q]]
  /\ Races
  /\ UNCHANGED <<horizon, signals, dirty, value, detail, overtaken, walk>>

Retain ==
  /\ DOMAIN log # {}
  /\ LET first == Stamp(Min(DOMAIN log))
         kept  == {q \in DOMAIN log : Stamp(q) # first}
     IN  /\ horizon' = first + 1
         /\ log' = [q \in kept |-> log[q]]
         /\ walk' = [walk EXCEPT !.left = @ \cap kept]
  /\ Races
  /\ value' = [value EXCEPT !.old = value.phase = "ok"]
  /\ overtaken' = (page > 1)
  /\ UNCHANGED <<signals, dirty, detail>>

-----------------------------------------------------------------------------
(* the resource and the server *)

\* fetch_proxy_logs; an empty field is left out of the query string.
Request(p, pp, f) ==
  [NoFetch EXCEPT !.phase = "sent", !.page = p, !.perPage = pp, !.filter = f]

\* The fetcher reads the signals; initially and after every trigger.
Fetch ==
  /\ dirty /\ rsc.phase = "idle"
  /\ dirty' = FALSE
  /\ rsc' = Request(page, perPage, filter)
  /\ UNCHANGED <<table, signals, value, detail, overtaken, walk>>

\* list_proxy_logs and the COUNT.
Counted ==
  LET pp == Max({1, Min({rsc.perPage, MaxPerPage})})
  IN  [rsc EXCEPT !.phase = "counted", !.perPage = pp,
                  !.page = ServedPage(rsc.page, pp),
                  !.total = Cardinality(Matching(rsc.filter))]

PastEnd(q) == Offset(q.page, q.perPage) >= q.total

\* The pages a user looks at one after the other, from the first: the rows of
\* the beginning that were on none of them.
Walked(v, items) ==
  CASE v.page = 1 -> [at |-> 1, left |-> Matching(v.filter) \ items]
    [] /\ v.page > 1 /\ walk.at > 0 /\ v.page \in {walk.at, walk.at + 1}
       /\ <<v.filter, v.perPage>> = <<value.filter, value.perPage>>
         -> [at |-> v.page, left |-> walk.left \ items]
    [] OTHER -> NoWalk

\* The last statement of a query and its answer: nothing that happens between
\* the two can tell them apart.
Answer(q, items) ==
  /\ value' = [phase |-> "ok", page |-> q.page, perPage |-> q.perPage,
               filter |-> q.filter, total |-> q.total, raced |-> q.raced,
               shown |-> Cardinality(items), old |-> q.raced]
  /\ walk' = Walked(value', items)
  /\ rsc' = NoFetch
  /\ UNCHANGED <<table, signals, dirty, detail, overtaken>>

CountRows ==
  /\ rsc.phase = "sent" /\ ~PastEnd(Counted)
  /\ rsc' = Counted
  /\ UNCHANGED <<table, signals, dirty, value, detail, overtaken, walk>>

\* A page past the end has no rows to return: the SELECT is left out.
AnswerPastEnd ==
  /\ rsc.phase = "sent" /\ PastEnd(Counted)
  /\ Answer(Counted, {})

SelectRows ==
  /\ rsc.phase = "counted"
  /\ \E items \in Rows(rsc.filter, rsc.perPage, Offset(rsc.page, rsc.perPage)) :
       Answer(rsc, items)

\* An HTTP error, a network error or the 30 s of the AbortSignal.
FetchFails ==
  /\ rsc.phase # "idle"
  /\ value' = [NoValue EXCEPT !.phase = "err"]
  /\ walk' = NoWalk
  /\ rsc' = NoFetch
  /\ UNCHANGED <<table, signals, dirty, detail, overtaken>>

-----------------------------------------------------------------------------
(* the user; the modal's overlay covers everything else *)

BarShown == value.phase = "ok" /\ value.shown > 0

\* Typing in a filter field or picking a date: nothing is fetched yet.
EditFilter(f) ==
  /\ ~detail /\ filter # f
  /\ filter' = f /\ overtaken' = (page > 1)
  /\ UNCHANGED <<table, page, perPage, dirty, rsc, value, detail, walk>>

DoQuery ==
  /\ ~detail
  /\ page' = 1 /\ dirty' = TRUE /\ overtaken' = FALSE
  /\ UNCHANGED <<table, perPage, filter, rsc, value, detail, walk>>

DoReset ==
  /\ ~detail
  /\ filter' = All /\ page' = 1 /\ dirty' = TRUE /\ overtaken' = FALSE
  /\ UNCHANGED <<table, perPage, rsc, value, detail, walk>>

\* Mutant: one page too many can be asked for.
GotoPageOneMore(p) ==
  /\ ~detail /\ BarShown
  /\ p \in 1 .. value.total \div perPage + 1
  /\ page' = p /\ dirty' = TRUE
  /\ overtaken' = (p > 1 /\ (value.old \/ filter # value.filter))
  /\ UNCHANGED <<table, perPage, filter, rsc, value, detail, walk>>

\* The four buttons, and Enter or blur in the page field.  The total is that of
\* the last answer, also while another fetch is in progress.
GotoPage(p) ==
  /\ ~detail /\ BarShown
  /\ p \in 1 .. LastPage(value.total, perPage)
  /\ page' = p /\ dirty' = TRUE
  /\ overtaken' = (p > 1 /\ (value.old \/ filter # value.filter))
  /\ UNCHANGED <<table, perPage, filter, rsc, value, detail, walk>>

SetPerPage(pp) ==
  /\ ~detail /\ BarShown /\ pp # perPage
  /\ perPage' = pp /\ page' = 1 /\ dirty' = TRUE /\ overtaken' = FALSE
  /\ UNCHANGED <<table, filter, rsc, value, detail, walk>>

\* The error card's button.
Retry ==
  /\ ~detail /\ value.phase = "err"
  /\ dirty' = TRUE
  /\ UNCHANGED <<table, signals, rsc, value, detail, overtaken, walk>>

\* A click on a row; the modal keeps a copy of it.
OpenDetail ==
  /\ ~detail /\ BarShown
  /\ detail' = TRUE
  /\ UNCHANGED <<table, signals, dirty, rsc, value, overtaken, walk>>

CloseDetail ==
  /\ detail
  /\ detail' = FALSE
  /\ UNCHANGED <<table, signals, dirty, rsc, value, overtaken, walk>>

-----------------------------------------------------------------------------
Next ==
  \/ \E r \in 1 .. MaxRows, k \in Kinds : Commit(r, k)
  \/ Retain
  \/ Fetch \/ CountRows \/ AnswerPastEnd \/ SelectRows \/ FetchFails
  \/ \E f \in Filters \cup {All} : EditFilter(f)
  \/ DoQuery \/ DoReset \/ Retry \/ OpenDetail \/ CloseDetail
  \/ \E p \in 1 .. MaxRows + 1 : GotoPage(p)
  \/ \E pp \in PerPages : SetPerPage(pp)

Spec == Init /\ [][Next]_vars

-----------------------------------------------------------------------------
(* properties *)

Settled == value.phase = "ok" /\ rsc.phase = "idle" /\ ~dirty

\* The cap on skipped rows applies to what the bar asks for.
Capped == (page - 1) * perPage > MaxOffset

\* When the page has settled, the bar's page number is the page the server
\* served, and "start - end of total", which the bar computes itself, counts
\* the rows in the table: unless the skip was capped (the bar does not look at
\* the page the answer names) or the log changed between COUNT and SELECT.
BarTellsTheTruth ==
  Settled /\ BarShown /\ ~Capped /\ ~value.raced =>
    LET start == (page - 1) * perPage + 1
        end   == Min({start + perPage - 1, value.total})
    IN  value.page = page /\ value.shown = end - start + 1

\* "No data", which also takes the bar away, is shown although rows match only
\* if the page number came from a total that retention or another filter has
\* overtaken since.
EmptyPageExplained ==
  Settled /\ value.shown = 0 /\ value.total > 0 =>
    value.raced \/ (page > 1 /\ overtaken)

\* Going through the pages in order, from the first to the one the bar calls
\* the last, shows every row that was there at the start and still is,
\* although commits keep pushing rows to later pages: all but rows that share
\* their timestamp with another, whose order may differ from page to page.
WalkSeesAll ==
  /\ value.phase = "ok" /\ walk.at = value.page
  /\ walk.at >= LastPage(value.total, value.perPage)
  /\ ~value.raced
  => \A r \in walk.left : \E q \in Matching(value.filter) \ {r} : Stamp(q) = Stamp(r)
=============================================================================
