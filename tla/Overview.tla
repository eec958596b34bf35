------------------------------ MODULE Overview ------------------------------
(***************************************************************************)
(* The console's overview page (frontend/src/pages/overview.rs) and the    *)
(* response cache of the browser (FETCH_CACHE in frontend/src/api.rs),     *)
(* with the saves of a list page, whose numbers the overview shows.        *)
(*                                                                         *)
(* Every visit of the page has a LocalResource (leptos) of its own: one    *)
(* fetch at a time, a trigger during a fetch makes it fetch again          *)
(* afterwards, and the fetch of a page that was left runs on.  A range of  *)
(* time is a member of Ranges; module StatsQuery has the arithmetic.       *)
(***************************************************************************)
EXTENDS ListPage, SequencesExt

CONSTANTS
  Ranges, Week,   \* the ranges, and the one that a visit starts with
  MaxCached,      \* MAX_CACHE_ENTRIES
  Visits          \* bound: visits of the page

ASSUME OverviewAssumption == Week \in Ranges /\ MaxCached \in Nat /\ Visits \in Nat

VARIABLES
  visit,    \* visits so far
  shown,    \* the visit on the screen, 0 when another page is
  range,    \* start_ts and end_ts
  force,    \* force_refresh
  triggered,\* its resource has been triggered
  fetch,    \* by visit, the fetch in progress
  cache,    \* FETCH_CACHE, the oldest entry first
  stats,    \* the resource's value
  owed      \* history: a read past the cache was asked for, with no other in progress

overview == <<visit, shown, range, force, triggered, stats, owed>>
consoleVars == <<listVars, overview, fetch, cache>>

\* A fetch: its range, the saves that the server counted in; history: those that
\* were acknowledged meanwhile.
Idle == [phase |-> "idle", range |-> Week, saw |-> {}, overlap |-> {}]

ConsoleInit ==
  /\ ListInit
  /\ visit = 0 /\ shown = 0 /\ range = Week /\ force = FALSE /\ triggered = FALSE
  /\ fetch = [v \in 1 .. Visits |-> Idle]
  /\ cache = <<>>
  /\ stats = "none" /\ owed = FALSE

-----------------------------------------------------------------------------
(* the resource, the cache and the server *)

Cached(key) == {i \in DOMAIN cache : cache[i].range = key}

\* map.insert, then the eviction of the oldest entry.
Inserted(f) ==
  LET others == IF Cached(f.range) = {} THEN cache
                ELSE RemoveAt(cache, CHOOSE i \in Cached(f.range) : TRUE)
      all    == Append(others, [range |-> f.range, saw |-> f.saw, overlap |-> f.overlap])
  IN  IF Len(all) > MaxCached THEN Tail(all) ELSE all

\* The future of a fetch ends: one-shot, whatever was asked for meanwhile.
Unforced(v) == force' = (force /\ v # shown)

\* Mutant: a forced read looks at the cache as well.
ReadCachedAlways ==
  /\ shown # 0 /\ triggered /\ fetch[shown].phase = "idle"
  /\ Cached(range) # {}
  /\ triggered' = FALSE
  /\ stats' = "ok"
  /\ Unforced(shown)
  /\ UNCHANGED <<listVars, visit, shown, range, owed, fetch, cache>>

\* api_get_cached: an entry that is there and has not expired.
ReadCached ==
  /\ shown # 0 /\ triggered /\ fetch[shown].phase = "idle"
  /\ ~force /\ Cached(range) # {}
  /\ triggered' = FALSE
  /\ stats' = "ok"
  /\ Unforced(shown)
  /\ UNCHANGED <<listVars, visit, shown, range, owed, fetch, cache>>

SendQuery ==
  /\ shown # 0 /\ triggered /\ fetch[shown].phase = "idle"
  /\ force \/ Cached(range) = {}
  /\ triggered' = FALSE
  /\ fetch' = [fetch EXCEPT ![shown] = [Idle EXCEPT !.phase = "sent", !.range = range]]
  /\ UNCHANGED <<listVars, visit, shown, range, force, stats, owed, cache>>

\* overview_stats counts providers and models.
QueryRead(v) ==
  /\ fetch[v].phase = "sent"
  /\ fetch' = [fetch EXCEPT ![v].phase = "read", ![v].saw = Committed]
  /\ UNCHANGED <<listVars, overview, cache>>

\* The answer comes, is cached, and is the value if its page is still there.
QueryAnswered(v) ==
  /\ fetch[v].phase = "read"
  /\ cache' = Inserted(fetch[v])
  /\ stats' = IF v = shown THEN "ok" ELSE stats
  /\ fetch' = [fetch EXCEPT ![v] = Idle]
  /\ Unforced(v)
  /\ owed' = (owed /\ v # shown)
  /\ UNCHANGED <<listVars, visit, shown, range, triggered>>

\* handle_401
MayBeUnauthorised == cache' \in {cache, <<>>}

\* A network error, a timeout, an HTTP error.
QueryFails(v) ==
  /\ fetch[v].phase # "idle"
  /\ MayBeUnauthorised
  /\ stats' = IF v = shown THEN "err" ELSE stats
  /\ fetch' = [fetch EXCEPT ![v] = Idle]
  /\ Unforced(v)
  /\ owed' = (owed /\ v # shown)
  /\ UNCHANGED <<listVars, visit, shown, range, triggered>>

\* An entry gets older than CACHE_TTL_MS: no read finds it any more.
Expire ==
  /\ cache # <<>>
  /\ cache' = Tail(cache)
  /\ UNCHANGED <<listVars, overview, fetch>>

-----------------------------------------------------------------------------
(* the user on the page *)

OpenOverview ==
  /\ ~listed /\ shown = 0 /\ visit < Visits
  /\ visit' = visit + 1 /\ shown' = visit + 1
  /\ range' = Week /\ force' = FALSE
  /\ triggered' = TRUE /\ stats' = "none" /\ owed' = FALSE
  /\ UNCHANGED <<listVars, fetch, cache>>

LeaveOverview ==
  /\ shown # 0
  /\ shown' = 0
  /\ range' = Week /\ force' = FALSE
  /\ triggered' = FALSE /\ stats' = "none" /\ owed' = FALSE
  /\ UNCHANGED <<listVars, visit, fetch, cache>>

\* refresh, set_range, and try_refetch after a date was picked.
Refresh(r) ==
  /\ shown # 0
  /\ range' = r /\ force' = TRUE
  /\ triggered' = TRUE
  /\ owed' = (fetch[shown].phase = "idle")
  /\ UNCHANGED <<listVars, visit, shown, stats, fetch, cache>>

\* The error card's button: not forced.
RetryQuery ==
  /\ shown # 0 /\ stats = "err"
  /\ triggered' = TRUE /\ owed' = FALSE
  /\ UNCHANGED <<listVars, visit, shown, range, force, stats, fetch, cache>>

-----------------------------------------------------------------------------
(* the list page, as far as it meets the overview and the cache *)

\* One page is on the screen.
Visit == shown = 0 /\ OpenList /\ UNCHANGED <<overview, fetch, cache>>

\* Mutant: a save leaves the cache as it is.
SavedKeepingCache(o) == Acknowledged(o) /\ UNCHANGED <<overview, fetch, cache>>

\* api_post, api_put, api_delete: a save that succeeded empties the cache.
Saved(o) ==
  /\ Acknowledged(o)
  /\ cache' = <<>>
  /\ fetch' = [v \in 1 .. Visits |->
                 IF fetch[v].phase = "idle" THEN Idle
                 ELSE [fetch[v] EXCEPT !.overlap = @ \cup {o}]]
  /\ UNCHANGED overview

Unsaved(o) == GivenUp(o) /\ MayBeUnauthorised /\ UNCHANGED <<overview, fetch>>

NotLoaded == ReloadFails /\ MayBeUnauthorised /\ UNCHANGED <<overview, fetch>>

-----------------------------------------------------------------------------
ConsoleNext ==
  \/ ReadCached \/ SendQuery
  \/ \E v \in 1 .. Visits : QueryRead(v) \/ QueryAnswered(v) \/ QueryFails(v)
  \/ Expire
  \/ OpenOverview \/ LeaveOverview \/ RetryQuery
  \/ \E r \in Ranges : Refresh(r)
  \/ Visit \/ NotLoaded
  \/ ListNext /\ UNCHANGED <<overview, fetch, cache>>
  \/ \E o \in Ops : Saved(o) \/ Unsaved(o)

ConsoleSpec == ConsoleInit /\ [][ConsoleNext]_consoleVars

-----------------------------------------------------------------------------
(* properties *)

StatsSettled == shown # 0 /\ stats = "ok" /\ fetch[shown].phase = "idle" /\ ~triggered

\* A refresh asked for while no other fetch runs shows what the server read
\* after the click, never a cached response, however the page's other fetches
\* and the cache's entries come and go.  (Asked for during a fetch it may not:
\* the end of that fetch takes the force flag back; and Retry is not forced.)
RefreshIsFresh == StatsSettled => ~owed

\* Every cached response counts in every save that the server acknowledged,
\* except those whose acknowledgement came while the response was under way.
SavedChangeIsSeen ==
  \A i \in DOMAIN cache : Acked \subseteq cache[i].saw \cup cache[i].overlap
=============================================================================
