------------------------------ MODULE ApiKeyAuth ------------------------------
(***************************************************************************)
(* API-key authentication: auth_middleware and the two DashMaps it reads   *)
(* and writes, against the admin handlers that create, delete and update   *)
(* rows.  Every step below is one synchronous stretch of the code between  *)
(* two accesses to shared state; tokio runs requests and handlers on       *)
(* several threads, so any two steps of different tasks may interleave.    *)
(*                                                                         *)
(* A request and an admin call are one-shot tasks: each member of Requests *)
(* and Admins runs one call of the handler to its end.                     *)
(*                                                                         *)
(* Row contents are abstracted to what verify_key reads (enabled, and an   *)
(* expires_at that is absent or one future instant, Soon).  Instants are   *)
(* abstracted to the age class of the entry they stamp.                    *)
(***************************************************************************)
EXTENDS Naturals, FiniteSets

CONSTANTS
  Requests,        \* calls of auth_middleware
  Admins,          \* calls of create_api_key, delete_api_key, update_api_key
  Issuable,        \* hashes of keys generate_api_key will ever produce
  Bogus,           \* hashes of tokens that are never a key
  MaxPermits,      \* MAX_CONCURRENT_AUTH_LOOKUPS
  CacheMaxEntries, \* config.server.cache_max_entries
  NoRow            \* Option::None

Keys == Issuable \cup Bogus

Row == [enabled : BOOLEAN, expires_at : {"never", "soon"}]

ASSUME ConstantsAssumption ==
  /\ Issuable \cap Bogus = {}
  /\ MaxPermits \in Nat \ {0}
  /\ CacheMaxEntries \in Nat
  /\ NoRow \notin Row
  /\ NoRow \notin Keys
  /\ NoRow \notin Requests
  /\ IsFiniteSet(Requests)
  /\ IsFiniteSet(Keys)

VARIABLES
  authEnabled,   \* config.auth.enabled, read once at start
  soonPassed,    \* Utc::now() has reached the instant Soon
  db,            \* table api_keys: hash -> row, NoRow when there is none
  issued,        \* hashes that have had a row (a key is never generated twice)
  cacheRow,      \* api_key_cache: hash -> cached ApiKeyInfo, NoRow when absent
  cacheFresh,    \* the entry's Instant is less than CACHE_TTL old
  negative,      \* negative_key_cache: "absent", "fresh" or "expired"
  keyRevision,   \* key_revision
  permits,       \* available permits of auth_lookup_permits
  orphanJobs,    \* blocking lookups whose request has gone
  pc, key, rev, got,   \* per request: place, token hash, revision, row read
  apc, aop, akey,      \* per admin call: place, operation, key
  cacheBy,       \* history: the request that inserted the cached entry
  lastBump,      \* history: key_revision after the last bump made for a key
  raced,         \* history: (key, request) with the lookup in flight at a commit
  lost           \* history: keys changed by a handler that never invalidated

world     == <<authEnabled, soonPassed, db, issued>>
positive  == <<cacheRow, cacheFresh, cacheBy>>
pool      == <<permits, orphanJobs>>
local     == <<key, rev, got>>
adminVars == <<apc, aop, akey>>
ghosts    == <<lastBump, raced, lost>>
vars == <<world, positive, negative, keyRevision, pool, pc, local, adminVars, ghosts>>

RequestPlaces ==
  {"start", "negative", "positive", "permit", "revision", "query", "read",
   "insert", "neglen", "neginsert", "ok", "unauthorized", "error"}

AdminPlaces ==
  {"idle", "db", "orphan", "committed", "negremove", "bump",
   "done", "error", "lost"}

AdminOps == {"none", "create", "delete", "update"}

\* The one type invariant: the maps, the table and the tasks hold what their
\* Rust types allow, and the semaphore never goes below zero.
TypeOK ==
  /\ authEnabled \in BOOLEAN
  /\ soonPassed \in BOOLEAN
  /\ db \in [Keys -> Row \cup {NoRow}]
  /\ issued \in SUBSET Issuable
  /\ cacheRow \in [Keys -> Row \cup {NoRow}]
  /\ cacheFresh \in [Keys -> BOOLEAN]
  /\ negative \in [Keys -> {"absent", "fresh", "expired"}]
  /\ keyRevision \in Nat
  /\ permits \in Nat
  /\ orphanJobs \in Nat
  /\ pc \in [Requests -> RequestPlaces]
  /\ key \in [Requests -> Keys \cup {NoRow}]
  /\ rev \in [Requests -> Nat]
  /\ got \in [Requests -> Row \cup {NoRow}]
  /\ apc \in [Admins -> AdminPlaces]
  /\ aop \in [Admins -> AdminOps]
  /\ akey \in [Admins -> Keys \cup {NoRow}]
  /\ cacheBy \in [Keys -> Requests \cup {NoRow}]
  /\ lastBump \in [Keys -> Nat]
  /\ raced \in SUBSET (Keys \X Requests)
  /\ lost \in SUBSET Keys

\* AppState::new: the table may hold keys of an earlier process, the caches
\* are empty.
Init ==
  /\ authEnabled \in BOOLEAN
  /\ soonPassed = FALSE
  /\ issued \in SUBSET Issuable
  /\ db \in {d \in [Keys -> Row \cup {NoRow}] :
               \A k \in Keys : d[k] # NoRow <=> k \in issued}
  /\ cacheRow = [k \in Keys |-> NoRow]
  /\ cacheFresh = [k \in Keys |-> FALSE]
  /\ cacheBy = [k \in Keys |-> NoRow]
  /\ negative = [k \in Keys |-> "absent"]
  /\ keyRevision = 0
  /\ permits = MaxPermits
  /\ orphanJobs = 0
  /\ pc = [r \in Requests |-> "start"]
  /\ key = [r \in Requests |-> NoRow]
  /\ rev = [r \in Requests |-> 0]
  /\ got = [r \in Requests |-> NoRow]
  /\ apc = [a \in Admins |-> "idle"]
  /\ aop = [a \in Admins |-> "none"]
  /\ akey = [a \in Admins |-> NoRow]
  /\ lastBump = [k \in Keys |-> 0]
  /\ raced = {}
  /\ lost = {}

-----------------------------------------------------------------------------
(* auth_middleware *)

\* verify_key: enabled and not past expires_at, judged at the time of the call.
Live(row) == row.enabled /\ ~(row.expires_at = "soon" /\ soonPassed)

Verdict(row) == IF Live(row) THEN "ok" ELSE "unauthorized"

Goto(r, place) == pc' = [pc EXCEPT ![r] = place]

\* Authentication switched off: the request passes with no key name.
Bypass(r) ==
  /\ pc[r] = "start"
  /\ ~authEnabled
  /\ Goto(r, "ok")
  /\ UNCHANGED <<world, positive, negative, keyRevision, pool, local, adminVars, ghosts>>

\* extract_bearer_token found nothing.
NoToken(r) ==
  /\ pc[r] = "start"
  /\ authEnabled
  /\ Goto(r, "unauthorized")
  /\ UNCHANGED <<world, positive, negative, keyRevision, pool, local, adminVars, ghosts>>

\* hash_key(token): a token is bogus or belongs to a key that was handed out.
Present(r, k) ==
  /\ pc[r] = "start"
  /\ authEnabled
  /\ k \in Bogus \cup issued
  /\ key' = [key EXCEPT ![r] = k]
  /\ Goto(r, "negative")
  /\ UNCHANGED <<world, positive, negative, keyRevision, pool, rev, got, adminVars, ghosts>>

CheckNegative(r) ==
  /\ pc[r] = "negative"
  /\ Goto(r, IF negative[key[r]] = "fresh" THEN "unauthorized" ELSE "positive")
  /\ UNCHANGED <<world, positive, negative, keyRevision, pool, local, adminVars, ghosts>>

\* get_mut holds the shard lock: the hit, the slide and the clone are one step.
CacheHit(r) ==
  /\ pc[r] = "positive"
  /\ cacheRow[key[r]] # NoRow
  /\ cacheFresh[key[r]]
  /\ cacheFresh' = [cacheFresh EXCEPT ![key[r]] = TRUE]
  /\ Goto(r, Verdict(cacheRow[key[r]]))
  /\ UNCHANGED <<world, cacheRow, cacheBy, negative, keyRevision, pool, local,
                 adminVars, ghosts>>

CacheMiss(r) ==
  /\ pc[r] = "positive"
  /\ cacheRow[key[r]] = NoRow \/ ~cacheFresh[key[r]]
  /\ Goto(r, "permit")
  /\ UNCHANGED <<world, positive, negative, keyRevision, pool, local, adminVars, ghosts>>

\* Mutant: a lookup that finds the semaphore empty goes ahead.
AcquireWithoutWaiting(r) ==
  /\ pc[r] = "permit"
  /\ permits' = permits - 1
  /\ Goto(r, "revision")
  /\ UNCHANGED <<world, positive, negative, keyRevision, orphanJobs, local,
                 adminVars, ghosts>>

AcquirePermit(r) ==
  /\ pc[r] = "permit"
  /\ permits > 0
  /\ permits' = permits - 1
  /\ Goto(r, "revision")
  /\ UNCHANGED <<world, positive, negative, keyRevision, orphanJobs, local,
                 adminVars, ghosts>>

\* Load key_revision, then hand the query to the blocking pool.
LoadRevision(r) ==
  /\ pc[r] = "revision"
  /\ rev' = [rev EXCEPT ![r] = keyRevision]
  /\ Goto(r, "query")
  /\ UNCHANGED <<world, positive, negative, keyRevision, pool, key, got, adminVars, ghosts>>

\* get_api_key_by_raw on the blocking thread.
Query(r) ==
  /\ pc[r] = "query"
  /\ got' = [got EXCEPT ![r] = db[key[r]]]
  /\ Goto(r, "read")
  /\ UNCHANGED <<world, positive, negative, keyRevision, pool, key, rev, adminVars, ghosts>>

\* Mutant: the early return forgets the permit.
QueryFailsKeepingPermit(r) ==
  /\ pc[r] = "query"
  /\ Goto(r, "error")
  /\ UNCHANGED <<world, positive, negative, keyRevision, pool, local, adminVars, ghosts>>

\* The query returns a storage error: `?` leaves, which drops the permit.
QueryFails(r) ==
  /\ pc[r] = "query"
  /\ permits' = permits + 1
  /\ Goto(r, "error")
  /\ UNCHANGED <<world, positive, negative, keyRevision, orphanJobs, local,
                 adminVars, ghosts>>

\* The request ends at an await: run_blocking's 30 s timeout (while the query
\* runs), or the client hangs up and hyper drops the future (at either await,
\* or once the query is done and before the task is polled again).  The permit
\* is dropped with the future; spawn_blocking's closure runs on.
AbandonLookup(r) ==
  /\ pc[r] \in {"permit", "query", "read"}
  /\ permits' = IF pc[r] = "permit" THEN permits ELSE permits + 1
  /\ orphanJobs' = IF pc[r] = "query" THEN orphanJobs + 1 ELSE orphanJobs
  /\ Goto(r, "error")
  /\ UNCHANGED <<world, positive, negative, keyRevision, local, adminVars, ghosts>>

\* A detached lookup ends; its result is dropped with the JoinHandle.
OrphanJobEnds ==
  /\ orphanJobs > 0
  /\ orphanJobs' = orphanJobs - 1
  /\ UNCHANGED <<world, positive, negative, keyRevision, permits, pc, local,
                 adminVars, ghosts>>

\* Mutant: a disabled or expired key is cached as an invalid token.
RecheckRejectedNegative(r) ==
  /\ pc[r] = "read"
  /\ permits' = permits + 1
  /\ Goto(r, IF got[r] # NoRow /\ Live(got[r]) THEN "insert" ELSE "neglen")
  /\ UNCHANGED <<world, positive, negative, keyRevision, orphanJobs, local,
                 adminVars, ghosts>>

\* drop(permit), then still_current decides whether the result may be cached;
\* a result that may not still answers this request.
Recheck(r) ==
  /\ pc[r] = "read"
  /\ permits' = permits + 1
  /\ Goto(r, IF keyRevision = rev[r]
             THEN IF got[r] # NoRow THEN "insert" ELSE "neglen"
             ELSE IF got[r] # NoRow THEN Verdict(got[r]) ELSE "unauthorized")
  /\ UNCHANGED <<world, positive, negative, keyRevision, orphanJobs, local,
                 adminVars, ghosts>>

\* api_key_cache.insert, then verify_key on the row just read.
InsertPositive(r) ==
  /\ pc[r] = "insert"
  /\ cacheRow' = [cacheRow EXCEPT ![key[r]] = got[r]]
  /\ cacheFresh' = [cacheFresh EXCEPT ![key[r]] = TRUE]
  /\ cacheBy' = [cacheBy EXCEPT ![key[r]] = r]
  /\ Goto(r, Verdict(got[r]))
  /\ UNCHANGED <<world, negative, keyRevision, pool, local, adminVars, ghosts>>

\* negative_key_cache.len() against cache_max_entries.
NegativeLen(r) ==
  /\ pc[r] = "neglen"
  /\ Goto(r, IF Cardinality({k \in Keys : negative[k] # "absent"}) < CacheMaxEntries
             THEN "neginsert" ELSE "unauthorized")
  /\ UNCHANGED <<world, positive, negative, keyRevision, pool, local, adminVars, ghosts>>

InsertNegative(r) ==
  /\ pc[r] = "neginsert"
  /\ negative' = [negative EXCEPT ![key[r]] = "fresh"]
  /\ Goto(r, "unauthorized")
  /\ UNCHANGED <<world, positive, keyRevision, pool, local, adminVars, ghosts>>

-----------------------------------------------------------------------------
(* create_api_key, delete_api_key, update_api_key *)

AGoto(a, place) == apc' = [apc EXCEPT ![a] = place]

\* The lookups of k between their revision load and the end of their insert.
InFlight(k) == {r \in Requests : key[r] = k /\ pc[r] \in {"query", "read", "insert"}}

\* The handler validates its input and hands the store call to the blocking
\* pool.  generate_api_key never repeats a key.
Dispatch(a, op, k) ==
  /\ apc[a] = "idle"
  /\ IF op = "create"
     THEN k \in Issuable \ issued /\ \A b \in Admins : akey[b] # k
     ELSE k \in issued
  /\ aop' = [aop EXCEPT ![a] = op]
  /\ akey' = [akey EXCEPT ![a] = k]
  /\ AGoto(a, "db")
  /\ UNCHANGED <<world, positive, negative, keyRevision, pool, pc, local, ghosts>>

\* The rows a store call may leave: insert_api_key writes an enabled row,
\* delete_api_key none, update_api_key any combination of kept and given fields.
NewRows(op) ==
  CASE op = "create" -> {row \in Row : row.enabled}
    [] op = "delete" -> {NoRow}
    [] op = "update" -> Row

\* The store call commits.  The handler still waiting for it resumes at
\* "committed"; if it is gone, nobody will invalidate anything.
Commit(a, row) ==
  /\ apc[a] \in {"db", "orphan"}
  /\ aop[a] = "create" \/ db[akey[a]] # NoRow
  /\ row \in NewRows(aop[a])
  /\ db' = [db EXCEPT ![akey[a]] = row]
  /\ issued' = issued \cup {akey[a]}
  /\ raced' = raced \cup ({akey[a]} \X InFlight(akey[a]))
  /\ lost' = IF apc[a] = "orphan" THEN lost \cup {akey[a]} ELSE lost
  /\ AGoto(a, IF apc[a] = "orphan" THEN "lost" ELSE "committed")
  /\ UNCHANGED <<authEnabled, soonPassed, positive, negative, keyRevision, pool, pc,
                 local, aop, akey, lastBump>>

\* NotFound, or a storage error: nothing written, the handler answers an error.
StoreFails(a) ==
  /\ apc[a] \in {"db", "orphan"}
  /\ AGoto(a, "error")
  /\ UNCHANGED <<world, positive, negative, keyRevision, pool, pc, local, aop, akey, ghosts>>

\* run_blocking times out or the client hangs up: the handler's future is
\* dropped before it resumes and the rest of its body never runs.
AbandonAdmin(a) ==
  \/ /\ apc[a] = "db"
     /\ AGoto(a, "orphan")
     /\ UNCHANGED <<world, positive, negative, keyRevision, pool, pc, local, aop, akey, ghosts>>
  \/ /\ apc[a] = "committed"
     /\ AGoto(a, "lost")
     /\ lost' = lost \cup {akey[a]}
     /\ UNCHANGED <<world, positive, negative, keyRevision, pool, pc, local, aop, akey,
                    lastBump, raced>>

\* create_api_key has nothing to invalidate: the audit event and the answer.
FinishCreate(a) ==
  /\ apc[a] = "committed"
  /\ aop[a] = "create"
  /\ AGoto(a, "done")
  /\ UNCHANGED <<world, positive, negative, keyRevision, pool, pc, local, aop, akey, ghosts>>

\* Mutant: the handler relies on the revision bump alone.
RemoveNothing(a) ==
  /\ apc[a] = "committed"
  /\ aop[a] # "create"
  /\ AGoto(a, IF aop[a] = "update" THEN "negremove" ELSE "bump")
  /\ UNCHANGED <<world, positive, negative, keyRevision, pool, pc, local, aop, akey, ghosts>>

\* api_key_cache.remove(&hash)
RemoveCached(a) ==
  /\ apc[a] = "committed"
  /\ aop[a] # "create"
  /\ cacheRow' = [cacheRow EXCEPT ![akey[a]] = NoRow]
  /\ cacheBy' = [cacheBy EXCEPT ![akey[a]] = NoRow]
  /\ cacheFresh' = [cacheFresh EXCEPT ![akey[a]] = FALSE]
  /\ AGoto(a, IF aop[a] = "update" THEN "negremove" ELSE "bump")
  /\ UNCHANGED <<world, negative, keyRevision, pool, pc, local, aop, akey, ghosts>>

\* negative_key_cache.remove(&hash), update_api_key only
RemoveNegative(a) ==
  /\ apc[a] = "negremove"
  /\ negative' = [negative EXCEPT ![akey[a]] = "absent"]
  /\ AGoto(a, "bump")
  /\ UNCHANGED <<world, positive, keyRevision, pool, pc, local, aop, akey, ghosts>>

\* Mutant: the handler removes the entry and forgets the bump.
BumpForgotten(a) ==
  /\ apc[a] = "bump"
  /\ lastBump' = [lastBump EXCEPT ![akey[a]] = keyRevision]
  /\ AGoto(a, "done")
  /\ UNCHANGED <<world, positive, negative, keyRevision, pool, pc, local, aop, akey,
                 raced, lost>>

\* key_revision.fetch_add(1), the audit event and the answer.
Bump(a) ==
  /\ apc[a] = "bump"
  /\ keyRevision' = keyRevision + 1
  /\ lastBump' = [lastBump EXCEPT ![akey[a]] = keyRevision + 1]
  /\ AGoto(a, "done")
  /\ UNCHANGED <<world, positive, negative, pool, pc, local, aop, akey, raced, lost>>

-----------------------------------------------------------------------------
(* time and the cleanup task *)

\* An expires_at in the future is reached.
SoonPasses ==
  /\ ~soonPassed
  /\ soonPassed' = TRUE
  /\ UNCHANGED <<authEnabled, db, issued, positive, negative, keyRevision, pool, pc, local,
                 adminVars, ghosts>>

\* Time passes for one entry.  Entries age independently here, which allows
\* every pattern of ages a clock allows.
AgePositive(k) ==
  /\ cacheRow[k] # NoRow
  /\ cacheFresh[k]
  /\ cacheFresh' = [cacheFresh EXCEPT ![k] = FALSE]
  /\ UNCHANGED <<world, cacheRow, cacheBy, negative, keyRevision, pool, pc, local,
                 adminVars, ghosts>>

AgeNegative(k) ==
  /\ negative[k] = "fresh"
  /\ negative' = [negative EXCEPT ![k] = "expired"]
  /\ UNCHANGED <<world, positive, keyRevision, pool, pc, local, adminVars, ghosts>>

\* cleanup_caches on api_key_cache.  Past 90 % of the cap the TTL is halved, so
\* an entry still fresh for auth_middleware may go as well.  retain walks the
\* shards one at a time, so entries go one by one.
CleanupPositive(k) ==
  /\ cacheRow[k] # NoRow
  /\ \/ ~cacheFresh[k]
     \/ Cardinality({j \in Keys : cacheRow[j] # NoRow}) > (CacheMaxEntries * 9) \div 10
  /\ cacheRow' = [cacheRow EXCEPT ![k] = NoRow]
  /\ cacheBy' = [cacheBy EXCEPT ![k] = NoRow]
  /\ cacheFresh' = [cacheFresh EXCEPT ![k] = FALSE]
  /\ UNCHANGED <<world, negative, keyRevision, pool, pc, local, adminVars, ghosts>>

CleanupNegative(k) ==
  /\ negative[k] = "expired"
  /\ negative' = [negative EXCEPT ![k] = "absent"]
  /\ UNCHANGED <<world, positive, keyRevision, pool, pc, local, adminVars, ghosts>>

-----------------------------------------------------------------------------
\* The steps a request takes by itself.
Serve(r) ==
  \/ Bypass(r) \/ NoToken(r)
  \/ \E k \in Keys : Present(r, k)
  \/ CheckNegative(r) \/ CacheHit(r) \/ CacheMiss(r)
  \/ AcquirePermit(r) \/ LoadRevision(r) \/ Query(r) \/ QueryFails(r)
  \/ Recheck(r) \/ InsertPositive(r) \/ NegativeLen(r) \/ InsertNegative(r)

AdminStep(a) ==
  \/ \E op \in AdminOps \ {"none"}, k \in Keys : Dispatch(a, op, k)
  \/ \E row \in Row \cup {NoRow} : Commit(a, row)
  \/ StoreFails(a) \/ AbandonAdmin(a) \/ FinishCreate(a)
  \/ RemoveCached(a) \/ RemoveNegative(a) \/ Bump(a)

Background ==
  \/ OrphanJobEnds \/ SoonPasses
  \/ \E k \in Keys : AgePositive(k) \/ AgeNegative(k)
                       \/ CleanupPositive(k) \/ CleanupNegative(k)

Next ==
  \/ \E r \in Requests : Serve(r) \/ AbandonLookup(r)
  \/ \E a \in Admins : AdminStep(a)
  \/ Background

Spec == Init /\ [][Next]_vars

-----------------------------------------------------------------------------
(* properties *)

\* A delete or update of k is between its commit and its revision bump.
Pending(k) ==
  \E a \in Admins : /\ akey[a] = k
                    /\ aop[a] # "create"
                    /\ apc[a] \in {"committed", "negremove", "bump"}

Stale(k) == cacheRow[k] # NoRow /\ cacheRow[k] # db[k]

\* What the revision guard of auth_middleware does guarantee: once every
\* delete and update of a key has returned (and none lost its handler between
\* commit and invalidation), a cached row that differs from the table was put
\* there by a lookup that had its query in flight when the row changed AND
\* loaded key_revision before the bump.  No later lookup can bring it back.
StaleOnlyThroughRace ==
  \A k \in Keys :
    Stale(k) /\ ~Pending(k) /\ k \notin lost
      => <<k, cacheBy[k]>> \in raced /\ rev[cacheBy[k]] < lastBump[k]

\* A request is let in only with a key that is enabled and unexpired in the
\* table at that moment, unless a change of that key overlaps: it has not been
\* invalidated yet, its handler was lost, or it committed during the lookup
\* that this request, or the one that filled the cache, made.
AcceptedKeyIsLive ==
  [][\A r \in Requests :
       authEnabled /\ pc[r] # "ok" /\ pc'[r] = "ok" =>
         LET k == key[r] IN
           \/ db[k] # NoRow /\ Live(db[k])
           \/ Pending(k) \/ k \in lost
           \/ <<k, r>> \in raced \/ <<k, cacheBy[k]>> \in raced]_vars

\* No path through auth_middleware (early return, timeout, hang-up) leaks or
\* doubles a permit of auth_lookup_permits.
Holders == {r \in Requests : pc[r] \in {"revision", "query", "read"}}

PermitsConserved == permits + Cardinality(Holders) = MaxPermits

\* A key that has a row is never in negative_key_cache, so an existing key is
\* never turned away by the negative short-circuit, even when it is re-enabled.
NegativeHidesNoKey ==
  \A k \in Keys : negative[k] # "absent" => db[k] = NoRow

\* What middleware.rs and handlers/apikeys.rs say of the bump: a lookup in
\* flight during a delete or update never leaves the old row in the cache.
RevokedRowNeverCached ==
  \A k \in Keys : ~Pending(k) /\ k \notin lost => ~Stale(k)
=============================================================================
