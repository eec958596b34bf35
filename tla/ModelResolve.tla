----------------------------- MODULE ModelResolve -----------------------------
(***************************************************************************)
(* Resolution of a model name on the proxy path: resolve_model_and_provider*)
(* and cached_upstream with their three DashMaps, against the admin        *)
(* handlers that create, update and delete models and providers.  As in    *)
(* ApiKeyAuth a step is one synchronous stretch between two accesses to    *)
(* shared state, and requests and admin calls are one-shot tasks.          *)
(*                                                                         *)
(* A row's fields other than enabled and provider_id are abstracted to the *)
(* number of the commit that wrote it (ver): two rows are the same exactly *)
(* when the same commit wrote them.  An upstream client is the provider    *)
(* row it was built from.  An entry past its TTL is a miss wherever it is  *)
(* read, so expiry, the cleanup task and eviction are all Forget.          *)
(***************************************************************************)
EXTENDS Naturals, FiniteSets

CONSTANTS
  Requests,        \* calls of proxy_request that reach the resolution
  Admins,          \* calls of the model and provider handlers
  Names,           \* model names, the ones no model has included
  Providers,       \* provider ids (uuids, never used twice)
  CacheMaxEntries, \* config.server.cache_max_entries
  NoRow            \* Option::None

ProviderRow == [enabled : BOOLEAN, ver : Nat]
ModelRow    == [enabled : BOOLEAN, provider_id : Providers, ver : Nat]
Resolved    == [model : ModelRow, provider : ProviderRow]

ASSUME ConstantsAssumption ==
  /\ IsFiniteSet(Names) /\ IsFiniteSet(Providers)
  /\ Names \cap Providers = {}
  /\ CacheMaxEntries \in Nat
  /\ NoRow \notin ProviderRow \cup ModelRow \cup Resolved
  /\ NoRow \notin Requests \cup Names \cup Providers
  /\ NoRow \notin [row : Resolved, by : Requests] \cup [row : ProviderRow, by : Requests]

VARIABLES
  models,      \* table models: name -> row
  providers,   \* table providers: id -> row
  used,        \* provider ids handed out so far
  commits,     \* number of commits
  modelCache,  \* model_cache: name -> the pair cached and, history, who did it
  negCache,    \* negative_model_cache: name -> NoRow, or who cached it
  provCache,   \* provider_cache: id -> the client's row and who cached it
  pc, name, got,             \* per request: place, model name, pair
  apc, aop, target,          \* per admin call: place, operation, name or id
  raced,       \* history: requests that held a pair the tables had left behind
  lost         \* history: targets changed by a handler that never invalidated

tables    == <<models, providers, used, commits>>
caches    == <<modelCache, negCache, provCache>>
local     == <<name, got>>
adminVars == <<apc, aop, target>>
vars == <<tables, caches, pc, local, adminVars, raced, lost>>

ModelOps    == {"createModel", "updateModel", "deleteModel"}
ProviderOps == {"createProvider", "updateProvider", "deleteProvider"}

\* The type invariant, with what the schema's foreign key (ON DELETE CASCADE)
\* keeps: no model row outlives its provider.
TypeOK ==
  /\ models \in [Names -> ModelRow \cup {NoRow}]
  /\ providers \in [Providers -> ProviderRow \cup {NoRow}]
  /\ \A n \in Names : models[n] # NoRow => providers[models[n].provider_id] # NoRow
  /\ used \in SUBSET Providers
  /\ commits \in Nat
  /\ modelCache \in [Names -> [row : Resolved, by : Requests] \cup {NoRow}]
  /\ negCache \in [Names -> Requests \cup {NoRow}]
  /\ provCache \in [Providers -> [row : ProviderRow, by : Requests] \cup {NoRow}]
  /\ pc \in [Requests -> {"start", "cached", "query", "read",
                          "insertModel", "resolved", "insertUpstream",
                          "served", "failed"}]
  /\ name \in [Requests -> Names \cup {NoRow}]
  /\ got \in [Requests -> Resolved \cup {NoRow}]
  /\ apc \in [Admins -> {"idle", "committed", "models", "negatives",
                         "over"}]
  /\ aop \in [Admins -> ModelOps \cup ProviderOps \cup {"none"}]
  /\ target \in [Admins -> Names \cup Providers \cup {NoRow}]
  /\ raced \in SUBSET Requests
  /\ lost \in SUBSET (Names \cup Providers)

\* The tables may hold rows of an earlier process; the caches are empty.
Init ==
  /\ used \in SUBSET Providers
  /\ \E on \in SUBSET used :
       providers = [p \in Providers |->
                      IF p \in used THEN [enabled |-> p \in on, ver |-> 0] ELSE NoRow]
  /\ models \in [Names -> [enabled : BOOLEAN, provider_id : used, ver : {0}] \cup {NoRow}]
  /\ commits = 0
  /\ modelCache = [n \in Names |-> NoRow]
  /\ negCache = [n \in Names |-> NoRow]
  /\ provCache = [p \in Providers |-> NoRow]
  /\ pc = [r \in Requests |-> "start"]
  /\ name = [r \in Requests |-> NoRow]
  /\ got = [r \in Requests |-> NoRow]
  /\ apc = [a \in Admins |-> "idle"]
  /\ aop = [a \in Admins |-> "none"]
  /\ target = [a \in Admins |-> NoRow]
  /\ raced = {}
  /\ lost = {}

-----------------------------------------------------------------------------
(* the store and insert_capped *)

\* resolve_model's join, over given tables.
ResolveIn(ms, ps, n) ==
  IF /\ ms[n] # NoRow
     /\ ms[n].enabled
     /\ ps[ms[n].provider_id] # NoRow
     /\ ps[ms[n].provider_id].enabled
  THEN [model |-> ms[n], provider |-> ps[ms[n].provider_id]]
  ELSE NoRow

ResolveModel(n) == ResolveIn(models, providers, n)

\* insert_capped: the maps it may leave.  Which entry is the oldest is not
\* kept.  The scan, the removal and the insertion are separate lock
\* acquisitions in the code; here only the insertion counts,
\* because Forget may remove any entry at any time.
InsertCapped(map, k, entry) ==
  LET held == {j \in DOMAIN map : map[j] # NoRow}
  IN  CASE CacheMaxEntries = 0 -> {map}
        [] CacheMaxEntries > 0 /\ (k \in held \/ Cardinality(held) < CacheMaxEntries)
             -> {[map EXCEPT ![k] = entry]}
        [] OTHER -> {[map EXCEPT ![oldest] = NoRow, ![k] = entry] : oldest \in held}

-----------------------------------------------------------------------------
(* proxy_request: resolve_model_and_provider, then cached_upstream *)

Goto(r, place) == pc' = [pc EXCEPT ![r] = place]

\* The resolution is over: its locals go with the task.
End(r, place) ==
  /\ Goto(r, place)
  /\ name' = [name EXCEPT ![r] = NoRow]
  /\ got' = [got EXCEPT ![r] = NoRow]

\* The known-unknown check comes first.
CheckNegative(r, n) ==
  /\ pc[r] = "start"
  /\ IF negCache[n] # NoRow
     THEN End(r, "failed")
     ELSE Goto(r, "cached") /\ name' = [name EXCEPT ![r] = n] /\ got' = got
  /\ UNCHANGED <<tables, caches, adminVars, raced, lost>>

\* A change of the model or provider t is committed and not yet invalidated,
\* or never will be.
Unsettled(t) ==
  \/ t \in lost
  \/ \E a \in Admins : target[a] = t /\ apc[a] \in {"committed", "models", "negatives"}

\* get_mut on model_cache: a hit hands out the cached pair.  (raced: the pair
\* is out of date for one of the reasons StaleModelOnlyThroughRace allows.)
ModelHit(r) ==
  LET hit == modelCache[name[r]] IN
    /\ pc[r] = "cached"
    /\ hit # NoRow
    /\ got' = [got EXCEPT ![r] = hit.row]
    /\ raced' = IF /\ hit.row # ResolveModel(name[r])
                   /\ \/ hit.by \in raced
                      \/ Unsettled(name[r]) \/ Unsettled(hit.row.model.provider_id)
                THEN raced \cup {r} ELSE raced
    /\ Goto(r, "resolved")
    /\ UNCHANGED <<tables, caches, name, adminVars, lost>>

ModelMiss(r) ==
  /\ pc[r] = "cached"
  /\ modelCache[name[r]] = NoRow
  /\ Goto(r, "query")
  /\ UNCHANGED <<tables, caches, local, adminVars, raced, lost>>

\* db.resolve_model on the blocking pool: one statement, one snapshot.
Query(r) ==
  /\ pc[r] = "query"
  /\ got' = [got EXCEPT ![r] = ResolveModel(name[r])]
  /\ Goto(r, "read")
  /\ UNCHANGED <<tables, caches, name, adminVars, raced, lost>>

\* A storage error, run_blocking's timeout, or the client hangs up before the
\* task is polled again.
QueryFails(r) ==
  /\ pc[r] \in {"query", "read"}
  /\ End(r, "failed")
  /\ UNCHANGED <<tables, caches, adminVars, raced, lost>>

\* Found: provider_cache first, replacing any client cached for the id.
InsertProvider(r) ==
  /\ pc[r] = "read" /\ got[r] # NoRow
  /\ provCache' \in InsertCapped(provCache, got[r].model.provider_id,
                                 [row |-> got[r].provider, by |-> r])
  /\ Goto(r, "insertModel")
  /\ UNCHANGED <<tables, modelCache, negCache, local, adminVars, raced, lost>>

InsertModel(r) ==
  /\ pc[r] = "insertModel"
  /\ modelCache' \in InsertCapped(modelCache, name[r], [row |-> got[r], by |-> r])
  /\ Goto(r, "resolved")
  /\ UNCHANGED <<tables, negCache, provCache, local, adminVars, raced, lost>>

\* Unknown or disabled: the verdict is cached and answered.
InsertNegative(r) ==
  /\ pc[r] = "read" /\ got[r] = NoRow
  /\ negCache' \in InsertCapped(negCache, name[r], r)
  /\ End(r, "failed")
  /\ UNCHANGED <<tables, modelCache, provCache, adminVars, raced, lost>>

\* supports_endpoint says no for the provider's type.
UnsupportedEndpoint(r) ==
  /\ pc[r] = "resolved"
  /\ End(r, "failed")
  /\ UNCHANGED <<tables, caches, adminVars, raced, lost>>

\* cached_upstream: the cached client, looked up by id alone
UpstreamHit(r) ==
  /\ pc[r] = "resolved"
  /\ provCache[got[r].model.provider_id] # NoRow
  /\ End(r, "served")
  /\ UNCHANGED <<tables, caches, adminVars, raced, lost>>

UpstreamMiss(r) ==
  /\ pc[r] = "resolved"
  /\ provCache[got[r].model.provider_id] = NoRow
  /\ Goto(r, "insertUpstream")
  /\ UNCHANGED <<tables, caches, local, adminVars, raced, lost>>

\* ... or a new one, built from the row this request resolved to
InsertUpstream(r) ==
  /\ pc[r] = "insertUpstream"
  /\ provCache' \in InsertCapped(provCache, got[r].model.provider_id,
                                 [row |-> got[r].provider, by |-> r])
  /\ End(r, "served")
  /\ UNCHANGED <<tables, modelCache, negCache, adminVars, raced, lost>>

\* The client cached_upstream returns, by the row it was built from.
ClientOf(r) ==
  IF pc[r] = "resolved" THEN provCache[got[r].model.provider_id].row ELSE got[r].provider

-----------------------------------------------------------------------------
(* the admin handlers *)

AGoto(a, place) ==
  /\ apc' = [apc EXCEPT ![a] = place]
  /\ UNCHANGED <<aop, target>>

\* The handler has answered or is gone.
AEnd(a) ==
  /\ apc' = [apc EXCEPT ![a] = "over"]
  /\ aop' = [aop EXCEPT ![a] = "none"]
  /\ target' = [target EXCEPT ![a] = NoRow]

\* The requests that have read a pair and not yet cached what they will.
Holding == {r \in Requests : pc[r] \in {"read", "insertModel", "resolved", "insertUpstream"}}

\* The blocking store call of the handler commits the tables ms and ps.
Commit(a, op, t, ms, ps) ==
  /\ apc[a] = "idle"
  /\ models' = ms
  /\ providers' = ps
  /\ commits' = commits + 1
  /\ raced' = raced \cup {r \in Holding : got[r] # ResolveIn(ms, ps, name[r])}
  /\ aop' = [aop EXCEPT ![a] = op]
  /\ target' = [target EXCEPT ![a] = t]
  /\ apc' = [apc EXCEPT ![a] = "committed"]
  /\ UNCHANGED <<caches, pc, local, lost>>

\* insert_model: the name is free and the provider there.  update_model: the
\* row is there, and the foreign key demands the provider.
WriteModel(a, op, n, p, on) ==
  /\ op \in {"createModel", "updateModel"}
  /\ (models[n] = NoRow) = (op = "createModel")
  /\ providers[p] # NoRow
  /\ Commit(a, op, n, [models EXCEPT ![n] =
                         [enabled |-> on, provider_id |-> p, ver |-> commits + 1]], providers)
  /\ UNCHANGED used

DeleteModel(a, n) ==
  /\ models[n] # NoRow
  /\ Commit(a, "deleteModel", n, [models EXCEPT ![n] = NoRow], providers)
  /\ UNCHANGED used

\* insert_provider, under a fresh id, and update_provider
WriteProvider(a, op, p, on) ==
  /\ \/ op = "createProvider" /\ p \notin used
     \/ op = "updateProvider" /\ providers[p] # NoRow
  /\ Commit(a, op, p, models, [providers EXCEPT ![p] = [enabled |-> on, ver |-> commits + 1]])
  /\ used' = used \cup {p}

\* delete_provider; the schema's ON DELETE CASCADE takes its models along.
DeleteProvider(a, p) ==
  /\ providers[p] # NoRow
  /\ Commit(a, "deleteProvider", p,
            [n \in Names |-> IF models[n] # NoRow /\ models[n].provider_id = p
                             THEN NoRow ELSE models[n]],
            [providers EXCEPT ![p] = NoRow])
  /\ UNCHANGED used

\* Input rejected, not found, duplicate, or a storage error: nothing is
\* written and the handler answers an error.
StoreFails(a) ==
  /\ apc[a] = "idle"
  /\ AEnd(a)
  /\ UNCHANGED <<tables, caches, pc, local, raced, lost>>

\* The handler's future is dropped at its await, by run_blocking's timeout or
\* by a client that hangs up; the blocking call commits all the same.  Whether
\* the handler went before or after the commit makes no difference to the
\* tables and the caches.
AbandonAdmin(a) ==
  /\ apc[a] = "committed"
  /\ AEnd(a)
  /\ lost' = lost \cup {target[a]}
  /\ UNCHANGED <<tables, caches, pc, local, raced>>

\* create_provider invalidates nothing.
FinishCreateProvider(a) ==
  /\ apc[a] = "committed" /\ aop[a] = "createProvider"
  /\ AEnd(a)
  /\ UNCHANGED <<tables, caches, pc, local, raced, lost>>

\* Mutant: update_provider relies on the model cache's retain alone.
DropUpstreamForgotten(a) ==
  /\ apc[a] = "committed" /\ aop[a] \in {"updateProvider", "deleteProvider"}
  /\ AGoto(a, "models")
  /\ UNCHANGED <<tables, caches, pc, local, raced, lost>>

\* provider_cache.remove(&id)
DropUpstream(a) ==
  /\ apc[a] = "committed" /\ aop[a] \in {"updateProvider", "deleteProvider"}
  /\ provCache' = [provCache EXCEPT ![target[a]] = NoRow]
  /\ AGoto(a, "models")
  /\ UNCHANGED <<tables, modelCache, negCache, pc, local, raced, lost>>

\* The model cache entries an operation drops.
Affected(a) ==
  IF aop[a] \in ModelOps THEN {target[a]}
  ELSE {n \in Names : modelCache[n] # NoRow /\ modelCache[n].row.model.provider_id = target[a]}

\* Mutant: the retain of the provider handlers looks at the models table.
DropModelsByTable(a) ==
  /\ \/ apc[a] = "committed" /\ aop[a] \in {"updateModel", "deleteModel"}
     \/ apc[a] = "models"
  /\ modelCache' = [n \in Names |->
       IF n = target[a] \/ (models[n] # NoRow /\ models[n].provider_id = target[a])
       THEN NoRow ELSE modelCache[n]]
  /\ IF aop[a] = "deleteModel" THEN AEnd(a) ELSE AGoto(a, "negatives")
  /\ UNCHANGED <<tables, negCache, provCache, pc, local, raced, lost>>

\* model_cache.remove(&name), or retain(|_, v| v.0.1.id != id)
DropModels(a) ==
  /\ \/ apc[a] = "committed" /\ aop[a] \in {"updateModel", "deleteModel"}
     \/ apc[a] = "models"
  /\ modelCache' = [n \in Names |-> IF n \in Affected(a) THEN NoRow ELSE modelCache[n]]
  /\ IF aop[a] = "deleteModel" THEN AEnd(a) ELSE AGoto(a, "negatives")
  /\ UNCHANGED <<tables, negCache, provCache, pc, local, raced, lost>>

\* Mutant: the provider handlers keep the verdicts.
DropNegativesOfModel(a) ==
  /\ \/ apc[a] = "committed" /\ aop[a] = "createModel"
     \/ apc[a] = "negatives"
  /\ negCache' = [n \in Names |-> IF n = target[a] THEN NoRow ELSE negCache[n]]
  /\ AEnd(a)
  /\ UNCHANGED <<tables, modelCache, provCache, pc, local, raced, lost>>

\* negative_model_cache.remove(&name), or clear() in the provider handlers,
\* which go on to clear pinned_clients; then the audit event and the answer.
DropNegatives(a) ==
  /\ \/ apc[a] = "committed" /\ aop[a] = "createModel"
     \/ apc[a] = "negatives"
  /\ negCache' = [n \in Names |->
       IF aop[a] \in ProviderOps \/ n = target[a] THEN NoRow ELSE negCache[n]]
  /\ AEnd(a)
  /\ UNCHANGED <<tables, modelCache, provCache, pc, local, raced, lost>>

-----------------------------------------------------------------------------
\* An entry's TTL runs out, the cleanup task drops it (with half the TTL when
\* the map is nearly full), or an insert_capped evicts it.
Forget ==
  /\ \/ \E n \in Names : /\ modelCache[n] # NoRow
                         /\ modelCache' = [modelCache EXCEPT ![n] = NoRow]
                         /\ UNCHANGED <<negCache, provCache>>
     \/ \E n \in Names : /\ negCache[n] # NoRow
                         /\ negCache' = [negCache EXCEPT ![n] = NoRow]
                         /\ UNCHANGED <<modelCache, provCache>>
     \/ \E p \in Providers : /\ provCache[p] # NoRow
                             /\ provCache' = [provCache EXCEPT ![p] = NoRow]
                             /\ UNCHANGED <<modelCache, negCache>>
  /\ UNCHANGED <<tables, pc, local, adminVars, raced, lost>>

RequestStep(r) ==
  \/ \E n \in Names : CheckNegative(r, n)
  \/ ModelHit(r) \/ ModelMiss(r)
  \/ Query(r) \/ QueryFails(r)
  \/ InsertProvider(r) \/ InsertModel(r) \/ InsertNegative(r)
  \/ UnsupportedEndpoint(r) \/ UpstreamHit(r) \/ UpstreamMiss(r) \/ InsertUpstream(r)

AdminStep(a) ==
  \/ \E op \in ModelOps, n \in Names, p \in Providers, on \in BOOLEAN :
        WriteModel(a, op, n, p, on)
  \/ \E op \in ProviderOps, p \in Providers, on \in BOOLEAN : WriteProvider(a, op, p, on)
  \/ \E n \in Names : DeleteModel(a, n)
  \/ \E p \in Providers : DeleteProvider(a, p)
  \/ StoreFails(a) \/ AbandonAdmin(a) \/ FinishCreateProvider(a)
  \/ DropUpstream(a) \/ DropModels(a) \/ DropNegatives(a)

Next ==
  \/ \E r \in Requests : RequestStep(r)
  \/ \E a \in Admins : AdminStep(a)
  \/ Forget

Spec == Init /\ [][Next]_vars

-----------------------------------------------------------------------------
(* properties *)

\* A cached pair that is not what the tables say was cached by a request that
\* overlapped the change, or the handler of the change has not come to its
\* invalidation.  In particular a change of a provider reaches the entries of
\* every model it serves, a deletion those of the models it takes along, and
\* a model that changed its provider leaves nothing under the old one.
StaleModelOnlyThroughRace ==
  \A n \in Names :
    modelCache[n] # NoRow /\ modelCache[n].row # ResolveModel(n)
      => \/ Unsettled(n)
         \/ Unsettled(modelCache[n].row.model.provider_id)
         \/ modelCache[n].by \in raced

\* A model that resolves is hidden by negative_model_cache only if the verdict
\* was cached by a lookup that overlapped the change that made it resolve, or
\* that change's handler has not cleared it yet: whichever of the model and the
\* provider was created or enabled last.
HiddenModelOnlyThroughRace ==
  \A n \in Names :
    negCache[n] # NoRow /\ ResolveModel(n) # NoRow
      => \/ Unsettled(n)
         \/ Unsettled(models[n].provider_id)
         \/ negCache[n] \in raced

\* A cached client built from anything but the provider's current row was
\* cached by a request that overlapped the change, or used a model entry that
\* did.
StaleClientOnlyThroughRace ==
  \A p \in Providers :
    provCache[p] # NoRow /\ provCache[p].row # providers[p]
      => Unsettled(p) \/ provCache[p].by \in raced
=============================================================================
