------------------------- MODULE ModelResolveProofs -------------------------
(***************************************************************************)
(* What holds of ModelResolve for every number of requests, admin calls,   *)
(* models and providers.  The inductive invariant is Inv: the shape of the *)
(* state, what a request in flight knows about the pair it holds, and for  *)
(* each of the three caches why an entry may be out of date: whoever       *)
(* inserted it raced, or the handler of the change was abandoned, or that  *)
(* handler has yet to come to its removal from this very cache.            *)
(***************************************************************************)
EXTENDS ModelResolve, TLAPS

\* Tasks carry what they need from the moment they need it; only ids that were
\* handed out have rows.
Shape ==
  /\ TypeOK
  /\ \A r \in Requests :
       pc[r] \in {"cached", "query"} \/ r \in Holding => name[r] \in Names
  /\ \A r \in Requests :
       pc[r] \in {"insertModel", "resolved", "insertUpstream"} => got[r] # NoRow
  /\ \A p \in Providers : providers[p] # NoRow => p \in used
  /\ \A a \in Admins : apc[a] \in {"committed", "models", "negatives"} =>
       \/ aop[a] \in ModelOps /\ target[a] \in Names
       \/ aop[a] \in ProviderOps /\ target[a] \in Providers
  /\ \A a \in Admins :
       apc[a] = "models" => aop[a] \in {"updateProvider", "deleteProvider"}
  /\ \A a \in Admins :
       apc[a] = "negatives" => aop[a] \in {"updateModel", "updateProvider", "deleteProvider"}

\* A request that holds a pair the tables have left behind is known to race.
HeldKnows ==
  \A r \in Holding : got[r] # ResolveModel(name[r]) => r \in raced

\* The handler of a change of name n or provider p has still to remove the
\* model cache entries it affects.
ModelsPending(n, p) ==
  \E a \in Admins :
    \/ target[a] = n /\ aop[a] \in {"updateModel", "deleteModel"} /\ apc[a] = "committed"
    \/ /\ target[a] = p /\ aop[a] \in {"updateProvider", "deleteProvider"}
       /\ apc[a] \in {"committed", "models"}

ModelKnows ==
  \A n \in Names :
    modelCache[n] # NoRow /\ modelCache[n].row # ResolveModel(n) =>
      \/ modelCache[n].by \in raced
      \/ n \in lost \/ modelCache[n].row.model.provider_id \in lost
      \/ ModelsPending(n, modelCache[n].row.model.provider_id)

\* The same for a verdict in the negative cache.
NegativesPending(n, p) ==
  \E a \in Admins :
    \/ /\ target[a] = n /\ aop[a] \in {"createModel", "updateModel"}
       /\ apc[a] \in {"committed", "negatives"}
    \/ /\ target[a] = p /\ aop[a] = "updateProvider"
       /\ apc[a] \in {"committed", "models", "negatives"}

NegativeKnows ==
  \A n \in Names :
    negCache[n] # NoRow /\ ResolveModel(n) # NoRow =>
      \/ negCache[n] \in raced
      \/ n \in lost \/ models[n].provider_id \in lost
      \/ NegativesPending(n, models[n].provider_id)

\* And for an upstream client.
ClientPending(p) ==
  \E a \in Admins :
    target[a] = p /\ aop[a] \in {"updateProvider", "deleteProvider"} /\ apc[a] = "committed"

ClientKnows ==
  \A p \in Providers :
    provCache[p] # NoRow /\ provCache[p].row # providers[p] =>
      provCache[p].by \in raced \/ p \in lost \/ ClientPending(p)

Inv == Shape /\ HeldKnows /\ ModelKnows /\ NegativeKnows /\ ClientKnows

-----------------------------------------------------------------------------
(* operators *)

\* insert_capped sets its own key or nothing, and otherwise only removes.
LEMMA InsertCappedFacts ==
  \A S, T, map, k, entry, new :
    /\ map \in [S -> T \cup {NoRow}] /\ k \in S /\ entry \in T
    /\ new \in InsertCapped(map, k, entry)
    => /\ new \in [S -> T \cup {NoRow}]
       /\ \A j \in S : new[j] \in {map[j], NoRow} \/ (j = k /\ new[j] = entry)
<1> TAKE S, T, map, k, entry, new
<1> HAVE /\ map \in [S -> T \cup {NoRow}] /\ k \in S /\ entry \in T
         /\ new \in InsertCapped(map, k, entry)
<1> DEFINE held == {j \in DOMAIN map : map[j] # NoRow}
<1>1. CASE new = map
  BY <1>1
<1>2. CASE new = [map EXCEPT ![k] = entry]
  BY <1>2
<1>3. CASE \E oldest \in held : new = [map EXCEPT ![oldest] = NoRow, ![k] = entry]
  BY <1>3
<1>4. QED
  BY <1>1, <1>2, <1>3 DEF InsertCapped

\* What a resolution found is a row of the tables and the row of its provider.
LEMMA ResolveFacts ==
  ASSUME TypeOK, NEW n \in Names
  PROVE  /\ ResolveModel(n) \in Resolved \cup {NoRow}
         /\ ResolveModel(n) # NoRow =>
              /\ ResolveModel(n).model = models[n]
              /\ ResolveModel(n).provider = providers[models[n].provider_id]
              /\ models[n] # NoRow
              /\ providers[models[n].provider_id] # NoRow
  BY ConstantsAssumption
  DEF ResolveModel, ResolveIn, TypeOK, Resolved, ModelRow, ProviderRow

\* The maps after the three insertions of a request.
LEMMA ClientInserted ==
  ASSUME TypeOK, NEW r \in Requests, got[r] # NoRow,
         provCache' \in InsertCapped(provCache, got[r].model.provider_id,
                                     [row |-> got[r].provider, by |-> r])
  PROVE  /\ provCache' \in [Providers -> [row : ProviderRow, by : Requests] \cup {NoRow}]
         /\ \A p \in Providers :
              \/ provCache'[p] \in {provCache[p], NoRow}
              \/ /\ p = got[r].model.provider_id
                 /\ provCache'[p] = [row |-> got[r].provider, by |-> r]
<1> DEFINE Entry == [row : ProviderRow, by : Requests]
           entry == [row |-> got[r].provider, by |-> r]
<1>1. got[r] \in Resolved
  BY DEF TypeOK
<1>2. /\ got[r].model.provider_id \in Providers
      /\ entry \in Entry
  BY <1>1 DEF Resolved, ModelRow
<1>3. provCache \in [Providers -> Entry \cup {NoRow}]
  BY DEF TypeOK
<1>4. provCache' \in InsertCapped(provCache, got[r].model.provider_id, entry)
  OBVIOUS
<1> HIDE DEF Entry, entry
<1>5. /\ provCache' \in [Providers -> Entry \cup {NoRow}]
      /\ \A j \in Providers :
           provCache'[j] \in {provCache[j], NoRow} \/ (j = got[r].model.provider_id /\ provCache'[j] = entry)
  BY <1>2, <1>3, <1>4, InsertCappedFacts
<1>6. QED
  BY <1>5 DEF Entry, entry

LEMMA ModelInserted ==
  ASSUME TypeOK, NEW r \in Requests, got[r] # NoRow, name[r] \in Names,
         modelCache' \in InsertCapped(modelCache, name[r], [row |-> got[r], by |-> r])
  PROVE  /\ modelCache' \in [Names -> [row : Resolved, by : Requests] \cup {NoRow}]
         /\ \A n \in Names :
              \/ modelCache'[n] \in {modelCache[n], NoRow}
              \/ n = name[r] /\ modelCache'[n] = [row |-> got[r], by |-> r]
<1> DEFINE Entry == [row : Resolved, by : Requests]
           entry == [row |-> got[r], by |-> r]
<1>1. got[r] \in Resolved
  BY DEF TypeOK
<1>2. entry \in Entry
  BY <1>1
<1>3. modelCache \in [Names -> Entry \cup {NoRow}]
  BY DEF TypeOK
<1>4. modelCache' \in InsertCapped(modelCache, name[r], entry)
  OBVIOUS
<1> HIDE DEF Entry, entry
<1>5. /\ modelCache' \in [Names -> Entry \cup {NoRow}]
      /\ \A j \in Names :
           modelCache'[j] \in {modelCache[j], NoRow} \/ (j = name[r] /\ modelCache'[j] = entry)
  BY <1>2, <1>3, <1>4, InsertCappedFacts
<1>6. QED
  BY <1>5 DEF Entry, entry

LEMMA VerdictInserted ==
  ASSUME TypeOK, NEW r \in Requests, name[r] \in Names,
         negCache' \in InsertCapped(negCache, name[r], r)
  PROVE  /\ negCache' \in [Names -> Requests \cup {NoRow}]
         /\ \A n \in Names :
              \/ negCache'[n] \in {negCache[n], NoRow}
              \/ n = name[r] /\ negCache'[n] = r
<1>1. negCache \in [Names -> Requests \cup {NoRow}]
  BY DEF TypeOK
<1>2. QED
  BY <1>1, InsertCappedFacts

\* A resolution looks at the row of the model and at the row of its provider.
LEMMA ResolveLocal ==
  ASSUME NEW n \in Names, NEW ms, NEW ps,
         ms[n] = models[n],
         models[n] # NoRow => ps[models[n].provider_id] = providers[models[n].provider_id]
  PROVE  ResolveIn(ms, ps, n) = ResolveModel(n)
  BY DEF ResolveIn, ResolveModel

-----------------------------------------------------------------------------
(* the invariant *)

\* The initial states satisfy the invariant.
LEMMA InitInv == Init => Inv
<1> SUFFICES ASSUME Init PROVE Inv
  OBVIOUS
<1>1. TypeOK
  <2> PICK on \in SUBSET used :
         providers = [p \in Providers |->
                        IF p \in used THEN [enabled |-> p \in on, ver |-> 0] ELSE NoRow]
    BY DEF Init
  <2>0. ASSUME NEW p \in used PROVE [enabled |-> p \in on, ver |-> 0] \in ProviderRow
    <3>1. (p \in on) \in BOOLEAN /\ 0 \in Nat
      OBVIOUS
    <3>2. QED
      BY <3>1, Zenon DEF ProviderRow
  <2>1. providers \in [Providers -> ProviderRow \cup {NoRow}]
    BY <2>0
  <2>2. \A p \in used : providers[p] # NoRow
    BY <2>0, ConstantsAssumption DEF Init
  <2>3. models \in [Names -> ModelRow \cup {NoRow}]
    BY DEF Init, ModelRow
  <2>4. \A n \in Names : models[n] # NoRow => models[n].provider_id \in used
    BY DEF Init
  <2>5. QED
    BY <2>1, <2>2, <2>3, <2>4 DEF Init, TypeOK
<1>2. Shape
  BY <1>1 DEF Init, Shape, Holding
<1>3. HeldKnows
  BY DEF Init, HeldKnows, Holding
<1>4. ModelKnows /\ NegativeKnows /\ ClientKnows
  BY DEF Init, ModelKnows, NegativeKnows, ClientKnows
<1>5. QED
  BY <1>2, <1>3, <1>4 DEF Inv

\* Every step keeps the shape of the state.
LEMMA ShapeStep ==
  ASSUME Shape, [Next]_vars
  PROVE  Shape'
<1> USE Shape, ConstantsAssumption
  DEF Shape, TypeOK, Holding, Goto, End, AGoto, AEnd, tables, caches, local, adminVars
<1>1. ASSUME NEW r \in Requests, NEW n \in Names, CheckNegative(r, n) PROVE Shape'
  BY <1>1 DEF CheckNegative
<1>2. ASSUME NEW r \in Requests, ModelHit(r) PROVE Shape'
  BY <1>2 DEF ModelHit
<1>3. ASSUME NEW r \in Requests, ModelMiss(r) PROVE Shape'
  BY <1>3 DEF ModelMiss
<1>4. ASSUME NEW r \in Requests, Query(r) PROVE Shape'
  BY <1>4, ResolveFacts DEF Query
<1>5. ASSUME NEW r \in Requests, QueryFails(r) PROVE Shape'
  BY <1>5 DEF QueryFails
<1>6. ASSUME NEW r \in Requests, InsertProvider(r) PROVE Shape'
  <2>1. provCache' \in [Providers -> [row : ProviderRow, by : Requests] \cup {NoRow}]
    BY <1>6, ClientInserted DEF InsertProvider
  <2>2. QED
    BY <1>6, <2>1 DEF InsertProvider
<1>7. ASSUME NEW r \in Requests, InsertModel(r) PROVE Shape'
  <2>1. modelCache' \in [Names -> [row : Resolved, by : Requests] \cup {NoRow}]
    BY <1>7, ModelInserted DEF InsertModel
  <2>2. QED
    BY <1>7, <2>1 DEF InsertModel
<1>8. ASSUME NEW r \in Requests, InsertNegative(r) PROVE Shape'
  <2>1. negCache' \in [Names -> Requests \cup {NoRow}]
    BY <1>8, VerdictInserted DEF InsertNegative
  <2>2. QED
    BY <1>8, <2>1 DEF InsertNegative
<1>9. ASSUME NEW r \in Requests, UnsupportedEndpoint(r) PROVE Shape'
  BY <1>9 DEF UnsupportedEndpoint
<1>10. ASSUME NEW r \in Requests, UpstreamHit(r) PROVE Shape'
  BY <1>10 DEF UpstreamHit
<1>11. ASSUME NEW r \in Requests, UpstreamMiss(r) PROVE Shape'
  BY <1>11 DEF UpstreamMiss
<1>12. ASSUME NEW r \in Requests, InsertUpstream(r) PROVE Shape'
  <2>1. provCache' \in [Providers -> [row : ProviderRow, by : Requests] \cup {NoRow}]
    BY <1>12, ClientInserted DEF InsertUpstream
  <2>2. QED
    BY <1>12, <2>1 DEF InsertUpstream
<1>13. ASSUME NEW a \in Admins, NEW op \in ModelOps, NEW n \in Names,
              NEW p \in Providers, NEW on \in BOOLEAN, WriteModel(a, op, n, p, on)
       PROVE  Shape'
  <2>1. models' \in [Names -> ModelRow \cup {NoRow}]
    BY <1>13 DEF WriteModel, Commit, ModelRow
  <2>2. providers' \in [Providers -> ProviderRow \cup {NoRow}]
    BY <1>13 DEF WriteModel, Commit, ProviderRow
  <2>3. \A m \in Names : models'[m] # NoRow => providers'[models'[m].provider_id] # NoRow
    BY <1>13 DEF WriteModel, Commit, ModelRow, ProviderRow
  <2>4. \A q \in Providers : providers'[q] # NoRow => q \in used'
    BY <1>13 DEF WriteModel, Commit
  <2>5. used' \in SUBSET Providers /\ raced' \in SUBSET Requests /\ commits' \in Nat
    BY <1>13 DEF WriteModel, Commit
  <2>6. QED
    BY <1>13, <2>1, <2>2, <2>3, <2>4, <2>5 DEF WriteModel, Commit, ModelOps, ProviderOps
<1>14. ASSUME NEW a \in Admins, NEW op \in ProviderOps, NEW p \in Providers,
              NEW on \in BOOLEAN, WriteProvider(a, op, p, on)
       PROVE  Shape'
  <2>1. models' \in [Names -> ModelRow \cup {NoRow}]
    BY <1>14 DEF WriteProvider, Commit, ModelRow
  <2>2. providers' \in [Providers -> ProviderRow \cup {NoRow}]
    BY <1>14 DEF WriteProvider, Commit, ProviderRow
  <2>3. \A m \in Names : models'[m] # NoRow => providers'[models'[m].provider_id] # NoRow
    BY <1>14 DEF WriteProvider, Commit, ModelRow, ProviderRow
  <2>4. \A q \in Providers : providers'[q] # NoRow => q \in used'
    BY <1>14 DEF WriteProvider, Commit
  <2>5. used' \in SUBSET Providers /\ raced' \in SUBSET Requests /\ commits' \in Nat
    BY <1>14 DEF WriteProvider, Commit
  <2>6. QED
    BY <1>14, <2>1, <2>2, <2>3, <2>4, <2>5 DEF WriteProvider, Commit, ModelOps,
       ProviderOps
<1>15. ASSUME NEW a \in Admins, NEW n \in Names, DeleteModel(a, n) PROVE Shape'
  <2>1. models' \in [Names -> ModelRow \cup {NoRow}]
    BY <1>15 DEF DeleteModel, Commit, ModelRow
  <2>2. providers' \in [Providers -> ProviderRow \cup {NoRow}]
    BY <1>15 DEF DeleteModel, Commit, ProviderRow
  <2>3. \A m \in Names : models'[m] # NoRow => providers'[models'[m].provider_id] # NoRow
    BY <1>15 DEF DeleteModel, Commit, ModelRow, ProviderRow
  <2>4. \A q \in Providers : providers'[q] # NoRow => q \in used'
    BY <1>15 DEF DeleteModel, Commit
  <2>5. used' \in SUBSET Providers /\ raced' \in SUBSET Requests /\ commits' \in Nat
    BY <1>15 DEF DeleteModel, Commit
  <2>6. QED
    BY <1>15, <2>1, <2>2, <2>3, <2>4, <2>5 DEF DeleteModel, Commit, ModelOps,
       ProviderOps
<1>16. ASSUME NEW a \in Admins, NEW p \in Providers, DeleteProvider(a, p)
       PROVE  Shape'
  <2>1. models' \in [Names -> ModelRow \cup {NoRow}]
    BY <1>16 DEF DeleteProvider, Commit, ModelRow
  <2>2. providers' \in [Providers -> ProviderRow \cup {NoRow}]
    BY <1>16 DEF DeleteProvider, Commit, ProviderRow
  <2>3. \A m \in Names : models'[m] # NoRow => providers'[models'[m].provider_id] # NoRow
    BY <1>16 DEF DeleteProvider, Commit, ModelRow, ProviderRow
  <2>4. \A q \in Providers : providers'[q] # NoRow => q \in used'
    BY <1>16 DEF DeleteProvider, Commit
  <2>5. used' \in SUBSET Providers /\ raced' \in SUBSET Requests /\ commits' \in Nat
    BY <1>16 DEF DeleteProvider, Commit
  <2>6. QED
    BY <1>16, <2>1, <2>2, <2>3, <2>4, <2>5 DEF DeleteProvider, Commit, ModelOps,
       ProviderOps
<1>17. ASSUME NEW a \in Admins, StoreFails(a) PROVE Shape'
  BY <1>17 DEF StoreFails
<1>18. ASSUME NEW a \in Admins, AbandonAdmin(a) PROVE Shape'
  BY <1>18 DEF AbandonAdmin
<1>19. ASSUME NEW a \in Admins, FinishCreateProvider(a) PROVE Shape'
  BY <1>19 DEF FinishCreateProvider
<1>20. ASSUME NEW a \in Admins, DropUpstream(a) PROVE Shape'
  BY <1>20 DEF DropUpstream
<1>21. ASSUME NEW a \in Admins, DropModels(a) PROVE Shape'
  BY <1>21 DEF DropModels
<1>22. ASSUME NEW a \in Admins, DropNegatives(a) PROVE Shape'
  BY <1>22 DEF DropNegatives
<1>23. ASSUME Forget PROVE Shape'
  BY <1>23 DEF Forget
<1>24. CASE UNCHANGED vars
  BY <1>24 DEF vars
<1>25. QED
  BY <1>1, <1>2, <1>3, <1>4, <1>5, <1>6, <1>7, <1>8, <1>9, <1>10, <1>11,
     <1>12, <1>13, <1>14, <1>15, <1>16, <1>17, <1>18, <1>19, <1>20, <1>21,
     <1>22, <1>23, <1>24
  DEF Next, RequestStep, AdminStep

\* The four actions that change the tables.
CommitStep(a) ==
  \/ \E op \in ModelOps, n \in Names, p \in Providers, on \in BOOLEAN :
        WriteModel(a, op, n, p, on)
  \/ \E op \in ProviderOps, p \in Providers, on \in BOOLEAN : WriteProvider(a, op, p, on)
  \/ \E n \in Names : DeleteModel(a, n)
  \/ \E p \in Providers : DeleteProvider(a, p)

\* A commit leaves the caches alone and takes no excuse away.
LEMMA CommitKeeps ==
  ASSUME Shape, NEW a \in Admins, CommitStep(a)
  PROVE  /\ UNCHANGED caches /\ raced \subseteq raced' /\ lost' = lost
         /\ \A n, p : ModelsPending(n, p) => ModelsPending(n, p)'
         /\ \A n, p : NegativesPending(n, p) => NegativesPending(n, p)'
         /\ \A p : ClientPending(p) => ClientPending(p)'
<1>1. PICK op, t, ms, ps : Commit(a, op, t, ms, ps)
  BY DEF CommitStep, WriteModel, WriteProvider, DeleteModel, DeleteProvider
<1>2. \A b \in Admins : apc[b] # "idle" =>
        target'[b] = target[b] /\ aop'[b] = aop[b] /\ apc'[b] = apc[b]
  BY <1>1 DEF Commit, Shape, TypeOK
<1>3. QED
  BY <1>1, <1>2 DEF Commit, ModelsPending, NegativesPending, ClientPending

\* A commit makes entries of the model cache outdated only if its own handler
\* will remove them.
LEMMA ModelCommit ==
  ASSUME Shape, ModelKnows, NEW a \in Admins, CommitStep(a)
  PROVE  ModelKnows'
<1> SUFFICES ASSUME NEW k \in Names, modelCache[k] # NoRow,
                    NEW q, q = modelCache[k].row.model.provider_id,
                    modelCache[k].row # ResolveIn(models', providers', k)
             PROVE  \/ modelCache[k].by \in raced'
                    \/ k \in lost \/ q \in lost
                    \/ ModelsPending(k, q)'
  BY CommitKeeps DEF ModelKnows, ResolveModel, caches
<1>1. CASE modelCache[k].row # ResolveModel(k)
  BY <1>1, CommitKeeps DEF ModelKnows
<1>2. CASE modelCache[k].row = ResolveModel(k)
  <2>1. TypeOK /\ modelCache[k].row # NoRow
    BY ConstantsAssumption DEF Shape, TypeOK
  <2>2. /\ models[k] # NoRow /\ providers[models[k].provider_id] # NoRow
        /\ q = models[k].provider_id
    BY <1>2, <2>1, ResolveFacts
  <2>3. \/ models'[k] # models[k]
        \/ providers'[models[k].provider_id] # providers[models[k].provider_id]
    BY <1>2, ResolveLocal
  <2>4. ASSUME NEW op \in ModelOps, NEW n \in Names, NEW p \in Providers,
               NEW on \in BOOLEAN,
               WriteModel(a, op, n, p, on)
        PROVE  ModelsPending(k, q)'
    <3>1. k = n
      BY <2>1, <2>3, <2>4 DEF WriteModel, Commit, TypeOK
    <3>2. target'[a] = k /\ aop'[a] = "updateModel" /\ apc'[a] = "committed"
      BY <2>1, <2>2, <2>4, <3>1 DEF WriteModel, Commit, TypeOK
    <3>3. QED
      BY <3>2 DEF ModelsPending
  <2>5. ASSUME NEW op \in ProviderOps, NEW p \in Providers, NEW on \in BOOLEAN,
               WriteProvider(a, op, p, on)
        PROVE  ModelsPending(k, q)'
    <3>1. models[k].provider_id = p
      BY <2>1, <2>3, <2>5 DEF WriteProvider, Commit, TypeOK
    <3>2. target'[a] = p /\ aop'[a] = "updateProvider" /\ apc'[a] = "committed"
      BY <2>1, <2>2, <2>5, <3>1 DEF WriteProvider, Commit, TypeOK, Shape
    <3>3. QED
      BY <2>2, <3>1, <3>2 DEF ModelsPending
  <2>6. ASSUME NEW n \in Names, DeleteModel(a, n)
        PROVE  ModelsPending(k, q)'
    <3>1. k = n
      BY <2>1, <2>3, <2>6 DEF DeleteModel, Commit, TypeOK
    <3>2. target'[a] = k /\ aop'[a] = "deleteModel" /\ apc'[a] = "committed"
      BY <2>1, <2>6, <3>1 DEF DeleteModel, Commit, TypeOK
    <3>3. QED
      BY <3>2 DEF ModelsPending
  <2>7. ASSUME NEW p \in Providers, DeleteProvider(a, p)
        PROVE  ModelsPending(k, q)'
    <3>1. models[k].provider_id = p
      BY <2>1, <2>3, <2>7 DEF DeleteProvider, Commit, TypeOK
    <3>2. target'[a] = p /\ aop'[a] = "deleteProvider" /\ apc'[a] = "committed"
      BY <2>1, <2>7 DEF DeleteProvider, Commit, TypeOK
    <3>3. QED
      BY <2>2, <3>1, <3>2 DEF ModelsPending
  <2>8. QED
    BY <2>4, <2>5, <2>6, <2>7 DEF CommitStep
<1>3. QED
  BY <1>1, <1>2

\* A commit makes a model with a cached verdict resolve only if its own handler
\* will remove the verdict.
LEMMA NegativeCommit ==
  ASSUME Shape, NegativeKnows, NEW a \in Admins, CommitStep(a)
  PROVE  NegativeKnows'
<1> SUFFICES ASSUME NEW k \in Names, negCache[k] # NoRow,
                    NEW q, q = models'[k].provider_id,
                    ResolveIn(models', providers', k) # NoRow
             PROVE  \/ negCache[k] \in raced'
                    \/ k \in lost \/ q \in lost
                    \/ NegativesPending(k, q)'
  BY CommitKeeps DEF NegativeKnows, ResolveModel, caches
<1>1. models'[k] # NoRow /\ providers'[q] # NoRow
  BY DEF ResolveIn
<1>2. CASE ResolveModel(k) # NoRow /\ models'[k] = models[k]
  BY <1>2, CommitKeeps DEF NegativeKnows
<1>3. CASE ResolveModel(k) = NoRow \/ models'[k] # models[k]
  <2>1. \/ models'[k] # models[k]
        \/ providers'[q] # providers[q]
    BY <1>1, <1>3, ResolveLocal
  <2>2. ASSUME NEW op \in ModelOps, NEW n \in Names, NEW p \in Providers,
               NEW on \in BOOLEAN,
               WriteModel(a, op, n, p, on)
        PROVE  NegativesPending(k, q)'
    <3>1. k = n
      BY <2>1, <2>2 DEF WriteModel, Commit, Shape, TypeOK
    <3>2. /\ target'[a] = k /\ aop'[a] \in {"createModel", "updateModel"}
          /\ apc'[a] = "committed"
      BY <2>2, <3>1 DEF WriteModel, Commit, Shape, TypeOK
    <3>3. QED
      BY <3>2 DEF NegativesPending
  <2>3. ASSUME NEW op \in ProviderOps, NEW p \in Providers, NEW on \in BOOLEAN,
               WriteProvider(a, op, p, on)
        PROVE  NegativesPending(k, q)'
    <3>1. models' = models /\ q = p
      BY <2>1, <2>3 DEF WriteProvider, Commit, Shape, TypeOK
    <3>2. providers[p] # NoRow
      BY <1>1, <3>1 DEF Shape, TypeOK
    <3>3. target'[a] = p /\ aop'[a] = "updateProvider" /\ apc'[a] = "committed"
      BY <2>3, <3>2 DEF WriteProvider, Commit, Shape, TypeOK
    <3>4. QED
      BY <3>1, <3>3 DEF NegativesPending
  <2>4. ASSUME NEW n \in Names, DeleteModel(a, n)
        PROVE  FALSE
    BY <1>1, <2>1, <2>4 DEF DeleteModel, Commit, Shape, TypeOK
  <2>5. ASSUME NEW p \in Providers, DeleteProvider(a, p)
        PROVE  FALSE
    BY <1>1, <2>1, <2>5 DEF DeleteProvider, Commit, Shape, TypeOK
  <2>6. QED
    BY <2>2, <2>3, <2>4, <2>5 DEF CommitStep
<1>4. QED
  BY <1>2, <1>3

\* A commit makes a client outdated only if its own handler will remove it.
LEMMA ClientCommit ==
  ASSUME Shape, ClientKnows, NEW a \in Admins, CommitStep(a)
  PROVE  ClientKnows'
<1> SUFFICES ASSUME NEW q \in Providers, provCache[q] # NoRow, provCache[q].row # providers'[q]
             PROVE  provCache[q].by \in raced' \/ q \in lost \/ ClientPending(q)'
  BY CommitKeeps DEF ClientKnows, caches
<1>1. CASE provCache[q].row # providers[q]
  BY <1>1, CommitKeeps DEF ClientKnows
<1>2. CASE provCache[q].row = providers[q]
  <2>1. providers[q] # NoRow /\ providers'[q] # providers[q]
    BY <1>2, ConstantsAssumption DEF Shape, TypeOK
  <2>2. ASSUME NEW op \in ProviderOps, NEW p \in Providers, NEW on \in BOOLEAN,
               WriteProvider(a, op, p, on)
        PROVE  ClientPending(q)'
    <3>1. target'[a] = q /\ aop'[a] = "updateProvider" /\ apc'[a] = "committed"
      BY <2>1, <2>2 DEF WriteProvider, Commit, Shape, TypeOK
    <3>2. QED
      BY <3>1 DEF ClientPending
  <2>3. ASSUME NEW p \in Providers, DeleteProvider(a, p)
        PROVE  ClientPending(q)'
    <3>1. target'[a] = q /\ aop'[a] = "deleteProvider" /\ apc'[a] = "committed"
      BY <2>1, <2>3 DEF DeleteProvider, Commit, Shape, TypeOK
    <3>2. QED
      BY <3>1 DEF ClientPending
  <2>4. QED
    BY <2>1, <2>2, <2>3 DEF CommitStep, WriteModel, DeleteModel, Commit
<1>3. QED
  BY <1>1, <1>2

\* What ModelKnows says, without the details.
LEMMA StaleModel == ModelKnows => StaleModelOnlyThroughRace
  BY DEF ModelKnows, StaleModelOnlyThroughRace, ModelsPending, Unsettled

\* The pair of a request is compared with the tables when the tables change and
\* when it is taken from the cache.
LEMMA HeldStep ==
  ASSUME Shape, HeldKnows, ModelKnows, [Next]_vars
  PROVE  HeldKnows'
<1> USE Shape, HeldKnows
  DEF Shape, TypeOK, HeldKnows, Holding, ResolveModel, Goto, End, AGoto, AEnd, tables,
      caches, local, adminVars
<1>1. ASSUME NEW r \in Requests, NEW n \in Names, CheckNegative(r, n)
       PROVE  HeldKnows'
  BY <1>1 DEF CheckNegative
<1>2. ASSUME NEW r \in Requests, ModelHit(r) PROVE HeldKnows'
  BY <1>2, StaleModel DEF ModelHit, StaleModelOnlyThroughRace
<1>3. ASSUME NEW r \in Requests, ModelMiss(r) PROVE HeldKnows'
  BY <1>3 DEF ModelMiss
<1>4. ASSUME NEW r \in Requests, Query(r) PROVE HeldKnows'
  BY <1>4 DEF Query
<1>5. ASSUME NEW r \in Requests, QueryFails(r) PROVE HeldKnows'
  BY <1>5 DEF QueryFails
<1>6. ASSUME NEW r \in Requests, InsertProvider(r) PROVE HeldKnows'
  BY <1>6 DEF InsertProvider
<1>7. ASSUME NEW r \in Requests, InsertModel(r) PROVE HeldKnows'
  BY <1>7 DEF InsertModel
<1>8. ASSUME NEW r \in Requests, InsertNegative(r) PROVE HeldKnows'
  BY <1>8 DEF InsertNegative
<1>9. ASSUME NEW r \in Requests, UnsupportedEndpoint(r) PROVE HeldKnows'
  BY <1>9 DEF UnsupportedEndpoint
<1>10. ASSUME NEW r \in Requests, UpstreamHit(r) PROVE HeldKnows'
  BY <1>10 DEF UpstreamHit
<1>11. ASSUME NEW r \in Requests, UpstreamMiss(r) PROVE HeldKnows'
  BY <1>11 DEF UpstreamMiss
<1>12. ASSUME NEW r \in Requests, InsertUpstream(r) PROVE HeldKnows'
  BY <1>12 DEF InsertUpstream
<1>13. ASSUME NEW a \in Admins, NEW op \in ModelOps, NEW n \in Names,
              NEW p \in Providers, NEW on \in BOOLEAN, WriteModel(a, op, n, p, on)
       PROVE  HeldKnows'
  BY <1>13 DEF WriteModel, Commit
<1>14. ASSUME NEW a \in Admins, NEW op \in ProviderOps, NEW p \in Providers,
              NEW on \in BOOLEAN, WriteProvider(a, op, p, on)
       PROVE  HeldKnows'
  BY <1>14 DEF WriteProvider, Commit
<1>15. ASSUME NEW a \in Admins, NEW n \in Names, DeleteModel(a, n) PROVE HeldKnows'
  BY <1>15 DEF DeleteModel, Commit
<1>16. ASSUME NEW a \in Admins, NEW p \in Providers, DeleteProvider(a, p)
       PROVE  HeldKnows'
  BY <1>16 DEF DeleteProvider, Commit
<1>17. ASSUME NEW a \in Admins, StoreFails(a) PROVE HeldKnows'
  BY <1>17 DEF StoreFails
<1>18. ASSUME NEW a \in Admins, AbandonAdmin(a) PROVE HeldKnows'
  BY <1>18 DEF AbandonAdmin
<1>19. ASSUME NEW a \in Admins, FinishCreateProvider(a) PROVE HeldKnows'
  BY <1>19 DEF FinishCreateProvider
<1>20. ASSUME NEW a \in Admins, DropUpstream(a) PROVE HeldKnows'
  BY <1>20 DEF DropUpstream
<1>21. ASSUME NEW a \in Admins, DropModels(a) PROVE HeldKnows'
  BY <1>21 DEF DropModels
<1>22. ASSUME NEW a \in Admins, DropNegatives(a) PROVE HeldKnows'
  BY <1>22 DEF DropNegatives
<1>23. ASSUME Forget PROVE HeldKnows'
  BY <1>23 DEF Forget
<1>24. CASE UNCHANGED vars
  BY <1>24 DEF vars
<1>25. QED
  BY <1>1, <1>2, <1>3, <1>4, <1>5, <1>6, <1>7, <1>8, <1>9, <1>10, <1>11,
     <1>12, <1>13, <1>14, <1>15, <1>16, <1>17, <1>18, <1>19, <1>20, <1>21,
     <1>22, <1>23, <1>24
  DEF Next, RequestStep, AdminStep

\* An entry of the model cache gets out of date by a commit, whose handler then
\* has the removal to do, and the removal takes every entry it is pending for.
LEMMA ModelStep ==
  ASSUME Shape, HeldKnows, ModelKnows, [Next]_vars
  PROVE  ModelKnows'
<1> USE Shape, HeldKnows, ModelKnows
  DEF Shape, TypeOK, HeldKnows, ModelKnows, ModelsPending, Holding, ResolveModel,
      Goto, End, AGoto, AEnd, tables, caches, local, adminVars
<1>1. ASSUME NEW r \in Requests, NEW n \in Names, CheckNegative(r, n)
       PROVE  ModelKnows'
  BY <1>1 DEF CheckNegative
<1>2. ASSUME NEW r \in Requests, ModelHit(r) PROVE ModelKnows'
  BY <1>2 DEF ModelHit
<1>3. ASSUME NEW r \in Requests, ModelMiss(r) PROVE ModelKnows'
  BY <1>3 DEF ModelMiss
<1>4. ASSUME NEW r \in Requests, Query(r) PROVE ModelKnows'
  BY <1>4 DEF Query
<1>5. ASSUME NEW r \in Requests, QueryFails(r) PROVE ModelKnows'
  BY <1>5 DEF QueryFails
<1>6. ASSUME NEW r \in Requests, InsertProvider(r) PROVE ModelKnows'
  BY <1>6 DEF InsertProvider
<1>7. ASSUME NEW r \in Requests, InsertModel(r) PROVE ModelKnows'
  BY <1>7, ModelInserted DEF InsertModel
<1>8. ASSUME NEW r \in Requests, InsertNegative(r) PROVE ModelKnows'
  BY <1>8 DEF InsertNegative
<1>9. ASSUME NEW r \in Requests, UnsupportedEndpoint(r) PROVE ModelKnows'
  BY <1>9 DEF UnsupportedEndpoint
<1>10. ASSUME NEW r \in Requests, UpstreamHit(r) PROVE ModelKnows'
  BY <1>10 DEF UpstreamHit
<1>11. ASSUME NEW r \in Requests, UpstreamMiss(r) PROVE ModelKnows'
  BY <1>11 DEF UpstreamMiss
<1>12. ASSUME NEW r \in Requests, InsertUpstream(r) PROVE ModelKnows'
  BY <1>12 DEF InsertUpstream
<1>13. ASSUME NEW a \in Admins, CommitStep(a) PROVE ModelKnows'
  BY <1>13, ModelCommit DEF Shape
<1>14. ASSUME NEW a \in Admins, StoreFails(a) PROVE ModelKnows'
  BY <1>14 DEF StoreFails
<1>15. ASSUME NEW a \in Admins, AbandonAdmin(a) PROVE ModelKnows'
  BY <1>15 DEF AbandonAdmin
<1>16. ASSUME NEW a \in Admins, FinishCreateProvider(a) PROVE ModelKnows'
  BY <1>16 DEF FinishCreateProvider
<1>17. ASSUME NEW a \in Admins, DropUpstream(a) PROVE ModelKnows'
  BY <1>17 DEF DropUpstream
<1>18. ASSUME NEW a \in Admins, DropModels(a) PROVE ModelKnows'
  <2> SUFFICES ASSUME NEW n \in Names, n \notin Affected(a), modelCache[n] # NoRow,
                      modelCache[n].row # ResolveModel(n)
               PROVE  \/ modelCache[n].by \in raced
                      \/ n \in lost \/ modelCache[n].row.model.provider_id \in lost
                      \/ ModelsPending(n, modelCache[n].row.model.provider_id)'
    BY <1>18 DEF DropModels, ModelKnows, ResolveModel, tables
  <2>1. ASSUME NEW b \in Admins,
               \/ target[b] = n /\ aop[b] \in {"updateModel", "deleteModel"} /\ apc[b] = "committed"
               \/ /\ target[b] = modelCache[n].row.model.provider_id
                  /\ aop[b] \in {"updateProvider", "deleteProvider"}
                  /\ apc[b] \in {"committed", "models"}
        PROVE  ModelsPending(n, modelCache[n].row.model.provider_id)'
    <3>1. b # a
      BY <1>18, <2>1 DEF DropModels, Affected, ModelOps, ProviderOps
    <3>2. target'[b] = target[b] /\ aop'[b] = aop[b] /\ apc'[b] = apc[b]
      BY <1>18, <3>1 DEF DropModels, AEnd, AGoto, Shape, TypeOK
    <3>3. modelCache'[n] = modelCache[n]
      BY <1>18 DEF DropModels
    <3>4. QED
      BY <2>1, <3>2, <3>3 DEF ModelsPending
  <2>2. QED
    BY <2>1 DEF ModelKnows, ModelsPending
<1>19. ASSUME NEW a \in Admins, DropNegatives(a) PROVE ModelKnows'
  BY <1>19 DEF DropNegatives
<1>20. ASSUME Forget PROVE ModelKnows'
  BY <1>20 DEF Forget
<1>21. CASE UNCHANGED vars
  BY <1>21 DEF vars
<1>22. QED
  BY <1>1, <1>2, <1>3, <1>4, <1>5, <1>6, <1>7, <1>8, <1>9, <1>10, <1>11,
     <1>12, <1>13, <1>14, <1>15, <1>16, <1>17, <1>18, <1>19, <1>20, <1>21
  DEF Next, RequestStep, AdminStep, CommitStep

\* The same for the negative cache, which the provider handlers clear.
LEMMA NegativeStep ==
  ASSUME Shape, HeldKnows, NegativeKnows, [Next]_vars
  PROVE  NegativeKnows'
<1> USE Shape, HeldKnows, NegativeKnows
  DEF Shape, TypeOK, HeldKnows, NegativeKnows, NegativesPending, Holding,
      ResolveModel, Goto, End, AGoto, AEnd, tables, caches, local, adminVars
<1>1. ASSUME NEW r \in Requests, NEW n \in Names, CheckNegative(r, n)
       PROVE  NegativeKnows'
  BY <1>1 DEF CheckNegative
<1>2. ASSUME NEW r \in Requests, ModelHit(r) PROVE NegativeKnows'
  BY <1>2 DEF ModelHit
<1>3. ASSUME NEW r \in Requests, ModelMiss(r) PROVE NegativeKnows'
  BY <1>3 DEF ModelMiss
<1>4. ASSUME NEW r \in Requests, Query(r) PROVE NegativeKnows'
  BY <1>4 DEF Query
<1>5. ASSUME NEW r \in Requests, QueryFails(r) PROVE NegativeKnows'
  BY <1>5 DEF QueryFails
<1>6. ASSUME NEW r \in Requests, InsertProvider(r) PROVE NegativeKnows'
  BY <1>6 DEF InsertProvider
<1>7. ASSUME NEW r \in Requests, InsertModel(r) PROVE NegativeKnows'
  BY <1>7 DEF InsertModel
<1>8. ASSUME NEW r \in Requests, InsertNegative(r) PROVE NegativeKnows'
  BY <1>8, VerdictInserted DEF InsertNegative
<1>9. ASSUME NEW r \in Requests, UnsupportedEndpoint(r) PROVE NegativeKnows'
  BY <1>9 DEF UnsupportedEndpoint
<1>10. ASSUME NEW r \in Requests, UpstreamHit(r) PROVE NegativeKnows'
  BY <1>10 DEF UpstreamHit
<1>11. ASSUME NEW r \in Requests, UpstreamMiss(r) PROVE NegativeKnows'
  BY <1>11 DEF UpstreamMiss
<1>12. ASSUME NEW r \in Requests, InsertUpstream(r) PROVE NegativeKnows'
  BY <1>12 DEF InsertUpstream
<1>13. ASSUME NEW a \in Admins, CommitStep(a) PROVE NegativeKnows'
  BY <1>13, NegativeCommit
<1>14. ASSUME NEW a \in Admins, StoreFails(a) PROVE NegativeKnows'
  BY <1>14 DEF StoreFails
<1>15. ASSUME NEW a \in Admins, AbandonAdmin(a) PROVE NegativeKnows'
  BY <1>15 DEF AbandonAdmin
<1>16. ASSUME NEW a \in Admins, FinishCreateProvider(a) PROVE NegativeKnows'
  BY <1>16 DEF FinishCreateProvider
<1>17. ASSUME NEW a \in Admins, DropUpstream(a) PROVE NegativeKnows'
  BY <1>17 DEF DropUpstream
<1>18. ASSUME NEW a \in Admins, DropModels(a) PROVE NegativeKnows'
  BY <1>18 DEF DropModels
<1>19. ASSUME NEW a \in Admins, DropNegatives(a) PROVE NegativeKnows'
  <2> SUFFICES ASSUME NEW n \in Names, aop[a] \notin ProviderOps, n # target[a],
                      negCache[n] # NoRow, ResolveModel(n) # NoRow
               PROVE  \/ negCache[n] \in raced
                      \/ n \in lost \/ models[n].provider_id \in lost
                      \/ NegativesPending(n, models[n].provider_id)'
    BY <1>19 DEF DropNegatives, NegativeKnows, ResolveModel, tables
  <2>1. ASSUME NEW b \in Admins,
               \/ /\ target[b] = n /\ aop[b] \in {"createModel", "updateModel"}
                  /\ apc[b] \in {"committed", "negatives"}
               \/ /\ target[b] = models[n].provider_id /\ aop[b] = "updateProvider"
                  /\ apc[b] \in {"committed", "models", "negatives"}
        PROVE  NegativesPending(n, models[n].provider_id)'
    <3>1. b # a
      BY <2>1 DEF ProviderOps
    <3>2. target'[b] = target[b] /\ aop'[b] = aop[b] /\ apc'[b] = apc[b] /\ models' = models
      BY <1>19, <3>1 DEF DropNegatives, AEnd, tables, Shape, TypeOK
    <3>3. QED
      BY <2>1, <3>2 DEF NegativesPending
  <2>2. QED
    BY <2>1 DEF NegativeKnows, NegativesPending
<1>20. ASSUME Forget PROVE NegativeKnows'
  BY <1>20 DEF Forget
<1>21. CASE UNCHANGED vars
  BY <1>21 DEF vars
<1>22. QED
  BY <1>1, <1>2, <1>3, <1>4, <1>5, <1>6, <1>7, <1>8, <1>9, <1>10, <1>11,
     <1>12, <1>13, <1>14, <1>15, <1>16, <1>17, <1>18, <1>19, <1>20, <1>21
  DEF Next, RequestStep, AdminStep, CommitStep

\* And for the clients: who inserts one from an outdated row holds an outdated pair.
LEMMA ClientStep ==
  ASSUME Shape, HeldKnows, ClientKnows, [Next]_vars
  PROVE  ClientKnows'
<1> USE Shape, HeldKnows, ClientKnows
  DEF Shape, TypeOK, HeldKnows, ClientKnows, ClientPending, Holding, Goto, End, AGoto,
      AEnd, tables, caches, local, adminVars
<1>1. ASSUME NEW r \in Requests, NEW n \in Names, CheckNegative(r, n)
       PROVE  ClientKnows'
  BY <1>1 DEF CheckNegative
<1>2. ASSUME NEW r \in Requests, ModelHit(r) PROVE ClientKnows'
  BY <1>2 DEF ModelHit
<1>3. ASSUME NEW r \in Requests, ModelMiss(r) PROVE ClientKnows'
  BY <1>3 DEF ModelMiss
<1>4. ASSUME NEW r \in Requests, Query(r) PROVE ClientKnows'
  BY <1>4 DEF Query
<1>5. ASSUME NEW r \in Requests, QueryFails(r) PROVE ClientKnows'
  BY <1>5 DEF QueryFails
<1>6. ASSUME NEW r \in Requests, InsertProvider(r) PROVE ClientKnows'
  <2>1. got[r].provider # providers[got[r].model.provider_id] => r \in raced
    BY <1>6, ResolveFacts DEF InsertProvider
  <2>2. QED
    BY <1>6, <2>1, ClientInserted DEF InsertProvider
<1>7. ASSUME NEW r \in Requests, InsertModel(r) PROVE ClientKnows'
  BY <1>7 DEF InsertModel
<1>8. ASSUME NEW r \in Requests, InsertNegative(r) PROVE ClientKnows'
  BY <1>8 DEF InsertNegative
<1>9. ASSUME NEW r \in Requests, UnsupportedEndpoint(r) PROVE ClientKnows'
  BY <1>9 DEF UnsupportedEndpoint
<1>10. ASSUME NEW r \in Requests, UpstreamHit(r) PROVE ClientKnows'
  BY <1>10 DEF UpstreamHit
<1>11. ASSUME NEW r \in Requests, UpstreamMiss(r) PROVE ClientKnows'
  BY <1>11 DEF UpstreamMiss
<1>12. ASSUME NEW r \in Requests, InsertUpstream(r) PROVE ClientKnows'
  <2>1. got[r].provider # providers[got[r].model.provider_id] => r \in raced
    BY <1>12, ResolveFacts DEF InsertUpstream
  <2>2. QED
    BY <1>12, <2>1, ClientInserted DEF InsertUpstream
<1>13. ASSUME NEW a \in Admins, CommitStep(a) PROVE ClientKnows'
  BY <1>13, ClientCommit
<1>14. ASSUME NEW a \in Admins, StoreFails(a) PROVE ClientKnows'
  BY <1>14 DEF StoreFails
<1>15. ASSUME NEW a \in Admins, AbandonAdmin(a) PROVE ClientKnows'
  BY <1>15 DEF AbandonAdmin
<1>16. ASSUME NEW a \in Admins, FinishCreateProvider(a) PROVE ClientKnows'
  BY <1>16 DEF FinishCreateProvider
<1>17. ASSUME NEW a \in Admins, DropUpstream(a) PROVE ClientKnows'
  BY <1>17 DEF DropUpstream
<1>18. ASSUME NEW a \in Admins, DropModels(a) PROVE ClientKnows'
  BY <1>18 DEF DropModels
<1>19. ASSUME NEW a \in Admins, DropNegatives(a) PROVE ClientKnows'
  BY <1>19 DEF DropNegatives
<1>20. ASSUME Forget PROVE ClientKnows'
  BY <1>20 DEF Forget
<1>21. CASE UNCHANGED vars
  BY <1>21 DEF vars
<1>22. QED
  BY <1>1, <1>2, <1>3, <1>4, <1>5, <1>6, <1>7, <1>8, <1>9, <1>10, <1>11,
     <1>12, <1>13, <1>14, <1>15, <1>16, <1>17, <1>18, <1>19, <1>20, <1>21
  DEF Next, RequestStep, AdminStep, CommitStep

LEMMA Invariance == Spec => []Inv
<1>1. Inv /\ [Next]_vars => Inv'
  BY ShapeStep, HeldStep, ModelStep, NegativeStep, ClientStep DEF Inv
<1>2. QED
  BY InitInv, <1>1, PTL DEF Spec

-----------------------------------------------------------------------------
(* the theorems *)

\* The type invariant, the foreign key of models on providers included.
THEOREM TypeCorrect == Spec => []TypeOK
<1>1. Inv => TypeOK
  BY DEF Inv, Shape
<1>2. QED
  BY Invariance, <1>1, PTL

\* However many requests and admin calls overlap, a cached pair that is not what
\* the tables say (model_cache in resolve.rs) is explained by an overlap of the
\* lookup with the change, or by a handler that has not come to its invalidation
\* or was abandoned before it.
THEOREM StaleModelExplained == Spec => []StaleModelOnlyThroughRace
<1>1. Inv => StaleModelOnlyThroughRace
  BY StaleModel DEF Inv
<1>2. QED
  BY Invariance, <1>1, PTL

\* The same of a model that resolves and is hidden by negative_model_cache.
THEOREM HiddenModelExplained == Spec => []HiddenModelOnlyThroughRace
<1>1. Inv => HiddenModelOnlyThroughRace
  BY DEF Inv, NegativeKnows, HiddenModelOnlyThroughRace, NegativesPending, Unsettled
<1>2. QED
  BY Invariance, <1>1, PTL

\* The same of a client in provider_cache built from an outdated provider row.
THEOREM StaleClientExplained == Spec => []StaleClientOnlyThroughRace
<1>1. Inv => StaleClientOnlyThroughRace
  BY DEF Inv, ClientKnows, StaleClientOnlyThroughRace, ClientPending, Unsettled
<1>2. QED
  BY Invariance, <1>1, PTL
=============================================================================
