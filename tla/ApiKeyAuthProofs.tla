-------------------------- MODULE ApiKeyAuthProofs --------------------------
(***************************************************************************)
(* What holds of ApiKeyAuth for every number of requests, admin calls,     *)
(* keys and permits.  The inductive invariant is Inv: the shape of the     *)
(* state, what a lookup in flight knows about the row it read, and where   *)
(* a stale cache entry can have come from.                                 *)
(***************************************************************************)
EXTENDS ApiKeyAuth, FiniteSetTheorems, TLAPS

\* A request between presenting its token and its answer.
Active == {"negative", "positive", "permit", "revision", "query", "read",
           "insert", "neglen", "neginsert"}

\* Tasks carry a key from the moment they need one.  A create holds the only
\* reference to its key until it commits.
Shape ==
  /\ TypeOK
  /\ \A r \in Requests : pc[r] \in Active => key[r] \in Bogus \cup issued
  /\ \A a \in Admins : apc[a] # "idle" => akey[a] \in Issuable /\ aop[a] # "none"
  /\ \A a \in Admins :
       aop[a] = "create" /\ apc[a] \in {"db", "orphan"} =>
         /\ akey[a] \notin issued
         /\ \A b \in Admins : b # a => akey[b] # akey[a]
  /\ \A a \in Admins : apc[a] # "idle" /\ aop[a] # "create" => akey[a] \in issued

\* A row, a cached row or a row read exists only for an issued key; a token
\* that was found absent, or is about to be or is negatively cached, stays so.
Absence ==
  /\ \A k \in Keys : db[k] # NoRow => k \in issued
  /\ \A k \in Keys : cacheRow[k] # NoRow => k \in issued
  /\ \A r \in Requests : pc[r] = "insert" => got[r] # NoRow
  /\ \A r \in Requests : pc[r] \in {"read", "insert"} /\ got[r] # NoRow => key[r] \in issued
  /\ \A r \in Requests : pc[r] = "read" /\ got[r] = NoRow => db[key[r]] = NoRow
  /\ \A r \in Requests : pc[r] \in {"neglen", "neginsert"} => db[key[r]] = NoRow
  /\ \A k \in Keys : negative[k] # "absent" => db[k] = NoRow /\ k \in Bogus \cup issued

\* The request that filled a cache entry has been answered, so its revision is
\* final; no revision is ahead of the counter.
Origins ==
  /\ \A k \in Keys : cacheRow[k] # NoRow =>
       cacheBy[k] \in Requests /\ pc[cacheBy[k]] \in {"ok", "unauthorized"}
  /\ \A r \in Requests : rev[r] <= keyRevision

\* A delete or update of k has committed and not yet removed the cache entry.
Unremoved(k) ==
  \E a \in Admins : akey[a] = k /\ aop[a] # "create" /\ apc[a] = "committed"

\* A lookup that holds an outdated row was in flight when the row changed, and
\* unless the change is still on its way to the bump, loaded an old revision.
LookupKnows ==
  \A r \in Requests :
    pc[r] \in {"read", "insert"} /\ got[r] # db[key[r]] =>
      /\ <<key[r], r>> \in raced
      /\ key[r] \notin lost /\ rev[r] >= lastBump[key[r]] => Pending(key[r])

\* The same of an outdated entry, which may also await its removal.
EntryKnows ==
  \A k \in Keys : Stale(k) /\ k \notin lost =>
    /\ <<k, cacheBy[k]>> \notin raced => Unremoved(k)
    /\ rev[cacheBy[k]] >= lastBump[k] => Pending(k)

Inv == Shape /\ Absence /\ Origins /\ LookupKnows /\ EntryKnows

-----------------------------------------------------------------------------
LEMMA VerdictAnswers ==
  ASSUME NEW row
  PROVE  Verdict(row) \in {"ok", "unauthorized"}
  BY DEF Verdict

\* The initial states satisfy the invariant.
LEMMA InitInv == Init => Inv
<1> SUFFICES ASSUME Init PROVE Inv
  OBVIOUS
<1>1. Shape
  <2>1. TypeOK
    BY ConstantsAssumption
    DEF Init, TypeOK, Keys, RequestPlaces, AdminPlaces, AdminOps
  <2>2. QED
    BY <2>1 DEF Init, Shape, Active
<1>2. Absence
  BY DEF Init, Absence
<1>3. Origins
  BY DEF Init, Origins
<1>4. LookupKnows
  BY DEF Init, LookupKnows
<1>5. EntryKnows
  BY DEF Init, EntryKnows, Stale
<1>6. QED
  BY <1>1, <1>2, <1>3, <1>4, <1>5 DEF Inv

\* Every step keeps the shape of the state.
LEMMA ShapeStep ==
  ASSUME Shape, [Next]_vars
  PROVE  Shape'
<1> USE Shape, ConstantsAssumption, VerdictAnswers
  DEF Shape, TypeOK, Keys, Active, RequestPlaces, AdminPlaces, AdminOps,
   InFlight, NewRows, Goto, AGoto, world, positive, pool, local, adminVars,
   ghosts
<1>1. ASSUME NEW r \in Requests, Bypass(r) PROVE Shape'
  BY <1>1 DEF Bypass
<1>2. ASSUME NEW r \in Requests, NoToken(r) PROVE Shape'
  BY <1>2 DEF NoToken
<1>3. ASSUME NEW r \in Requests, CheckNegative(r) PROVE Shape'
  BY <1>3 DEF CheckNegative
<1>4. ASSUME NEW r \in Requests, CacheHit(r) PROVE Shape'
  BY <1>4 DEF CacheHit
<1>5. ASSUME NEW r \in Requests, CacheMiss(r) PROVE Shape'
  BY <1>5 DEF CacheMiss
<1>6. ASSUME NEW r \in Requests, AcquirePermit(r) PROVE Shape'
  BY <1>6 DEF AcquirePermit
<1>7. ASSUME NEW r \in Requests, LoadRevision(r) PROVE Shape'
  BY <1>7 DEF LoadRevision
<1>8. ASSUME NEW r \in Requests, Query(r) PROVE Shape'
  BY <1>8 DEF Query
<1>9. ASSUME NEW r \in Requests, QueryFails(r) PROVE Shape'
  BY <1>9 DEF QueryFails
<1>10. ASSUME NEW r \in Requests, Recheck(r) PROVE Shape'
  BY <1>10 DEF Recheck
<1>11. ASSUME NEW r \in Requests, InsertPositive(r) PROVE Shape'
  BY <1>11 DEF InsertPositive
<1>12. ASSUME NEW r \in Requests, NegativeLen(r) PROVE Shape'
  BY <1>12 DEF NegativeLen
<1>13. ASSUME NEW r \in Requests, InsertNegative(r) PROVE Shape'
  BY <1>13 DEF InsertNegative
<1>14. ASSUME NEW r \in Requests, AbandonLookup(r) PROVE Shape'
  BY <1>14 DEF AbandonLookup
<1>15. ASSUME NEW r \in Requests, NEW k \in Keys, Present(r, k) PROVE Shape'
  BY <1>15 DEF Present
<1>16. ASSUME NEW a \in Admins, StoreFails(a) PROVE Shape'
  BY <1>16 DEF StoreFails
<1>17. ASSUME NEW a \in Admins, AbandonAdmin(a) PROVE Shape'
  BY <1>17 DEF AbandonAdmin
<1>18. ASSUME NEW a \in Admins, FinishCreate(a) PROVE Shape'
  BY <1>18 DEF FinishCreate
<1>19. ASSUME NEW a \in Admins, RemoveCached(a) PROVE Shape'
  BY <1>19 DEF RemoveCached
<1>20. ASSUME NEW a \in Admins, RemoveNegative(a) PROVE Shape'
  BY <1>20 DEF RemoveNegative
<1>21. ASSUME NEW a \in Admins, Bump(a) PROVE Shape'
  BY <1>21 DEF Bump
<1>22. ASSUME NEW a \in Admins, NEW op \in AdminOps \ {"none"}, NEW k \in Keys,
              Dispatch(a, op, k)
       PROVE  Shape'
  BY <1>22 DEF Dispatch
<1>23. ASSUME NEW a \in Admins, NEW row \in Row \cup {NoRow},
              Commit(a, row)
       PROVE  Shape'
  BY <1>23 DEF Commit
<1>24. ASSUME NEW k \in Keys, AgePositive(k) PROVE Shape'
  BY <1>24 DEF AgePositive
<1>25. ASSUME NEW k \in Keys, AgeNegative(k) PROVE Shape'
  BY <1>25 DEF AgeNegative
<1>26. ASSUME NEW k \in Keys, CleanupPositive(k) PROVE Shape'
  BY <1>26 DEF CleanupPositive
<1>27. ASSUME NEW k \in Keys, CleanupNegative(k) PROVE Shape'
  BY <1>27 DEF CleanupNegative
<1>28. ASSUME OrphanJobEnds PROVE Shape'
  BY <1>28 DEF OrphanJobEnds
<1>29. ASSUME SoonPasses PROVE Shape'
  BY <1>29 DEF SoonPasses
<1>30. CASE UNCHANGED vars
  BY <1>30 DEF vars
<1>31. QED
  BY <1>1, <1>2, <1>3, <1>4, <1>5, <1>6, <1>7, <1>8, <1>9, <1>10, <1>11,
     <1>12, <1>13, <1>14, <1>15, <1>16, <1>17, <1>18, <1>19, <1>20, <1>21,
     <1>22, <1>23, <1>24, <1>25, <1>26, <1>27, <1>28, <1>29, <1>30
    DEF Next, Serve, AdminStep, Background

\* Every step keeps what Absence says of rows that are not there.
LEMMA AbsenceStep ==
  ASSUME Shape, Absence, [Next]_vars
  PROVE  Absence'
<1> USE Shape, Absence, ConstantsAssumption, VerdictAnswers
  DEF Shape, TypeOK, Keys, Active, RequestPlaces, Absence, NewRows, Goto,
   AGoto, world, positive, pool, local, adminVars, ghosts
<1>1. ASSUME NEW r \in Requests, Bypass(r) PROVE Absence'
  BY <1>1 DEF Bypass
<1>2. ASSUME NEW r \in Requests, NoToken(r) PROVE Absence'
  BY <1>2 DEF NoToken
<1>3. ASSUME NEW r \in Requests, CheckNegative(r) PROVE Absence'
  BY <1>3 DEF CheckNegative
<1>4. ASSUME NEW r \in Requests, CacheHit(r) PROVE Absence'
  BY <1>4 DEF CacheHit
<1>5. ASSUME NEW r \in Requests, CacheMiss(r) PROVE Absence'
  BY <1>5 DEF CacheMiss
<1>6. ASSUME NEW r \in Requests, AcquirePermit(r) PROVE Absence'
  BY <1>6 DEF AcquirePermit
<1>7. ASSUME NEW r \in Requests, LoadRevision(r) PROVE Absence'
  BY <1>7 DEF LoadRevision
<1>8. ASSUME NEW r \in Requests, Query(r) PROVE Absence'
  BY <1>8 DEF Query
<1>9. ASSUME NEW r \in Requests, QueryFails(r) PROVE Absence'
  BY <1>9 DEF QueryFails
<1>10. ASSUME NEW r \in Requests, Recheck(r) PROVE Absence'
  BY <1>10 DEF Recheck
<1>11. ASSUME NEW r \in Requests, InsertPositive(r) PROVE Absence'
  BY <1>11 DEF InsertPositive
<1>12. ASSUME NEW r \in Requests, NegativeLen(r) PROVE Absence'
  BY <1>12 DEF NegativeLen
<1>13. ASSUME NEW r \in Requests, InsertNegative(r) PROVE Absence'
  BY <1>13 DEF InsertNegative
<1>14. ASSUME NEW r \in Requests, AbandonLookup(r) PROVE Absence'
  BY <1>14 DEF AbandonLookup
<1>15. ASSUME NEW r \in Requests, NEW k \in Keys, Present(r, k) PROVE Absence'
  BY <1>15 DEF Present
<1>16. ASSUME NEW a \in Admins, StoreFails(a) PROVE Absence'
  BY <1>16 DEF StoreFails
<1>17. ASSUME NEW a \in Admins, AbandonAdmin(a) PROVE Absence'
  BY <1>17 DEF AbandonAdmin
<1>18. ASSUME NEW a \in Admins, FinishCreate(a) PROVE Absence'
  BY <1>18 DEF FinishCreate
<1>19. ASSUME NEW a \in Admins, RemoveCached(a) PROVE Absence'
  BY <1>19 DEF RemoveCached
<1>20. ASSUME NEW a \in Admins, RemoveNegative(a) PROVE Absence'
  BY <1>20 DEF RemoveNegative
<1>21. ASSUME NEW a \in Admins, Bump(a) PROVE Absence'
  BY <1>21 DEF Bump
<1>22. ASSUME NEW a \in Admins, NEW op \in AdminOps \ {"none"}, NEW k \in Keys,
              Dispatch(a, op, k)
       PROVE  Absence'
  BY <1>22 DEF Dispatch
<1>23. ASSUME NEW a \in Admins, NEW row \in Row \cup {NoRow},
              Commit(a, row)
       PROVE  Absence'
  BY <1>23 DEF Commit
<1>24. ASSUME NEW k \in Keys, AgePositive(k) PROVE Absence'
  BY <1>24 DEF AgePositive
<1>25. ASSUME NEW k \in Keys, AgeNegative(k) PROVE Absence'
  BY <1>25 DEF AgeNegative
<1>26. ASSUME NEW k \in Keys, CleanupPositive(k) PROVE Absence'
  BY <1>26 DEF CleanupPositive
<1>27. ASSUME NEW k \in Keys, CleanupNegative(k) PROVE Absence'
  BY <1>27 DEF CleanupNegative
<1>28. ASSUME OrphanJobEnds PROVE Absence'
  BY <1>28 DEF OrphanJobEnds
<1>29. ASSUME SoonPasses PROVE Absence'
  BY <1>29 DEF SoonPasses
<1>30. CASE UNCHANGED vars
  BY <1>30 DEF vars
<1>31. QED
  BY <1>1, <1>2, <1>3, <1>4, <1>5, <1>6, <1>7, <1>8, <1>9, <1>10, <1>11,
     <1>12, <1>13, <1>14, <1>15, <1>16, <1>17, <1>18, <1>19, <1>20, <1>21,
     <1>22, <1>23, <1>24, <1>25, <1>26, <1>27, <1>28, <1>29, <1>30
    DEF Next, Serve, AdminStep, Background

\* Every step keeps the origin of each cache entry.
LEMMA OriginsStep ==
  ASSUME Shape, Origins, [Next]_vars
  PROVE  Origins'
<1> USE Shape, Origins, ConstantsAssumption, VerdictAnswers
  DEF Shape, TypeOK, Keys, Active, RequestPlaces, Origins, Goto, AGoto, world,
   positive, pool, local, adminVars, ghosts
<1>1. ASSUME NEW r \in Requests, Bypass(r) PROVE Origins'
  BY <1>1 DEF Bypass
<1>2. ASSUME NEW r \in Requests, NoToken(r) PROVE Origins'
  BY <1>2 DEF NoToken
<1>3. ASSUME NEW r \in Requests, CheckNegative(r) PROVE Origins'
  BY <1>3 DEF CheckNegative
<1>4. ASSUME NEW r \in Requests, CacheHit(r) PROVE Origins'
  BY <1>4 DEF CacheHit
<1>5. ASSUME NEW r \in Requests, CacheMiss(r) PROVE Origins'
  BY <1>5 DEF CacheMiss
<1>6. ASSUME NEW r \in Requests, AcquirePermit(r) PROVE Origins'
  BY <1>6 DEF AcquirePermit
<1>7. ASSUME NEW r \in Requests, LoadRevision(r) PROVE Origins'
  BY <1>7 DEF LoadRevision
<1>8. ASSUME NEW r \in Requests, Query(r) PROVE Origins'
  BY <1>8 DEF Query
<1>9. ASSUME NEW r \in Requests, QueryFails(r) PROVE Origins'
  BY <1>9 DEF QueryFails
<1>10. ASSUME NEW r \in Requests, Recheck(r) PROVE Origins'
  BY <1>10 DEF Recheck
<1>11. ASSUME NEW r \in Requests, InsertPositive(r) PROVE Origins'
  BY <1>11 DEF InsertPositive
<1>12. ASSUME NEW r \in Requests, NegativeLen(r) PROVE Origins'
  BY <1>12 DEF NegativeLen
<1>13. ASSUME NEW r \in Requests, InsertNegative(r) PROVE Origins'
  BY <1>13 DEF InsertNegative
<1>14. ASSUME NEW r \in Requests, AbandonLookup(r) PROVE Origins'
  BY <1>14 DEF AbandonLookup
<1>15. ASSUME NEW r \in Requests, NEW k \in Keys, Present(r, k) PROVE Origins'
  BY <1>15 DEF Present
<1>16. ASSUME NEW a \in Admins, StoreFails(a) PROVE Origins'
  BY <1>16 DEF StoreFails
<1>17. ASSUME NEW a \in Admins, AbandonAdmin(a) PROVE Origins'
  BY <1>17 DEF AbandonAdmin
<1>18. ASSUME NEW a \in Admins, FinishCreate(a) PROVE Origins'
  BY <1>18 DEF FinishCreate
<1>19. ASSUME NEW a \in Admins, RemoveCached(a) PROVE Origins'
  BY <1>19 DEF RemoveCached
<1>20. ASSUME NEW a \in Admins, RemoveNegative(a) PROVE Origins'
  BY <1>20 DEF RemoveNegative
<1>21. ASSUME NEW a \in Admins, Bump(a) PROVE Origins'
  BY <1>21 DEF Bump
<1>22. ASSUME NEW a \in Admins, NEW op \in AdminOps \ {"none"}, NEW k \in Keys,
              Dispatch(a, op, k)
       PROVE  Origins'
  BY <1>22 DEF Dispatch
<1>23. ASSUME NEW a \in Admins, NEW row \in Row \cup {NoRow},
              Commit(a, row)
       PROVE  Origins'
  BY <1>23 DEF Commit
<1>24. ASSUME NEW k \in Keys, AgePositive(k) PROVE Origins'
  BY <1>24 DEF AgePositive
<1>25. ASSUME NEW k \in Keys, AgeNegative(k) PROVE Origins'
  BY <1>25 DEF AgeNegative
<1>26. ASSUME NEW k \in Keys, CleanupPositive(k) PROVE Origins'
  BY <1>26 DEF CleanupPositive
<1>27. ASSUME NEW k \in Keys, CleanupNegative(k) PROVE Origins'
  BY <1>27 DEF CleanupNegative
<1>28. ASSUME OrphanJobEnds PROVE Origins'
  BY <1>28 DEF OrphanJobEnds
<1>29. ASSUME SoonPasses PROVE Origins'
  BY <1>29 DEF SoonPasses
<1>30. CASE UNCHANGED vars
  BY <1>30 DEF vars
<1>31. QED
  BY <1>1, <1>2, <1>3, <1>4, <1>5, <1>6, <1>7, <1>8, <1>9, <1>10, <1>11,
     <1>12, <1>13, <1>14, <1>15, <1>16, <1>17, <1>18, <1>19, <1>20, <1>21,
     <1>22, <1>23, <1>24, <1>25, <1>26, <1>27, <1>28, <1>29, <1>30
    DEF Next, Serve, AdminStep, Background

\* Every step keeps what a lookup in flight knows.
LEMMA LookupStep ==
  ASSUME Inv, [Next]_vars
  PROVE  LookupKnows'
<1> USE Inv, ConstantsAssumption, VerdictAnswers
  DEF Inv, Shape, TypeOK, Keys, Active, Absence, Origins, LookupKnows,
   Pending, InFlight, NewRows, Goto, AGoto, world, positive, pool, local,
   adminVars, ghosts
<1>1. ASSUME NEW r \in Requests, Bypass(r) PROVE LookupKnows'
  BY <1>1 DEF Bypass
<1>2. ASSUME NEW r \in Requests, NoToken(r) PROVE LookupKnows'
  BY <1>2 DEF NoToken
<1>3. ASSUME NEW r \in Requests, CheckNegative(r) PROVE LookupKnows'
  BY <1>3 DEF CheckNegative
<1>4. ASSUME NEW r \in Requests, CacheHit(r) PROVE LookupKnows'
  BY <1>4 DEF CacheHit
<1>5. ASSUME NEW r \in Requests, CacheMiss(r) PROVE LookupKnows'
  BY <1>5 DEF CacheMiss
<1>6. ASSUME NEW r \in Requests, AcquirePermit(r) PROVE LookupKnows'
  BY <1>6 DEF AcquirePermit
<1>7. ASSUME NEW r \in Requests, LoadRevision(r) PROVE LookupKnows'
  BY <1>7 DEF LoadRevision
<1>8. ASSUME NEW r \in Requests, Query(r) PROVE LookupKnows'
  BY <1>8 DEF Query
<1>9. ASSUME NEW r \in Requests, QueryFails(r) PROVE LookupKnows'
  BY <1>9 DEF QueryFails
<1>10. ASSUME NEW r \in Requests, Recheck(r) PROVE LookupKnows'
  BY <1>10 DEF Recheck
<1>11. ASSUME NEW r \in Requests, InsertPositive(r) PROVE LookupKnows'
  BY <1>11 DEF InsertPositive
<1>12. ASSUME NEW r \in Requests, NegativeLen(r) PROVE LookupKnows'
  BY <1>12 DEF NegativeLen
<1>13. ASSUME NEW r \in Requests, InsertNegative(r) PROVE LookupKnows'
  BY <1>13 DEF InsertNegative
<1>14. ASSUME NEW r \in Requests, AbandonLookup(r) PROVE LookupKnows'
  BY <1>14 DEF AbandonLookup
<1>15. ASSUME NEW r \in Requests, NEW k \in Keys, Present(r, k) PROVE LookupKnows'
  BY <1>15 DEF Present
<1>16. ASSUME NEW a \in Admins, StoreFails(a) PROVE LookupKnows'
  BY <1>16 DEF StoreFails
<1>17. ASSUME NEW a \in Admins, AbandonAdmin(a) PROVE LookupKnows'
  BY <1>17 DEF AbandonAdmin
<1>18. ASSUME NEW a \in Admins, FinishCreate(a) PROVE LookupKnows'
  BY <1>18 DEF FinishCreate
<1>19. ASSUME NEW a \in Admins, RemoveCached(a) PROVE LookupKnows'
  BY <1>19 DEF RemoveCached
<1>20. ASSUME NEW a \in Admins, RemoveNegative(a) PROVE LookupKnows'
  BY <1>20 DEF RemoveNegative
<1>21. ASSUME NEW a \in Admins, Bump(a) PROVE LookupKnows'
  BY <1>21 DEF Bump
<1>22. ASSUME NEW a \in Admins, NEW op \in AdminOps \ {"none"}, NEW k \in Keys,
              Dispatch(a, op, k)
       PROVE  LookupKnows'
  BY <1>22 DEF Dispatch
<1>23. ASSUME NEW a \in Admins, NEW row \in Row \cup {NoRow},
              Commit(a, row)
       PROVE  LookupKnows'
  BY <1>23 DEF Commit
<1>24. ASSUME NEW k \in Keys, AgePositive(k) PROVE LookupKnows'
  BY <1>24 DEF AgePositive
<1>25. ASSUME NEW k \in Keys, AgeNegative(k) PROVE LookupKnows'
  BY <1>25 DEF AgeNegative
<1>26. ASSUME NEW k \in Keys, CleanupPositive(k) PROVE LookupKnows'
  BY <1>26 DEF CleanupPositive
<1>27. ASSUME NEW k \in Keys, CleanupNegative(k) PROVE LookupKnows'
  BY <1>27 DEF CleanupNegative
<1>28. ASSUME OrphanJobEnds PROVE LookupKnows'
  BY <1>28 DEF OrphanJobEnds
<1>29. ASSUME SoonPasses PROVE LookupKnows'
  BY <1>29 DEF SoonPasses
<1>30. CASE UNCHANGED vars
  BY <1>30 DEF vars
<1>31. QED
  BY <1>1, <1>2, <1>3, <1>4, <1>5, <1>6, <1>7, <1>8, <1>9, <1>10, <1>11,
     <1>12, <1>13, <1>14, <1>15, <1>16, <1>17, <1>18, <1>19, <1>20, <1>21,
     <1>22, <1>23, <1>24, <1>25, <1>26, <1>27, <1>28, <1>29, <1>30
    DEF Next, Serve, AdminStep, Background

\* Every step keeps where a stale entry can have come from.
LEMMA EntryStep ==
  ASSUME Inv, [Next]_vars
  PROVE  EntryKnows'
<1> USE Inv, ConstantsAssumption, VerdictAnswers
  DEF Inv, Shape, TypeOK, Keys, Active, Absence, Origins, LookupKnows,
   EntryKnows, Stale, Pending, Unremoved, InFlight, NewRows, Goto, AGoto,
   world, positive, pool, local, adminVars, ghosts
<1>1. ASSUME NEW r \in Requests, Bypass(r) PROVE EntryKnows'
  BY <1>1 DEF Bypass
<1>2. ASSUME NEW r \in Requests, NoToken(r) PROVE EntryKnows'
  BY <1>2 DEF NoToken
<1>3. ASSUME NEW r \in Requests, CheckNegative(r) PROVE EntryKnows'
  BY <1>3 DEF CheckNegative
<1>4. ASSUME NEW r \in Requests, CacheHit(r) PROVE EntryKnows'
  BY <1>4 DEF CacheHit
<1>5. ASSUME NEW r \in Requests, CacheMiss(r) PROVE EntryKnows'
  BY <1>5 DEF CacheMiss
<1>6. ASSUME NEW r \in Requests, AcquirePermit(r) PROVE EntryKnows'
  BY <1>6 DEF AcquirePermit
<1>7. ASSUME NEW r \in Requests, LoadRevision(r) PROVE EntryKnows'
  BY <1>7 DEF LoadRevision
<1>8. ASSUME NEW r \in Requests, Query(r) PROVE EntryKnows'
  BY <1>8 DEF Query
<1>9. ASSUME NEW r \in Requests, QueryFails(r) PROVE EntryKnows'
  BY <1>9 DEF QueryFails
<1>10. ASSUME NEW r \in Requests, Recheck(r) PROVE EntryKnows'
  BY <1>10 DEF Recheck
<1>11. ASSUME NEW r \in Requests, InsertPositive(r) PROVE EntryKnows'
  BY <1>11 DEF InsertPositive
<1>12. ASSUME NEW r \in Requests, NegativeLen(r) PROVE EntryKnows'
  BY <1>12 DEF NegativeLen
<1>13. ASSUME NEW r \in Requests, InsertNegative(r) PROVE EntryKnows'
  BY <1>13 DEF InsertNegative
<1>14. ASSUME NEW r \in Requests, AbandonLookup(r) PROVE EntryKnows'
  BY <1>14 DEF AbandonLookup
<1>15. ASSUME NEW r \in Requests, NEW k \in Keys, Present(r, k) PROVE EntryKnows'
  BY <1>15 DEF Present
<1>16. ASSUME NEW a \in Admins, StoreFails(a) PROVE EntryKnows'
  BY <1>16 DEF StoreFails
<1>17. ASSUME NEW a \in Admins, AbandonAdmin(a) PROVE EntryKnows'
  BY <1>17 DEF AbandonAdmin
<1>18. ASSUME NEW a \in Admins, FinishCreate(a) PROVE EntryKnows'
  BY <1>18 DEF FinishCreate
<1>19. ASSUME NEW a \in Admins, RemoveCached(a) PROVE EntryKnows'
  BY <1>19 DEF RemoveCached
<1>20. ASSUME NEW a \in Admins, RemoveNegative(a) PROVE EntryKnows'
  BY <1>20 DEF RemoveNegative
<1>21. ASSUME NEW a \in Admins, Bump(a) PROVE EntryKnows'
  BY <1>21 DEF Bump
<1>22. ASSUME NEW a \in Admins, NEW op \in AdminOps \ {"none"}, NEW k \in Keys,
              Dispatch(a, op, k)
       PROVE  EntryKnows'
  BY <1>22 DEF Dispatch
<1>23. ASSUME NEW a \in Admins, NEW row \in Row \cup {NoRow},
              Commit(a, row)
       PROVE  EntryKnows'
  BY <1>23 DEF Commit
<1>24. ASSUME NEW k \in Keys, AgePositive(k) PROVE EntryKnows'
  BY <1>24 DEF AgePositive
<1>25. ASSUME NEW k \in Keys, AgeNegative(k) PROVE EntryKnows'
  BY <1>25 DEF AgeNegative
<1>26. ASSUME NEW k \in Keys, CleanupPositive(k) PROVE EntryKnows'
  BY <1>26 DEF CleanupPositive
<1>27. ASSUME NEW k \in Keys, CleanupNegative(k) PROVE EntryKnows'
  BY <1>27 DEF CleanupNegative
<1>28. ASSUME OrphanJobEnds PROVE EntryKnows'
  BY <1>28 DEF OrphanJobEnds
<1>29. ASSUME SoonPasses PROVE EntryKnows'
  BY <1>29 DEF SoonPasses
<1>30. CASE UNCHANGED vars
  BY <1>30 DEF vars
<1>31. QED
  BY <1>1, <1>2, <1>3, <1>4, <1>5, <1>6, <1>7, <1>8, <1>9, <1>10, <1>11,
     <1>12, <1>13, <1>14, <1>15, <1>16, <1>17, <1>18, <1>19, <1>20, <1>21,
     <1>22, <1>23, <1>24, <1>25, <1>26, <1>27, <1>28, <1>29, <1>30
    DEF Next, Serve, AdminStep, Background

\* Inv is inductive.
THEOREM Invariance == Spec => []Inv
<1>1. ASSUME Inv, [Next]_vars PROVE Inv'
  BY <1>1, ShapeStep, AbsenceStep, OriginsStep, LookupStep, EntryStep DEF Inv
<1>2. QED
  BY InitInv, <1>1, PTL DEF Spec

\* Type correctness of the tables, the caches and the tasks.
THEOREM TypeCorrect == Spec => []TypeOK
<1>1. Inv => TypeOK
  BY DEF Inv, Shape
<1>2. QED
  BY Invariance, <1>1, PTL

\* The guarantee of the key_revision guard, for any number of concurrent
\* lookups, deletes and updates.
THEOREM StaleEntriesAreRaces == Spec => []StaleOnlyThroughRace
<1>1. ASSUME Inv PROVE StaleOnlyThroughRace
  <2> SUFFICES ASSUME NEW k \in Keys, Stale(k), ~Pending(k), k \notin lost
               PROVE  <<k, cacheBy[k]>> \in raced /\ rev[cacheBy[k]] < lastBump[k]
    BY DEF StaleOnlyThroughRace
  <2>1. ~Unremoved(k)
    BY DEF Pending, Unremoved
  <2>2. <<k, cacheBy[k]>> \in raced /\ ~(rev[cacheBy[k]] >= lastBump[k])
    BY <1>1, <2>1 DEF Inv, EntryKnows
  <2>3. rev[cacheBy[k]] \in Nat /\ lastBump[k] \in Nat
    BY <1>1 DEF Inv, Shape, TypeOK, Origins, Stale
  <2>4. QED
    BY <2>2, <2>3
<1>2. QED
  BY Invariance, <1>1, PTL

\* The negative cache never turns away a key that exists.
THEOREM NegativeIsSafe == Spec => []NegativeHidesNoKey
<1>1. Inv => NegativeHidesNoKey
  BY DEF Inv, Absence, NegativeHidesNoKey
<1>2. QED
  BY Invariance, <1>1, PTL

\* A request is let in only with a live key, or during a race with a change of
\* that key: only the cache hit, the recheck and the insert accept a token.
THEOREM AcceptanceIsJustified == Spec => AcceptedKeyIsLive
<1> DEFINE Accepts ==
      \A r \in Requests :
        authEnabled /\ pc[r] # "ok" /\ pc'[r] = "ok" =>
          LET k == key[r] IN
            \/ db[k] # NoRow /\ Live(db[k])
            \/ Pending(k) \/ k \in lost
            \/ <<k, r>> \in raced \/ <<k, cacheBy[k]>> \in raced
<1>1. ASSUME Inv, Next PROVE Accepts
  <2> SUFFICES ASSUME NEW r \in Requests, authEnabled, pc[r] # "ok", pc'[r] = "ok",
                      NEW k, k = key[r], k \notin lost, ~Pending(k),
                      <<k, r>> \notin raced, <<k, cacheBy[k]>> \notin raced
               PROVE  db[k] # NoRow /\ Live(db[k])
    OBVIOUS
  <2>1. CacheHit(r) \/ Recheck(r) \/ InsertPositive(r)
    <3> USE <1>1 DEF Inv, Shape, TypeOK
    <3>1. ASSUME NEW q \in Requests, Serve(q) \/ AbandonLookup(q)
          PROVE  CacheHit(r) \/ Recheck(r) \/ InsertPositive(r)
      <4>1. pc' = [pc EXCEPT ![q] = pc'[q]]
        BY <3>1
        DEF Serve, Goto, Bypass, NoToken, Present, CheckNegative, CacheHit, CacheMiss,
            AcquirePermit, LoadRevision, Query, QueryFails, AbandonLookup, Recheck,
            InsertPositive, NegativeLen, InsertNegative
      <4>2. q = r
        BY <4>1
      <4>3. QED
        BY <3>1, <4>2
          DEF Serve, Goto, Bypass, NoToken, Present, CheckNegative, CacheMiss,
           AcquirePermit, LoadRevision, Query, QueryFails, AbandonLookup,
           NegativeLen, InsertNegative
    <3>2. ASSUME NEW a \in Admins, AdminStep(a) PROVE FALSE
      BY <3>2
        DEF AdminStep, Dispatch, Commit, StoreFails, AbandonAdmin,
         FinishCreate, RemoveCached, RemoveNegative, Bump
    <3>3. ASSUME Background PROVE FALSE
      BY <3>3
        DEF Background, OrphanJobEnds, SoonPasses, AgePositive, AgeNegative,
         CleanupPositive, CleanupNegative
    <3>4. QED
      BY <3>1, <3>2, <3>3 DEF Next
  <2>2. k \in Keys
    BY <1>1, <2>1, ConstantsAssumption
    DEF Inv, Shape, TypeOK, Active, Keys, CacheHit, Recheck, InsertPositive
  <2>3. CASE CacheHit(r)
    <3>1. cacheRow[k] # NoRow /\ Live(cacheRow[k])
      BY <1>1, <2>3 DEF Inv, Shape, TypeOK, CacheHit, Goto, Verdict
    <3>2. ~Stale(k)
      BY <1>1, <2>2 DEF Inv, EntryKnows, Unremoved, Pending
    <3>3. QED
      BY <3>1, <3>2 DEF Stale
  <2>4. CASE Recheck(r)
    <3>1. got[r] # NoRow /\ Live(got[r])
      BY <1>1, <2>4 DEF Inv, Shape, TypeOK, Recheck, Goto, Verdict
    <3>2. got[r] = db[k]
      BY <1>1, <2>4 DEF Inv, LookupKnows, Recheck
    <3>3. QED
      BY <3>1, <3>2
  <2>5. CASE InsertPositive(r)
    <3>1. got[r] # NoRow /\ Live(got[r])
      BY <1>1, <2>5 DEF Inv, Shape, TypeOK, Absence, InsertPositive, Goto, Verdict
    <3>2. got[r] = db[k]
      BY <1>1, <2>5 DEF Inv, LookupKnows, InsertPositive
    <3>3. QED
      BY <3>1, <3>2
  <2>6. QED
    BY <2>1, <2>3, <2>4, <2>5
<1>2. ASSUME Inv, [Next]_vars PROVE [Accepts]_vars
  BY <1>1, <1>2
<1>3. QED
  BY Invariance, <1>2, PTL DEF Spec, AcceptedKeyIsLive

-----------------------------------------------------------------------------
(* permits *)

\* Moving one request into or out of the set of permit holders changes its
\* size by one.
LEMMA HoldersFinite == IsFiniteSet(Holders) /\ Cardinality(Holders) \in Nat
  BY ConstantsAssumption, FS_Subset, FS_CardinalityType DEF Holders

LEMMA HolderJoins ==
  ASSUME NEW r \in Requests, r \notin Holders, Holders' = Holders \cup {r}
  PROVE  Cardinality(Holders') = Cardinality(Holders) + 1
  BY HoldersFinite, FS_AddElement

LEMMA HolderLeaves ==
  ASSUME NEW r \in Requests, r \in Holders, Holders' = Holders \ {r}
  PROVE  Cardinality(Holders') = Cardinality(Holders) - 1
  BY HoldersFinite, FS_RemoveElement

\* Every path through auth_middleware gives back the permit it took.
THEOREM PermitsAreConserved == Spec => []PermitsConserved
<1>1. Init => PermitsConserved
  <2> SUFFICES ASSUME Init PROVE PermitsConserved
    OBVIOUS
  <2>1. Holders = {}
    BY DEF Init, Holders
  <2>2. QED
    BY <2>1, FS_EmptySet, ConstantsAssumption DEF Init, PermitsConserved
<1>2. ASSUME Inv, PermitsConserved, [Next]_vars PROVE PermitsConserved'
  <2> USE DEF PermitsConserved
  <2>0. permits \in Nat /\ pc \in [Requests -> RequestPlaces] /\ MaxPermits \in Nat
    BY <1>2, ConstantsAssumption DEF Inv, Shape, TypeOK
  <2>1. ASSUME NEW r \in Requests, AcquirePermit(r) PROVE PermitsConserved'
    <3>1. r \notin Holders /\ Holders' = Holders \cup {r}
      BY <2>0, <2>1 DEF AcquirePermit, Goto, Holders
    <3>2. permits' = permits - 1
      BY <2>1 DEF AcquirePermit
    <3>3. Cardinality(Holders') = Cardinality(Holders) + 1
      BY <3>1, HolderJoins
    <3>4. QED
      BY <1>2, <2>0, <3>2, <3>3, HoldersFinite
  <2>2. ASSUME NEW r \in Requests,
               QueryFails(r) \/ Recheck(r) \/ (AbandonLookup(r) /\ pc[r] # "permit")
        PROVE  PermitsConserved'
    <3>1. r \in Holders /\ Holders' = Holders \ {r}
      BY <2>0, <2>2, VerdictAnswers DEF QueryFails, Recheck, AbandonLookup, Goto, Holders
    <3>2. permits' = permits + 1
      BY <2>2 DEF QueryFails, Recheck, AbandonLookup
    <3>3. Cardinality(Holders') = Cardinality(Holders) - 1
      BY <3>1, HolderLeaves
    <3>4. QED
      BY <1>2, <2>0, <3>2, <3>3, HoldersFinite
  <2>3. ASSUME permits' = permits, Holders' = Holders PROVE PermitsConserved'
    BY <1>2, <2>3
  <2>4. ASSUME NEW r \in Requests, Serve(r) \/ AbandonLookup(r) PROVE PermitsConserved'
    <3>1. CASE AcquirePermit(r)
      BY <2>1, <3>1
    <3>2. CASE QueryFails(r) \/ Recheck(r) \/ (AbandonLookup(r) /\ pc[r] # "permit")
      BY <2>2, <3>2
    <3>3. CASE \/ Bypass(r) \/ NoToken(r) \/ (\E k \in Keys : Present(r, k))
               \/ CheckNegative(r) \/ CacheHit(r) \/ CacheMiss(r)
               \/ LoadRevision(r) \/ Query(r) \/ InsertPositive(r)
               \/ NegativeLen(r) \/ InsertNegative(r)
               \/ (AbandonLookup(r) /\ pc[r] = "permit")
      BY <2>0, <2>3, <3>3, VerdictAnswers
        DEF Holders, Goto, pool, Bypass, NoToken, Present, CheckNegative,
         CacheHit, CacheMiss, LoadRevision, Query, InsertPositive,
         NegativeLen, InsertNegative, AbandonLookup
    <3>4. QED
      BY <2>4, <3>1, <3>2, <3>3 DEF Serve
  <2>5. ASSUME NEW a \in Admins, AdminStep(a) PROVE PermitsConserved'
    BY <2>3, <2>5
      DEF Holders, pool, AdminStep, Dispatch, Commit, StoreFails,
       AbandonAdmin, FinishCreate, RemoveCached, RemoveNegative, Bump
  <2>6. ASSUME Background PROVE PermitsConserved'
    BY <2>3, <2>6
    DEF Holders, pool, Background, OrphanJobEnds, SoonPasses, AgePositive, AgeNegative,
        CleanupPositive, CleanupNegative
  <2>7. CASE UNCHANGED vars
    BY <2>3, <2>7 DEF vars, pool, Holders
  <2>8. QED
    BY <1>2, <2>4, <2>5, <2>6, <2>7 DEF Next
<1>3. QED
  BY Invariance, <1>1, <1>2, PTL DEF Spec
=============================================================================
