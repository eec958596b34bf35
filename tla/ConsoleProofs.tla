---------------------------- MODULE ConsoleProofs ----------------------------
(***************************************************************************)
(* What holds of LogsPage for every number of rows, kinds and filters,     *)
(* every set of page sizes and every cap on the rows a query may skip.     *)
(***************************************************************************)

EXTENDS LogsPage, Overview, FiniteSetTheorems, SequenceTheorems, TLAPS

Asked == Filters \cup {All}

Fetches ==
  [phase : {"idle", "sent", "counted"}, page : Nat \ {0}, perPage : 1 .. MaxPerPage,
   filter : Asked, total : Nat, raced : BOOLEAN]

Values ==
  [phase : {"none", "ok", "err"}, page : Nat \ {0}, perPage : 1 .. MaxPerPage,
   filter : Asked, total : Nat, raced : BOOLEAN, shown : Nat, old : BOOLEAN]

\* The type invariant.
TypeOK ==
  /\ horizon \in Nat /\ log \in [DOMAIN log -> Kinds]
  /\ DOMAIN log \subseteq 1 .. MaxRows
  /\ page \in Nat \ {0} /\ perPage \in 1 .. MaxPerPage /\ filter \in Asked
  /\ dirty \in BOOLEAN /\ detail \in BOOLEAN /\ overtaken \in BOOLEAN
  /\ rsc \in Fetches /\ value \in Values /\ walk \in [at : Nat, left : SUBSET Nat]

\* The rows of a log that a filter lets through; those of a set that come before
\* r, when the latest come first; and whether one of them may come on either side.
Hits(g, f) == {r \in DOMAIN g : f = All \/ g[r] = f}
Before(M, r) == {q \in M : Stamp(q) > Stamp(r)}
Tied(M, r) == \E q \in M \ {r} : Stamp(q) = Stamp(r)

\* The rows an answer skips, and the sets of rows it may have.
Skip(v) == Offset(v.page, v.perPage)
Windows(M, off, pp) ==
  LET n == Min({off, Cardinality(M)})
  IN  {W \in SUBSET M :
         /\ Cardinality(W) = Min({pp, Cardinality(M) - n})
         /\ \E S \in SUBSET (M \ W) :
              Cardinality(S) = n /\ Lead(S, M) /\ Lead(S \cup W, M)}

\* What is fetched, or was, is the page the signals ask for, until they change.
Current ==
  ~dirty =>
    /\ rsc.phase = "sent" => rsc.page = page /\ rsc.perPage = perPage
    /\ rsc.phase = "counted" => rsc.page = ServedPage(page, perPage) /\ rsc.perPage = perPage
    /\ rsc.phase = "idle" /\ value.phase = "ok" =>
         value.page = ServedPage(page, perPage) /\ value.perPage = perPage

\* A total is the number of matching rows until the log changes, and no more than
\* that until retention; the rows of an answer are as many as its total leaves.
Counts ==
  /\ rsc.phase = "counted" =>
       /\ ~PastEnd(rsc)
       /\ ~rsc.raced => rsc.total = Cardinality(Hits(log, rsc.filter))
  /\ value.phase = "ok" =>
       /\ value.shown > 0 => value.total > 0
       /\ ~value.old => value.total <= Cardinality(Hits(log, value.filter))
  /\ value.phase = "ok" /\ ~value.raced =>
       IF Skip(value) >= value.total THEN value.shown = 0
       ELSE value.shown = Min({value.perPage, value.total - Skip(value)})

\* A page number that nothing has overtaken is one that has rows.
Reach ==
  /\ ~overtaken /\ page > 1 => (page - 1) * perPage < Cardinality(Hits(log, filter))
  /\ ~overtaken /\ ~dirty /\ rsc.phase # "idle" /\ page > 1 => rsc.filter = filter
  /\ ~overtaken /\ ~dirty /\ rsc.phase = "idle" /\ value.phase = "ok" /\ page > 1 =>
       Skip(value) < value.total

\* The rows a walk has still to see are behind the pages it has seen, unless they
\* are tied: a commit pushes them further back, and retention deletes behind them.
Walk ==
  walk.at > 0 =>
    /\ value.phase = "ok" /\ walk.at = value.page
    /\ \A r \in walk.left :
         /\ r \in Hits(log, value.filter)
         /\ \/ Tied(Hits(log, value.filter), r)
            \/ Cardinality(Before(Hits(log, value.filter), r)) >= walk.at * value.perPage

Inv == TypeOK /\ Current /\ Counts /\ Reach /\ Walk /\ WalkSeesAll

-----------------------------------------------------------------------------
(* numbers *)

\* The least and the greatest of two numbers.
LEMMA MinMax ==
  ASSUME NEW a \in Int, NEW b \in Int
  PROVE  /\ Min({a, b}) = IF a <= b THEN a ELSE b
         /\ Max({a, b}) = IF a >= b THEN a ELSE b
<1>1. \E x \in {a, b} : \A y \in {a, b} : x <= y
  OBVIOUS
<1>2. \E x \in {a, b} : \A y \in {a, b} : x >= y
  OBVIOUS
<1>3. Min({a, b}) \in {a, b} /\ \A y \in {a, b} : Min({a, b}) <= y
  BY <1>1 DEF Min
<1>4. Max({a, b}) \in {a, b} /\ \A y \in {a, b} : Max({a, b}) >= y
  BY <1>2 DEF Max
<1>5. QED
  BY <1>3, <1>4

\* A non-empty set of natural numbers has a least element.
LEMMA Least ==
  ASSUME NEW T \in SUBSET Nat, T # {}
  PROVE  Min(T) \in T /\ \A y \in T : Min(T) <= y
<1> DEFINE R == {ss \in Nat \X Nat : ss[1] < ss[2]}
<1>1. IsWellFoundedOn(R, Nat)
  BY NatLessThanWellFounded DEF OpToRel
<1>2. \A x, y \in Nat : y < x => <<y, x>> \in R
  OBVIOUS
<1> HIDE DEF R
<1>3. PICK x \in T : \A y \in T : <<y, x>> \notin R
  BY <1>1, WFMin
<1>4. ASSUME NEW y \in T PROVE x <= y
  <2>1. x \in Nat /\ y \in Nat /\ ~(y < x)
    BY <1>2, <1>3
  <2>2. QED
    BY <2>1
<1>5. QED
  BY <1>3, <1>4 DEF Min

\* Division rounds down.
LEMMA Division ==
  ASSUME NEW a \in Nat, NEW b \in Nat \ {0}
  PROVE  /\ a \div b \in Nat
         /\ (a \div b) * b <= a /\ a < (a \div b) * b + b
  OBVIOUS

\* A product grows with its first factor.
LEMMA Product ==
  ASSUME NEW a \in Nat, NEW b \in Nat, NEW c \in Nat
  PROVE  /\ a * c \in Nat
         /\ a <= b => a * c <= b * c
         /\ (a + 1) * c = a * c + c
  OBVIOUS

\* list_proxy_logs serves a page no later than the one asked for, and that one
\* itself unless the skip is capped.
LEMMA ServedFacts ==
  ASSUME NEW p \in Nat \ {0}, NEW pp \in Nat \ {0}, MaxOffset \in Nat
  PROVE  /\ ServedPage(p, pp) \in Nat \ {0}
         /\ Offset(ServedPage(p, pp), pp) \in Nat
         /\ Offset(ServedPage(p, pp), pp) <= (p - 1) * pp
         /\ (p - 1) * pp <= MaxOffset => ServedPage(p, pp) = p
<1> DEFINE skip == (p - 1) * pp
           off  == Min({skip, MaxOffset})
<1>1. p - 1 \in Nat /\ skip \in Nat
  BY Product
<1>2. off \in Nat /\ off <= skip /\ (skip <= MaxOffset => off = skip)
  BY <1>1, MinMax
<1>3. /\ off \div pp \in Nat
      /\ (off \div pp) * pp <= off /\ off < (off \div pp) * pp + pp
  BY <1>2, Division
<1>4. ServedPage(p, pp) = off \div pp + 1
  BY DEF ServedPage
<1> HIDE DEF off
<1>5. Offset(ServedPage(p, pp), pp) = (off \div pp) * pp
  BY <1>3, <1>4 DEF Offset
<1>6. ASSUME skip <= MaxOffset PROVE off \div pp = p - 1
  <2>1. off = (p - 1) * pp
    BY <1>2, <1>6
  <2>2. CASE off \div pp < p - 1
    <3>1. (off \div pp + 1) * pp <= (p - 1) * pp
      BY <1>1, <1>3, <2>2, Product
    <3>2. QED
      BY <1>3, <2>1, <3>1, Product
  <2>3. CASE p - 1 < off \div pp
    <3>1. (p - 1 + 1) * pp <= (off \div pp) * pp
      BY <1>1, <1>3, <2>3, Product
    <3>2. QED
      BY <1>1, <1>3, <2>1, <3>1, Product
  <2>4. QED
    BY <1>1, <1>3, <2>2, <2>3
<1>7. Offset(ServedPage(p, pp), pp) \in Nat
  BY <1>3, <1>5, Product
<1>8. QED
  BY <1>1, <1>2, <1>3, <1>4, <1>5, <1>6, <1>7

\* The bar's last page is the first that leaves no row behind it.
LEMMA LastPageFacts ==
  ASSUME NEW total \in Nat, NEW pp \in Nat \ {0}
  PROVE  /\ LastPage(total, pp) \in Nat \ {0}
         /\ total <= LastPage(total, pp) * pp
         /\ total > 0 => (LastPage(total, pp) - 1) * pp < total
<1> DEFINE n == (total + pp - 1) \div pp
<1>1. total + pp - 1 \in Nat
  OBVIOUS
<1>2. n \in Nat /\ n * pp <= total + pp - 1 /\ total + pp - 1 < n * pp + pp
  BY <1>1, Division
<1>l. LastPage(total, pp) = Max({n, 1})
  BY DEF LastPage
<1> HIDE DEF n
<1>3. LastPage(total, pp) = IF n >= 1 THEN n ELSE 1
  <2>1. n \in Int /\ 1 \in Int
    BY <1>2
  <2>2. Max({n, 1}) = IF n >= 1 THEN n ELSE 1
    BY <2>1, MinMax
  <2>3. QED
    BY <1>l, <2>2
<1>4. CASE n >= 1
  <2>1. LastPage(total, pp) = n
    BY <1>3, <1>4
  <2>2. (n - 1) * pp + pp = n * pp /\ (n - 1) * pp \in Nat /\ n * pp \in Nat
    <3>1. n - 1 \in Nat
      BY <1>2, <1>4
    <3>2. (n - 1 + 1) * pp = (n - 1) * pp + pp /\ (n - 1) * pp \in Nat
      BY <3>1, Product
    <3>3. QED
      BY <1>2, <3>2, Product
  <2>3. QED
    BY <1>2, <1>4, <2>1, <2>2
<1>5. CASE n = 0
  BY <1>2, <1>3, <1>5
<1>6. QED
  BY <1>2, <1>4, <1>5

-----------------------------------------------------------------------------
(* the rows of a query *)

\* A later row has no earlier timestamp.
LEMMA StampFacts ==
  ASSUME NEW r \in Nat
  PROVE  /\ Stamp(r) \in Nat
         /\ \A q \in Nat : r <= q => Stamp(r) <= Stamp(q)
<1>1. Ties \in Nat \ {0}
  BY LogsAssumption
<1>2. ASSUME NEW q \in Nat
      PROVE  Stamp(q) \in Nat /\ Stamp(q) * Ties <= q /\ q < Stamp(q) * Ties + Ties
  BY <1>1, Division DEF Stamp
<1>3. ASSUME NEW q \in Nat, r <= q PROVE Stamp(r) <= Stamp(q)
  <2>1. PICK a, b \in Nat : a = Stamp(r) /\ b = Stamp(q)
    BY <1>2
  <2>2. a * Ties <= r /\ q < b * Ties + Ties /\ a * Ties \in Nat /\ b * Ties \in Nat
    BY <1>1, <1>2, <2>1, Product
  <2>3. ASSUME b < a PROVE FALSE
    <3>1. (b + 1) * Ties <= a * Ties /\ (b + 1) * Ties = b * Ties + Ties
      BY <1>1, <2>3, Product
    <3>2. QED
      BY <1>1, <1>3, <2>2, <3>1
  <2>4. QED
    BY <2>1, <2>3
<1>4. QED
  BY <1>2, <1>3

\* Every row has fewer rows before it than there are.
LEMMA BeforeFacts ==
  ASSUME NEW M \in SUBSET Nat, IsFiniteSet(M), NEW r \in M
  PROVE  /\ IsFiniteSet(Before(M, r))
         /\ Cardinality(Before(M, r)) \in 0 .. Cardinality(M) - 1
         /\ Cardinality(M) \in Nat
<1>1. Cardinality(M) \in Nat /\ Before(M, r) \in SUBSET M /\ r \notin Before(M, r)
  BY FS_CardinalityType, StampFacts DEF Before
<1>2. /\ IsFiniteSet(Before(M, r)) /\ Cardinality(Before(M, r)) <= Cardinality(M)
      /\ Cardinality(M) # Cardinality(Before(M, r))
  BY <1>1, FS_Subset
<1>3. Cardinality(Before(M, r)) \in Nat
  BY <1>2, FS_CardinalityType
<1>4. QED
  BY <1>1, <1>2, <1>3

\* LIMIT pp OFFSET off returns pp rows, or as many as there are after off.
LEMMA WindowSize ==
  ASSUME NEW M \in SUBSET Nat, IsFiniteSet(M), NEW off \in Nat, NEW pp \in Nat \ {0},
         NEW W \in Windows(M, off, pp)
  PROVE  /\ W \in SUBSET M
         /\ off >= Cardinality(M) => W = {}
         /\ off < Cardinality(M) => Cardinality(W) = Min({pp, Cardinality(M) - off})
<1>1. Cardinality(M) \in Nat /\ W \in SUBSET M
  BY FS_CardinalityType DEF Windows
<1>2. PICK m \in Nat : m = Cardinality(M)
  BY <1>1
<1>3. PICK n \in Nat : n = Min({off, m}) /\ n = IF off <= m THEN off ELSE m
  BY MinMax
<1>4. Cardinality(W) = Min({pp, m - n})
  BY <1>2, <1>3 DEF Windows
<1>5. ASSUME off >= m PROVE W = {}
  <2>1. m - n = 0
    BY <1>3, <1>5
  <2>2. Min({pp, 0}) = 0
    BY MinMax
  <2>3. Cardinality(W) = 0 /\ IsFiniteSet(W)
    BY <1>1, <1>4, <2>1, <2>2, FS_Subset
  <2>4. QED
    BY <2>3, FS_EmptySet
<1>6. off < m => n = off
  BY <1>3
<1>7. QED
  BY <1>1, <1>2, <1>4, <1>5, <1>6

\* A page past the end is empty.
LEMMA WindowPastEnd ==
  ASSUME NEW M \in SUBSET Nat, IsFiniteSet(M), NEW off \in Nat, NEW pp \in Nat \ {0},
         off >= Cardinality(M)
  PROVE  {} \in Windows(M, off, pp)
<1>1. PICK m \in Nat : m = Cardinality(M)
  BY FS_CardinalityType
<1>2. Min({off, m}) = m
  BY <1>1, MinMax
<1>3. Min({pp, 0}) = 0 /\ m - m = 0
  BY MinMax
<1>4. M \in SUBSET (M \ {}) /\ Lead(M, M) /\ Lead(M \cup {}, M)
  BY DEF Lead
<1>5. Cardinality({}) = 0
  BY FS_EmptySet
<1>6. QED
  BY <1>1, <1>2, <1>3, <1>4, <1>5 DEF Windows

\* A page that skips no more than the rows before r, and does not show r, shows
\* only rows before r, unless r is tied.
LEMMA WindowPasses ==
  ASSUME NEW M \in SUBSET Nat, IsFiniteSet(M), NEW off \in Nat, NEW pp \in Nat \ {0},
         NEW W \in Windows(M, off, pp), NEW r \in M \ W, ~Tied(M, r),
         Cardinality(Before(M, r)) >= off
  PROVE  Cardinality(Before(M, r)) >= off + pp
<1>1. PICK m, b \in Nat : m = Cardinality(M) /\ b = Cardinality(Before(M, r)) /\ b < m
  BY BeforeFacts
<1>2. /\ off <= b /\ IsFiniteSet(Before(M, r)) /\ Before(M, r) \subseteq M
      /\ r \notin Before(M, r)
  BY <1>1, BeforeFacts, StampFacts DEF Before
<1>3. Min({off, m}) = off
  BY <1>1, <1>2, MinMax
<1>4. /\ W \in SUBSET M /\ Cardinality(W) = Min({pp, m - off})
      /\ \E S \in SUBSET (M \ W) :
           Cardinality(S) = off /\ Lead(S, M) /\ Lead(S \cup W, M)
  BY <1>1, <1>3 DEF Windows
<1>5. PICK S \in SUBSET (M \ W) :
        Cardinality(S) = off /\ Lead(S, M) /\ Lead(S \cup W, M)
  BY <1>4
<1>6. PICK w \in Nat : w = Cardinality(W) /\ w = IF pp <= m - off THEN pp ELSE m - off
  BY <1>1, <1>2, <1>4, MinMax
<1>7. IsFiniteSet(S) /\ IsFiniteSet(W) /\ S \cap W = {}
  BY <1>4, <1>5, FS_Subset
<1>8. r \notin S
  <2>1. SUFFICES ASSUME r \in S PROVE FALSE
    OBVIOUS
  <2>2. ASSUME NEW q \in Before(M, r) PROVE q \in S
    <3>1. q \in M /\ Stamp(q) > Stamp(r) /\ Stamp(q) \in Nat /\ Stamp(r) \in Nat
      BY StampFacts DEF Before
    <3>2. q \notin S => Stamp(q) <= Stamp(r)
      BY <1>5, <2>1, <3>1 DEF Lead
    <3>3. QED
      BY <3>1, <3>2
  <2>3. Before(M, r) \cup {r} \subseteq S
    BY <2>1, <2>2
  <2>4. Cardinality(Before(M, r) \cup {r}) = b + 1
    BY <1>1, <1>2, FS_AddElement
  <2>5. Cardinality(Before(M, r) \cup {r}) <= Cardinality(S)
    BY <1>7, <2>3, FS_Subset
  <2>6. QED
    BY <1>2, <1>5, <2>4, <2>5
<1>9. S \cup W \in SUBSET Before(M, r)
  <2>1. SUFFICES ASSUME NEW x \in S \cup W PROVE x \in Before(M, r)
    OBVIOUS
  <2>2. x \in M /\ x # r /\ Stamp(x) \in Nat /\ Stamp(r) \in Nat
    BY <1>4, <1>5, <1>8, StampFacts
  <2>3. Stamp(r) <= Stamp(x)
    BY <1>5, <1>8 DEF Lead
  <2>4. Stamp(x) # Stamp(r)
    BY <2>2 DEF Tied
  <2>5. QED
    BY <2>2, <2>3, <2>4 DEF Before
<1>10. Cardinality(S \cup W) = off + w
  <2>1. Cardinality(S \cup W) = Cardinality(S) + Cardinality(W) - Cardinality(S \cap W)
    BY <1>7, FS_Union
  <2>2. Cardinality(S \cap W) = 0
    BY <1>7, FS_EmptySet
  <2>3. QED
    BY <1>5, <1>6, <2>1, <2>2
<1>11. off + w <= b
  BY <1>1, <1>2, <1>9, <1>10, FS_Subset
<1>12. QED
  BY <1>1, <1>2, <1>6, <1>11

\* More rows put no row further to the front.
LEMMA BeforeGrows ==
  ASSUME NEW M \in SUBSET Nat, NEW N \in SUBSET Nat, IsFiniteSet(N), M \subseteq N, NEW r
  PROVE  /\ Cardinality(M) <= Cardinality(N)
         /\ Cardinality(Before(M, r)) <= Cardinality(Before(N, r))
         /\ Cardinality(M) \in Nat /\ Cardinality(N) \in Nat
         /\ Cardinality(Before(M, r)) \in Nat /\ Cardinality(Before(N, r)) \in Nat
<1>1. Before(N, r) \in SUBSET N /\ Before(M, r) \in SUBSET Before(N, r)
  BY DEF Before
<1>2. IsFiniteSet(Before(N, r))
  BY <1>1, FS_Subset
<1>3. IsFiniteSet(M) /\ IsFiniteSet(Before(M, r))
  BY <1>1, <1>2, FS_Subset
<1>4. QED
  BY <1>1, <1>2, <1>3, FS_Subset, FS_CardinalityType

\* The rows of a query are finitely many numbers.
LEMMA HitsFacts ==
  ASSUME NEW g, DOMAIN g \subseteq 1 .. MaxRows, NEW f
  PROVE  /\ Hits(g, f) \in SUBSET Nat /\ IsFiniteSet(Hits(g, f))
         /\ Cardinality(Hits(g, f)) \in Nat
<1>1. IsFiniteSet(1 .. MaxRows) /\ 1 .. MaxRows \subseteq Nat
  BY LogsAssumption, FS_Interval
<1>2. Hits(g, f) \in SUBSET (1 .. MaxRows)
  BY DEF Hits
<1>3. IsFiniteSet(Hits(g, f))
  BY <1>1, <1>2, FS_Subset
<1>4. QED
  BY <1>1, <1>2, <1>3, FS_CardinalityType

\* What a commit does to the log.
LEMMA CommitFacts ==
  ASSUME TypeOK, NEW r \in 1 .. MaxRows, NEW k \in Kinds, Commit(r, k)
  PROVE  /\ log' \in [DOMAIN log' -> Kinds] /\ DOMAIN log' \subseteq 1 .. MaxRows
         /\ \A f : Hits(log, f) \subseteq Hits(log', f)
<1>1. /\ DOMAIN log \subseteq 1 .. MaxRows /\ log \in [DOMAIN log -> Kinds]
      /\ r \notin DOMAIN log
      /\ log' = [q \in DOMAIN log \cup {r} |-> IF q = r THEN k ELSE log[q]]
  BY DEF TypeOK, Commit
<1>2. \A q \in DOMAIN log : q \in DOMAIN log' /\ log'[q] = log[q]
  BY <1>1
<1>3. QED
  BY <1>1, <1>2 DEF Hits

\* What retention does to the log: it deletes the rows of the oldest timestamp,
\* and leaves every other one where it is in the order.
LEMMA RetainFacts ==
  ASSUME TypeOK, Retain, NEW kept,
         kept = {q \in DOMAIN log : Stamp(q) # Stamp(Min(DOMAIN log))}
  PROVE  /\ Stamp(Min(DOMAIN log)) \in Nat
         /\ log' \in [DOMAIN log' -> Kinds] /\ DOMAIN log' = kept
         /\ DOMAIN log' \subseteq 1 .. MaxRows
         /\ \A f, r : r \in Hits(log, f) /\ r \in kept =>
              /\ r \in Hits(log', f) /\ Before(Hits(log', f), r) = Before(Hits(log, f), r)
              /\ Tied(Hits(log, f), r) => Tied(Hits(log', f), r)
<1> DEFINE first == Stamp(Min(DOMAIN log))
<1>1. /\ DOMAIN log \subseteq 1 .. MaxRows /\ log \in [DOMAIN log -> Kinds]
      /\ DOMAIN log # {}
      /\ log' = [q \in kept |-> log[q]]
  BY DEF TypeOK, Retain
<1>2. DOMAIN log \in SUBSET Nat
  BY <1>1, LogsAssumption
<1>3. first \in Nat /\ \A q \in DOMAIN log : Stamp(q) \in Nat /\ first <= Stamp(q)
  <2>1. PICK m \in DOMAIN log : m = Min(DOMAIN log) /\ \A q \in DOMAIN log : m <= q
    BY <1>1, <1>2, Least
  <2>2. QED
    BY <1>2, <2>1, StampFacts
<1>4. kept = {q \in DOMAIN log : Stamp(q) # first}
  OBVIOUS
<1> HIDE DEF first
<1>5. /\ DOMAIN log' = kept /\ \A q \in DOMAIN log' : log'[q] = log[q]
      /\ log' \in [DOMAIN log' -> Kinds] /\ DOMAIN log' \subseteq 1 .. MaxRows
  BY <1>1, <1>4
<1>6. ASSUME NEW f, NEW r, r \in Hits(log, f), r \in kept
      PROVE  /\ r \in Hits(log', f) /\ Before(Hits(log', f), r) = Before(Hits(log, f), r)
             /\ Tied(Hits(log, f), r) => Tied(Hits(log', f), r)
  <2>1. r \in Hits(log', f)
    BY <1>5, <1>6 DEF Hits
  <2>2. Stamp(r) \in Nat /\ first < Stamp(r)
    BY <1>3, <1>4, <1>6
  <2>3. \A q \in Hits(log, f) : Stamp(q) >= Stamp(r) => q \in Hits(log', f)
    BY <1>3, <1>4, <1>5, <2>2 DEF Hits
  <2>4. Hits(log', f) \subseteq Hits(log, f)
    BY <1>4, <1>5 DEF Hits
  <2>5. \A q \in Hits(log, f) : Stamp(q) \in Nat
    BY <1>3 DEF Hits
  <2>6. Before(Hits(log', f), r) = Before(Hits(log, f), r)
    BY <2>2, <2>3, <2>4, <2>5 DEF Before
  <2>7. Tied(Hits(log, f), r) => Tied(Hits(log', f), r)
    BY <2>2, <2>3, <2>5 DEF Tied
  <2>8. QED
    BY <2>1, <2>6, <2>7
<1>7. QED
  BY <1>3, <1>5, <1>6 DEF first

-----------------------------------------------------------------------------
(* Inv is inductive *)

\* What the query of list_proxy_logs starts with.
LEMMA CountedFacts ==
  ASSUME TypeOK
  PROVE  /\ Counted = [rsc EXCEPT !.phase = "counted", !.perPage = rsc.perPage,
                                  !.page = ServedPage(rsc.page, rsc.perPage),
                                  !.total = Cardinality(Hits(log, rsc.filter))]
         /\ ServedPage(rsc.page, rsc.perPage) \in Nat \ {0}
         /\ Cardinality(Hits(log, rsc.filter)) \in Nat
<1>1. /\ rsc.perPage \in 1 .. MaxPerPage /\ rsc.page \in Nat \ {0} /\ MaxPerPage \in Nat
      /\ horizon \in Nat /\ DOMAIN log \subseteq 1 .. MaxRows
  BY LogsAssumption DEF TypeOK, Fetches
<1>2. Min({rsc.perPage, MaxPerPage}) = rsc.perPage
  BY <1>1, MinMax
<1>3. Max({1, rsc.perPage}) = rsc.perPage
  <2>1. 1 \in Int /\ rsc.perPage \in Int /\ (1 >= rsc.perPage => rsc.perPage = 1)
    BY <1>1
  <2>2. QED
    BY <2>1, MinMax
<1>4. ServedPage(rsc.page, rsc.perPage) \in Nat \ {0}
  BY <1>1, LogsAssumption, ServedFacts
<1>5. Cardinality(Hits(log, rsc.filter)) \in Nat
  BY <1>1, HitsFacts
<1>6. Matching(rsc.filter) = Hits(log, rsc.filter)
  BY DEF Matching, Hits
<1>7. QED
  BY <1>2, <1>3, <1>4, <1>5, <1>6 DEF Counted

\* What a query answers with: the rows of its page, as they are now, and a total
\* that holds now unless the log changed after the COUNT.
LEMMA AnsweredFacts ==
  ASSUME Inv, AnswerPastEnd \/ SelectRows
  PROVE  \E q \in Fetches : \E W \in Windows(Hits(log, q.filter), Skip(q), q.perPage) :
           /\ Answer(q, W)
           /\ ~q.raced => q.total = Cardinality(Hits(log, q.filter))
           /\ Skip(q) \in Nat
           /\ W # {} => q.total > 0
           /\ ~dirty => q.page = ServedPage(page, perPage) /\ q.perPage = perPage
           /\ ~dirty /\ ~overtaken /\ page > 1 => Skip(q) < q.total
<1>0. TypeOK /\ Current /\ Counts /\ Reach /\ MaxOffset \in Nat
  BY LogsAssumption DEF Inv
<1>1. /\ rsc \in Fetches /\ rsc.perPage \in Nat \ {0} /\ rsc.page \in Nat \ {0}
      /\ page \in Nat \ {0} /\ perPage \in Nat \ {0}
      /\ horizon \in Nat /\ DOMAIN log \subseteq 1 .. MaxRows
  BY <1>0, LogsAssumption DEF TypeOK, Fetches
<1>2. ASSUME NEW p \in Nat \ {0}, NEW pp \in Nat \ {0} PROVE Offset(p, pp) \in Nat
  <2>1. Offset(p, pp) = (p - 1) * pp /\ p - 1 \in Nat
    BY DEF Offset
  <2>2. QED
    BY <2>1, Product
<1>3. CASE SelectRows
  <2>1. rsc.phase = "counted" /\ ~PastEnd(rsc)
    BY <1>0, <1>3 DEF SelectRows, Counts
  <2>2. Rows(rsc.filter, rsc.perPage, Offset(rsc.page, rsc.perPage))
          = Windows(Hits(log, rsc.filter), Skip(rsc), rsc.perPage)
    BY DEF Rows, Windows, Matching, Hits, Skip
  <2>3. \E W \in Windows(Hits(log, rsc.filter), Skip(rsc), rsc.perPage) : Answer(rsc, W)
    BY <1>3, <2>2 DEF SelectRows
  <2>4. Skip(rsc) \in Nat /\ rsc.total \in Nat /\ Skip(rsc) < rsc.total
    BY <1>1, <1>2, <2>1 DEF Skip, PastEnd, Fetches
  <2>5. ~rsc.raced => rsc.total = Cardinality(Hits(log, rsc.filter))
    BY <1>0, <2>1 DEF Counts
  <2>6. ~dirty => rsc.page = ServedPage(page, perPage) /\ rsc.perPage = perPage
    BY <1>0, <2>1 DEF Current
  <2>7. QED
    BY <1>1, <2>3, <2>4, <2>5, <2>6
<1>4. CASE AnswerPastEnd
  <2>1. rsc.phase = "sent" /\ PastEnd(Counted) /\ Answer(Counted, {})
    BY <1>4 DEF AnswerPastEnd
  <2>2. PICK q : q = Counted
    OBVIOUS
  <2>3. /\ q \in Fetches /\ q.perPage = rsc.perPage /\ q.filter = rsc.filter
        /\ q.page = ServedPage(rsc.page, rsc.perPage) /\ q.page \in Nat \ {0}
        /\ q.total = Cardinality(Hits(log, q.filter)) /\ q.total \in Nat
    <3>1. PICK sp \in Nat \ {0} : sp = ServedPage(rsc.page, rsc.perPage)
      BY <1>0, CountedFacts
    <3>2. PICK n \in Nat : n = Cardinality(Hits(log, rsc.filter))
      BY <1>0, CountedFacts
    <3>3. q = [rsc EXCEPT !.phase = "counted", !.perPage = rsc.perPage,
                          !.page = sp, !.total = n]
      BY <1>0, <2>2, <3>1, <3>2, CountedFacts
    <3>4. /\ q \in Fetches /\ q.perPage = rsc.perPage /\ q.filter = rsc.filter
          /\ q.page = sp /\ q.total = n
      BY <1>1, <3>3 DEF Fetches
    <3>5. QED
      BY <3>1, <3>2, <3>4
  <2>4. Skip(q) \in Nat /\ Skip(q) >= q.total
    BY <1>1, <1>2, <2>1, <2>2, <2>3 DEF Skip, PastEnd
  <2>5. Hits(log, q.filter) \in SUBSET Nat /\ IsFiniteSet(Hits(log, q.filter))
    BY <1>1, HitsFacts
  <2>6. {} \in Windows(Hits(log, q.filter), Skip(q), q.perPage)
    BY <1>1, <2>3, <2>4, <2>5, WindowPastEnd
  <2>7. Answer(q, {})
    BY <2>1, <2>2
  <2>8. ~dirty => q.page = ServedPage(page, perPage) /\ q.perPage = perPage
    BY <1>0, <2>1, <2>3 DEF Current
  <2>9. ASSUME ~dirty, ~overtaken, page > 1 PROVE Skip(q) < q.total
    <3>1. q.filter = filter /\ (page - 1) * perPage < Cardinality(Hits(log, filter))
      BY <1>0, <2>1, <2>3, <2>9 DEF Reach
    <3>2. Skip(q) = Offset(ServedPage(page, perPage), perPage)
      BY <2>8, <2>9 DEF Skip
    <3>3. Skip(q) <= (page - 1) * perPage
      BY <1>0, <1>1, <3>2, ServedFacts
    <3>4. page - 1 \in Nat
      BY <1>1
    <3>5. (page - 1) * perPage \in Nat
      BY <1>1, <3>4, Product
    <3>6. QED
      BY <2>3, <2>4, <3>1, <3>3, <3>5
  <2>10. QED
    BY <2>3, <2>4, <2>6, <2>7, <2>8, <2>9
<1>5. QED
  BY <1>3, <1>4

\* Every step keeps the types.
LEMMA TypeStep ==
  ASSUME Inv, [Next]_vars
  PROVE  TypeOK'
<1>0. TypeOK
  BY DEF Inv
<1>p. /\ MaxPerPage \in Nat \ {0} /\ PerPages \subseteq 1 .. MaxPerPage
      /\ 1 \in 1 .. MaxPerPage
  <2>1. PICK x \in PerPages : x \in 1 .. MaxPerPage
    BY LogsAssumption
  <2>2. QED
    BY <2>1, LogsAssumption
<1>1. ASSUME NEW r \in 1 .. MaxRows, NEW k \in Kinds, Commit(r, k) PROVE TypeOK'
  <2>1. log' \in [DOMAIN log' -> Kinds] /\ DOMAIN log' \subseteq 1 .. MaxRows
    BY <1>0, <1>1, CommitFacts
  <2>2. rsc' \in Fetches
    BY <1>0, <1>1 DEF Commit, Races, TypeOK, Fetches
  <2>3. QED
    BY <1>0, <1>1, <2>1, <2>2 DEF Commit, TypeOK, signals
<1>2. ASSUME Retain PROVE TypeOK'
  <2>1. /\ log' \in [DOMAIN log' -> Kinds] /\ DOMAIN log' \subseteq 1 .. MaxRows
        /\ horizon' \in Nat
    <3>1. PICK n \in Nat : n = Stamp(Min(DOMAIN log))
      BY <1>0, <1>2, RetainFacts
    <3>2. horizon' = n + 1
      BY <1>2, <3>1 DEF Retain
    <3>3. log' \in [DOMAIN log' -> Kinds] /\ DOMAIN log' \subseteq 1 .. MaxRows
      <4>1. PICK kept : kept = {q \in DOMAIN log : Stamp(q) # Stamp(Min(DOMAIN log))}
        OBVIOUS
      <4>2. QED
        BY <1>0, <1>2, <4>1, RetainFacts
    <3>4. horizon' \in Nat
      BY <3>2
    <3>5. QED
      BY <3>3, <3>4
  <2>2. rsc' \in Fetches
    BY <1>0, <1>2 DEF Retain, Races, TypeOK, Fetches
  <2>3. value' \in Values
    BY <1>0, <1>2 DEF Retain, TypeOK, Values
  <2>4. walk' \in [at : Nat, left : SUBSET Nat]
    BY <1>0, <1>2 DEF Retain, TypeOK
  <2>5. QED
    BY <1>0, <1>2, <2>1, <2>2, <2>3, <2>4 DEF Retain, TypeOK, signals
<1>3. ASSUME Fetch PROVE TypeOK'
  <2>1. rsc' \in Fetches
    BY <1>0, <1>3 DEF Fetch, Request, NoFetch, TypeOK, Fetches
  <2>2. QED
    BY <1>0, <1>3, <2>1 DEF Fetch, TypeOK, table, signals
<1>4. ASSUME CountRows PROVE TypeOK'
  <2>1. rsc' \in Fetches
    BY <1>0, <1>4, CountedFacts DEF CountRows, TypeOK, Fetches
  <2>2. QED
    BY <1>0, <1>4, <2>1 DEF CountRows, TypeOK, table, signals
<1>5. ASSUME AnswerPastEnd \/ SelectRows PROVE TypeOK'
  <2>1. PICK q, W :
          /\ q \in Fetches /\ Answer(q, W)
          /\ W \in Windows(Hits(log, q.filter), Skip(q), q.perPage)
    BY <1>5, AnsweredFacts
  <2>2. W \in SUBSET Nat
    BY <1>0, <2>1, HitsFacts DEF TypeOK, Windows
  <2>3. value' \in Values /\ value'.page \in Nat
    <3>1. IsFiniteSet(Hits(log, q.filter)) /\ W \subseteq Hits(log, q.filter)
      BY <1>0, <2>1, HitsFacts DEF TypeOK, Windows
    <3>2. Cardinality(W) \in Nat
      BY <3>1, FS_Subset, FS_CardinalityType
    <3>3. QED
      BY <2>1, <3>2 DEF Answer, Fetches, Values
  <2>4. walk' \in [at : Nat, left : SUBSET Nat]
    <3>1. Matching(value'.filter) \in SUBSET Nat
      BY <1>0, HitsFacts DEF TypeOK, Matching, Hits
    <3>2. QED
      BY <1>0, <2>1, <2>3, <3>1 DEF Answer, Walked, NoWalk, TypeOK
  <2>5. rsc' \in Fetches
    BY <2>1, <1>p DEF Answer, NoFetch, Fetches, Asked
  <2>6. QED
    BY <1>0, <2>1, <2>3, <2>4, <2>5 DEF Answer, TypeOK, table, signals
<1>6. ASSUME FetchFails PROVE TypeOK'
  <2>1. rsc' \in Fetches
    BY <1>0, <1>6, <1>p DEF FetchFails, NoFetch, Fetches, Asked
  <2>2. value' \in Values
    <3>1. value' = [phase |-> "err", page |-> 1, perPage |-> 1, filter |-> All,
                    total |-> 0, raced |-> FALSE, shown |-> 0, old |-> FALSE]
      BY <1>6 DEF FetchFails, NoValue
    <3>2. 1 \in Nat \ {0} /\ 0 \in Nat /\ {} \in SUBSET Nat /\ All \in Asked
      BY DEF Asked
    <3>3. QED
      BY <1>p, <3>1, <3>2 DEF Values
  <2>3. QED
    BY <1>0, <1>6, <2>1, <2>2 DEF FetchFails, NoWalk, TypeOK, table, signals
<1>7. ASSUME NEW f \in Asked, EditFilter(f) PROVE TypeOK'
  BY <1>0, <1>p, <1>7 DEF EditFilter, table, signals, TypeOK, Asked
<1>8. ASSUME DoQuery PROVE TypeOK'
  <2>1. overtaken' = FALSE /\ dirty' = TRUE /\ page' = 1
    BY <1>8 DEF DoQuery
  <2>2. overtaken' \in BOOLEAN /\ dirty' \in BOOLEAN
    BY <2>1, Zenon
  <2>3. QED
    BY <1>0, <1>p, <1>8, <2>1, <2>2 DEF DoQuery, table, signals, TypeOK, Asked
<1>9. ASSUME DoReset PROVE TypeOK'
  <2>1. overtaken' = FALSE /\ dirty' = TRUE /\ page' = 1
    BY <1>9 DEF DoReset
  <2>2. overtaken' \in BOOLEAN /\ dirty' \in BOOLEAN
    BY <2>1, Zenon
  <2>3. QED
    BY <1>0, <1>p, <1>9, <2>1, <2>2 DEF DoReset, table, signals, TypeOK, Asked
<1>10. ASSUME Retry PROVE TypeOK'
  BY <1>0, <1>p, <1>10 DEF Retry, table, signals, TypeOK, Asked
<1>11. ASSUME OpenDetail PROVE TypeOK'
  BY <1>0, <1>p, <1>11 DEF OpenDetail, table, signals, TypeOK, Asked
<1>12. ASSUME CloseDetail PROVE TypeOK'
  BY <1>0, <1>p, <1>12 DEF CloseDetail, table, signals, TypeOK, Asked
<1>13. ASSUME NEW p \in 1 .. MaxRows + 1, GotoPage(p) PROVE TypeOK'
  <2>1. page' \in Nat \ {0} /\ overtaken' \in BOOLEAN
    BY <1>13 DEF GotoPage
  <2>2. QED
    BY <1>0, <1>13, <2>1 DEF GotoPage, TypeOK, table
<1>14. ASSUME NEW pp \in PerPages, SetPerPage(pp) PROVE TypeOK'
  <2>1. overtaken' = FALSE /\ dirty' = TRUE /\ page' = 1
    BY <1>14 DEF SetPerPage
  <2>2. overtaken' \in BOOLEAN /\ dirty' \in BOOLEAN
    BY <2>1, Zenon
  <2>3. QED
    BY <1>0, <1>p, <1>14, <2>1, <2>2 DEF SetPerPage, table, signals, TypeOK, Asked
<1>15. CASE UNCHANGED vars
  BY <1>0, <1>p, <1>15 DEF vars, table, signals, TypeOK, Asked
<1>16. QED
  BY <1>1, <1>2, <1>3, <1>4, <1>5, <1>6, <1>7, <1>8, <1>9, <1>10, <1>11, <1>12,
     <1>13, <1>14, <1>15 DEF Next, Asked

\* A fetch asks for what the signals say, or else is dirty.
LEMMA CurrentStep ==
  ASSUME Inv, [Next]_vars
  PROVE  Current'
<1>0. TypeOK /\ Current
  BY DEF Inv
<1>1. ASSUME NEW r \in 1 .. MaxRows, NEW k \in Kinds, Commit(r, k) PROVE Current'
  BY <1>0, <1>1 DEF Commit, Races, table, signals, Current, TypeOK, Fetches, Values
<1>2. ASSUME Retain PROVE Current'
  BY <1>0, <1>2 DEF Retain, Races, table, signals, Current, TypeOK, Fetches, Values
<1>3. ASSUME Fetch PROVE Current'
  BY <1>0, <1>3 DEF Fetch, Request, NoFetch, table, signals, Current, TypeOK,
     Fetches, Values
<1>4. ASSUME CountRows PROVE Current'
  <2>1. rsc.phase = "sent" /\ rsc'.page = ServedPage(rsc.page, rsc.perPage)
        /\ rsc'.perPage = rsc.perPage /\ rsc'.phase = "counted"
    BY <1>0, <1>4, CountedFacts DEF CountRows, TypeOK, Fetches
  <2>2. QED
    BY <1>0, <1>4, <2>1 DEF CountRows, Current, signals
<1>5. ASSUME AnswerPastEnd \/ SelectRows PROVE Current'
  <2>1. PICK q, W :
          /\ q \in Fetches /\ Answer(q, W)
          /\ ~dirty => q.page = ServedPage(page, perPage) /\ q.perPage = perPage
    BY <1>5, AnsweredFacts
  <2>2. QED
    BY <1>0, <2>1 DEF Answer, NoFetch, Current, signals
<1>6. ASSUME FetchFails PROVE Current'
  BY <1>0, <1>6 DEF FetchFails, NoFetch, NoValue, NoWalk, table, signals, Current,
     TypeOK, Fetches, Values
<1>7. ASSUME NEW f \in Asked, EditFilter(f) PROVE Current'
  BY <1>0, <1>7 DEF EditFilter, table, signals, Current, TypeOK, Fetches, Values
<1>8. ASSUME DoQuery PROVE Current'
  BY <1>0, <1>8 DEF DoQuery, table, signals, Current, TypeOK, Fetches, Values
<1>9. ASSUME DoReset PROVE Current'
  BY <1>0, <1>9 DEF DoReset, table, signals, Current, TypeOK, Fetches, Values
<1>10. ASSUME Retry PROVE Current'
  BY <1>0, <1>10 DEF Retry, table, signals, Current, TypeOK, Fetches, Values
<1>11. ASSUME OpenDetail PROVE Current'
  BY <1>0, <1>11 DEF OpenDetail, table, signals, Current, TypeOK, Fetches, Values
<1>12. ASSUME CloseDetail PROVE Current'
  BY <1>0, <1>12 DEF CloseDetail, table, signals, Current, TypeOK, Fetches, Values
<1>13. ASSUME NEW p \in 1 .. MaxRows + 1, GotoPage(p) PROVE Current'
  BY <1>0, <1>13 DEF GotoPage, table, signals, Current, TypeOK, Fetches, Values
<1>14. ASSUME NEW pp \in PerPages, SetPerPage(pp) PROVE Current'
  BY <1>0, <1>14 DEF SetPerPage, table, signals, Current, TypeOK, Fetches, Values
<1>15. CASE UNCHANGED vars
  BY <1>0, <1>15 DEF vars, table, signals, Current, TypeOK, Fetches, Values
<1>16. QED
  BY <1>1, <1>2, <1>3, <1>4, <1>5, <1>6, <1>7, <1>8, <1>9, <1>10, <1>11, <1>12,
     <1>13, <1>14, <1>15 DEF Next, Asked

\* Totals follow the log.
LEMMA CountsStep ==
  ASSUME Inv, [Next]_vars
  PROVE  Counts'
<1>0. TypeOK /\ Counts
  BY DEF Inv
<1>1. ASSUME NEW r \in 1 .. MaxRows, NEW k \in Kinds, Commit(r, k) PROVE Counts'
  <2>1. /\ value' = value /\ rsc'.phase = rsc.phase /\ rsc'.page = rsc.page
        /\ rsc'.perPage = rsc.perPage /\ rsc'.total = rsc.total
        /\ rsc.phase = "counted" => rsc'.raced
    BY <1>0, <1>1 DEF Commit, Races, TypeOK, Fetches
  <2>2. Cardinality(Hits(log, value.filter)) <= Cardinality(Hits(log', value.filter))
    <3>1. Hits(log', value.filter) \in SUBSET Nat /\ IsFiniteSet(Hits(log', value.filter))
      BY <1>0, <1>1, CommitFacts, HitsFacts DEF TypeOK
    <3>2. Hits(log, value.filter) \subseteq Hits(log', value.filter)
      BY <1>0, <1>1, CommitFacts
    <3>3. QED
      BY <3>1, <3>2, BeforeGrows
  <2>3. /\ Cardinality(Hits(log, value.filter)) \in Nat
        /\ Cardinality(Hits(log', value.filter)) \in Nat
    BY <1>0, <1>1, CommitFacts, HitsFacts DEF TypeOK
  <2>4. value.total \in Nat
    BY <1>0 DEF TypeOK, Values
  <2>5. QED
    BY <1>0, <2>1, <2>2, <2>3, <2>4 DEF Counts, PastEnd
<1>2. ASSUME Retain PROVE Counts'
  <2>1. /\ rsc'.phase = rsc.phase /\ rsc'.page = rsc.page
        /\ rsc'.perPage = rsc.perPage /\ rsc'.total = rsc.total
        /\ rsc.phase = "counted" => rsc'.raced
    BY <1>0, <1>2 DEF Retain, Races, TypeOK, Fetches
  <2>2. /\ value'.phase = value.phase /\ value'.shown = value.shown
        /\ value'.total = value.total /\ value'.raced = value.raced
        /\ value'.page = value.page /\ value'.perPage = value.perPage
        /\ value.phase = "ok" => value'.old
    BY <1>0, <1>2 DEF Retain, TypeOK, Values
  <2>3. QED
    BY <1>0, <2>1, <2>2 DEF Counts, PastEnd, Skip
<1>3. ASSUME Fetch PROVE Counts'
  BY <1>0, <1>3 DEF Fetch, Request, NoFetch, table, signals, Counts
<1>4. ASSUME CountRows PROVE Counts'
  <2>1. /\ rsc'.phase = "counted" /\ rsc'.filter = rsc.filter
        /\ rsc'.total = Cardinality(Hits(log, rsc.filter))
    BY <1>0, <1>4, CountedFacts DEF CountRows, TypeOK, Fetches
  <2>2. ~PastEnd(rsc')
    BY <1>4 DEF CountRows
  <2>3. QED
    BY <1>0, <1>4, <2>1, <2>2 DEF CountRows, Counts, table
<1>5. ASSUME AnswerPastEnd \/ SelectRows PROVE Counts'
  <2>1. PICK q, W :
          /\ q \in Fetches /\ Answer(q, W)
          /\ W \in Windows(Hits(log, q.filter), Skip(q), q.perPage)
          /\ ~q.raced => q.total = Cardinality(Hits(log, q.filter))
          /\ Skip(q) \in Nat
          /\ W # {} => q.total > 0
    BY <1>5, AnsweredFacts
  <2>2. /\ rsc'.phase = "idle" /\ log' = log /\ value'.phase = "ok"
        /\ value'.shown = Cardinality(W) /\ value'.total = q.total
        /\ value'.raced = q.raced /\ value'.old = q.raced /\ value'.filter = q.filter
        /\ value'.page = q.page /\ value'.perPage = q.perPage
    BY <2>1 DEF Answer, NoFetch, table
  <2>3. Skip(value') = Skip(q)
    BY <2>2 DEF Skip
  <2>4. /\ Hits(log, q.filter) \in SUBSET Nat /\ IsFiniteSet(Hits(log, q.filter))
        /\ Cardinality(Hits(log, q.filter)) \in Nat /\ q.perPage \in Nat \ {0}
        /\ q.total \in Nat
    BY <1>0, <2>1, HitsFacts, LogsAssumption DEF TypeOK, Fetches
  <2>5. /\ Skip(q) >= Cardinality(Hits(log, q.filter)) => W = {}
        /\ Skip(q) < Cardinality(Hits(log, q.filter)) =>
             Cardinality(W)
               = Min({q.perPage, Cardinality(Hits(log, q.filter)) - Skip(q)})
    <3>1. PICK M \in SUBSET Nat, off \in Nat, pp \in Nat \ {0} :
            M = Hits(log, q.filter) /\ off = Skip(q) /\ pp = q.perPage
      BY <2>1, <2>4
    <3>2. W \in Windows(M, off, pp) /\ IsFiniteSet(M)
      BY <2>1, <2>4, <3>1
    <3>3. /\ off >= Cardinality(M) => W = {}
          /\ off < Cardinality(M) => Cardinality(W) = Min({pp, Cardinality(M) - off})
      BY <3>2, WindowSize
    <3>4. QED
      BY <3>1, <3>3
  <2>6. ASSUME ~q.raced
        PROVE  IF Skip(q) >= q.total THEN W = {}
               ELSE Cardinality(W) = Min({q.perPage, q.total - Skip(q)})
    BY <2>1, <2>4, <2>5, <2>6
  <2>7. ~q.raced => q.total <= Cardinality(Hits(log, q.filter))
    BY <2>1, <2>4
  <2>8. /\ W = {} => Cardinality(W) = 0
        /\ Cardinality(W) > 0 => W # {}
    BY FS_EmptySet
  <2>9. QED
    BY <2>1, <2>2, <2>3, <2>6, <2>7, <2>8 DEF Counts
<1>6. ASSUME FetchFails PROVE Counts'
  BY <1>0, <1>6 DEF FetchFails, NoFetch, NoValue, NoWalk, table, signals, Counts
<1>7. ASSUME NEW f \in Asked, EditFilter(f) PROVE Counts'
  BY <1>0, <1>7 DEF EditFilter, table, signals, Counts
<1>8. ASSUME DoQuery PROVE Counts'
  BY <1>0, <1>8 DEF DoQuery, table, signals, Counts
<1>9. ASSUME DoReset PROVE Counts'
  BY <1>0, <1>9 DEF DoReset, table, signals, Counts
<1>10. ASSUME Retry PROVE Counts'
  BY <1>0, <1>10 DEF Retry, table, signals, Counts
<1>11. ASSUME OpenDetail PROVE Counts'
  BY <1>0, <1>11 DEF OpenDetail, table, signals, Counts
<1>12. ASSUME CloseDetail PROVE Counts'
  BY <1>0, <1>12 DEF CloseDetail, table, signals, Counts
<1>13. ASSUME NEW p \in 1 .. MaxRows + 1, GotoPage(p) PROVE Counts'
  BY <1>0, <1>13 DEF GotoPage, table, signals, Counts
<1>14. ASSUME NEW pp \in PerPages, SetPerPage(pp) PROVE Counts'
  BY <1>0, <1>14 DEF SetPerPage, table, signals, Counts
<1>15. CASE UNCHANGED vars
  BY <1>0, <1>15 DEF vars, table, signals, Counts
<1>16. QED
  BY <1>1, <1>2, <1>3, <1>4, <1>5, <1>6, <1>7, <1>8, <1>9, <1>10, <1>11, <1>12,
     <1>13, <1>14, <1>15 DEF Next, Asked

\* The page a user can go to has rows until something overtakes it.
LEMMA ReachStep ==
  ASSUME Inv, [Next]_vars
  PROVE  Reach'
<1>0. TypeOK /\ Reach /\ Counts
  BY DEF Inv
<1>1. ASSUME NEW r \in 1 .. MaxRows, NEW k \in Kinds, Commit(r, k) PROVE Reach'
  <2>1. /\ value' = value /\ rsc'.phase = rsc.phase /\ rsc'.filter = rsc.filter
        /\ page' = page /\ perPage' = perPage /\ filter' = filter
        /\ dirty' = dirty /\ overtaken' = overtaken
    BY <1>0, <1>1 DEF Commit, Races, TypeOK, Fetches, signals
  <2>2. Cardinality(Hits(log, filter)) <= Cardinality(Hits(log', filter))
    <3>1. Hits(log', filter) \in SUBSET Nat /\ IsFiniteSet(Hits(log', filter))
      BY <1>0, <1>1, CommitFacts, HitsFacts DEF TypeOK
    <3>2. Hits(log, filter) \subseteq Hits(log', filter)
      BY <1>0, <1>1, CommitFacts
    <3>3. QED
      BY <3>1, <3>2, BeforeGrows
  <2>3. Cardinality(Hits(log, filter)) \in Nat /\ Cardinality(Hits(log', filter)) \in Nat
    BY <1>0, <1>1, CommitFacts, HitsFacts DEF TypeOK
  <2>4. (page - 1) * perPage \in Nat
    <3>1. page - 1 \in Nat /\ perPage \in Nat
      BY <1>0, LogsAssumption DEF TypeOK
    <3>2. QED
      BY <3>1, Product
  <2>5. QED
    BY <1>0, <2>1, <2>2, <2>3, <2>4 DEF Reach
<1>2. ASSUME Retain PROVE Reach'
  <2>1. overtaken' \/ ~(page' > 1)
    BY <1>2 DEF Retain, signals
  <2>2. QED
    BY <2>1 DEF Reach
<1>3. ASSUME Fetch PROVE Reach'
  <2>1. ~dirty' /\ rsc'.phase = "sent" /\ rsc'.filter = filter
    BY <1>3 DEF Fetch, Request, NoFetch
  <2>2. QED
    BY <1>0, <1>3, <2>1 DEF Fetch, Reach, table, signals
<1>4. ASSUME CountRows PROVE Reach'
  <2>1. rsc.phase = "sent" /\ rsc'.phase = "counted" /\ rsc'.filter = rsc.filter
    BY <1>0, <1>4, CountedFacts DEF CountRows, TypeOK, Fetches
  <2>2. QED
    BY <1>0, <1>4, <2>1 DEF CountRows, Reach, table, signals
<1>5. ASSUME AnswerPastEnd \/ SelectRows PROVE Reach'
  <2>1. PICK q, W :
          /\ q \in Fetches /\ Answer(q, W)
          /\ ~dirty /\ ~overtaken /\ page > 1 => Skip(q) < q.total
    BY <1>5, AnsweredFacts
  <2>2. rsc'.phase = "idle" /\ value'.total = q.total /\ Skip(value') = Skip(q)
    BY <2>1 DEF Answer, NoFetch, Skip
  <2>3. QED
    BY <1>0, <2>1, <2>2 DEF Answer, Reach, table, signals
<1>6. ASSUME FetchFails PROVE Reach'
  BY <1>0, <1>6 DEF FetchFails, NoFetch, NoValue, NoWalk, table, signals, Reach
<1>7. ASSUME NEW f \in Asked, EditFilter(f) PROVE Reach'
  <2>1. overtaken' \/ ~(page' > 1)
    BY <1>7 DEF EditFilter
  <2>2. QED
    BY <2>1 DEF Reach
<1>8. ASSUME DoQuery PROVE Reach'
  BY <1>0, <1>8 DEF DoQuery, table, signals, Reach
<1>9. ASSUME DoReset PROVE Reach'
  BY <1>0, <1>9 DEF DoReset, table, signals, Reach
<1>10. ASSUME Retry PROVE Reach'
  BY <1>0, <1>10 DEF Retry, table, signals, Reach
<1>11. ASSUME OpenDetail PROVE Reach'
  BY <1>0, <1>11 DEF OpenDetail, table, signals, Reach
<1>12. ASSUME CloseDetail PROVE Reach'
  BY <1>0, <1>12 DEF CloseDetail, table, signals, Reach
<1>13. ASSUME NEW p \in 1 .. MaxRows + 1, GotoPage(p) PROVE Reach'
  <2>1. /\ page' = p /\ dirty' /\ overtaken' = (p > 1 /\ (value.old \/ filter # value.filter))
        /\ perPage' = perPage /\ filter' = filter /\ log' = log
        /\ p \in 1 .. LastPage(value.total, perPage)
        /\ value.phase = "ok" /\ value.shown > 0
    BY <1>13 DEF GotoPage, BarShown, table
  <2>2. /\ value.total \in Nat /\ perPage \in Nat \ {0} /\ p \in Nat \ {0}
        /\ Cardinality(Hits(log, value.filter)) \in Nat
    BY <1>0, HitsFacts, LogsAssumption DEF TypeOK, Values
  <2>3. ASSUME ~overtaken', p > 1
        PROVE  (p - 1) * perPage < Cardinality(Hits(log, filter))
    <3>1. /\ value.total > 0 /\ value.total <= Cardinality(Hits(log, filter))
          /\ value.filter = filter
      BY <1>0, <2>1, <2>3 DEF Counts
    <3>2. /\ LastPage(value.total, perPage) \in Nat \ {0}
          /\ (LastPage(value.total, perPage) - 1) * perPage < value.total
      BY <2>2, <3>1, LastPageFacts
    <3>3. PICK n \in Nat : n = LastPage(value.total, perPage) - 1
      BY <3>2
    <3>4. p - 1 \in Nat /\ p - 1 <= n
      BY <2>1, <2>2, <3>2, <3>3
    <3>5. (p - 1) * perPage <= n * perPage /\ (p - 1) * perPage \in Nat /\ n * perPage \in Nat
      BY <2>2, <3>4, Product
    <3>6. n * perPage < value.total
      BY <3>2, <3>3
    <3>7. QED
      BY <2>2, <3>1, <3>5, <3>6
  <2>4. QED
    BY <2>1, <2>3 DEF Reach
<1>14. ASSUME NEW pp \in PerPages, SetPerPage(pp) PROVE Reach'
  BY <1>0, <1>14 DEF SetPerPage, table, signals, Reach
<1>15. CASE UNCHANGED vars
  BY <1>0, <1>15 DEF vars, table, signals, Reach
<1>16. QED
  BY <1>1, <1>2, <1>3, <1>4, <1>5, <1>6, <1>7, <1>8, <1>9, <1>10, <1>11, <1>12,
     <1>13, <1>14, <1>15 DEF Next, Asked

\* WalkSeesAll in the terms of the invariant.
LEMMA MissedIsTied ==
  /\ WalkSeesAll <=>
       ( /\ value.phase = "ok" /\ walk.at = value.page
         /\ walk.at >= LastPage(value.total, value.perPage) /\ ~value.raced
         => \A r \in walk.left : Tied(Hits(log, value.filter), r) )
  /\ WalkSeesAll' <=>
       ( /\ value'.phase = "ok" /\ walk'.at = value'.page
         /\ walk'.at >= LastPage(value'.total, value'.perPage) /\ ~value'.raced
         => \A r \in walk'.left : Tied(Hits(log', value'.filter), r) )
<1>1. /\ Matching(value.filter) = Hits(log, value.filter)
      /\ Matching(value.filter)' = Hits(log', value'.filter)
  BY DEF Matching, Hits
<1>2. QED
  BY <1>1 DEF WalkSeesAll, Tied

\* A walk from the first page leaves behind it nothing it should have shown.
LEMMA WalkStep ==
  ASSUME Inv, [Next]_vars
  PROVE  Walk' /\ WalkSeesAll'
<1>0. TypeOK /\ Walk /\ WalkSeesAll
  BY DEF Inv
<1>1. ASSUME NEW r \in 1 .. MaxRows, NEW k \in Kinds,
             Commit(r, k) PROVE Walk' /\ WalkSeesAll'
  <2>1. value' = value /\ walk' = walk
    BY <1>1 DEF Commit
  <2>2. Hits(log', value.filter) \in SUBSET Nat /\ IsFiniteSet(Hits(log', value.filter))
    BY <1>0, <1>1, CommitFacts, HitsFacts DEF TypeOK
  <2>3. Hits(log, value.filter) \subseteq Hits(log', value.filter)
    BY <1>0, <1>1, CommitFacts
  <2>4. walk.at * value.perPage \in Nat
    <3>1. walk.at \in Nat /\ value.perPage \in Nat
      BY <1>0, LogsAssumption DEF TypeOK, Values
    <3>2. QED
      BY <3>1, Product
  <2>5. ASSUME walk.at > 0, NEW s \in walk.left
        PROVE  /\ s \in Hits(log', value.filter)
               /\ \/ Tied(Hits(log', value.filter), s)
                  \/ Cardinality(Before(Hits(log', value.filter), s)) >= walk.at * value.perPage
    <3>1. /\ s \in Hits(log, value.filter)
          /\ \/ Tied(Hits(log, value.filter), s)
             \/ Cardinality(Before(Hits(log, value.filter), s)) >= walk.at * value.perPage
      BY <1>0, <2>5 DEF Walk
    <3>2. PICK M, N : M = Hits(log, value.filter) /\ N = Hits(log', value.filter)
      OBVIOUS
    <3>3. /\ Cardinality(Before(M, s)) <= Cardinality(Before(N, s))
          /\ Cardinality(Before(M, s)) \in Nat /\ Cardinality(Before(N, s)) \in Nat
      BY <2>2, <2>3, <3>2, BeforeGrows
    <3>4. Tied(M, s) => Tied(N, s)
      BY <2>3, <3>2 DEF Tied
    <3>5. QED
      BY <2>3, <2>4, <3>1, <3>2, <3>3, <3>4
  <2>6. Walk'
    BY <1>0, <2>1, <2>5 DEF Walk
  <2>7. \A s : Tied(Hits(log, value.filter), s) => Tied(Hits(log', value.filter), s)
    BY <2>3 DEF Tied
  <2>8. WalkSeesAll'
    BY <1>0, <2>1, <2>7, MissedIsTied
  <2>9. QED
    BY <2>6, <2>8
<1>2. ASSUME Retain PROVE Walk' /\ WalkSeesAll'
  <2>1. /\ value'.phase = value.phase /\ value'.page = value.page
        /\ value'.filter = value.filter /\ value'.perPage = value.perPage
        /\ value'.total = value.total /\ value'.raced = value.raced
    BY <1>0, <1>2 DEF Retain, TypeOK, Values
  <2>2. PICK kept : kept = {q \in DOMAIN log : Stamp(q) # Stamp(Min(DOMAIN log))}
    OBVIOUS
  <2>k. walk'.at = walk.at /\ walk'.left = walk.left \cap kept
    BY <1>0, <1>2, <2>2 DEF Retain, TypeOK
  <2>3. ASSUME walk.at > 0, NEW r \in walk'.left
        PROVE  /\ r \in Hits(log', value.filter)
               /\ \/ Tied(Hits(log', value.filter), r)
                  \/ Cardinality(Before(Hits(log', value.filter), r)) >= walk.at * value.perPage
    <3>1. /\ r \in Hits(log, value.filter) /\ r \in kept
          /\ \/ Tied(Hits(log, value.filter), r)
             \/ Cardinality(Before(Hits(log, value.filter), r)) >= walk.at * value.perPage
      BY <1>0, <2>k, <2>3 DEF Walk
    <3>2. /\ r \in Hits(log', value.filter)
          /\ Before(Hits(log', value.filter), r) = Before(Hits(log, value.filter), r)
          /\ Tied(Hits(log, value.filter), r) => Tied(Hits(log', value.filter), r)
      BY <1>0, <1>2, <2>2, <3>1, RetainFacts
    <3>3. QED
      BY <3>1, <3>2
  <2>4. Walk'
    BY <1>0, <2>1, <2>k, <2>3 DEF Walk
  <2>5. WalkSeesAll'
    <3>1. SUFFICES ASSUME value.phase = "ok", walk.at = value.page, ~value.raced,
                          walk.at >= LastPage(value.total, value.perPage), NEW r \in walk'.left
                   PROVE  Tied(Hits(log', value.filter), r)
      BY <2>1, <2>k, MissedIsTied
    <3>2. r \in walk.left /\ r \in kept /\ Tied(Hits(log, value.filter), r)
      BY <1>0, <2>k, <3>1, MissedIsTied
    <3>3. walk.at > 0
      BY <1>0, <3>1 DEF TypeOK, Values
    <3>4. r \in Hits(log, value.filter)
      BY <1>0, <3>2, <3>3 DEF Walk
    <3>5. QED
      BY <1>0, <1>2, <2>2, <3>2, <3>4, RetainFacts
  <2>6. QED
    BY <2>4, <2>5
<1>3. ASSUME Fetch PROVE Walk' /\ WalkSeesAll'
  BY <1>0, <1>3 DEF Fetch, Request, NoFetch, table, signals, Walk, WalkSeesAll, Matching
<1>4. ASSUME CountRows PROVE Walk' /\ WalkSeesAll'
  BY <1>0, <1>4 DEF CountRows, table, signals, Walk, WalkSeesAll, Matching
<1>5. ASSUME AnswerPastEnd \/ SelectRows PROVE Walk' /\ WalkSeesAll'
  <2>1. PICK q, W :
          /\ q \in Fetches /\ Answer(q, W)
          /\ W \in Windows(Hits(log, q.filter), Skip(q), q.perPage)
          /\ ~q.raced => q.total = Cardinality(Hits(log, q.filter))
          /\ Skip(q) \in Nat
    BY <1>5, AnsweredFacts
  <2>2. /\ log' = log /\ value'.phase = "ok"
        /\ value'.shown = Cardinality(W) /\ value'.total = q.total
        /\ value'.raced = q.raced /\ value'.filter = q.filter
        /\ value'.page = q.page /\ value'.perPage = q.perPage
        /\ walk' = Walked(value', W)
    BY <2>1 DEF Answer, table
  <2> DEFINE M  == Hits(log, q.filter)
             pp == q.perPage
  <2>3. /\ M \in SUBSET Nat /\ IsFiniteSet(M) /\ pp \in Nat \ {0}
        /\ q.total \in Nat /\ q.page \in Nat \ {0} /\ walk.at \in Nat
    BY <1>0, <2>1, HitsFacts, LogsAssumption DEF TypeOK, Fetches
  <2>4. Skip(q) = (q.page - 1) * pp
    BY <2>3 DEF Skip, Offset
  <2>5. \A r \in M \ W :
          \/ Tied(M, r)
          \/ Cardinality(Before(M, r)) >= Skip(q) =>
               Cardinality(Before(M, r)) >= Skip(q) + pp
    BY <2>1, <2>3, WindowPasses
  <2>6. Matching(q.filter) = M
    BY DEF Matching, Hits
  <2>7. \A r \in M : Cardinality(Before(M, r)) \in Nat
                     /\ Cardinality(Before(M, r)) < Cardinality(M)
                     /\ Cardinality(M) \in Nat
    BY <2>3, BeforeFacts
  <2> HIDE DEF M, pp
  <2>8. ASSUME walk'.at > 0
        PROVE  /\ walk'.at = q.page
               /\ \A r \in walk'.left :
                    r \in M /\ (Tied(M, r) \/ Cardinality(Before(M, r)) >= q.page * pp)
    <3>1. CASE q.page = 1
      <4>1. walk' = [at |-> 1, left |-> M \ W]
        BY <2>2, <2>6, <3>1 DEF Walked
      <4>2. Skip(q) = 0 /\ q.page * pp = pp
        BY <2>3, <2>4, <3>1
      <4>3. QED
        BY <2>3, <2>5, <2>7, <3>1, <4>1, <4>2
    <3>2. CASE /\ q.page > 1 /\ walk.at > 0 /\ q.page \in {walk.at, walk.at + 1}
               /\ <<q.filter, q.perPage>> = <<value.filter, value.perPage>>
      <4>1. walk' = [at |-> q.page, left |-> walk.left \ W]
        BY <2>2, <2>3, <3>2 DEF Walked
      <4>2. \A r \in walk.left :
              r \in M /\ (Tied(M, r) \/ Cardinality(Before(M, r)) >= walk.at * pp)
        BY <1>0, <3>2 DEF Walk, M, pp
      <4>3. q.page = walk.at + 1 => Skip(q) = walk.at * pp /\ q.page * pp = walk.at * pp + pp
        BY <2>3, <2>4, Product
      <4>4. ASSUME NEW r \in walk'.left
            PROVE  r \in M /\ (Tied(M, r) \/ Cardinality(Before(M, r)) >= q.page * pp)
        <5>1. /\ r \in M /\ (Tied(M, r) \/ Cardinality(Before(M, r)) >= walk.at * pp)
              /\ r \notin W
          BY <4>1, <4>2
        <5>2. CASE q.page = walk.at
          BY <5>1, <5>2
        <5>3. CASE q.page = walk.at + 1
          <6>1. \/ Tied(M, r)
                \/ Cardinality(Before(M, r)) >= Skip(q) =>
                     Cardinality(Before(M, r)) >= Skip(q) + pp
            BY <2>5, <5>1
          <6>2. Cardinality(Before(M, r)) \in Nat
            BY <2>7, <5>1
          <6>3. QED
            BY <2>1, <2>3, <4>3, <5>1, <5>3, <6>1, <6>2
        <5>4. QED
          BY <3>2, <5>2, <5>3
      <4>5. QED
        BY <4>1, <4>4
    <3>3. CASE /\ q.page # 1
               /\ ~(/\ q.page > 1 /\ walk.at > 0 /\ q.page \in {walk.at, walk.at + 1}
                    /\ <<q.filter, q.perPage>> = <<value.filter, value.perPage>>)
      <4>1. walk' = NoWalk
        BY <2>2, <3>3 DEF Walked
      <4>2. QED
        BY <2>8, <4>1 DEF NoWalk
    <3>4. QED
      BY <3>1, <3>2, <3>3
  <2>9. Walk'
    <3>1. Walk' = (walk'.at > 0 =>
                     /\ value'.phase = "ok" /\ walk'.at = value'.page
                     /\ \A r \in walk'.left :
                          /\ r \in Hits(log', value'.filter)
                          /\ \/ Tied(Hits(log', value'.filter), r)
                             \/ Cardinality(Before(Hits(log', value'.filter), r))
                                  >= walk'.at * value'.perPage)
      BY DEF Walk
    <3>2. Hits(log', value'.filter) = M /\ value'.perPage = pp
      BY <2>2 DEF M, pp
    <3>3. QED
      BY <2>2, <2>8, <3>1, <3>2
  <2>10. WalkSeesAll'
    <3>1. SUFFICES ASSUME /\ walk'.at = q.page /\ ~q.raced
                          /\ walk'.at >= LastPage(q.total, pp),
                          NEW r \in walk'.left, ~Tied(M, r)
                   PROVE  FALSE
      BY <2>2, MissedIsTied DEF M, pp
    <3>2. r \in M /\ Cardinality(Before(M, r)) >= q.page * pp
      BY <2>3, <2>8, <3>1
    <3>3. /\ LastPage(q.total, pp) \in Nat /\ q.total <= LastPage(q.total, pp) * pp
      BY <2>3, LastPageFacts
    <3>4. LastPage(q.total, pp) * pp <= q.page * pp /\ q.page * pp \in Nat
          /\ LastPage(q.total, pp) * pp \in Nat
      BY <2>3, <3>1, <3>3, Product
    <3>5. q.total = Cardinality(M)
      BY <2>1, <3>1 DEF M
    <3>6. QED
      BY <2>3, <2>7, <3>2, <3>3, <3>4, <3>5
  <2>11. QED
    BY <2>9, <2>10
<1>6. ASSUME FetchFails PROVE Walk' /\ WalkSeesAll'
  <2>1. walk'.at = 0 /\ value'.phase = "err"
    BY <1>6 DEF FetchFails, NoWalk, NoValue
  <2>2. QED
    BY <2>1 DEF Walk, WalkSeesAll
<1>7. ASSUME NEW f \in Asked, EditFilter(f) PROVE Walk' /\ WalkSeesAll'
  BY <1>0, <1>7 DEF EditFilter, table, signals, Walk, WalkSeesAll, Matching
<1>8. ASSUME DoQuery PROVE Walk' /\ WalkSeesAll'
  BY <1>0, <1>8 DEF DoQuery, table, signals, Walk, WalkSeesAll, Matching
<1>9. ASSUME DoReset PROVE Walk' /\ WalkSeesAll'
  BY <1>0, <1>9 DEF DoReset, table, signals, Walk, WalkSeesAll, Matching
<1>10. ASSUME Retry PROVE Walk' /\ WalkSeesAll'
  BY <1>0, <1>10 DEF Retry, table, signals, Walk, WalkSeesAll, Matching
<1>11. ASSUME OpenDetail PROVE Walk' /\ WalkSeesAll'
  BY <1>0, <1>11 DEF OpenDetail, table, signals, Walk, WalkSeesAll, Matching
<1>12. ASSUME CloseDetail PROVE Walk' /\ WalkSeesAll'
  BY <1>0, <1>12 DEF CloseDetail, table, signals, Walk, WalkSeesAll, Matching
<1>13. ASSUME NEW p \in 1 .. MaxRows + 1, GotoPage(p) PROVE Walk' /\ WalkSeesAll'
  BY <1>0, <1>13 DEF GotoPage, table, signals, Walk, WalkSeesAll, Matching
<1>14. ASSUME NEW pp \in PerPages, SetPerPage(pp) PROVE Walk' /\ WalkSeesAll'
  BY <1>0, <1>14 DEF SetPerPage, table, signals, Walk, WalkSeesAll, Matching
<1>15. CASE UNCHANGED vars
  BY <1>0, <1>15 DEF vars, table, signals, Walk, WalkSeesAll, Matching
<1>16. QED
  BY <1>1, <1>2, <1>3, <1>4, <1>5, <1>6, <1>7, <1>8, <1>9, <1>10, <1>11, <1>12,
     <1>13, <1>14, <1>15 DEF Next, Asked

\* The page opens with the first fetch to do.
LEMMA InitInv ==
  ASSUME Init
  PROVE  Inv
<1>1. PerPages \in SUBSET Nat /\ PerPages # {} /\ PerPages \subseteq 1 .. MaxPerPage
  BY LogsAssumption
<1>2. Min(PerPages) \in 1 .. MaxPerPage
  BY <1>1, Least
<1>3. 1 \in 1 .. MaxPerPage
  BY <1>2, LogsAssumption
<1>4. rsc \in Fetches
  BY <1>3 DEF Init, NoFetch, Fetches, Asked
<1>5. value \in Values
  <2>1. {} \in SUBSET Nat
    OBVIOUS
  <2>2. QED
    BY <1>3, <2>1 DEF Init, NoValue, Values, Asked
<1>6. DOMAIN log = {} /\ log \in [DOMAIN log -> Kinds]
  BY DEF Init
<1>7. TypeOK
  <2>1. walk \in [at : Nat, left : SUBSET Nat]
    <3>1. {} \in SUBSET Nat
      OBVIOUS
    <3>2. QED
      BY <3>1 DEF Init, NoWalk
  <2>2. /\ horizon \in Nat /\ page \in Nat \ {0} /\ perPage \in 1 .. MaxPerPage
        /\ filter \in Asked
    BY <1>2 DEF Init, Asked
  <2>3. dirty \in BOOLEAN /\ detail \in BOOLEAN /\ overtaken \in BOOLEAN
    BY DEF Init
  <2>4. QED
    BY <1>4, <1>5, <1>6, <2>1, <2>2, <2>3 DEF TypeOK
<1>8. Current /\ Counts /\ Reach
  BY DEF Init, Current, Counts, Reach, NoFetch, NoValue
<1>9. Walk /\ WalkSeesAll
  BY DEF Init, Walk, WalkSeesAll, NoWalk, NoValue
<1>10. QED
  BY <1>7, <1>8, <1>9 DEF Inv

\* Inv holds of every reachable state.
LEMMA Invariance == Spec => []Inv
<1>1. Inv /\ [Next]_vars => Inv'
  BY TypeStep, CurrentStep, CountsStep, ReachStep, WalkStep DEF Inv
<1>2. QED
  BY <1>1, InitInv, PTL DEF Spec

-----------------------------------------------------------------------------
(* theorems *)

\* The log page's signals, the answer of list_proxy_logs and the fetch in
\* progress have the types their code gives them; a page is at least 1 and a page
\* size between 1 and MAX_PER_PAGE, whatever is asked for.
THEOREM TypeCorrect == Spec => []TypeOK
<1>1. Inv => TypeOK
  BY DEF Inv
<1>2. QED
  BY <1>1, Invariance, PTL

\* The paging bar computes "start - end of total" from its own signals and the
\* answer's total; settled, uncapped and unraced, that is what the table shows,
\* and the page number is the one list_proxy_logs served.
THEOREM BarIsTrue == Spec => []BarTellsTheTruth
<1>1. ASSUME Inv, Settled, BarShown, ~Capped, ~value.raced
      PROVE  /\ value.page = page
             /\ value.shown
                  = Min({(page - 1) * perPage + 1 + perPage - 1, value.total})
                    - ((page - 1) * perPage + 1) + 1
  <2>1. /\ TypeOK /\ Current /\ Counts /\ value.phase = "ok" /\ value.shown > 0
        /\ rsc.phase = "idle" /\ ~dirty
    BY <1>1 DEF Inv, Settled, BarShown
  <2>2. /\ page \in Nat \ {0} /\ perPage \in Nat \ {0} /\ value.total \in Nat
        /\ MaxOffset \in Nat /\ page - 1 \in Nat
    BY <2>1, LogsAssumption DEF TypeOK, Values
  <2>3. PICK skip \in Nat : skip = (page - 1) * perPage
    BY <2>2, Product
  <2>4. value.page = ServedPage(page, perPage) /\ value.perPage = perPage
    BY <2>1 DEF Current
  <2>5. skip <= MaxOffset
    BY <1>1, <2>2, <2>3 DEF Capped
  <2>6. value.page = page
    BY <2>2, <2>3, <2>4, <2>5, ServedFacts
  <2>7. Skip(value) = skip
    BY <2>2, <2>3, <2>4, <2>6 DEF Skip, Offset
  <2>8. /\ skip < value.total
        /\ value.shown = Min({perPage, value.total - skip})
    BY <1>1, <2>1, <2>2, <2>4, <2>7 DEF Counts
  <2>9. PICK a, b \in Int : a = skip + 1 + perPage - 1 /\ b = value.total - skip
    BY <2>2
  <2>10. /\ Min({a, value.total}) = IF a <= value.total THEN a ELSE value.total
         /\ Min({perPage, b}) = IF perPage <= b THEN perPage ELSE b
    BY <2>2, <2>9, MinMax
  <2>11. value.shown = Min({a, value.total}) - (skip + 1) + 1
    BY <2>2, <2>8, <2>9, <2>10
  <2>12. QED
    BY <2>3, <2>6, <2>9, <2>11
<1>2. Inv => BarTellsTheTruth
  BY <1>1 DEF BarTellsTheTruth
<1>3. QED
  BY <1>2, Invariance, PTL

\* The log page says that there are no rows although some match, which also hides
\* the paging bar, only if the log changed during the query, or if retention or an
\* edited filter has overtaken the total that the page number was chosen from.
THEOREM EmptyPageIsExplained == Spec => []EmptyPageExplained
<1>1. ASSUME Inv, Settled, value.shown = 0, value.total > 0, ~value.raced
      PROVE  page > 1 /\ overtaken
  <2>1. /\ TypeOK /\ Current /\ Counts /\ Reach /\ value.phase = "ok"
        /\ rsc.phase = "idle" /\ ~dirty
    BY <1>1 DEF Inv, Settled
  <2>2. /\ page \in Nat \ {0} /\ perPage \in Nat \ {0} /\ value.total \in Nat
        /\ MaxOffset \in Nat
    BY <2>1, LogsAssumption DEF TypeOK, Values
  <2>3. value.page = ServedPage(page, perPage) /\ value.perPage = perPage
    BY <2>1 DEF Current
  <2>4. Skip(value) \in Nat /\ (page = 1 => Skip(value) = 0)
    <3>1. /\ Offset(ServedPage(page, perPage), perPage) \in Nat
          /\ Offset(ServedPage(page, perPage), perPage) <= (page - 1) * perPage
      BY <2>2, ServedFacts
    <3>2. page = 1 => (page - 1) * perPage = 0
      BY <2>2
    <3>3. QED
      BY <2>3, <3>1, <3>2 DEF Skip
  <2>5. Skip(value) >= value.total
    <3>1. ASSUME Skip(value) < value.total PROVE FALSE
      <4>1. value.shown = Min({perPage, value.total - Skip(value)})
        BY <1>1, <2>1, <2>2, <2>3, <2>4, <3>1 DEF Counts
      <4>2. PICK b \in Int : b = value.total - Skip(value) /\ b > 0
        BY <2>2, <2>4, <3>1
      <4>3. Min({perPage, b}) > 0
        BY <2>2, <4>2, MinMax
      <4>4. value.shown = 0
        BY <1>1, FS_EmptySet
      <4>5. QED
        BY <4>1, <4>2, <4>3, <4>4
    <3>2. QED
      BY <2>2, <2>4, <3>1
  <2>6. page > 1
    BY <1>1, <2>2, <2>4, <2>5
  <2>7. overtaken
    BY <2>1, <2>2, <2>4, <2>5, <2>6 DEF Reach
  <2>8. QED
    BY <2>6, <2>7
<1>2. Inv => EmptyPageExplained
  BY <1>1 DEF EmptyPageExplained
<1>3. QED
  BY <1>2, Invariance, PTL

\* Going from the first page to the last shows every row that was there at the
\* start, still is and shares its timestamp with no other: the query orders by
\* timestamp, latest first, so that commits only push rows to later pages and
\* retention deletes behind them.
THEOREM WalkIsComplete == Spec => []WalkSeesAll
<1>1. Inv => WalkSeesAll
  BY DEF Inv
<1>2. QED
  BY <1>1, Invariance, PTL
-----------------------------------------------------------------------------
(***************************************************************************)
(* What holds of Overview, and of the ListPage it extends, for every set   *)
(* of rows and ranges, every number of saves and visits and every size of  *)
(* the cache.                                                              *)
(***************************************************************************)

\* What a table, a save, a reload, a modal, a cached response and a fetch are.
Tables == UNION {[S -> Nat] : S \in SUBSET Ids}
Saves ==
  [kind : {"none", "add", "edit", "delete"}, id : Ids \cup {None},
   server : {"none", "pending", "committed", "refused"},
   browser : {"none", "waits", "ok", "err"}]
Reloads == [phase : {"idle", "sent", "read"}, rows : Tables, overlap : BOOLEAN]
Modals ==
  [kind : {"closed", "add", "edit", "delete", "detail", "raw"}, id : Ids \cup {None},
   op : {0} \cup Ops, reloaded : BOOLEAN]
Responses == [range : Ranges, saw : SUBSET Ops, overlap : SUBSET Ops]
Queries ==
  [phase : {"idle", "sent", "read"}, range : Ranges, saw : SUBSET Ops,
   overlap : SUBSET Ops]

\* The type invariant.
ListType ==
  /\ kind \in {"patched", "reloaded"} /\ rows \in Tables /\ ops \in [Ops -> Saves]
  /\ listed \in BOOLEAN /\ loaded \in {"none", "ok", "err"} /\ stale \in BOOLEAN
  /\ items \in [DOMAIN items -> [id : Ids, by : Nat]]
  /\ reload \in Reloads /\ modal \in Modals /\ clean \in BOOLEAN
PageType ==
  /\ visit \in 0 .. Visits /\ shown \in 0 .. visit /\ range \in Ranges
  /\ force \in BOOLEAN /\ triggered \in BOOLEAN /\ owed \in BOOLEAN
  /\ stats \in {"none", "ok", "err"}
  /\ fetch \in [1 .. Visits -> Queries] /\ cache \in Seq(Responses)
ConsoleTypes == ListType /\ PageType

\* A save is acknowledged once it is made, the modal waits for the save it
\* dispatched, and a row is pushed by a save that was acknowledged.
SavesKnown ==
  /\ \A o \in Ops : ops[o].browser = "ok" => ops[o].server = "committed"
  /\ \A o \in Ops :
       Live(o) => ops[o].id \in Ids /\ ops[o].kind \in {"add", "edit", "delete"}
  /\ modal.op # 0 => ops[modal.op].browser = "waits"
  /\ modal.kind = "closed" => modal.op = 0
  /\ modal.kind \in {"edit", "delete"} => modal.id \in Ids
  /\ \A k \in DOMAIN items : k \in Ids \/ k \in Acked

\* No save is under way during a reload that nothing overlaps.
ReloadKnows ==
  reload.phase # "idle" /\ ~reload.overlap =>
    /\ \A o \in Ops : ~Live(o)
    /\ reload.phase = "read" => reload.rows = rows

\* The list is about to be loaded again, or could not be.
Behind == stale \/ reload.phase # "idle" \/ loaded # "ok"

Shows(f, t) == IsInjective(f) /\ Range(f) = Range(Listing(t))

After(t, op, o) ==
  IF op.kind = "delete" THEN Restrict(t, DOMAIN t \ {op.id})
  ELSE [i \in DOMAIN t \cup {op.id} |-> IF i = op.id THEN o ELSE t[i]]

\* The store shows the table of the server, or what it was before the save that
\* the modal waits for was made.
StoreFollows ==
  clean /\ ~Behind =>
    IF modal.op # 0 /\ ops[modal.op].server = "committed"
      THEN \E t \in Tables :
             /\ Shows(items, t)
             /\ (ops[modal.op].id \in DOMAIN t) = (ops[modal.op].kind # "add")
             /\ rows = After(t, ops[modal.op], modal.op)
      ELSE Shows(items, rows)

\* What a fetch has read counts in every save acknowledged before.
FetchKnows ==
  \A v \in 1 .. Visits :
    fetch[v].phase = "read" => Acked \subseteq fetch[v].saw \cup fetch[v].overlap

\* A refresh that is owed is forced, or under way.
OwedIsComing ==
  owed => /\ shown # 0
          /\ triggered => force /\ fetch[shown].phase = "idle"
          /\ ~triggered => fetch[shown].phase # "idle"

ConsoleInv ==
  ConsoleTypes /\ SavesKnown /\ ReloadKnows /\ StoreFollows /\ FetchKnows
    /\ SavedChangeIsSeen /\ OwedIsComing

-----------------------------------------------------------------------------
(* the steps of the list page *)

OpensModal == \E what \in {"add", "detail", "edit", "delete"}, i \in Ids \cup {None} :
  (what # "add" => i \in Ids) /\ OpenModal(what, i)

Dispatches == \E o \in Ops, i \in Ids :
  modal.kind \in {"add", "edit", "delete"} /\ Dispatch(o, i)

Answers(o) ==
  /\ ops[o].browser = "waits" /\ ops[o].server = "committed"
  /\ \/ modal.op = o /\ Applied(o)
     \/ modal.op # o /\ Unheard(o)

ListStep ==
  \/ OpenList \/ LeaveList
  \/ Reload \/ ReloadSent \/ ReloadRead \/ ReloadApplied \/ ReloadFails
  \/ OpensModal \/ CloseModal \/ Dispatches
  \/ \E o \in Ops : ServerCommits(o) \/ ServerRefuses(o) \/ Answers(o) \/ GivenUp(o)

\* A step of the console is one of the list page, or leaves it alone.
LEMMA ListSteps ==
  ASSUME ConsoleTypes, SavesKnown, [ConsoleNext]_consoleVars
  PROVE  ListStep \/ UNCHANGED listVars
<1>1. ASSUME ListNext PROVE ListStep
  <2>1. ASSUME NEW id \in Ids,
               OpenRow(id) \/ OpenEdit(id) \/ OpenDelete(id) PROVE OpensModal
    BY <2>1 DEF OpensModal, OpenRow, OpenEdit, OpenDelete
  <2>2. ASSUME NEW o \in Ops, NEW id \in Ids, SubmitNew(o, id) PROVE Dispatches
    BY <2>2 DEF Dispatches, SubmitNew
  <2>3. ASSUME NEW o \in Ops,
               SubmitEdit(o) \/ ConfirmDelete(o) PROVE Dispatches
    BY <2>3 DEF Dispatches, SubmitEdit, ConfirmDelete, SavesKnown
  <2>4. ASSUME OpenAdd PROVE OpensModal
    <3>1. None \in Ids \cup {None} /\ OpenModal("add", None)
      BY <2>4 DEF OpenAdd
    <3>2. QED
      BY <3>1 DEF OpensModal
  <2>5. QED
    BY <1>1, <2>1, <2>2, <2>3, <2>4 DEF ListNext, ListStep
<1>2. ASSUME NEW o \in Ops, Saved(o) \/ Unsaved(o) PROVE ListStep
  BY <1>2 DEF Saved, Unsaved, Acknowledged, Answers, ListStep
<1>3. CASE ListNext /\ UNCHANGED <<overview, fetch, cache>>
  BY <1>1, <1>3
<1>4. CASE Visit \/ NotLoaded
  BY <1>4 DEF Visit, NotLoaded, ListStep
<1>5. CASE \/ ReadCached \/ SendQuery \/ Expire
           \/ OpenOverview \/ LeaveOverview \/ RetryQuery
  BY <1>5 DEF ReadCached, SendQuery, Expire, OpenOverview,
     LeaveOverview, RetryQuery
<1>6. ASSUME NEW v \in 1 .. Visits,
             QueryRead(v) \/ QueryAnswered(v) \/ QueryFails(v)
      PROVE  UNCHANGED listVars
  BY <1>6 DEF QueryRead, QueryAnswered, QueryFails
<1>7. ASSUME NEW r \in Ranges, Refresh(r) PROVE UNCHANGED listVars
  BY <1>7 DEF Refresh
<1>8. CASE UNCHANGED consoleVars
  BY <1>8 DEF consoleVars
<1>9. QED
  BY <1>2, <1>3, <1>4, <1>5, <1>6, <1>7, <1>8 DEF ConsoleNext

\* The empty store and the empty table.
LEMMA EmptyStore ==
  /\ NoRows \in Tables /\ DOMAIN NoRows = {}
  /\ Closed \in Modals /\ NoReload \in Reloads
  /\ NoRows \in [DOMAIN NoRows -> [id : Ids, by : Nat]]
<1>1. {} \in SUBSET Ids /\ NoRows \in [{} -> Nat]
  BY DEF NoRows
<1>2. NoRows \in Tables
  BY <1>1 DEF Tables
<1>3. DOMAIN NoRows = {} /\ NoRows \in [DOMAIN NoRows -> [id : Ids, by : Nat]]
  BY DEF NoRows
<1>4. QED
  BY <1>2, <1>3 DEF Closed, Modals, NoReload, Reloads

\* What becomes of a save: the answer of the server, or that the browser is done.
Becomes(o, op) == ops' = [ops EXCEPT ![o] = Over(op)]

LEMMA SaveBecomes ==
  ASSUME ListType, NEW o \in Ops, NEW op \in Saves, Becomes(o, op)
  PROVE  /\ ops' \in [Ops -> Saves]
         /\ ops'[o].server = op.server /\ ops'[o].browser = op.browser
         /\ op.server = "pending" \/ op.browser = "waits" => ops'[o] = op
         /\ \A p \in Ops : p # o => ops'[p] = ops[p]
<1>1. /\ Over(op) \in Saves
      /\ Over(op).server = op.server /\ Over(op).browser = op.browser
      /\ op.server = "pending" \/ op.browser = "waits" => Over(op) = op
  BY DEF Over, NoOp, None, Saves
<1>2. QED
  BY <1>1 DEF Becomes, ListType

LEMMA SaveSteps ==
  ASSUME ListType, NEW o \in Ops
  PROVE  /\ ServerCommits(o) => Becomes(o, [ops[o] EXCEPT !.server = "committed"])
         /\ ServerRefuses(o) => Becomes(o, [ops[o] EXCEPT !.server = "refused"])
         /\ Answers(o) => Becomes(o, [ops[o] EXCEPT !.browser = "ok"])
         /\ GivenUp(o) => Becomes(o, [ops[o] EXCEPT !.browser = "err"])
         /\ \A s \in {"committed", "refused"} : [ops[o] EXCEPT !.server = s] \in Saves
         /\ \A b \in {"ok", "err"} : [ops[o] EXCEPT !.browser = b] \in Saves
<1>1. ops[o] \in Saves
  BY DEF ListType
<1>2. /\ \A s \in {"committed", "refused"} : [ops[o] EXCEPT !.server = s] \in Saves
      /\ \A b \in {"ok", "err"} : [ops[o] EXCEPT !.browser = b] \in Saves
  BY <1>1 DEF Saves
<1>3. QED
  BY <1>2 DEF ListType, ServerCommits, ServerRefuses, Answers, Applied,
     Unheard, GivenUp, Becomes

LEMMA ListTypeStep ==
  ASSUME ListAssumption, ConsoleTypes, SavesKnown, [ConsoleNext]_consoleVars
  PROVE  ListType'
<1> USE DEF ConsoleTypes
<1>1. ASSUME OpenList PROVE ListType'
  BY EmptyStore, <1>1 DEF OpenList, ListType
<1>2. ASSUME LeaveList PROVE ListType'
  BY EmptyStore, <1>2 DEF LeaveList, ListType
<1>3. ASSUME Reload PROVE ListType'
  BY <1>3 DEF Reload, ListType
<1>4. ASSUME ReloadSent PROVE ListType'
  BY EmptyStore, <1>4 DEF ReloadSent, Reloads, ListType
<1>5. ASSUME ReloadRead PROVE ListType'
  BY <1>5 DEF ReloadRead, Reloads, ListType
<1>6. ASSUME ReloadApplied PROVE ListType'
  <2>1. DOMAIN reload.rows \in SUBSET Ids /\ reload.rows \in [DOMAIN reload.rows -> Nat]
    BY DEF ListType, Reloads, Tables
  <2>2. items' \in [DOMAIN items' -> [id : Ids, by : Nat]]
    BY <2>1, <1>6 DEF ReloadApplied, Listing
  <2>3. modal' \in Modals
    BY <1>6 DEF ReloadApplied, ListType, Modals
  <2>4. QED
    BY <2>2, <2>3, EmptyStore, <1>6 DEF ReloadApplied, ListType, Reloads
<1>7. ASSUME ReloadFails PROVE ListType'
  BY EmptyStore, <1>7 DEF ReloadFails, ListType, Modals
<1>8. ASSUME OpensModal PROVE ListType'
  BY <1>8 DEF OpensModal, OpenModal, Closed, ListType, Modals
<1>9. ASSUME CloseModal PROVE ListType'
  BY EmptyStore, <1>9 DEF CloseModal, ListType
<1>10. ASSUME Dispatches PROVE ListType'
  <2>1. PICK o \in Ops, i \in Ids :
         modal.kind \in {"add", "edit", "delete"} /\ Dispatch(o, i)
    BY <1>10 DEF Dispatches
  <2>2. ops' \in [Ops -> Saves]
    BY <2>1 DEF Dispatch, NoOp, ListType, Saves
  <2>3. modal' \in Modals
    BY <2>1 DEF Dispatch, ListType, Modals
  <2>4. reload' \in Reloads
    BY <2>1 DEF Dispatch, ListType, Reloads
  <2>5. QED
    BY <2>1, <2>2, <2>3, <2>4 DEF Dispatch, ListType
<1>11. ASSUME NEW o \in Ops, ServerCommits(o) PROVE ListType'
  <2>1. ops' \in [Ops -> Saves]
    BY <1>11, SaveSteps, SaveBecomes
  <2>2. ops[o].id \in Ids
    BY <1>11 DEF ServerCommits, SavesKnown, Live
  <2>3. DOMAIN rows \in SUBSET Ids /\ rows \in [DOMAIN rows -> Nat] /\ o \in Nat
    BY DEF ListType, Tables, Ops
  <2>4. DOMAIN rows' \in SUBSET Ids /\ rows' \in [DOMAIN rows' -> Nat]
    BY <2>2, <2>3, <1>11 DEF ServerCommits, Restrict
  <2>5. rows' \in Tables
    BY <2>4 DEF Tables
  <2>6. QED
    BY <2>1, <2>5, <1>11 DEF ServerCommits, ListType
<1>12. ASSUME NEW o \in Ops, ServerRefuses(o) PROVE ListType'
  BY <1>12, SaveSteps, SaveBecomes DEF ServerRefuses, list, ListType
<1>13. ASSUME NEW o \in Ops, Answers(o) PROVE ListType'
  <2>1. ops' \in [Ops -> Saves]
    BY <1>13, SaveSteps, SaveBecomes
  <2>2. CASE Unheard(o)
    BY <2>1, <2>2 DEF Unheard, list, ListType
  <2>3. CASE Applied(o)
    <3>1. ops[o].id \in Ids /\ ops[o].kind \in {"add", "edit", "delete"} /\ o \in Nat
      BY <1>13 DEF Answers, SavesKnown, Live, Ops
    <3>2. modal' \in Modals
      BY <2>3, EmptyStore DEF Applied, Closed, Modals
    <3>3. CASE Created(o)
      <4>1. items' \in [DOMAIN items' -> [id : Ids, by : Nat]]
        BY <3>1, <3>3 DEF Created, ListType
      <4>2. QED
        BY <2>1, <2>3, <3>2, <3>3, <4>1 DEF Applied, Created, ListType
    <3>4. CASE Edited(o)
      <4>1. items' \in [DOMAIN items' -> [id : Ids, by : Nat]]
        BY <3>1, <3>4 DEF Edited, ListType
      <4>2. QED
        BY <2>1, <2>3, <3>2, <3>4, <4>1 DEF Applied, Edited, ListType
    <3>5. CASE Deleted(o)
      <4>1. items' \in [DOMAIN items' -> [id : Ids, by : Nat]]
        BY <3>1, <3>5 DEF Deleted, Restrict, ListType
      <4>2. QED
        BY <2>1, <2>3, <3>2, <3>5, <4>1 DEF Applied, Deleted, ListType
    <3>6. QED
      BY <2>3, <3>1, <3>3, <3>4, <3>5 DEF Applied
  <2>4. QED
    BY <2>2, <2>3, <1>13 DEF Answers
<1>14. ASSUME NEW o \in Ops, GivenUp(o) PROVE ListType'
  <2>1. ops' \in [Ops -> Saves]
    BY <1>14, SaveSteps, SaveBecomes
  <2>2. modal' \in Modals
    BY <1>14 DEF GivenUp, ListType, Modals
  <2>3. QED
    BY <1>14, <2>1, <2>2 DEF GivenUp, ListType
<1>15. CASE UNCHANGED listVars
  BY <1>15 DEF listVars, list, ListType
<1>16. QED
  BY ListSteps, <1>1, <1>2, <1>3, <1>4, <1>5, <1>6, <1>7, <1>8, <1>9, <1>10, <1>11,
     <1>12, <1>13, <1>14, <1>15 DEF ListStep

LEMMA SavesStep ==
  ASSUME ListAssumption, ConsoleTypes, SavesKnown, [ConsoleNext]_consoleVars
  PROVE  SavesKnown'
<1> USE DEF ConsoleTypes
<1>1. ASSUME OpenList PROVE SavesKnown'
  BY EmptyStore, <1>1 DEF OpenList, Closed, SavesKnown, Live, Acked
<1>2. ASSUME LeaveList PROVE SavesKnown'
  BY EmptyStore, <1>2 DEF LeaveList, Closed, SavesKnown, Live, Acked
<1>3. ASSUME Reload PROVE SavesKnown'
  BY <1>3 DEF Reload, SavesKnown, Live, Acked
<1>4. ASSUME ReloadSent PROVE SavesKnown'
  BY <1>4 DEF ReloadSent, SavesKnown, Live, Acked
<1>5. ASSUME ReloadRead PROVE SavesKnown'
  BY <1>5 DEF ReloadRead, SavesKnown, Live, Acked
<1>6. ASSUME ReloadApplied PROVE SavesKnown'
  <2>1. DOMAIN reload.rows \in SUBSET Ids
    BY DEF ListType, Reloads, Tables
  <2>2. DOMAIN items' \subseteq Ids
    BY <2>1, <1>6 DEF ReloadApplied, Listing
  <2>3. QED
    BY <2>2, <1>6 DEF ReloadApplied, ListType, Modals, SavesKnown, Live, Acked
<1>7. ASSUME ReloadFails PROVE SavesKnown'
  BY <1>7 DEF ReloadFails, ListType, Modals, SavesKnown, Live, Acked
<1>8. ASSUME OpensModal PROVE SavesKnown'
  BY <1>8 DEF OpensModal, OpenModal, Closed, SavesKnown, Live, Acked
<1>9. ASSUME CloseModal PROVE SavesKnown'
  BY <1>9 DEF CloseModal, Closed, SavesKnown, Live, Acked
<1>10. ASSUME Dispatches PROVE SavesKnown'
  <2>1. PICK o \in Ops, i \in Ids :
         modal.kind \in {"add", "edit", "delete"} /\ Dispatch(o, i)
    BY <1>10 DEF Dispatches
  <2>2. ops'[o] = [kind |-> modal.kind, id |-> i, server |-> "pending", browser |-> "waits"]
        /\ \A p \in Ops : p # o => ops'[p] = ops[p]
    BY <2>1 DEF Dispatch, NoOp, ListType
  <2>3. modal' = [modal EXCEPT !.op = o] /\ ops[o].browser # "ok" /\ items' = items
    BY <2>1 DEF Dispatch, NoOp, None
  <2>4. modal'.op = o /\ modal'.kind = modal.kind /\ modal'.id = modal.id
    BY <2>3 DEF ListType, Modals
  <2>5. QED
    BY <2>1, <2>2, <2>3, <2>4 DEF SavesKnown, Live, Acked
<1>11. ASSUME NEW o \in Ops, ServerCommits(o) PROVE SavesKnown'
  <2> DEFINE op == [ops[o] EXCEPT !.server = "committed"]
  <2>1. Becomes(o, op) /\ op \in Saves
    BY <1>11, SaveSteps
  <2>2. /\ ops'[o].server = op.server /\ ops'[o].browser = op.browser
        /\ op.server = "pending" \/ op.browser = "waits" => ops'[o] = op
        /\ \A p \in Ops : p # o => ops'[p] = ops[p]
    BY <2>1, SaveBecomes
  <2>3. ops[o] \in Saves /\ modal.op \in {0} \cup Ops
    BY DEF ListType, Modals
  <2>4. op.server = "committed" /\ op.browser = ops[o].browser
        /\ op.id = ops[o].id /\ op.kind = ops[o].kind
    BY <2>3 DEF Saves
  <2> HIDE DEF op
  <2>5. ops[o].server = "pending" /\ modal' = modal /\ items' = items
    BY <1>11 DEF ServerCommits
  <2>6. QED
    BY <2>2, <2>3, <2>4, <2>5 DEF SavesKnown, Live, Acked
<1>12. ASSUME NEW o \in Ops, ServerRefuses(o) PROVE SavesKnown'
  <2> DEFINE op == [ops[o] EXCEPT !.server = "refused"]
  <2>1. Becomes(o, op) /\ op \in Saves
    BY <1>12, SaveSteps
  <2>2. /\ ops'[o].server = op.server /\ ops'[o].browser = op.browser
        /\ op.server = "pending" \/ op.browser = "waits" => ops'[o] = op
        /\ \A p \in Ops : p # o => ops'[p] = ops[p]
    BY <2>1, SaveBecomes
  <2>3. ops[o] \in Saves /\ modal.op \in {0} \cup Ops
    BY DEF ListType, Modals
  <2>4. op.server = "refused" /\ op.browser = ops[o].browser
        /\ op.id = ops[o].id /\ op.kind = ops[o].kind
    BY <2>3 DEF Saves
  <2> HIDE DEF op
  <2>5. ops[o].server = "pending" /\ modal' = modal /\ items' = items
    BY <1>12 DEF ServerRefuses, list
  <2>6. QED
    BY <2>2, <2>3, <2>4, <2>5 DEF SavesKnown, Live, Acked
<1>13. ASSUME NEW o \in Ops, Answers(o) PROVE SavesKnown'
  <2> DEFINE op == [ops[o] EXCEPT !.browser = "ok"]
  <2>1. Becomes(o, op) /\ op \in Saves
    BY <1>13, SaveSteps
  <2>2. /\ ops'[o].server = op.server /\ ops'[o].browser = op.browser
        /\ op.server = "pending" \/ op.browser = "waits" => ops'[o] = op
        /\ \A p \in Ops : p # o => ops'[p] = ops[p]
    BY <2>1, SaveBecomes
  <2>3. ops[o] \in Saves /\ modal.op \in {0} \cup Ops
    BY DEF ListType, Modals
  <2>4. op.server = ops[o].server /\ op.browser = "ok"
    BY <2>3 DEF Saves
  <2> HIDE DEF op
  <2>5. ops[o].browser = "waits" /\ ops[o].server = "committed"
    BY <1>13 DEF Answers
  <2>6. /\ \A p \in Ops : ops'[p].browser = "ok" => ops'[p].server = "committed"
        /\ \A p \in Ops : Live(p)' => p # o /\ ops'[p] = ops[p] /\ Live(p)
        /\ Acked' = Acked \cup {o}
    BY <2>2, <2>3, <2>4, <2>5 DEF SavesKnown, Live, Acked
  <2>7. CASE modal.op # o /\ Unheard(o)
    BY <2>2, <2>6, <2>7 DEF Unheard, list, SavesKnown
  <2>8. CASE modal.op = o /\ Applied(o)
    <3>1. modal'.op = 0 /\ modal'.kind \notin {"edit", "delete"}
      BY <2>8 DEF Applied, Closed
    <3>2. ops[o].kind \in {"add", "edit", "delete"}
      BY <2>5 DEF SavesKnown, Live
    <3>3. \A k \in DOMAIN items' : k \in DOMAIN items \/ k = o
      <4>1. CASE Created(o)
        BY <4>1 DEF Created
      <4>2. CASE Edited(o)
        BY <4>2 DEF Edited
      <4>3. CASE Deleted(o)
        BY <4>3 DEF Deleted, Restrict
      <4>4. QED
        BY <2>8, <3>2, <4>1, <4>2, <4>3 DEF Applied
    <3>4. QED
      BY <2>6, <3>1, <3>3 DEF SavesKnown
  <2>9. QED
    BY <2>7, <2>8, <1>13 DEF Answers
<1>14. ASSUME NEW o \in Ops, GivenUp(o) PROVE SavesKnown'
  <2> DEFINE op == [ops[o] EXCEPT !.browser = "err"]
  <2>1. Becomes(o, op) /\ op \in Saves
    BY <1>14, SaveSteps
  <2>2. /\ ops'[o].server = op.server /\ ops'[o].browser = op.browser
        /\ op.server = "pending" \/ op.browser = "waits" => ops'[o] = op
        /\ \A p \in Ops : p # o => ops'[p] = ops[p]
    BY <2>1, SaveBecomes
  <2>3. ops[o] \in Saves /\ modal.op \in {0} \cup Ops
    BY DEF ListType, Modals
  <2>4. op.server = ops[o].server /\ op.browser = "err"
        /\ op.id = ops[o].id /\ op.kind = ops[o].kind
    BY <2>3 DEF Saves
  <2> HIDE DEF op
  <2>5. /\ ops[o].browser = "waits" /\ items' = items
        /\ modal' = IF modal.op = o THEN [modal EXCEPT !.op = 0] ELSE modal
    BY <1>14 DEF GivenUp
  <2>6. modal'.op = (IF modal.op = o THEN 0 ELSE modal.op)
        /\ modal'.kind = modal.kind /\ modal'.id = modal.id
    BY <2>5 DEF ListType, Modals
  <2>7. QED
    BY <2>2, <2>3, <2>4, <2>5, <2>6 DEF SavesKnown, Live, Acked
<1>15. CASE UNCHANGED listVars
  BY <1>15 DEF listVars, list, SavesKnown, Live, Acked
<1>16. QED
  BY ListSteps, <1>1, <1>2, <1>3, <1>4, <1>5, <1>6, <1>7, <1>8, <1>9, <1>10, <1>11,
     <1>12, <1>13, <1>14, <1>15 DEF ListStep

LEMMA ReloadStep ==
  ASSUME ListAssumption, ConsoleTypes, SavesKnown, ReloadKnows, [ConsoleNext]_consoleVars
  PROVE  ReloadKnows'
<1> USE DEF ConsoleTypes
<1>1. ASSUME OpenList PROVE ReloadKnows'
  BY <1>1 DEF OpenList, NoRows, Closed, NoReload, ReloadKnows, Live
<1>2. ASSUME LeaveList PROVE ReloadKnows'
  BY <1>2 DEF LeaveList, NoRows, Closed, NoReload, ReloadKnows, Live
<1>3. ASSUME Reload PROVE ReloadKnows'
  BY <1>3 DEF Reload, ReloadKnows, Live
<1>4. ASSUME ReloadSent PROVE ReloadKnows'
  BY <1>4 DEF ReloadSent, NoReload, ReloadKnows, Live
<1>5. ASSUME ReloadRead PROVE ReloadKnows'
  BY <1>5 DEF ReloadRead, ReloadKnows, Live, ListType, Reloads
<1>6. ASSUME ReloadApplied PROVE ReloadKnows'
  BY <1>6 DEF ReloadApplied, NoReload, NoRows, ReloadKnows, Live
<1>7. ASSUME ReloadFails PROVE ReloadKnows'
  BY <1>7 DEF ReloadFails, NoReload, NoRows, ReloadKnows, Live
<1>8. ASSUME OpensModal PROVE ReloadKnows'
  BY <1>8 DEF OpensModal, OpenModal, ReloadKnows, Live
<1>9. ASSUME CloseModal PROVE ReloadKnows'
  BY <1>9 DEF CloseModal, Closed, ReloadKnows, Live
<1>10. ASSUME Dispatches PROVE ReloadKnows'
  <2>1. PICK o \in Ops, i \in Ids : Dispatch(o, i)
    BY <1>10 DEF Dispatches
  <2>2. reload' = [reload EXCEPT !.overlap = reload.phase # "idle"]
    BY <2>1 DEF Dispatch
  <2>3. QED
    BY <2>2 DEF ReloadKnows, ListType, Reloads
<1>11. ASSUME NEW o \in Ops, ServerCommits(o) PROVE ReloadKnows'
  <2>1. reload' = reload /\ Live(o)
    BY <1>11 DEF ServerCommits, list, Live
  <2>2. QED
    BY <2>1 DEF ReloadKnows
<1>12. ASSUME NEW o \in Ops, ServerRefuses(o) PROVE ReloadKnows'
  <2>1. reload' = reload /\ Live(o)
    BY <1>12 DEF ServerRefuses, list, Live
  <2>2. QED
    BY <2>1 DEF ReloadKnows
<1>13. ASSUME NEW o \in Ops, Answers(o) PROVE ReloadKnows'
  <2>1. reload' = reload /\ Live(o)
    BY <1>13 DEF Answers, Applied, Unheard, list, Live
  <2>2. QED
    BY <2>1 DEF ReloadKnows
<1>14. ASSUME NEW o \in Ops, GivenUp(o) PROVE ReloadKnows'
  <2>1. reload' = reload /\ Live(o)
    BY <1>14 DEF GivenUp, list, Live
  <2>2. QED
    BY <2>1 DEF ReloadKnows
<1>15. CASE UNCHANGED listVars
  BY <1>15 DEF listVars, list, ReloadKnows, Live
<1>16. QED
  BY ListSteps, <1>1, <1>2, <1>3, <1>4, <1>5, <1>6, <1>7, <1>8, <1>9, <1>10, <1>11,
     <1>12, <1>13, <1>14, <1>15 DEF ListStep

-----------------------------------------------------------------------------
(* the rows that a store shows *)

\* A store shows a table when each row of the table is in one slot, and no other row.
LEMMA ShowsRows ==
  ASSUME NEW f, f \in [DOMAIN f -> [id : Ids, by : Nat]], NEW t \in Tables
  PROVE  Shows(f, t) <=>
           /\ \A x, y \in DOMAIN f : f[x].id = f[y].id => x = y
           /\ \A x \in DOMAIN f : f[x].id \in DOMAIN t /\ f[x].by = t[f[x].id]
           /\ \A i \in DOMAIN t : \E x \in DOMAIN f : f[x].id = i
<1>1. \A x \in DOMAIN f : f[x] = [id |-> f[x].id, by |-> f[x].by]
  OBVIOUS
<1>2. Range(Listing(t)) = {[id |-> i, by |-> t[i]] : i \in DOMAIN t}
  BY DEF Range, Listing
<1>3. Range(f) = {f[x] : x \in DOMAIN f}
  BY DEF Range
<1>4. ASSUME Shows(f, t)
      PROVE  /\ \A x, y \in DOMAIN f : f[x].id = f[y].id => x = y
             /\ \A x \in DOMAIN f : f[x].id \in DOMAIN t /\ f[x].by = t[f[x].id]
             /\ \A i \in DOMAIN t : \E x \in DOMAIN f : f[x].id = i
  <2>1. \A x \in DOMAIN f : \E i \in DOMAIN t : f[x] = [id |-> i, by |-> t[i]]
    BY <1>2, <1>3, <1>4 DEF Shows
  <2>2. \A i \in DOMAIN t : \E x \in DOMAIN f : f[x] = [id |-> i, by |-> t[i]]
    BY <1>2, <1>3, <1>4 DEF Shows
  <2>3. \A x \in DOMAIN f : f[x].id \in DOMAIN t /\ f[x].by = t[f[x].id]
    BY <2>1
  <2>4. \A i \in DOMAIN t : \E x \in DOMAIN f : f[x].id = i
    BY <2>2
  <2>5. ASSUME NEW x \in DOMAIN f, NEW y \in DOMAIN f, f[x].id = f[y].id PROVE x = y
    <3>1. f[x] = f[y]
      BY <1>1, <2>3, <2>5
    <3>2. QED
      BY <3>1, <1>4 DEF Shows, IsInjective
  <2>6. QED
    BY <2>3, <2>4, <2>5
<1>5. ASSUME \A x, y \in DOMAIN f : f[x].id = f[y].id => x = y,
             \A x \in DOMAIN f : f[x].id \in DOMAIN t /\ f[x].by = t[f[x].id],
             \A i \in DOMAIN t : \E x \in DOMAIN f : f[x].id = i
      PROVE  Shows(f, t)
  <2>1. IsInjective(f)
    BY <1>5 DEF IsInjective
  <2>2. \A x \in DOMAIN f : \E i \in DOMAIN t : f[x] = [id |-> i, by |-> t[i]]
    BY <1>1, <1>5
  <2>3. ASSUME NEW i \in DOMAIN t PROVE \E x \in DOMAIN f : f[x] = [id |-> i,
               by |-> t[i]]
    <3>1. PICK x \in DOMAIN f : f[x].id = i
      BY <1>5
    <3>2. f[x].by = t[i]
      BY <1>5, <3>1
    <3>3. f[x] = [id |-> i, by |-> t[i]]
      BY <1>1, <3>1, <3>2
    <3>4. QED
      BY <3>3
  <2>4. Range(f) = Range(Listing(t))
    BY <1>2, <1>3, <2>2, <2>3
  <2>5. QED
    BY <2>1, <2>4 DEF Shows
<1>6. QED
  BY <1>4, <1>5

\* A row that is pushed, patched or taken out in the store as in the table.
LEMMA ShowsAfter ==
  ASSUME NEW f, f \in [DOMAIN f -> [id : Ids, by : Nat]], NEW t \in Tables, Shows(f, t),
         NEW o \in Nat, NEW op \in Saves, op.id \in Ids,
         (op.id \in DOMAIN t) = (op.kind # "add")
  PROVE  /\ op.kind = "add" /\ o \notin DOMAIN f =>
              Shows([i \in DOMAIN f \cup {o} |->
                       IF i = o THEN [id |-> op.id, by |-> o] ELSE f[i]], After(t, op, o))
         /\ op.kind = "edit" =>
              Shows([i \in DOMAIN f |->
                       IF f[i].id = op.id THEN [f[i] EXCEPT !.by = o] ELSE f[i]],
                    After(t, op, o))
         /\ op.kind = "delete" =>
              Shows(Restrict(f, {i \in DOMAIN f : f[i].id # op.id}), After(t, op, o))
<1>1. /\ \A x, y \in DOMAIN f : f[x].id = f[y].id => x = y
      /\ \A x \in DOMAIN f : f[x].id \in DOMAIN t /\ f[x].by = t[f[x].id]
      /\ \A i \in DOMAIN t : \E x \in DOMAIN f : f[x].id = i
  BY ShowsRows
<1>2. DOMAIN t \in SUBSET Ids /\ t \in [DOMAIN t -> Nat]
  BY DEF Tables
<1>3. PICK u : u = After(t, op, o)
  OBVIOUS
<1>4. /\ DOMAIN u = IF op.kind = "delete" THEN DOMAIN t \ {op.id} ELSE DOMAIN t \cup {op.id}
      /\ \A i \in DOMAIN u : u[i] = IF i = op.id THEN o ELSE t[i]
  BY <1>3 DEF After, Restrict
<1>5. u \in Tables
  <2>1. u \in [DOMAIN u -> Nat] /\ DOMAIN u \in SUBSET Ids
    BY <1>2, <1>3, <1>4 DEF After, Restrict
  <2>2. QED
    BY <2>1 DEF Tables
<1>6. ASSUME op.kind = "add", o \notin DOMAIN f
      PROVE  Shows([i \in DOMAIN f \cup {o} |->
                      IF i = o THEN [id |-> op.id, by |-> o] ELSE f[i]], u)
  <2>1. PICK g : g = [i \in DOMAIN f \cup {o} |->
                        IF i = o THEN [id |-> op.id, by |-> o] ELSE f[i]]
    OBVIOUS
  <2>2. /\ DOMAIN g = DOMAIN f \cup {o} /\ g[o].id = op.id /\ g[o].by = o
        /\ \A x \in DOMAIN f : g[x] = f[x]
    BY <1>6, <2>1
  <2>3. g \in [DOMAIN g -> [id : Ids, by : Nat]]
    BY <2>1
  <2>4. op.id \notin DOMAIN t /\ op.id \in DOMAIN u /\ u[op.id] = o
    BY <1>4, <1>6
  <2>5. \A x \in DOMAIN f : f[x].id # op.id
    BY <1>1, <2>4
  <2>6. \A x, y \in DOMAIN g : g[x].id = g[y].id => x = y
    BY <1>1, <2>2, <2>5
  <2>7. \A x \in DOMAIN g : g[x].id \in DOMAIN u /\ g[x].by = u[g[x].id]
    <3>1. ASSUME NEW x \in DOMAIN f PROVE g[x].id \in DOMAIN u /\ g[x].by = u[g[x].id]
      BY <1>1, <1>4, <1>6, <2>2, <2>5
    <3>2. QED
      BY <2>2, <2>4, <3>1
  <2>8. \A i \in DOMAIN u : \E x \in DOMAIN g : g[x].id = i
    BY <1>1, <1>4, <1>6, <2>2
  <2>9. Shows(g, u)
    BY <1>5, <2>3, <2>6, <2>7, <2>8, ShowsRows
  <2>10. QED
    BY <2>1, <2>9
<1>7. ASSUME op.kind = "edit"
      PROVE  Shows([i \in DOMAIN f |->
                      IF f[i].id = op.id THEN [f[i] EXCEPT !.by = o] ELSE f[i]], u)
  <2>1. PICK g : g = [i \in DOMAIN f |->
                        IF f[i].id = op.id THEN [f[i] EXCEPT !.by = o] ELSE f[i]]
    OBVIOUS
  <2>2. /\ DOMAIN g = DOMAIN f /\ g \in [DOMAIN g -> [id : Ids, by : Nat]]
        /\ \A x \in DOMAIN f :
             g[x].id = f[x].id /\ g[x].by = IF f[x].id = op.id THEN o ELSE f[x].by
    BY <2>1
  <2>3. DOMAIN u = DOMAIN t
    BY <1>4, <1>7
  <2>4. /\ \A x, y \in DOMAIN g : g[x].id = g[y].id => x = y
        /\ \A i \in DOMAIN u : \E x \in DOMAIN g : g[x].id = i
    BY <1>1, <2>2, <2>3
  <2>5. \A x \in DOMAIN g : g[x].id \in DOMAIN u /\ g[x].by = u[g[x].id]
    BY <1>1, <1>4, <2>2, <2>3
  <2>6. Shows(g, u)
    BY <1>5, <2>2, <2>4, <2>5, ShowsRows
  <2>7. QED
    BY <2>1, <2>6
<1>8. ASSUME op.kind = "delete"
      PROVE  Shows(Restrict(f, {i \in DOMAIN f : f[i].id # op.id}), u)
  <2>1. PICK g : g = Restrict(f, {i \in DOMAIN f : f[i].id # op.id})
    OBVIOUS
  <2>2. /\ DOMAIN g = {i \in DOMAIN f : f[i].id # op.id} /\ \A x \in DOMAIN g : g[x] = f[x]
        /\ g \in [DOMAIN g -> [id : Ids, by : Nat]]
    BY <2>1 DEF Restrict
  <2>3. /\ \A x, y \in DOMAIN g : g[x].id = g[y].id => x = y
        /\ \A x \in DOMAIN g : g[x].id \in DOMAIN u /\ g[x].by = u[g[x].id]
    BY <1>1, <1>4, <1>8, <2>2
  <2>4. \A i \in DOMAIN u : \E x \in DOMAIN g : g[x].id = i
    BY <1>1, <1>4, <1>8, <2>2
  <2>5. Shows(g, u)
    BY <1>5, <2>2, <2>3, <2>4, ShowsRows
  <2>6. QED
    BY <2>1, <2>5
<1>9. QED
  BY <1>3, <1>6, <1>7, <1>8

LEMMA StoreStep ==
  ASSUME ListAssumption, ConsoleTypes, SavesKnown, ReloadKnows,
         StoreFollows, [ConsoleNext]_consoleVars
  PROVE  StoreFollows'
<1> USE DEF ConsoleTypes
<1>1. ASSUME OpenList PROVE StoreFollows'
  BY <1>1 DEF OpenList, StoreFollows
<1>2. ASSUME LeaveList PROVE StoreFollows'
  BY <1>2 DEF LeaveList, StoreFollows
<1>3. ASSUME Reload PROVE StoreFollows'
  BY <1>3 DEF Reload, StoreFollows, Behind
<1>4. ASSUME ReloadSent PROVE StoreFollows'
  BY <1>4 DEF ReloadSent, NoReload, StoreFollows, Behind
<1>5. ASSUME ReloadRead PROVE StoreFollows'
  BY <1>5 DEF ReloadRead, StoreFollows, Behind, ListType, Reloads
<1>6. ASSUME ReloadApplied PROVE StoreFollows'
  <2>1. SUFFICES ASSUME clean' PROVE Shows(items, rows)' /\ modal'.op = 0
    BY DEF StoreFollows
  <2>2. reload.rows = rows /\ \A o \in Ops : ~Live(o)
    BY <1>6, <2>1 DEF ReloadApplied, ReloadKnows
  <2>3. modal.op = 0 /\ modal'.op = modal.op
    BY <1>6, <2>2 DEF ReloadApplied, SavesKnown, Live, ListType, Modals
  <2>4. items' = Listing(rows) /\ rows' = rows
    BY <1>6, <2>2 DEF ReloadApplied
  <2>5. IsInjective(Listing(rows))
    BY DEF IsInjective, Listing
  <2>6. QED
    BY <2>3, <2>4, <2>5 DEF Shows
<1>7. ASSUME ReloadFails PROVE StoreFollows'
  BY <1>7 DEF ReloadFails, StoreFollows, Behind
<1>8. ASSUME OpensModal PROVE StoreFollows'
  BY <1>8 DEF OpensModal, OpenModal, Closed, SavesKnown, StoreFollows, Behind
<1>9. ASSUME CloseModal PROVE StoreFollows'
  BY <1>9 DEF CloseModal, Closed, StoreFollows, Behind
<1>10. ASSUME Dispatches PROVE StoreFollows'
  <2>1. PICK o \in Ops, i \in Ids :
         modal.kind \in {"add", "edit", "delete"} /\ Dispatch(o, i)
    BY <1>10 DEF Dispatches
  <2>2. ops'[o].server = "pending" /\ modal'.op = o
    BY <2>1 DEF Dispatch, NoOp, ListType, Modals
  <2>3. modal.op = 0 /\ (Behind' <=> Behind)
    BY <2>1 DEF Dispatch, Behind, ListType, Reloads
  <2>4. items' = items /\ rows' = rows /\ clean' = clean
    BY <2>1 DEF Dispatch
  <2>5. QED
    BY <2>2, <2>3, <2>4 DEF StoreFollows
<1>11. ASSUME NEW o \in Ops, ServerCommits(o) PROVE StoreFollows'
  <2> DEFINE op == [ops[o] EXCEPT !.server = "committed"]
  <2>1. Becomes(o, op) /\ op \in Saves
    BY <1>11, SaveSteps
  <2>2. /\ ops'[o].server = op.server /\ ops'[o].browser = op.browser
        /\ op.server = "pending" \/ op.browser = "waits" => ops'[o] = op
        /\ \A p \in Ops : p # o => ops'[p] = ops[p]
    BY <2>1, SaveBecomes
  <2>3. ops[o] \in Saves /\ modal.op \in {0} \cup Ops
    BY DEF ListType, Modals
  <2>4. /\ op.server = "committed" /\ op.browser = ops[o].browser
        /\ op.id = ops[o].id /\ op.kind = ops[o].kind
    BY <2>3 DEF Saves
  <2> HIDE DEF op
  <2>5. SUFFICES ASSUME clean', ~Behind'
        PROVE  /\ modal'.op = o /\ ops'[o].server = "committed"
               /\ \E t \in Tables : /\ Shows(items, t)'
                                   /\ (ops'[o].id \in DOMAIN t) = (ops'[o].kind # "add")
                                   /\ rows' = After(t, ops'[o], o)
    BY DEF StoreFollows, Ops
  <2>6. /\ clean /\ modal.op = o /\ ops[o].server = "pending" /\ ~Behind
        /\ items' = items /\ modal' = modal
        /\ (ops[o].id \in DOMAIN rows) = (ops[o].kind # "add") /\ rows' = After(rows, ops[o], o)
    BY <1>11, <2>5 DEF ServerCommits, Behind, After
  <2>7. Shows(items, rows) /\ rows \in Tables
    BY <2>6 DEF StoreFollows, ListType
  <2>8. ops'[o] = op /\ After(rows, op, o) = After(rows, ops[o], o)
    BY <2>2, <2>4, <2>6 DEF SavesKnown, Ops, After
  <2>9. QED
    BY <2>4, <2>6, <2>7, <2>8
<1>12. ASSUME NEW o \in Ops, ServerRefuses(o) PROVE StoreFollows'
  <2> DEFINE op == [ops[o] EXCEPT !.server = "refused"]
  <2>1. Becomes(o, op) /\ op \in Saves
    BY <1>12, SaveSteps
  <2>2. /\ ops'[o].server = op.server /\ ops'[o].browser = op.browser
        /\ op.server = "pending" \/ op.browser = "waits" => ops'[o] = op
        /\ \A p \in Ops : p # o => ops'[p] = ops[p]
    BY <2>1, SaveBecomes
  <2>3. ops[o] \in Saves /\ modal.op \in {0} \cup Ops
    BY DEF ListType, Modals
  <2>4. op.server = "refused"
    BY <2>3 DEF Saves
  <2> HIDE DEF op
  <2>5. ops[o].server = "pending" /\ UNCHANGED <<kind, rows, list>>
    BY <1>12 DEF ServerRefuses
  <2>6. CASE modal.op = o
    BY <2>2, <2>4, <2>5, <2>6 DEF StoreFollows, Behind, list
  <2>7. CASE modal.op # o
    BY <2>2, <2>3, <2>5, <2>7 DEF StoreFollows, Behind, list
  <2>8. QED
    BY <2>6, <2>7
<1>13. ASSUME NEW o \in Ops, Answers(o) PROVE StoreFollows'
  <2> DEFINE op == [ops[o] EXCEPT !.browser = "ok"]
  <2>1. Becomes(o, op) /\ op \in Saves
    BY <1>13, SaveSteps
  <2>2. /\ ops'[o].server = op.server /\ ops'[o].browser = op.browser
        /\ op.server = "pending" \/ op.browser = "waits" => ops'[o] = op
        /\ \A p \in Ops : p # o => ops'[p] = ops[p]
    BY <2>1, SaveBecomes
  <2>3. ops[o] \in Saves /\ modal.op \in {0} \cup Ops
    BY DEF ListType, Modals
  <2> HIDE DEF op
  <2>4. ops[o].browser = "waits" /\ ops[o].server = "committed"
    BY <1>13 DEF Answers
  <2>5. CASE modal.op # o /\ Unheard(o)
    BY <2>2, <2>3, <2>5 DEF Unheard, list, StoreFollows, Behind
  <2>6. CASE modal.op = o /\ Applied(o)
    <3>1. SUFFICES ASSUME clean', ~Behind' PROVE Shows(items', rows)
      <4>1. modal'.op = 0 /\ rows' = rows
        BY <2>6 DEF Applied, Closed
      <4>2. QED
        BY <3>1, <4>1 DEF StoreFollows, Shows
    <3>2. ops[o].id \in Ids /\ ops[o].kind \in {"add", "edit", "delete"}
      BY <2>4 DEF SavesKnown, Live
    <3>3. reload' = reload /\ loaded' = loaded
      BY <2>6 DEF Applied
    <3>4. ASSUME clean, ~Behind
          PROVE  \E t \in Tables : /\ Shows(items, t)
                                  /\ (ops[o].id \in DOMAIN t) = (ops[o].kind # "add")
                                  /\ rows = After(t, ops[o], o)
      BY <2>4, <2>6, <3>4 DEF StoreFollows, Ops
    <3>5. o \in Nat /\ o \notin DOMAIN items /\ ops[o] \in Saves
          /\ items \in [DOMAIN items -> [id : Ids, by : Nat]]
      BY <2>3, <2>4 DEF SavesKnown, Acked, Ops, ListAssumption, ListType
    <3>6. CASE ops[o].kind = "add"
      <4>1. Created(o)
        BY <2>6, <3>6 DEF Applied
      <4>2. /\ clean /\ ~Behind
            /\ items' = [i \in DOMAIN items \cup {o} |->
                           IF i = o THEN [id |-> ops[o].id, by |-> o] ELSE items[i]]
        BY <3>1, <3>3, <4>1 DEF Created, Behind
      <4>3. PICK t \in Tables : /\ Shows(items, t)
                                /\ (ops[o].id \in DOMAIN t) = (ops[o].kind # "add")
                                /\ rows = After(t, ops[o], o)
        BY <3>4, <4>2
      <4>4. QED
        BY <3>2, <3>5, <3>6, <4>2, <4>3, ShowsAfter
    <3>7. CASE ops[o].kind = "edit"
      <4>1. Edited(o)
        BY <2>6, <3>7 DEF Applied
      <4>2. /\ clean /\ ~Behind
            /\ items' = [i \in DOMAIN items |->
                           IF items[i].id = ops[o].id THEN [items[i] EXCEPT !.by = o]
                           ELSE items[i]]
        <5>1. clean' = TRUE /\ stale' # TRUE
          BY <3>1 DEF Behind, ListType
        <5>2. CASE modal.reloaded /\ IF kind = "patched" THEN clean' = FALSE /\ stale' = stale
                                                    ELSE stale' = TRUE /\ clean' = clean
          BY <5>1, <5>2
        <5>3. CASE /\ items' = [i \in DOMAIN items |->
                                   IF items[i].id = ops[o].id THEN [items[i] EXCEPT !.by = o]
                                   ELSE items[i]]
                   /\ UNCHANGED <<stale, clean>>
          <6>1. clean /\ ~Behind
            BY <3>1, <3>3, <5>3 DEF Behind
          <6>2. QED
            BY <5>3, <6>1
        <5>4. QED
          BY <4>1, <5>2, <5>3 DEF Edited
      <4>3. PICK t \in Tables : /\ Shows(items, t)
                                /\ (ops[o].id \in DOMAIN t) = (ops[o].kind # "add")
                                /\ rows = After(t, ops[o], o)
        BY <3>4, <4>2
      <4>4. QED
        BY <3>2, <3>5, <3>7, <4>2, <4>3, ShowsAfter
    <3>8. CASE ops[o].kind = "delete"
      <4>1. Deleted(o)
        BY <2>6, <3>8 DEF Applied
      <4>2. /\ clean /\ ~Behind
            /\ items' = Restrict(items, {i \in DOMAIN items : items[i].id # ops[o].id})
        BY <3>1, <3>3, <4>1 DEF Deleted, Behind
      <4>3. PICK t \in Tables : /\ Shows(items, t)
                                /\ (ops[o].id \in DOMAIN t) = (ops[o].kind # "add")
                                /\ rows = After(t, ops[o], o)
        BY <3>4, <4>2
      <4>4. QED
        BY <3>2, <3>5, <3>8, <4>2, <4>3, ShowsAfter
    <3>9. QED
      BY <3>2, <3>6, <3>7, <3>8
  <2>7. QED
    BY <2>5, <2>6, <1>13 DEF Answers
<1>14. ASSUME NEW o \in Ops, GivenUp(o) PROVE StoreFollows'
  <2> DEFINE op == [ops[o] EXCEPT !.browser = "err"]
  <2>1. Becomes(o, op) /\ op \in Saves
    BY <1>14, SaveSteps
  <2>2. /\ ops'[o].server = op.server /\ ops'[o].browser = op.browser
        /\ op.server = "pending" \/ op.browser = "waits" => ops'[o] = op
        /\ \A p \in Ops : p # o => ops'[p] = ops[p]
    BY <2>1, SaveBecomes
  <2>3. ops[o] \in Saves /\ modal.op \in {0} \cup Ops
    BY DEF ListType, Modals
  <2>4. modal'.op = IF modal.op = o THEN 0 ELSE modal.op
    BY <1>14 DEF GivenUp, ListType, Modals
  <2> HIDE DEF op
  <2>5. UNCHANGED <<rows, items, stale, reload, loaded>>
        /\ clean' = (clean /\ ops[o].server # "committed")
    BY <1>14 DEF GivenUp
  <2>6. CASE modal.op = o
    BY <2>4, <2>5, <2>6 DEF StoreFollows, Behind
  <2>7. CASE modal.op # o
    BY <2>2, <2>3, <2>4, <2>5, <2>7 DEF StoreFollows, Behind
  <2>8. QED
    BY <2>6, <2>7
<1>15. CASE UNCHANGED listVars
  BY <1>15 DEF listVars, list, StoreFollows, Behind
<1>16. QED
  BY ListSteps, <1>1, <1>2, <1>3, <1>4, <1>5, <1>6, <1>7, <1>8, <1>9, <1>10, <1>11,
     <1>12, <1>13, <1>14, <1>15 DEF ListStep

-----------------------------------------------------------------------------
(* the overview and the cache *)

Response(f) == [range |-> f.range, saw |-> f.saw, overlap |-> f.overlap]

\* What is in the cache after an answer is the answer, or was there before.
LEMMA InsertedFacts ==
  ASSUME NEW f \in Queries, cache \in Seq(Responses), OverviewAssumption
  PROVE  /\ Inserted(f) \in Seq(Responses)
         /\ \A j \in DOMAIN Inserted(f) :
              Inserted(f)[j] = Response(f)
                \/ \E i \in DOMAIN cache : Inserted(f)[j] = cache[i]
<1>1. PICK others : others = IF Cached(f.range) = {} THEN cache
                             ELSE RemoveAt(cache, CHOOSE i \in Cached(f.range) : TRUE)
  OBVIOUS
<1>2. /\ others \in Seq(Responses)
      /\ \A j \in DOMAIN others : \E i \in DOMAIN cache : others[j] = cache[i]
  <2>1. CASE Cached(f.range) = {}
    BY <1>1, <2>1
  <2>2. CASE Cached(f.range) # {}
    <3>1. PICK i \in Cached(f.range) : others = RemoveAt(cache, i)
      BY <1>1, <2>2
    <3>2. i \in 1 .. Len(cache) /\ Len(cache) \in Nat
      BY <3>1 DEF Cached
    <3>3. PICK a, b : a = SubSeq(cache, 1, i - 1) /\ b = SubSeq(cache, i + 1, Len(cache))
      OBVIOUS
    <3>4. /\ a \in Seq(Responses) /\ Len(a) = i - 1
          /\ \A j \in 1 .. Len(a) : j \in 1 .. Len(cache) /\ a[j] = cache[j]
      BY <3>2, <3>3
    <3>5. /\ b \in Seq(Responses) /\ Len(b) = Len(cache) - i
          /\ \A j \in 1 .. Len(b) : i + j \in 1 .. Len(cache) /\ b[j] = cache[i + j]
      BY <3>2, <3>3
    <3>6. others = a \o b
      BY <3>1, <3>3 DEF RemoveAt
    <3>7. /\ others \in Seq(Responses) /\ DOMAIN others = 1 .. Len(a) + Len(b)
          /\ \A j \in 1 .. Len(a) + Len(b) :
               others[j] = IF j <= Len(a) THEN a[j] ELSE b[j - Len(a)]
      BY <3>4, <3>5, <3>6
    <3>8. \A j \in DOMAIN others : \E k \in 1 .. Len(cache) : others[j] = cache[k]
      <4>1. ASSUME NEW j \in 1 .. Len(a) + Len(b), j <= Len(a)
            PROVE  \E k \in 1 .. Len(cache) : others[j] = cache[k]
        <5>1. j \in 1 .. Len(a) /\ others[j] = a[j]
          BY <3>2, <3>4, <3>5, <3>7, <4>1
        <5>2. QED
          BY <3>4, <5>1
      <4>2. ASSUME NEW j \in 1 .. Len(a) + Len(b), ~(j <= Len(a))
            PROVE  \E k \in 1 .. Len(cache) : others[j] = cache[k]
        <5>1. j - Len(a) \in 1 .. Len(b)
          BY <3>2, <3>4, <3>5, <4>2
        <5>2. others[j] = cache[i + (j - Len(a))] /\ i + (j - Len(a)) \in 1 .. Len(cache)
          BY <3>5, <3>7, <4>2, <5>1
        <5>3. QED
          BY <5>2
      <4>3. QED
        BY <3>7, <4>1, <4>2
    <3>9. QED
      BY <3>7, <3>8
  <2>3. QED
    BY <2>1, <2>2
<1>3. Response(f) \in Responses
  BY DEF Response, Queries, Responses
<1>4. PICK all : all = Append(others, Response(f))
  OBVIOUS
<1>5. /\ all \in Seq(Responses) /\ Len(all) = Len(others) + 1 /\ Len(others) \in Nat
      /\ \A j \in 1 .. Len(all) : all[j] = IF j = Len(all) THEN Response(f) ELSE others[j]
  BY <1>2, <1>3, <1>4
<1>6. \A j \in 1 .. Len(all) :
        all[j] = Response(f)
                \/ \E i \in DOMAIN cache : all[j] = cache[i]
  BY <1>2, <1>5
<1>7. Inserted(f) = IF Len(all) > MaxCached THEN Tail(all) ELSE all
  BY <1>1, <1>4 DEF Inserted, Response
<1>8. /\ Tail(all) \in Seq(Responses)
      /\ \A j \in DOMAIN Tail(all) : j + 1 \in 1 .. Len(all) /\ Tail(all)[j] = all[j + 1]
  BY <1>5
<1>9. QED
  BY <1>5, <1>6, <1>7, <1>8

\* A step that leaves the overview alone, with no save acknowledged.
Quiet ==
  cache' \in {cache, <<>>} /\ UNCHANGED <<overview, fetch>> /\ Acked' \subseteq Acked

PageStep ==
  \/ ReadCached \/ SendQuery \/ Expire
  \/ OpenOverview \/ LeaveOverview \/ RetryQuery \/ Quiet
  \/ \E v \in 1 .. Visits : QueryRead(v) \/ QueryAnswered(v) \/ QueryFails(v)
  \/ \E r \in Ranges : Refresh(r)
  \/ \E o \in Ops : Saved(o)

LEMMA PageSteps ==
  ASSUME ConsoleTypes, [ConsoleNext]_consoleVars
  PROVE  PageStep
<1> USE DEF ConsoleTypes
<1>1. ASSUME ops' = ops PROVE Acked' = Acked
  BY <1>1 DEF Acked
<1>2. ASSUME NEW o \in Ops, NEW op \in Saves, Becomes(o, op), op.browser # "ok"
      PROVE  Acked' \subseteq Acked
  BY <1>2, SaveBecomes DEF Acked
<1>3. ASSUME ListNext, UNCHANGED <<overview, fetch, cache>> PROVE Quiet
  <2>1. ASSUME NEW o \in Ops, NEW i,
               Dispatch(o, i) PROVE Acked' \subseteq Acked
    BY <2>1 DEF Dispatch, NoOp, Acked, ListType
  <2>2. ASSUME NEW o \in Ops, ServerCommits(o) PROVE Acked' \subseteq Acked
    <3>1. [ops[o] EXCEPT !.server = "committed"].browser = ops[o].browser
      BY DEF ListType, Saves
    <3>2. ops'[o].browser = ops[o].browser /\ \A p \in Ops : p # o => ops'[p] = ops[p]
      BY <2>2, <3>1, SaveSteps, SaveBecomes
    <3>3. QED
      BY <3>2 DEF Acked
  <2>3. ASSUME NEW o \in Ops, ServerRefuses(o) PROVE Acked' \subseteq Acked
    <3>1. [ops[o] EXCEPT !.server = "refused"].browser = ops[o].browser
      BY DEF ListType, Saves
    <3>2. ops'[o].browser = ops[o].browser /\ \A p \in Ops : p # o => ops'[p] = ops[p]
      BY <2>3, <3>1, SaveSteps, SaveBecomes
    <3>3. QED
      BY <3>2 DEF Acked
  <2>4. ASSUME NEW id \in Ids,
               OpenRow(id) \/ OpenEdit(id) \/ OpenDelete(id) PROVE ops' = ops
    BY <2>4 DEF OpenRow, OpenEdit, OpenDelete, OpenModal
  <2>5. CASE \/ LeaveList \/ Reload \/ ReloadSent \/ ReloadRead \/ ReloadApplied
             \/ OpenAdd \/ CloseModal
    BY <1>1, <1>3, <2>5 DEF LeaveList, Reload, ReloadSent, ReloadRead,
       ReloadApplied,
       OpenAdd, OpenModal, CloseModal, Quiet
  <2>6. QED
    BY <1>1, <1>3, <2>1, <2>2, <2>3, <2>4, <2>5
       DEF ListNext, SubmitNew, SubmitEdit, ConfirmDelete, Quiet
<1>4. ASSUME NEW o \in Ops, Unsaved(o) PROVE Quiet
  <2>1. [ops[o] EXCEPT !.browser = "err"].browser = "err"
    BY DEF ListType, Saves
  <2>2. Acked' \subseteq Acked
    BY <1>2, <1>4, <2>1, SaveSteps DEF Unsaved
  <2>3. QED
    BY <1>4, <2>2 DEF Unsaved, MayBeUnauthorised, Quiet
<1>5. CASE Visit \/ NotLoaded
  BY <1>1, <1>5 DEF Visit, NotLoaded, OpenList, ReloadFails,
     MayBeUnauthorised, Quiet, PageStep
<1>6. CASE UNCHANGED consoleVars
  BY <1>1, <1>6 DEF consoleVars, listVars, Quiet, PageStep
<1>7. QED
  BY <1>3, <1>4, <1>5, <1>6 DEF ConsoleNext, PageStep

LEMMA IdleFetch ==
  ASSUME OverviewAssumption
  PROVE  Idle \in Queries
<1>1. {} \in SUBSET Ops
  OBVIOUS
<1>2. QED
  BY <1>1 DEF Idle, Queries, OverviewAssumption

LEMMA PageTypeStep ==
  ASSUME OverviewAssumption, ConsoleTypes, [ConsoleNext]_consoleVars
  PROVE  PageType'
<1> USE DEF ConsoleTypes
<1>0. <<>> \in Seq(Responses)
  OBVIOUS
<1>1. ASSUME ReadCached PROVE PageType'
  BY <1>1 DEF ReadCached, Unforced, PageType
<1>2. ASSUME SendQuery PROVE PageType'
  BY <1>2, IdleFetch DEF SendQuery, Idle, PageType, Queries, OverviewAssumption
<1>3. ASSUME Expire PROVE PageType'
  <2>1. Tail(cache) \in Seq(Responses)
    BY <1>3 DEF Expire, PageType
  <2>2. QED
    BY <1>3, <2>1 DEF Expire, overview, PageType
<1>4. ASSUME OpenOverview PROVE PageType'
  <2>1. visit' \in 0 .. Visits /\ shown' \in 0 .. visit'
    BY <1>4 DEF OpenOverview, PageType, OverviewAssumption
  <2>2. /\ range' \in Ranges /\ force' \in BOOLEAN
        /\ triggered' \in BOOLEAN /\ owed' \in BOOLEAN
        /\ stats' \in {"none", "ok", "err"}
    BY <1>4 DEF OpenOverview, OverviewAssumption
  <2>3. fetch' = fetch /\ cache' = cache
    BY <1>4 DEF OpenOverview
  <2>4. QED
    BY <2>1, <2>2, <2>3 DEF PageType
<1>5. ASSUME LeaveOverview PROVE PageType'
  <2>1. visit' \in 0 .. Visits /\ shown' \in 0 .. visit'
    BY <1>5 DEF LeaveOverview, PageType, OverviewAssumption
  <2>2. /\ range' \in Ranges /\ force' \in BOOLEAN
        /\ triggered' \in BOOLEAN /\ owed' \in BOOLEAN
        /\ stats' \in {"none", "ok", "err"}
    BY <1>5 DEF LeaveOverview, OverviewAssumption
  <2>3. fetch' = fetch /\ cache' = cache
    BY <1>5 DEF LeaveOverview
  <2>4. QED
    BY <2>1, <2>2, <2>3 DEF PageType
<1>6. ASSUME RetryQuery PROVE PageType'
  BY <1>6 DEF RetryQuery, PageType
<1>7. ASSUME Quiet PROVE PageType'
  <2>1. cache' \in Seq(Responses)
    BY <1>0, <1>7 DEF Quiet, PageType
  <2>2. QED
    BY <1>7, <2>1 DEF Quiet, overview, PageType
<1>8. ASSUME NEW v \in 1 .. Visits, QueryRead(v) PROVE PageType'
  <2>1. Committed \in SUBSET Ops
    BY DEF Committed
  <2>2. QED
    BY <1>8, <2>1 DEF QueryRead, overview, PageType, Queries
<1>9. ASSUME NEW v \in 1 .. Visits, QueryAnswered(v) PROVE PageType'
  <2>1. fetch[v] \in Queries /\ cache \in Seq(Responses)
    BY DEF PageType
  <2>2. cache' \in Seq(Responses)
    BY <1>9, <2>1, InsertedFacts DEF QueryAnswered
  <2>3. QED
    BY <1>9, <2>2, IdleFetch DEF QueryAnswered, Unforced, PageType
<1>10. ASSUME NEW v \in 1 .. Visits, QueryFails(v) PROVE PageType'
  <2>1. cache' \in Seq(Responses)
    BY <1>0, <1>10 DEF QueryFails, MayBeUnauthorised, PageType
  <2>2. QED
    BY <1>10, <2>1, IdleFetch DEF QueryFails, Unforced, PageType
<1>11. ASSUME NEW r \in Ranges, Refresh(r) PROVE PageType'
  BY <1>11 DEF Refresh, PageType
<1>12. ASSUME NEW o \in Ops, Saved(o) PROVE PageType'
  <2>1. \A v \in 1 .. Visits : fetch[v].overlap \cup {o} \in SUBSET Ops
    BY DEF PageType, Queries
  <2>2. \A v \in 1 .. Visits : [fetch[v] EXCEPT !.overlap = @ \cup {o}] \in Queries
    BY <2>1 DEF PageType, Queries
  <2>3. fetch' \in [1 .. Visits -> Queries] /\ cache' \in Seq(Responses)
    BY <1>12, <2>2, IdleFetch DEF Saved
  <2>4. QED
    BY <1>12, <2>3 DEF Saved, overview, PageType
<1>13. QED
  BY PageSteps, <1>1, <1>2, <1>3, <1>4, <1>5, <1>6, <1>7, <1>8, <1>9, <1>10, <1>11,
     <1>12 DEF PageStep

LEMMA AckedAfter ==
  ASSUME ConsoleTypes, NEW o \in Ops, Saved(o)
  PROVE  Acked' \subseteq Acked \cup {o}
<1>1. Answers(o)
  BY DEF Saved, Acknowledged, Answers
<1>2. \A p \in Ops : p # o => ops'[p] = ops[p]
  BY <1>1, SaveSteps, SaveBecomes DEF ConsoleTypes
<1>3. QED
  BY <1>2 DEF Acked

LEMMA FetchStep ==
  ASSUME OverviewAssumption, ConsoleTypes, SavesKnown, FetchKnows, [ConsoleNext]_consoleVars
  PROVE  FetchKnows'
<1> USE DEF ConsoleTypes
<1>1. ASSUME ReadCached PROVE FetchKnows'
  BY <1>1 DEF ReadCached, Unforced, FetchKnows, listVars, Acked
<1>2. ASSUME SendQuery PROVE FetchKnows'
  <2>1. Acked' = Acked
    BY <1>2 DEF SendQuery, listVars, Acked
  <2>2. [Idle EXCEPT !.phase = "sent", !.range = range].phase = "sent"
    BY DEF Idle
  <2>3. QED
    BY <1>2, <2>1, <2>2 DEF SendQuery, FetchKnows, PageType
<1>3. ASSUME Expire PROVE FetchKnows'
  BY <1>3 DEF Expire, overview, FetchKnows, listVars, Acked
<1>4. ASSUME OpenOverview PROVE FetchKnows'
  BY <1>4 DEF OpenOverview, FetchKnows, listVars, Acked
<1>5. ASSUME LeaveOverview PROVE FetchKnows'
  BY <1>5 DEF LeaveOverview, FetchKnows, listVars, Acked
<1>6. ASSUME RetryQuery PROVE FetchKnows'
  BY <1>6 DEF RetryQuery, FetchKnows, listVars, Acked
<1>7. ASSUME Quiet PROVE FetchKnows'
  BY <1>7 DEF Quiet, FetchKnows
<1>8. ASSUME NEW v \in 1 .. Visits, QueryRead(v) PROVE FetchKnows'
  <2>1. Acked \subseteq Committed
    BY DEF Acked, Committed, SavesKnown
  <2>2. Acked' = Acked
    BY <1>8 DEF QueryRead, listVars, Acked
  <2>3. QED
    BY <1>8, <2>1, <2>2 DEF QueryRead, PageType, Queries, FetchKnows
<1>9. ASSUME NEW v \in 1 .. Visits, QueryAnswered(v) PROVE FetchKnows'
  <2>1. Acked' = Acked /\ Idle.phase = "idle"
    BY <1>9 DEF QueryAnswered, listVars, Acked, Idle
  <2>2. QED
    BY <1>9, <2>1 DEF QueryAnswered, FetchKnows, PageType
<1>10. ASSUME NEW v \in 1 .. Visits, QueryFails(v) PROVE FetchKnows'
  <2>1. Acked' = Acked /\ Idle.phase = "idle"
    BY <1>10 DEF QueryFails, listVars, Acked, Idle
  <2>2. QED
    BY <1>10, <2>1 DEF QueryFails, FetchKnows, PageType
<1>11. ASSUME NEW r \in Ranges, Refresh(r) PROVE FetchKnows'
  BY <1>11 DEF Refresh, FetchKnows, listVars, Acked
<1>12. ASSUME NEW o \in Ops, Saved(o) PROVE FetchKnows'
  <2>1. Acked' \subseteq Acked \cup {o}
    BY <1>12, AckedAfter
  <2>2. ASSUME NEW v \in 1 .. Visits, fetch'[v].phase = "read"
        PROVE  Acked' \subseteq fetch'[v].saw \cup fetch'[v].overlap
    <3>1. fetch[v].phase # "idle" /\ fetch'[v] = [fetch[v] EXCEPT !.overlap = @ \cup {o}]
      BY <1>12, <2>2 DEF Saved, Idle
    <3>2. /\ fetch'[v].phase = fetch[v].phase /\ fetch'[v].saw = fetch[v].saw
          /\ fetch'[v].overlap = fetch[v].overlap \cup {o}
      BY <3>1 DEF PageType, Queries
    <3>3. QED
      BY <2>1, <2>2, <3>2 DEF FetchKnows
  <2>3. QED
    BY <2>2 DEF FetchKnows
<1>13. QED
  BY PageSteps, <1>1, <1>2, <1>3, <1>4, <1>5, <1>6, <1>7, <1>8, <1>9, <1>10, <1>11,
     <1>12 DEF PageStep

LEMMA SeenStep ==
  ASSUME OverviewAssumption, ConsoleTypes, FetchKnows,
         SavedChangeIsSeen, [ConsoleNext]_consoleVars
  PROVE  SavedChangeIsSeen'
<1> USE DEF ConsoleTypes
<1>1. ASSUME ReadCached PROVE SavedChangeIsSeen'
  BY <1>1 DEF ReadCached, Unforced, SavedChangeIsSeen, listVars, Acked
<1>2. ASSUME SendQuery PROVE SavedChangeIsSeen'
  BY <1>2 DEF SendQuery, Idle, SavedChangeIsSeen, listVars, Acked
<1>3. ASSUME Expire PROVE SavedChangeIsSeen'
  <2>1. Acked' = Acked
    BY <1>3 DEF Expire, listVars, Acked
  <2>2. \A j \in DOMAIN Tail(cache) : j + 1 \in DOMAIN cache /\ Tail(cache)[j] = cache[j + 1]
    BY <1>3 DEF Expire, PageType
  <2>3. QED
    BY <1>3, <2>1, <2>2 DEF Expire, SavedChangeIsSeen
<1>4. ASSUME OpenOverview PROVE SavedChangeIsSeen'
  BY <1>4 DEF OpenOverview, SavedChangeIsSeen, listVars, Acked
<1>5. ASSUME LeaveOverview PROVE SavedChangeIsSeen'
  BY <1>5 DEF LeaveOverview, SavedChangeIsSeen, listVars, Acked
<1>6. ASSUME RetryQuery PROVE SavedChangeIsSeen'
  BY <1>6 DEF RetryQuery, SavedChangeIsSeen, listVars, Acked
<1>7. ASSUME Quiet PROVE SavedChangeIsSeen'
  BY <1>7 DEF Quiet, SavedChangeIsSeen
<1>8. ASSUME NEW v \in 1 .. Visits, QueryRead(v) PROVE SavedChangeIsSeen'
  BY <1>8 DEF QueryRead, overview, SavedChangeIsSeen, listVars, Acked
<1>9. ASSUME NEW v \in 1 .. Visits, QueryAnswered(v) PROVE SavedChangeIsSeen'
  <2>1. Acked' = Acked /\ cache' = Inserted(fetch[v]) /\ fetch[v].phase = "read"
    BY <1>9 DEF QueryAnswered, listVars, Acked
  <2>2. fetch[v] \in Queries /\ cache \in Seq(Responses)
    BY DEF PageType
  <2>3. \A j \in DOMAIN cache' :
          cache'[j] = Response(fetch[v]) \/ \E i \in DOMAIN cache : cache'[j] = cache[i]
    BY <2>1, <2>2, InsertedFacts
  <2>4. Acked \subseteq Response(fetch[v]).saw \cup Response(fetch[v]).overlap
    BY <2>1 DEF FetchKnows, Response
  <2>5. QED
    BY <2>1, <2>3, <2>4 DEF SavedChangeIsSeen
<1>10. ASSUME NEW v \in 1 .. Visits, QueryFails(v) PROVE SavedChangeIsSeen'
  <2>1. Acked' = Acked
    BY <1>10 DEF QueryFails, listVars, Acked
  <2>2. QED
    BY <1>10, <2>1 DEF QueryFails, MayBeUnauthorised, SavedChangeIsSeen
<1>11. ASSUME NEW r \in Ranges, Refresh(r) PROVE SavedChangeIsSeen'
  BY <1>11 DEF Refresh, SavedChangeIsSeen, listVars, Acked
<1>12. ASSUME NEW o \in Ops, Saved(o) PROVE SavedChangeIsSeen'
  BY <1>12 DEF Saved, SavedChangeIsSeen
<1>13. QED
  BY PageSteps, <1>1, <1>2, <1>3, <1>4, <1>5, <1>6, <1>7, <1>8, <1>9, <1>10, <1>11,
     <1>12 DEF PageStep

LEMMA OwedStep ==
  ASSUME OverviewAssumption, ConsoleTypes, OwedIsComing, [ConsoleNext]_consoleVars
  PROVE  OwedIsComing'
<1> USE DEF ConsoleTypes
<1>1. ASSUME ReadCached PROVE OwedIsComing'
  BY <1>1 DEF ReadCached, Unforced, OwedIsComing
<1>2. ASSUME SendQuery PROVE OwedIsComing'
  <2>1. shown \in 1 .. Visits
    BY <1>2 DEF SendQuery, PageType, OverviewAssumption
  <2>2. fetch'[shown].phase = "sent"
    BY <1>2, <2>1 DEF SendQuery, Idle, PageType
  <2>3. QED
    BY <1>2, <2>2 DEF SendQuery, OwedIsComing
<1>3. ASSUME Expire PROVE OwedIsComing'
  BY <1>3 DEF Expire, overview, OwedIsComing
<1>4. ASSUME OpenOverview PROVE OwedIsComing'
  BY <1>4 DEF OpenOverview, OwedIsComing
<1>5. ASSUME LeaveOverview PROVE OwedIsComing'
  BY <1>5 DEF LeaveOverview, OwedIsComing
<1>6. ASSUME RetryQuery PROVE OwedIsComing'
  BY <1>6 DEF RetryQuery, OwedIsComing
<1>7. ASSUME Quiet PROVE OwedIsComing'
  BY <1>7 DEF Quiet, overview, OwedIsComing
<1>8. ASSUME NEW v \in 1 .. Visits, QueryRead(v) PROVE OwedIsComing'
  <2>1. \A w \in 1 .. Visits : fetch'[w].phase = "idle" <=> fetch[w].phase = "idle"
    BY <1>8 DEF QueryRead, PageType, Queries
  <2>2. owed /\ shown # 0 => shown \in 1 .. Visits
    BY DEF PageType, OverviewAssumption
  <2>3. QED
    BY <1>8, <2>1, <2>2 DEF QueryRead, overview, OwedIsComing
<1>9. ASSUME NEW v \in 1 .. Visits, QueryAnswered(v) PROVE OwedIsComing'
  <2>1. \A w \in 1 .. Visits : w # v => fetch'[w] = fetch[w]
    BY <1>9 DEF QueryAnswered, PageType
  <2>2. owed' => owed /\ v # shown /\ shown' = shown /\ triggered' = triggered /\ force' = force
    BY <1>9 DEF QueryAnswered, Unforced, PageType
  <2>3. shown # 0 => shown \in 1 .. Visits
    BY DEF PageType, OverviewAssumption
  <2>4. QED
    BY <2>1, <2>2, <2>3 DEF OwedIsComing
<1>10. ASSUME NEW v \in 1 .. Visits, QueryFails(v) PROVE OwedIsComing'
  <2>1. \A w \in 1 .. Visits : w # v => fetch'[w] = fetch[w]
    BY <1>10 DEF QueryFails, PageType
  <2>2. owed' => owed /\ v # shown /\ shown' = shown /\ triggered' = triggered /\ force' = force
    BY <1>10 DEF QueryFails, Unforced, PageType
  <2>3. shown # 0 => shown \in 1 .. Visits
    BY DEF PageType, OverviewAssumption
  <2>4. QED
    BY <2>1, <2>2, <2>3 DEF OwedIsComing
<1>11. ASSUME NEW r \in Ranges, Refresh(r) PROVE OwedIsComing'
  BY <1>11 DEF Refresh, OwedIsComing
<1>12. ASSUME NEW o \in Ops, Saved(o) PROVE OwedIsComing'
  <2>1. \A w \in 1 .. Visits : fetch'[w].phase = fetch[w].phase
    BY <1>12 DEF Saved, Idle, PageType, Queries
  <2>2. shown # 0 => shown \in 1 .. Visits
    BY DEF PageType, OverviewAssumption
  <2>3. QED
    BY <1>12, <2>1, <2>2 DEF Saved, overview, OwedIsComing
<1>13. QED
  BY PageSteps, <1>1, <1>2, <1>3, <1>4, <1>5, <1>6, <1>7, <1>8, <1>9, <1>10, <1>11,
     <1>12 DEF PageStep

-----------------------------------------------------------------------------
(* the theorems *)

LEMMA ConsoleInitInv ==
  ASSUME ListAssumption, OverviewAssumption, ConsoleInit
  PROVE  ConsoleInv
<1>1. rows \in Tables
  <2>1. PICK ids \in SUBSET Ids : rows = [i \in ids |-> 0]
    BY DEF ConsoleInit, ListInit
  <2>2. rows \in [ids -> Nat]
    BY <2>1
  <2>3. QED
    BY <2>2 DEF Tables
<1>2. ops \in [Ops -> Saves] /\ \A o \in Ops : ~Live(o) /\ ops[o].browser # "ok"
  BY DEF ConsoleInit, ListInit, NoOp, None, Saves, Live
<1>3. ListType
  <2>1. /\ kind \in {"patched", "reloaded"} /\ listed \in BOOLEAN
        /\ loaded \in {"none", "ok", "err"} /\ stale \in BOOLEAN /\ clean \in BOOLEAN
    BY DEF ConsoleInit, ListInit, ListAssumption
  <2>2. items = NoRows /\ reload = NoReload /\ modal = Closed
    BY DEF ConsoleInit, ListInit
  <2>3. QED
    BY <1>1, <1>2, <2>1, <2>2, EmptyStore DEF ListType
<1>4. fetch \in [1 .. Visits -> Queries] /\ \A v \in 1 .. Visits : fetch[v].phase = "idle"
  BY IdleFetch DEF ConsoleInit, Idle
<1>5. PageType
  <2>1. /\ visit \in 0 .. Visits /\ shown \in 0 .. visit /\ range \in Ranges
        /\ stats \in {"none", "ok", "err"}
    BY DEF ConsoleInit, OverviewAssumption
  <2>2. force \in BOOLEAN /\ triggered \in BOOLEAN /\ owed \in BOOLEAN /\ cache = <<>>
    BY DEF ConsoleInit
  <2>3. <<>> \in Seq(Responses)
    OBVIOUS
  <2>4. QED
    BY <1>4, <2>1, <2>2, <2>3 DEF PageType
<1>6. SavesKnown
  BY <1>2, EmptyStore DEF ConsoleInit, ListInit, SavesKnown, Closed
<1>7. ReloadKnows /\ StoreFollows
  BY DEF ConsoleInit, ListInit, NoReload, ReloadKnows, StoreFollows
<1>8. FetchKnows /\ SavedChangeIsSeen /\ OwedIsComing
  BY <1>4 DEF ConsoleInit, FetchKnows, SavedChangeIsSeen, OwedIsComing
<1>9. QED
  BY <1>3, <1>5, <1>6, <1>7, <1>8 DEF ConsoleInv, ConsoleTypes

LEMMA ConsoleInvariance == ConsoleSpec => []ConsoleInv
<1>1. ConsoleInit => ConsoleInv
  BY ListAssumption, OverviewAssumption, ConsoleInitInv
<1>2. ConsoleInv /\ [ConsoleNext]_consoleVars => ConsoleInv'
  BY ListAssumption, OverviewAssumption, ListTypeStep, PageTypeStep, SavesStep, ReloadStep,
     StoreStep, FetchStep, SeenStep, OwedStep DEF ConsoleInv, ConsoleTypes
<1>3. QED
  BY <1>1, <1>2, PTL DEF ConsoleSpec

\* The console's list pages, overview and cache stay well typed.
THEOREM ConsoleTypeCorrect == ConsoleSpec => []ConsoleTypes
<1>1. ConsoleInv => ConsoleTypes
  BY DEF ConsoleInv
<1>2. QED
  BY <1>1, ConsoleInvariance, PTL

\* However many rows and saves there are, a list page that has come to rest shows
\* the server's rows, each once, although it patches its store from the answers.
THEOREM ListIsTrue == ConsoleSpec => []ListAgrees
<1>1. ConsoleInv => ListAgrees
  <2>1. SUFFICES ASSUME ConsoleInv, ListSettled, clean
        PROVE  Shows(items, rows)
    BY DEF ListAgrees, Shows
  <2>2. modal.op = 0
    BY <2>1 DEF ConsoleInv, ConsoleTypes, ListType, Modals, SavesKnown,
       ListSettled, Live
  <2>3. QED
    BY <2>1, <2>2 DEF ConsoleInv, StoreFollows, Behind, ListSettled
<1>2. QED
  BY <1>1, ConsoleInvariance, PTL

\* A forced refresh is answered by the server, for every number of visits and
\* ranges and every size of the cache.
THEOREM ForcedIsFresh == ConsoleSpec => []RefreshIsFresh
<1>1. ConsoleInv => RefreshIsFresh
  BY DEF ConsoleInv, OwedIsComing, RefreshIsFresh, StatsSettled
<1>2. QED
  BY <1>1, ConsoleInvariance, PTL

\* No cached response hides a save that was acknowledged before it was asked for.
THEOREM CacheSeesSaves == ConsoleSpec => []SavedChangeIsSeen
<1>1. ConsoleInv => SavedChangeIsSeen
  BY DEF ConsoleInv
<1>2. QED
  BY <1>1, ConsoleInvariance, PTL
=============================================================================
