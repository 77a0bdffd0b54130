----------------------------- MODULE MarketProofs -----------------------------
(***************************************************************************)
(* Theorems about the desks of the market: the saved searches and the       *)
(* review of anomalies, over an inventory that anything may happen to, and  *)
(* the opening of their stores.                                             *)
(***************************************************************************)
EXTENDS SavedSearches, ReviewQueue, SchemaMigration, InventoryProofs, FiniteSetTheorems

-----------------------------------------------------------------------------
(* Opening a store                                                         *)

\* Wherever an opener stands in the script, what is behind it has been made, by
\* it or by another.
BehindIsMade ==
  \A o \in Opener :
    /\ opening[o] <= Len(script) + 1
    /\ \A i \in 1..(opening[o] - 1) : script[i] \in made

SchemaIInv ==
  /\ Len(script) \in Nat /\ DOMAIN script = 1..Len(script)
  /\ made \subseteq Objects
  /\ opening \in [Opener -> Nat]
  /\ BehindIsMade
  /\ RecordedIsComplete

LEMMA SchemaInitIInv == SchemaInit => SchemaIInv
<1> SUFFICES ASSUME SchemaInit PROVE SchemaIInv
  OBVIOUS
<1>1. Len(script) \in Nat /\ DOMAIN script = 1..Len(script)
  BY DEF SchemaInit, InventoryScript, AlertScript, ReviewScript, GeoScript
<1>2. QED
  BY <1>1 DEF SchemaInit, SchemaIInv, BehindIsMade, RecordedIsComplete

LEMMA CreateKeeps ==
  ASSUME SchemaIInv, NEW o \in Opener, Create(o)
  PROVE  SchemaIInv'
<1>. DEFINE n == opening[o]
            object == script[n]
<1>1. /\ n \in 1..Len(script) /\ DOMAIN script = 1..Len(script) /\ Len(script) \in Nat
      /\ script' = script /\ version' = version
  BY DEF SchemaIInv, Create
<1>2. object \in Objects /\ Objects' = Objects
  BY <1>1 DEF Objects
<1>3. CASE object \in made
  BY <1>1, <1>2, <1>3 DEF SchemaIInv, Create, BehindIsMade, RecordedIsComplete
<1>4. CASE object \notin made
  <2>1. made' = made \cup {object} /\ opening' = [opening EXCEPT ![o] = n + 1]
    BY <1>4 DEF Create
  <2>2. made' \subseteq Objects /\ opening' \in [Opener -> Nat]
    BY <1>1, <1>2, <2>1 DEF SchemaIInv
  <2>3. BehindIsMade'
    <3>1. SUFFICES ASSUME NEW p \in Opener
          PROVE  opening'[p] <= Len(script) + 1 /\ \A i \in 1..(opening'[p] - 1) : script[i] \in made'
      BY <1>1 DEF BehindIsMade
    <3>2. CASE p = o
      BY <1>1, <2>1, <3>2 DEF SchemaIInv, BehindIsMade
    <3>3. CASE p # o
      BY <2>1, <3>3 DEF SchemaIInv, BehindIsMade
    <3>4. QED
      BY <3>2, <3>3
  <2>4. RecordedIsComplete'
    BY <1>1, <1>2, <2>1 DEF SchemaIInv, RecordedIsComplete
  <2>5. QED
    BY <1>1, <1>2, <2>2, <2>3, <2>4 DEF SchemaIInv
<1>5. QED
  BY <1>3, <1>4

LEMMA RecordVersionKeeps ==
  ASSUME SchemaIInv, NEW o \in Opener, RecordVersion(o)
  PROVE  SchemaIInv'
<1>1. DOMAIN script = 1..Len(script) /\ Len(script) \in Nat /\ opening[o] = Len(script) + 1
  BY DEF SchemaIInv, RecordVersion, ScriptDone
<1>2. \A i \in DOMAIN script : script[i] \in made
  BY <1>1 DEF SchemaIInv, BehindIsMade
<1>3. made = Objects
  BY <1>2 DEF SchemaIInv, Objects
<1>4. QED
  BY <1>1, <1>3 DEF SchemaIInv, RecordVersion, BehindIsMade, RecordedIsComplete, Objects

LEMMA SchemaNextKeeps ==
  ASSUME SchemaIInv, [SchemaNext]_schema
  PROVE  SchemaIInv'
<1>. USE DEF SchemaIInv, BehindIsMade, RecordedIsComplete, Objects
<1>1. CASE UNCHANGED schema
  BY <1>1 DEF schema
<1>2. ASSUME NEW o \in Opener, Open(o) PROVE SchemaIInv'
  BY <1>2 DEF Open
<1>3. ASSUME NEW o \in Opener, CrashOpening(o) PROVE SchemaIInv'
  BY <1>3 DEF CrashOpening
<1>. QED
  BY <1>1, <1>2, <1>3, CreateKeeps, RecordVersionKeeps DEF SchemaNext

\* Whoever finds version 1 recorded finds every object of its script, however many
\* openers race through the script and die in it (apply_migrations, whose
\* executescript commits statement by statement).
THEOREM VersionMeansComplete == SchemaSpec => []RecordedIsComplete
<1>1. SchemaIInv => RecordedIsComplete
  BY DEF SchemaIInv
<1>2. QED
  BY SchemaInitIInv, SchemaNextKeeps, <1>1, PTL DEF SchemaSpec

-----------------------------------------------------------------------------
(* Pages                                                                   *)

\* A finite set that is ordered has a last element: a smallest subset without one
\* would have one after all.
LEMMA FiniteHasLast ==
  ASSUME NEW S, IsFiniteSet(S), S # {}, NEW R,
         \A x, y \in S : x # y => <<x, y>> \in R \/ <<y, x>> \in R,
         \A x, y, z \in S : <<x, y>> \in R /\ <<y, z>> \in R => <<x, z>> \in R
  PROVE  \E x \in S : \A y \in S \ {x} : <<y, x>> \in R
<1>. DEFINE HasLast(T) == \E x \in T : \A y \in T \ {x} : <<y, x>> \in R
            Bad == {T \in SUBSET S : T # {} /\ ~HasLast(T)}
<1>1. SUFFICES ASSUME Bad # {} PROVE FALSE
  BY DEF HasLast
<1>2. FiniteSubsetsOf(S) = SUBSET S
  BY FS_FiniteSubsetsOfFinite
<1>3. PICK T \in Bad : \A U \in Bad : <<U, T>> \notin StrictSubsetOrdering(S)
  <2>1. IsWellFoundedOn(StrictSubsetOrdering(S), SUBSET S)
    BY <1>2, FS_StrictSubsetOrderingWellFounded
  <2>2. Bad \subseteq SUBSET S
    OBVIOUS
  <2>. HIDE DEF Bad
  <2>3. QED
    BY <1>1, <2>1, <2>2, WFMin
<1>4. PICK x \in T : TRUE
  OBVIOUS
<1>5. T \ {x} \notin Bad
  <2>1. T \in SUBSET S /\ T \ {x} \in SUBSET S /\ T \ {x} # T
    BY <1>4
  <2>2. <<T \ {x}, T>> \in StrictSubsetOrdering(S)
    BY <2>1 DEF StrictSubsetOrdering
  <2>. HIDE DEF Bad
  <2>3. QED
    BY <1>3, <2>2
<1>6. T \ {x} # {}
  BY <1>4
<1>7. PICK y \in T \ {x} : \A z \in (T \ {x}) \ {y} : <<z, y>> \in R
  BY <1>5, <1>6
<1>8. CASE <<y, x>> \in R
  <2>1. \A z \in T \ {x} : <<z, x>> \in R
    BY <1>4, <1>7, <1>8
  <2>2. QED
    BY <1>4, <2>1
<1>9. CASE <<x, y>> \in R
  BY <1>7, <1>9
<1>10. QED
  BY <1>4, <1>7, <1>8, <1>9

LEMMA FiniteHasFirst ==
  ASSUME NEW S, IsFiniteSet(S), S # {}, NEW R,
         \A x, y \in S : x # y => <<x, y>> \in R \/ <<y, x>> \in R,
         \A x, y, z \in S : <<x, y>> \in R /\ <<y, z>> \in R => <<x, z>> \in R
  PROVE  \E x \in S : \A y \in S \ {x} : <<x, y>> \in R
<1>. DEFINE Q == {p \in S \X S : <<p[2], p[1]>> \in R}
<1>1. \A x, y \in S : <<x, y>> \in Q <=> <<y, x>> \in R
  OBVIOUS
<1>. HIDE DEF Q
<1>2. \E x \in S : \A y \in S \ {x} : <<y, x>> \in Q
  <2>1. \A x, y \in S : x # y => <<x, y>> \in Q \/ <<y, x>> \in Q
    BY <1>1
  <2>2. \A x, y, z \in S : <<x, y>> \in Q /\ <<y, z>> \in Q => <<x, z>> \in Q
    BY <1>1
  <2>3. QED
    BY <2>1, <2>2, FiniteHasLast
<1>3. QED
  BY <1>1, <1>2

Triple == Int \X Int \X Int

LEMMA PrecedesIsLexicographic ==
  ASSUME NEW a \in Triple, NEW b \in Triple
  PROVE  Precedes(a, b) <=> \/ a[1] < b[1]
                            \/ a[1] = b[1] /\ a[2] < b[2]
                            \/ a[1] = b[1] /\ a[2] = b[2] /\ a[3] < b[3]
<1>1. a \in [1..3 -> Int] /\ b \in [1..3 -> Int]
  BY DEF Triple
<1>2. \A i \in 1..3 : i = 1 \/ i = 2 \/ i = 3
  OBVIOUS
<1>3. /\ \A j \in 1..(1 - 1) : a[j] = b[j]
      /\ (\A j \in 1..(2 - 1) : a[j] = b[j]) <=> a[1] = b[1]
      /\ (\A j \in 1..(3 - 1) : a[j] = b[j]) <=> a[1] = b[1] /\ a[2] = b[2]
  <2>1. 1..(1 - 1) = {} /\ 1..(2 - 1) = {1} /\ 1..(3 - 1) = {1, 2}
    OBVIOUS
  <2>2. QED
    BY <2>1
<1>4. QED
  BY <1>2, <1>3 DEF Precedes

LEMMA KeyIsTriple ==
  ASSUME Types, NEW t \in Int, NEW q, NEW l \in Hits(q, t)
  PROVE  l \in Listing /\ Key(l, t) \in Triple /\ Key(l, t)[3] = l
<1>. DEFINE c == canonical[l].active
<1>1. l \in Listing /\ l \in Int /\ canonical[l].state \in {"ACTIVE", "UNDER_OFFER"}
  BY SearchAssumption DEF Hits, Candidates
<1>2. canonical[l] \in Row
  BY <1>1, PresentIsRow DEF Present
<1>3. c \in Submission /\ c.verified \in Int
  BY <1>2, InventoryAssumption DEF Row
<1>4. c.publisher \in Publisher
  BY <1>3 DEF Publisher
<1>5. trust[c.publisher] \in Int
  <2>1. trust[c.publisher] \in TrustScore \cup {0}
    BY <1>4 DEF Types
  <2>2. 0 \in Int /\ TrustScore \subseteq Int
    BY SearchAssumption
  <2>3. QED
    BY <2>1, <2>2, Zenon
<1>6. Freshness(c, t) \in Int
  BY <1>3, SearchAssumption DEF Freshness
<1>7. \A m, n \in Int : m * n \in Int
  OBVIOUS
<1>8. Score(c, t) \in Int
  <2>1. 20 * MaxAge \in Int
    BY <1>7, SearchAssumption
  <2>2. 20 * MaxAge * trust[c.publisher] \in Int
    BY <1>5, <1>7, <2>1
  <2>3. QED
    BY <1>6, <2>2 DEF Score
<1>9. QED
  BY <1>1, <1>3, <1>8 DEF Key, Triple

\* A page leaves nothing behind: what is left of a search is on its next page or
\* after the cursor that the page ends with.
LEMMA PageSweeps ==
  ASSUME Types, NEW t \in Int, NEW q, NEW cursor, NEW l \in Remaining(q, t, cursor)
  PROVE  \/ l \in Page(q, t, cursor)
         \/ NextCursor(q, t, cursor) # <<>> /\ Precedes(NextCursor(q, t, cursor), Key(l, t))
<1>. DEFINE left == Remaining(q, t, cursor)
            page == Page(q, t, cursor)
            Before(k) == {m \in left : Precedes(Key(m, t), Key(k, t))}
            R == {p \in left \X left : Precedes(Key(p[1], t), Key(p[2], t))}
<1>1. \A k \in left : k \in Listing /\ Key(k, t) \in Triple /\ Key(k, t)[3] = k
  BY KeyIsTriple DEF Remaining
<1>2. IsFiniteSet(left)
  <2>1. left \in SUBSET Listing
    BY <1>1
  <2>2. QED
    BY <2>1, FS_Subset, SearchAssumption
<1>3. \A x, y \in left : x # y => <<x, y>> \in R \/ <<y, x>> \in R
  <2>1. SUFFICES ASSUME NEW x \in left, NEW y \in left, x # y
        PROVE  Precedes(Key(x, t), Key(y, t)) \/ Precedes(Key(y, t), Key(x, t))
    OBVIOUS
  <2>. DEFINE a == Key(x, t)  b == Key(y, t)
  <2>2. a \in Triple /\ b \in Triple /\ a[3] # b[3]
    BY <1>1, <2>1
  <2>. HIDE DEF a, b
  <2>3. Precedes(a, b) \/ Precedes(b, a)
    BY <2>2, PrecedesIsLexicographic DEF Triple
  <2>4. QED
    BY <2>3 DEF a, b
<1>4. \A x, y, z \in left : <<x, y>> \in R /\ <<y, z>> \in R => <<x, z>> \in R
  <2>1. SUFFICES ASSUME NEW x \in left, NEW y \in left, NEW z \in left,
                        Precedes(Key(x, t), Key(y, t)), Precedes(Key(y, t), Key(z, t))
        PROVE  Precedes(Key(x, t), Key(z, t))
    OBVIOUS
  <2>. DEFINE a == Key(x, t)  b == Key(y, t)  c == Key(z, t)
  <2>2. a \in Triple /\ b \in Triple /\ c \in Triple /\ Precedes(a, b) /\ Precedes(b, c)
    BY <1>1, <2>1
  <2>. HIDE DEF a, b, c
  <2>3. Precedes(a, c)
    BY <2>2, PrecedesIsLexicographic DEF Triple
  <2>4. QED
    BY <2>3 DEF a, c
<1>5. \A k \in left : ~Precedes(Key(k, t), Key(k, t))
  <2>1. SUFFICES ASSUME NEW k \in left PROVE ~Precedes(Key(k, t), Key(k, t))
    OBVIOUS
  <2>2. QED
    BY <1>1, PrecedesIsLexicographic DEF Triple
<1>6. \A k \in left : IsFiniteSet(Before(k)) /\ Cardinality(Before(k)) \in Nat
  BY <1>2, FS_Subset, FS_CardinalityType
<1>7. SUFFICES ASSUME l \notin page
      PROVE  NextCursor(q, t, cursor) # <<>> /\ Precedes(NextCursor(q, t, cursor), Key(l, t))
  OBVIOUS
<1>8. PageSize \in Nat \ {0} /\ Cardinality(Before(l)) >= PageSize
  BY <1>6, <1>7, SearchAssumption DEF Page
<1>9. Cardinality(left) > PageSize
  <2>1. Before(l) \in SUBSET left /\ Before(l) # left
    BY <1>5
  <2>2. Cardinality(Before(l)) <= Cardinality(left) /\ Cardinality(Before(l)) # Cardinality(left)
    BY <1>2, <2>1, FS_Subset
  <2>3. QED
    BY <1>2, <1>6, <1>8, <2>2, FS_CardinalityType
<1>10. \E k \in page : \A m \in page \ {k} : Precedes(Key(m, t), Key(k, t))
  <2>1. page \subseteq left
    BY DEF Page
  <2>2. IsFiniteSet(page)
    BY <1>2, <2>1, FS_Subset
  <2>3. page # {}
    <3>1. left # {}
      OBVIOUS
    <3>2. PICK k \in left : \A m \in left \ {k} : <<k, m>> \in R
      <4>. HIDE DEF left, R
      <4>1. QED
        BY <1>2, <1>3, <1>4, <3>1, FiniteHasFirst
    <3>3. Before(k) = {}
      <4>1. SUFFICES ASSUME NEW m \in left, Precedes(Key(m, t), Key(k, t)) PROVE FALSE
        OBVIOUS
      <4>2. m # k
        BY <1>5, <4>1
      <4>3. Precedes(Key(k, t), Key(m, t))
        BY <3>2, <4>2
      <4>4. <<k, k>> \in R
        BY <1>4, <4>1, <4>3
      <4>5. QED
        BY <1>5, <4>4
    <3>4. Cardinality(Before(k)) = 0
      BY <3>3, FS_EmptySet
    <3>5. QED
      BY <1>8, <3>4 DEF Page
  <2>4. \E k \in page : \A m \in page \ {k} : <<m, k>> \in R
    <3>1. /\ \A x, y \in page : x # y => <<x, y>> \in R \/ <<y, x>> \in R
          /\ \A x, y, z \in page : <<x, y>> \in R /\ <<y, z>> \in R => <<x, z>> \in R
      BY <1>3, <1>4, <2>1
    <3>. HIDE DEF page, R
    <3>2. QED
      BY <2>2, <2>3, <3>1, FiniteHasLast
  <2>5. QED
    BY <2>4
<1>. DEFINE last == CHOOSE k \in page : \A m \in page \ {k} : Precedes(Key(m, t), Key(k, t))
<1>11. last \in page /\ last \in left
  <2>1. last \in page
    BY <1>10
  <2>. HIDE DEF last
  <2>2. QED
    BY <2>1 DEF Page
<1>12. NextCursor(q, t, cursor) = Key(last, t)
  BY <1>9 DEF NextCursor
<1>. HIDE DEF last
<1>13. Precedes(Key(last, t), Key(l, t))
  <2>1. last # l
    BY <1>7, <1>11
  <2>2. SUFFICES ASSUME Precedes(Key(l, t), Key(last, t)) PROVE FALSE
    BY <1>3, <1>11, <2>1
  <2>3. Before(l) \in SUBSET Before(last)
    <3>1. SUFFICES ASSUME NEW m \in left, Precedes(Key(m, t), Key(l, t))
          PROVE  Precedes(Key(m, t), Key(last, t))
      OBVIOUS
    <3>2. QED
      BY <1>4, <1>11, <2>2, <3>1
  <2>4. Cardinality(Before(l)) <= Cardinality(Before(last))
    BY <1>6, <1>11, <2>3, FS_Subset
  <2>5. Cardinality(Before(last)) < PageSize
    BY <1>11 DEF Page
  <2>6. QED
    BY <1>6, <1>8, <1>11, <2>4, <2>5
<1>14. Key(last, t) # <<>>
  BY DEF Key
<1>15. QED
  BY <1>12, <1>13, <1>14

-----------------------------------------------------------------------------
(* A saved search                                                          *)

RowOf == {NoRow} \cup [version : Version, query : Query, enabled : BOOLEAN, primed : BOOLEAN]
EditOf == {Idle} \cup [step : {"save"}, read : RowOf, query : Query, enabled : BOOLEAN]
Recorded == Version \X Listing

\* An evaluation, whatever its cursor is and whichever keys it remembers.
CallTyped(v) ==
  \E cursor, keys :
    /\ DOMAIN keys \subseteq Listing
    /\ v \in [step : {"search", "check", "mark", "baseline"}, query : Query, version : Version,
              now : Int, cursor : {cursor}, found : SUBSET Listing, keys : {keys}]

SearchesTypes ==
  /\ row \in RowOf
  /\ edit \in [Editor -> EditOf]
  /\ DOMAIN eval = Evaluator /\ \A e \in Evaluator : eval[e] = Idle \/ CallTyped(eval[e])
  /\ matches \subseteq Recorded /\ outbox \subseteq Recorded
  /\ baseline \subseteq Recorded /\ already \subseteq Recorded
  /\ baselined \subseteq Version

\* A row is primed exactly when its version has its baseline, and no later one has.
BaselineFits(r) ==
  /\ r.primed <=> r.version \in baselined
  /\ \A v \in baselined : v <= r.version

RowsFit ==
  /\ BaselineFits(row)
  /\ \A d \in Editor : edit[d] # Idle => BaselineFits(edit[d].read)

\* What has matched since an evaluation began is found, or still to come.
Swept(v) ==
  /\ v.step = "search" =>
       \A l \in DOMAIN v.keys : l \in v.found \/ v.cursor = <<>> \/ Precedes(v.cursor, v.keys[l])
  /\ v.step # "search" => DOMAIN v.keys \subseteq v.found

CallsFit ==
  \A e \in Evaluator : eval[e] # Idle =>
    /\ eval[e].version = row.version /\ Swept(eval[e])
    /\ \A d \in Editor : edit[d] = Idle

SearchesIInv ==
  /\ IInv /\ SearchesTypes /\ RowsFit /\ CallsFit
  /\ already \subseteq matches
  /\ QuietBaseline

LEMMA SearchesInitIInv == InventoryInit /\ SearchesInit => SearchesIInv
<1> SUFFICES ASSUME InventoryInit, SearchesInit PROVE SearchesIInv
  OBVIOUS
<1>1. SearchesTypes
  BY DEF SearchesInit, SearchesTypes, RowOf, EditOf
<1>2. QED
  BY <1>1, InitIInv DEF SearchesInit, SearchesIInv, RowsFit, BaselineFits, CallsFit, QuietBaseline, NoRow

\* Nothing that is said of the desk depends on what becomes of the inventory.
LEMMA InventoryStepKeeps ==
  ASSUME SearchesIInv, [InventoryNext]_inventory, UNCHANGED desk
  PROVE  SearchesIInv'
<1>1. IInv'
  BY NextKeeps DEF SearchesIInv
<1>2. SearchesTypes'
  BY DEF SearchesIInv, SearchesTypes, CallTyped, desk
<1>3. RowsFit' /\ QuietBaseline' /\ (already \subseteq matches)'
  BY DEF SearchesIInv, RowsFit, BaselineFits, QuietBaseline, desk
<1>4. CallsFit'
  BY DEF SearchesIInv, CallsFit, Swept, desk
<1>5. QED
  BY <1>1, <1>2, <1>3, <1>4 DEF SearchesIInv

LEMMA InventoryRests == ASSUME IInv, UNCHANGED inventory PROVE IInv'
BY NextKeeps

LEMMA BeginSaveKeeps ==
  ASSUME Apart, SearchesIInv, UNCHANGED inventory,
         NEW d \in Editor, NEW q \in Query, NEW enabled \in BOOLEAN, BeginSave(d, q, enabled)
  PROVE  SearchesIInv'
<1>. DEFINE j == [step |-> "save", read |-> row, query |-> q, enabled |-> enabled]
<1>1. /\ edit' = [edit EXCEPT ![d] = j] /\ \A e \in Evaluator : eval[e] = Idle
      /\ UNCHANGED <<row, matches, outbox, baseline, already, baselined, eval>>
  BY DEF BeginSave, store, history
<1>2. j \in EditOf
  BY DEF SearchesIInv, SearchesTypes, EditOf
<1>3. SearchesTypes'
  BY <1>1, <1>2 DEF SearchesIInv, SearchesTypes
<1>4. RowsFit'
  BY <1>1 DEF SearchesIInv, SearchesTypes, RowsFit, BaselineFits
<1>5. CallsFit' /\ QuietBaseline' /\ (already \subseteq matches)'
  BY <1>1 DEF SearchesIInv, CallsFit, QuietBaseline
<1>6. QED
  BY <1>3, <1>4, <1>5, InventoryRests DEF SearchesIInv

LEMMA CommitSaveKeeps ==
  ASSUME SearchesIInv, UNCHANGED inventory, NEW d \in Editor, CommitSave(d)
  PROVE  SearchesIInv'
<1>. DEFINE j == edit[d]
            new == SavedRow(j.read, j.query, j.enabled)
<1>1. /\ j # Idle /\ new.version <= MaxVersion
      /\ row' = new /\ edit' = [edit EXCEPT ![d] = Idle]
      /\ UNCHANGED <<matches, outbox, eval, baseline, already, baselined>>
  BY DEF CommitSave, history
<1>2. j \in [step : {"save"}, read : RowOf, query : Query, enabled : BOOLEAN]
  BY <1>1 DEF SearchesIInv, SearchesTypes, EditOf
<1>3. j.read.version \in Nat /\ j.read.primed \in BOOLEAN
  <2>1. CASE j.read = NoRow
    BY <2>1 DEF NoRow
  <2>2. CASE j.read # NoRow
    BY <1>2, <2>2 DEF RowOf, Version
  <2>3. QED
    BY <2>1, <2>2
<1>4. new \in RowOf
  <2>1. new.version \in Version
    BY <1>1, <1>2, <1>3, SearchesAssumption DEF SavedRow, RowOf, NoRow, Version
  <2>2. QED
    BY <1>2, <1>3, <2>1 DEF SavedRow, RowOf
<1>5. SearchesTypes'
  BY <1>1, <1>4 DEF SearchesIInv, SearchesTypes, EditOf
<1>6. BaselineFits(j.read)
  BY <1>1 DEF SearchesIInv, RowsFit
<1>7. BaselineFits(new)
  <2>1. \A v \in baselined : v \in Int
    BY DEF SearchesIInv, SearchesTypes, Version
  <2>2. CASE j.read.version = 0 \/ j.read.query # j.query
    <3>1. new.version = j.read.version + 1 /\ new.primed = FALSE
      BY <2>2 DEF SavedRow
    <3>. HIDE DEF new
    <3>2. \A v \in baselined : v <= j.read.version
      BY <1>6 DEF BaselineFits
    <3>3. new.version \notin baselined /\ \A v \in baselined : v <= new.version
      BY <1>3, <2>1, <3>1, <3>2
    <3>4. QED
      BY <3>1, <3>3 DEF BaselineFits
  <2>3. CASE ~(j.read.version = 0 \/ j.read.query # j.query)
    <3>1. new.version = j.read.version /\ new.primed = j.read.primed
      BY <1>3, <2>3 DEF SavedRow
    <3>2. QED
      BY <1>6, <3>1 DEF BaselineFits
  <2>4. QED
    BY <2>2, <2>3
<1>8. RowsFit'
  BY <1>1, <1>7 DEF SearchesIInv, SearchesTypes, RowsFit, BaselineFits
<1>9. \A e \in Evaluator : eval[e] = Idle
  BY <1>1 DEF SearchesIInv, CallsFit
<1>10. CallsFit' /\ QuietBaseline' /\ (already \subseteq matches)'
  BY <1>1, <1>9 DEF SearchesIInv, CallsFit, QuietBaseline
<1>11. QED
  BY <1>5, <1>8, <1>10, InventoryRests DEF SearchesIInv

LEMMA StartEvaluationKeeps ==
  ASSUME Apart, SearchesIInv, UNCHANGED inventory, NEW e \in Evaluator, StartEvaluation(e)
  PROVE  SearchesIInv'
<1>. DEFINE hits == Hits(row.query, clock)
            keys == [l \in hits |-> Key(l, clock)]
            call1 == [step |-> "search", query |-> row.query, version |-> row.version, now |-> clock,
                      cursor |-> <<>>, found |-> {}, keys |-> keys]
<1>1. /\ row.enabled /\ eval' = [eval EXCEPT ![e] = call1] /\ \A d \in Editor : edit[d] = Idle
      /\ UNCHANGED <<row, matches, outbox, edit, baseline, already, baselined>>
  BY DEF StartEvaluation, store, history
<1>2. row.query \in Query /\ row.version \in Version
  <2>1. row # NoRow
    BY <1>1 DEF NoRow
  <2>2. QED
    BY <2>1 DEF SearchesIInv, SearchesTypes, RowOf
<1>3. CallTyped(call1)
  <2>1. clock \in Int
    BY DEF SearchesIInv, IInv, Types
  <2>2. DOMAIN keys \subseteq Listing
    BY DEF Hits, Candidates
  <2>. HIDE DEF keys
  <2>3. call1 \in [step : {"search", "check", "mark", "baseline"}, query : Query, version : Version,
                   now : Int, cursor : {<<>>}, found : SUBSET Listing, keys : {keys}]
    BY <1>2, <2>1
  <2>. HIDE DEF call1
  <2>4. QED
    BY <2>2, <2>3 DEF CallTyped
<1>4. Swept(call1) /\ call1.version = row.version
  BY DEF Swept
<1>. HIDE DEF call1
<1>5. SearchesTypes'
  BY <1>1, <1>3 DEF SearchesIInv, SearchesTypes
<1>6. RowsFit' /\ QuietBaseline' /\ (already \subseteq matches)'
  BY <1>1 DEF SearchesIInv, RowsFit, BaselineFits, QuietBaseline
<1>7. CallsFit'
  BY <1>1, <1>4 DEF SearchesIInv, SearchesTypes, CallsFit
<1>8. QED
  BY <1>5, <1>6, <1>7, InventoryRests DEF SearchesIInv

LEMMA FetchPageKeeps ==
  ASSUME SearchesIInv, UNCHANGED inventory, NEW e \in Evaluator, FetchPage(e)
  PROVE  SearchesIInv'
<1>. DEFINE v == eval[e]
            next == NextCursor(v.query, v.now, v.cursor)
            page == Page(v.query, v.now, v.cursor)
            found == v.found \cup page
            keys == [l \in Steady(v) |-> v.keys[l]]
            step == IF next = <<>> THEN "check" ELSE "search"
            w == [v EXCEPT !.found = found, !.keys = keys, !.cursor = next, !.step = step]
<1>1. /\ v.step = "search"
      /\ UNCHANGED <<row, matches, outbox, edit, baseline, already, baselined>>
      /\ eval' = [eval EXCEPT ![e] = w]
  <2>1. DOMAIN eval = Evaluator
    BY DEF SearchesIInv, SearchesTypes
  <2>2. QED
    BY <2>1 DEF FetchPage, store, history
<1>2. v # Idle /\ CallTyped(v)
  BY <1>1 DEF SearchesIInv, SearchesTypes, Idle
<1>3. v.now \in Int /\ v.found \subseteq Listing
  BY <1>2 DEF CallTyped
<1>4. DOMAIN keys \subseteq Listing /\ DOMAIN keys = Steady(v) /\ \A l \in Steady(v) : keys[l] = v.keys[l]
  BY DEF Steady, Hits, Candidates
<1>5. found \in SUBSET Listing
  BY <1>3 DEF Page, Remaining, Hits, Candidates
<1>6. /\ CallTyped(w) /\ w.found = found /\ w.keys = keys /\ w.cursor = next /\ w.step = step
      /\ w.version = v.version
  <2>1. step \in {"search", "check", "mark", "baseline"}
    OBVIOUS
  <2>. HIDE DEF v, found, keys, next, step
  <2>2. PICK c, k : v \in [step : {"search", "check", "mark", "baseline"}, query : Query,
                           version : Version, now : Int, cursor : {c}, found : SUBSET Listing, keys : {k}]
    BY <1>2 DEF CallTyped
  <2>3. w \in [step : {"search", "check", "mark", "baseline"}, query : Query, version : Version,
               now : Int, cursor : {next}, found : SUBSET Listing, keys : {keys}]
    BY <1>5, <2>1, <2>2
  <2>4. /\ w.found = found /\ w.keys = keys /\ w.cursor = next /\ w.step = step
        /\ w.version = v.version
    BY <2>2
  <2>. HIDE DEF w
  <2>5. CallTyped(w)
    BY <1>4, <2>3 DEF CallTyped
  <2>6. QED
    BY <2>4, <2>5
<1>7. \A l \in Steady(v) : l \in found \/ (next # <<>> /\ Precedes(next, v.keys[l]))
  <2>1. SUFFICES ASSUME NEW l \in Steady(v), l \notin v.found
        PROVE  l \in page \/ (next # <<>> /\ Precedes(next, v.keys[l]))
    OBVIOUS
  <2>2. l \in DOMAIN v.keys /\ l \in Hits(v.query, v.now) /\ Key(l, v.now) = v.keys[l]
    BY DEF Steady
  <2>3. v.cursor = <<>> \/ Precedes(v.cursor, v.keys[l])
    BY <1>1, <1>2, <2>1, <2>2 DEF SearchesIInv, CallsFit, Swept
  <2>4. l \in Remaining(v.query, v.now, v.cursor)
    BY <2>2, <2>3 DEF Remaining
  <2>5. Types
    BY DEF SearchesIInv, IInv
  <2>. HIDE DEF v
  <2>6. QED
    BY <1>3, <2>2, <2>4, <2>5, PageSweeps
<1>8. Swept(w)
  <2>. HIDE DEF v, w, found, keys, next
  <2>1. QED
    BY <1>4, <1>6, <1>7 DEF Swept
<1>9. w.version = row.version /\ \A d \in Editor : edit[d] = Idle
  <2>. HIDE DEF w
  <2>1. QED
    BY <1>2, <1>6 DEF SearchesIInv, CallsFit
<1>. HIDE DEF w, step, keys, found
<1>10. SearchesTypes'
  BY <1>1, <1>6 DEF SearchesIInv, SearchesTypes
<1>11. RowsFit' /\ QuietBaseline' /\ (already \subseteq matches)'
  BY <1>1 DEF SearchesIInv, RowsFit, BaselineFits, QuietBaseline
<1>12. CallsFit'
  BY <1>1, <1>8, <1>9 DEF SearchesIInv, SearchesTypes, CallsFit
<1>13. QED
  BY <1>10, <1>11, <1>12, InventoryRests DEF SearchesIInv

LEMMA CheckPrimedKeeps ==
  ASSUME SearchesIInv, UNCHANGED inventory, NEW e \in Evaluator, CheckPrimed(e)
  PROVE  SearchesIInv'
<1>. DEFINE v == eval[e]
            step == IF row.primed THEN "mark" ELSE "baseline"
            w == [v EXCEPT !.step = step]
<1>1. /\ v.step = "check"
      /\ UNCHANGED <<row, matches, outbox, edit, baseline, already, baselined>>
      /\ eval' = [eval EXCEPT ![e] = w]
  BY DEF CheckPrimed, store, history
<1>2. v # Idle /\ CallTyped(v)
  BY <1>1 DEF SearchesIInv, SearchesTypes, Idle
<1>3. /\ CallTyped(w) /\ w.found = v.found /\ w.keys = v.keys /\ w.step = step
      /\ w.version = v.version
  <2>1. PICK c, k : /\ DOMAIN k \subseteq Listing
                    /\ v \in [step : {"search", "check", "mark", "baseline"}, query : Query,
                         version : Version, now : Int, cursor : {c}, found : SUBSET Listing, keys : {k}]
    BY <1>2 DEF CallTyped
  <2>2. w \in [step : {"search", "check", "mark", "baseline"}, query : Query,
                         version : Version, now : Int, cursor : {c}, found : SUBSET Listing, keys : {k}]
    BY <2>1
  <2>3. w.found = v.found /\ w.keys = v.keys /\ w.step = step /\ w.version = v.version
    BY <2>1
  <2>. HIDE DEF w
  <2>4. QED
    BY <2>1, <2>2, <2>3 DEF CallTyped
<1>4. step # "search"
  OBVIOUS
<1>. HIDE DEF w, step
<1>5. Swept(w) /\ w.version = row.version /\ \A d \in Editor : edit[d] = Idle
  BY <1>1, <1>2, <1>3, <1>4 DEF SearchesIInv, CallsFit, Swept
<1>10. SearchesTypes'
  BY <1>1, <1>3 DEF SearchesIInv, SearchesTypes
<1>11. RowsFit' /\ QuietBaseline' /\ (already \subseteq matches)'
  BY <1>1 DEF SearchesIInv, RowsFit, BaselineFits, QuietBaseline
<1>12. CallsFit'
  BY <1>1, <1>5 DEF SearchesIInv, SearchesTypes, CallsFit
<1>13. QED
  BY <1>10, <1>11, <1>12, InventoryRests DEF SearchesIInv

LEMMA CommitBaselineKeeps ==
  ASSUME SearchesIInv, UNCHANGED inventory, NEW e \in Evaluator, CommitBaseline(e)
  PROVE  SearchesIInv'
<1>. DEFINE v == eval[e]
<1>1. /\ v.step = "baseline"
      /\ matches' = matches \cup Pairs(v.version, v.found)
      /\ row' = [row EXCEPT !.primed = TRUE]
      /\ eval' = [eval EXCEPT ![e] = Idle]
      /\ UNCHANGED <<outbox, edit>>
  BY DEF CommitBaseline
<1>2. v # Idle /\ CallTyped(v)
  BY <1>1 DEF SearchesIInv, SearchesTypes, Idle
<1>3. /\ v.found \subseteq Listing /\ v.version \in Version
      /\ DOMAIN v.keys \subseteq v.found
  BY <1>1, <1>2 DEF CallTyped, SearchesIInv, CallsFit, Swept
<1>4. v.version = row.version /\ \A d \in Editor : edit[d] = Idle
  BY <1>2 DEF SearchesIInv, CallsFit
<1>5. /\ baselined' = baselined \cup {v.version}
      /\ \/ UNCHANGED <<baseline, already>>
         \/ /\ v.version \notin baselined
            /\ baseline' = baseline \cup Pairs(v.version, v.found)
            /\ already' = already \cup Pairs(v.version, DOMAIN v.keys)
  BY DEF CommitBaseline, history
<1>6. row \in [version : Version, query : Query, enabled : BOOLEAN, primed : BOOLEAN]
  <2>1. row # NoRow
    BY <1>3, <1>4, SearchesAssumption DEF NoRow, Version
  <2>2. QED
    BY <2>1 DEF SearchesIInv, SearchesTypes, RowOf
<1>7. row' \in RowOf /\ row'.version = v.version /\ row'.primed = TRUE
  BY <1>1, <1>4, <1>6 DEF RowOf
<1>. HIDE DEF v
<1>8. /\ Pairs(v.version, v.found) \subseteq Recorded
      /\ Pairs(v.version, DOMAIN v.keys) \subseteq Pairs(v.version, v.found)
  BY <1>3 DEF Pairs, Recorded
<1>9. SearchesTypes'
  <2>1. /\ matches' \subseteq Recorded /\ baseline' \subseteq Recorded /\ already' \subseteq Recorded
        /\ baselined' \subseteq Version
    BY <1>1, <1>3, <1>5, <1>8 DEF SearchesIInv, SearchesTypes
  <2>2. QED
    BY <1>1, <1>7, <2>1 DEF SearchesIInv, SearchesTypes
<1>10. RowsFit'
  <2>1. BaselineFits(row)'
    <3>1. \A n \in baselined : n <= v.version
      BY <1>4 DEF SearchesIInv, RowsFit, BaselineFits
    <3>2. v.version <= v.version
      BY <1>3 DEF Version
    <3>3. QED
      BY <1>5, <1>7, <3>1, <3>2 DEF BaselineFits
  <2>2. QED
    BY <1>1, <1>4, <2>1 DEF RowsFit
<1>11. CallsFit'
  <2>1. row'.version = row.version
    BY <1>4, <1>7
  <2>2. QED
    BY <1>1, <2>1 DEF SearchesIInv, SearchesTypes, CallsFit
<1>12. (already \subseteq matches)'
  BY <1>1, <1>5, <1>8 DEF SearchesIInv
<1>13. QuietBaseline'
  <2>1. SUFFICES ASSUME NEW a \in outbox
        PROVE  a[1] \in baselined' /\ a \notin already'
    BY <1>1 DEF QuietBaseline
  <2>2. a[1] \in baselined /\ a \notin already
    BY DEF SearchesIInv, QuietBaseline
  <2>3. v.version \notin baselined => a \notin Pairs(v.version, DOMAIN v.keys)
    BY <2>2 DEF Pairs
  <2>4. QED
    BY <1>5, <2>2, <2>3
<1>14. QED
  BY <1>9, <1>10, <1>11, <1>12, <1>13, InventoryRests DEF SearchesIInv

LEMMA CommitMatchesKeeps ==
  ASSUME SearchesIInv, UNCHANGED inventory, NEW e \in Evaluator, CommitMatches(e)
  PROVE  SearchesIInv'
<1>. DEFINE v == eval[e]
            new == Pairs(v.version, v.found) \ matches
<1>1. /\ v.step = "mark"
      /\ \/ UNCHANGED <<matches, outbox>>
         \/ /\ row.primed
            /\ matches' = matches \cup new /\ outbox' = outbox \cup new
      /\ eval' = [eval EXCEPT ![e] = Idle]
      /\ UNCHANGED <<row, edit, baseline, already, baselined>>
  BY DEF CommitMatches, history
<1>2. v # Idle /\ CallTyped(v)
  BY <1>1 DEF SearchesIInv, SearchesTypes, Idle
<1>3. v.found \subseteq Listing /\ v.version \in Version
  BY <1>2 DEF CallTyped
<1>4. v.version = row.version
  BY <1>2 DEF SearchesIInv, CallsFit
<1>. HIDE DEF v
<1>5. new \subseteq Recorded /\ \A a \in new : a[1] = v.version /\ a \notin matches
  BY <1>3 DEF Pairs, Recorded
<1>. HIDE DEF new
<1>6. SearchesTypes'
  <2>1. matches' \subseteq Recorded /\ outbox' \subseteq Recorded
    BY <1>1, <1>5 DEF SearchesIInv, SearchesTypes
  <2>2. QED
    BY <1>1, <2>1 DEF SearchesIInv, SearchesTypes
<1>7. RowsFit' /\ (already \subseteq matches)'
  BY <1>1 DEF SearchesIInv, RowsFit, BaselineFits
<1>8. CallsFit'
  BY <1>1 DEF SearchesIInv, SearchesTypes, CallsFit
<1>9. QuietBaseline'
  <2>1. row.primed => \A a \in new : a[1] \in baselined /\ a \notin already
    BY <1>4, <1>5 DEF SearchesIInv, RowsFit, BaselineFits
  <2>2. QED
    BY <1>1, <2>1 DEF SearchesIInv, QuietBaseline
<1>10. QED
  BY <1>6, <1>7, <1>8, <1>9, InventoryRests DEF SearchesIInv

SearchesStep ==
  \/ InventoryNext /\ UNCHANGED desk
  \/ SearchesNext /\ UNCHANGED inventory

LEMMA SearchesNextKeeps ==
  ASSUME Apart, SearchesIInv, [SearchesStep]_<<inventory, desk>>
  PROVE  SearchesIInv'
<1>1. CASE UNCHANGED <<inventory, desk>>
  BY <1>1, InventoryStepKeeps
<1>2. CASE InventoryNext /\ UNCHANGED desk
  BY <1>2, InventoryStepKeeps
<1>3. CASE SearchesNext /\ UNCHANGED inventory
  BY <1>3, BeginSaveKeeps, CommitSaveKeeps, StartEvaluationKeeps, FetchPageKeeps,
     CheckPrimedKeeps, CommitBaselineKeeps, CommitMatchesKeeps DEF SearchesNext
<1>4. QED
  BY <1>1, <1>2, <1>3 DEF SearchesStep

\* With saves and evaluations kept apart no listing that matched all the while a
\* first baseline was read is ever alerted, and no alert is for a version without
\* one, whatever publishers, writers and clock do to the inventory between two
\* pages and however many evaluators run (establish_baseline, mark_matches).
THEOREM BaselinesAreQuiet == ASSUME Apart PROVE SearchesSpec => []QuietBaseline
<1>1. SearchesIInv => QuietBaseline
  BY DEF SearchesIInv
<1>2. SearchesIInv /\ [SearchesStep]_<<inventory, desk>> => SearchesIInv'
  BY SearchesNextKeeps
<1>3. QED
  BY SearchesInitIInv, <1>1, <1>2, PTL DEF SearchesSpec, SearchesStep

\* With saves and evaluations kept apart the rows stay well typed.
THEOREM MarketIsTyped == ASSUME Apart PROVE SearchesSpec => []MarketTypeOK
<1>1. SearchesIInv => MarketTypeOK
  <2>1. ASSUME IInv PROVE InventoryTypeOK
    BY <2>1, TypesSuffice
  <2>2. QED
    BY <2>1 DEF SearchesIInv, SearchesTypes, MarketTypeOK, RowOf, Recorded
<1>2. SearchesIInv /\ [SearchesStep]_<<inventory, desk>> => SearchesIInv'
  BY SearchesNextKeeps
<1>3. QED
  BY SearchesInitIInv, <1>1, <1>2, PTL DEF SearchesSpec, SearchesStep

-----------------------------------------------------------------------------
(* With one evaluator, no alert is lost                                    *)

\* An evaluation that is to record a baseline is the first to do so.
FirstBaseline == \A e \in Evaluator : eval[e].step = "baseline" => ~row.primed

AlertsIInv == SearchesIInv /\ FirstBaseline /\ NoLostAlert

LEMMA AlertsStepKeeps ==
  ASSUME Apart, \A e, f \in Evaluator : e = f,
         AlertsIInv, [SearchesStep]_<<inventory, desk>>
  PROVE  AlertsIInv'
<1>. USE DEF AlertsIInv
<1>1. SearchesIInv'
  BY SearchesNextKeeps
<1>2. CASE UNCHANGED desk
  BY <1>1, <1>2 DEF FirstBaseline, NoLostAlert, desk
<1>. DEFINE Kept == FirstBaseline' /\ NoLostAlert'
<1>3. ASSUME NEW d \in Editor, NEW q \in Query, NEW enabled \in BOOLEAN, BeginSave(d, q, enabled)
      PROVE  Kept
  BY <1>3 DEF BeginSave, store, history, FirstBaseline, NoLostAlert
<1>4. ASSUME NEW d \in Editor, CommitSave(d) PROVE Kept
  <2>1. \A e \in Evaluator : eval[e] = Idle
    BY <1>4 DEF CommitSave, SearchesIInv, CallsFit
  <2>2. QED
    BY <1>4, <2>1 DEF CommitSave, history, FirstBaseline, NoLostAlert, Idle
<1>5. ASSUME NEW e \in Evaluator, StartEvaluation(e) PROVE Kept
  <2>1. DOMAIN eval = Evaluator
    BY DEF SearchesIInv, SearchesTypes
  <2>2. eval'[e].step # "baseline" /\ UNCHANGED <<row, matches, outbox, baseline>>
    BY <1>5, <2>1 DEF StartEvaluation, store, history
  <2>3. QED
    BY <2>2 DEF FirstBaseline, NoLostAlert
<1>6. ASSUME NEW e \in Evaluator, FetchPage(e) PROVE Kept
  <2>1. DOMAIN eval = Evaluator
    BY DEF SearchesIInv, SearchesTypes
  <2>2. eval[e] # Idle
    <3>1. eval[e].step = "search"
      BY <1>6 DEF FetchPage
    <3>2. QED
      BY <3>1 DEF Idle
  <2>3. CallTyped(eval[e])
    BY <2>2 DEF SearchesIInv, SearchesTypes
  <2>4. eval'[e].step # "baseline" /\ UNCHANGED <<row, matches, outbox, baseline>>
    BY <1>6, <2>1, <2>3 DEF FetchPage, store, history, CallTyped
  <2>5. QED
    BY <2>4 DEF FirstBaseline, NoLostAlert
<1>7. ASSUME NEW e \in Evaluator, CheckPrimed(e) PROVE Kept
  <2>1. DOMAIN eval = Evaluator
    BY DEF SearchesIInv, SearchesTypes
  <2>2. eval[e] # Idle
    BY <1>7 DEF CheckPrimed, Idle
  <2>3. CallTyped(eval[e])
    BY <2>2 DEF SearchesIInv, SearchesTypes
  <2>4. /\ eval'[e].step = IF row.primed THEN "mark" ELSE "baseline"
        /\ UNCHANGED <<row, matches, outbox, baseline>>
    BY <1>7, <2>1, <2>3 DEF CheckPrimed, store, history, CallTyped
  <2>5. QED
    BY <2>4 DEF FirstBaseline, NoLostAlert
<1>8. ASSUME NEW e \in Evaluator, CommitBaseline(e) PROVE Kept
  <2>1. DOMAIN eval = Evaluator
    BY DEF SearchesIInv, SearchesTypes
  <2>2. eval[e].version \notin baselined
    <3>1. eval[e] # Idle /\ ~row.primed
      BY <1>8 DEF CommitBaseline, Idle, FirstBaseline
    <3>2. QED
      BY <3>1 DEF SearchesIInv, CallsFit, RowsFit, BaselineFits
  <2>3. /\ matches' = matches \cup Pairs(eval[e].version, eval[e].found)
        /\ baseline' = baseline \cup Pairs(eval[e].version, eval[e].found)
        /\ outbox' = outbox /\ eval'[e] = Idle
    BY <1>8, <2>1, <2>2 DEF CommitBaseline
  <2>4. QED
    BY <2>3 DEF FirstBaseline, NoLostAlert, Idle
<1>9. ASSUME NEW e \in Evaluator, CommitMatches(e) PROVE Kept
  <2>1. DOMAIN eval = Evaluator
    BY DEF SearchesIInv, SearchesTypes
  <2>. DEFINE new == Pairs(eval[e].version, eval[e].found) \ matches
  <2>2. /\ \/ UNCHANGED <<matches, outbox>>
           \/ matches' = matches \cup new /\ outbox' = outbox \cup new
        /\ baseline' = baseline /\ eval'[e] = Idle
    BY <1>9, <2>1 DEF CommitMatches, history
  <2>. HIDE DEF new
  <2>3. QED
    BY <2>2 DEF FirstBaseline, NoLostAlert, Idle
<1>10. QED
  BY <1>1, <1>2, <1>3, <1>4, <1>5, <1>6, <1>7, <1>8, <1>9 DEF SearchesStep, SearchesNext

\* With one evaluator, and saves kept apart from it, whatever a version has seen
\* was in its first baseline or has been alerted: saves of the name or of `enabled`,
\* disabled spells and changes between two pages lose none (mark_matches records a
\* match and its alert in one transaction). Two evaluators that both find the row
\* unprimed record two baselines, and the second swallows what came between.
THEOREM AlertsAreNotLost ==
  ASSUME Apart, \A e, f \in Evaluator : e = f
  PROVE  SearchesSpec => []NoLostAlert
<1>1. InventoryInit /\ SearchesInit => AlertsIInv
  BY SearchesInitIInv DEF AlertsIInv, SearchesInit, FirstBaseline, NoLostAlert, Idle
<1>2. AlertsIInv /\ [SearchesStep]_<<inventory, desk>> => AlertsIInv'
  BY AlertsStepKeeps
<1>3. AlertsIInv => NoLostAlert
  BY DEF AlertsIInv
<1>4. QED
  BY <1>1, <1>2, <1>3, PTL DEF SearchesSpec, SearchesStep

-----------------------------------------------------------------------------
(* What a saved search promises                                            *)

\* What was in a baseline or was alerted has been seen.
SeenIsMatched == baseline \subseteq matches /\ outbox \subseteq matches

\* establish_baseline gives a version its one baseline, or changes nothing that
\* is promised.
LEMMA BaselineIsPromised ==
  ASSUME SearchesIInv, SeenIsMatched, NEW e \in Evaluator, CommitBaseline(e)
  PROVE  SeenIsMatched' /\ [Promise!Next]_(Promise!promise)
<1>. DEFINE v == eval[e]
<1>1. /\ v.step = "baseline" /\ outbox' = outbox
      /\ matches' = matches \cup Pairs(v.version, v.found)
      /\ \/ UNCHANGED <<baselined, baseline>>
         \/ /\ v.version \notin baselined /\ baselined' = baselined \cup {v.version}
            /\ baseline' = baseline \cup Pairs(v.version, v.found)
  BY DEF CommitBaseline, history
<1>2. v # Idle /\ CallTyped(v)
  BY <1>1 DEF SearchesIInv, SearchesTypes, Idle
<1>3. v.found \in SUBSET Listing /\ v.version \in Version
  BY <1>2 DEF CallTyped
<1>. HIDE DEF v
<1>4. SeenIsMatched'
  BY <1>1 DEF SeenIsMatched
<1>5. CASE UNCHANGED <<baselined, baseline>>
  BY <1>1, <1>4, <1>5 DEF Promise!promise
<1>6. CASE ~UNCHANGED <<baselined, baseline>>
  <2>1. Promise!Baseline(v.version)
    BY <1>1, <1>3, <1>6 DEF Promise!Baseline, Pairs
  <2>2. QED
    BY <1>3, <1>4, <2>1 DEF Promise!Next
<1>7. QED
  BY <1>5, <1>6

\* mark_matches alerts what the version has not seen, if it has its baseline.
LEMMA AlertIsPromised ==
  ASSUME SearchesIInv, SeenIsMatched, NEW e \in Evaluator, CommitMatches(e)
  PROVE  SeenIsMatched' /\ [Promise!Next]_(Promise!promise)
<1>. DEFINE v == eval[e]
            new == {l \in v.found : <<v.version, l>> \notin matches}
<1>1. /\ v.step = "mark" /\ UNCHANGED <<baseline, baselined>>
      /\ \/ UNCHANGED <<matches, outbox>>
         \/ /\ row.primed
            /\ matches' = matches \cup (Pairs(v.version, v.found) \ matches)
            /\ outbox' = outbox \cup (Pairs(v.version, v.found) \ matches)
  BY DEF CommitMatches, history
<1>2. v # Idle /\ CallTyped(v)
  BY <1>1 DEF SearchesIInv, SearchesTypes, Idle
<1>3. v.found \in SUBSET Listing /\ v.version \in Version
  BY <1>2 DEF CallTyped
<1>4. row.primed => v.version \in baselined
  BY <1>2 DEF SearchesIInv, CallsFit, RowsFit, BaselineFits
<1>5. Pairs(v.version, v.found) \ matches = {v.version} \X new
  BY DEF Pairs
<1>6. new \in SUBSET Listing
  BY <1>3
<1>7. ({v.version} \X new) \cap (baseline \cup outbox) = {}
  BY <1>5 DEF SeenIsMatched
<1>. HIDE DEF v, new
<1>8. SeenIsMatched'
  BY <1>1 DEF SeenIsMatched
<1>9. CASE UNCHANGED <<matches, outbox>>
  BY <1>1, <1>8, <1>9 DEF Promise!promise
<1>10. CASE ~UNCHANGED <<matches, outbox>>
  <2>1. Promise!Alert(v.version)
    BY <1>1, <1>4, <1>5, <1>6, <1>7, <1>10 DEF Promise!Alert
  <2>2. QED
    BY <1>3, <1>8, <2>1 DEF Promise!Next
<1>11. QED
  BY <1>9, <1>10

\* With saves and evaluations kept apart a version is given its baseline once and
\* whole, and no listing of it is alerted twice or although it was in the baseline,
\* however many evaluators run at once, whatever the pages they read and whatever
\* the inventory does between two of them.
THEOREM SearchesKeepTheirPromise == ASSUME Apart PROVE SearchesSpec => AlertsSpec
<1>1. InventoryInit /\ SearchesInit => SeenIsMatched /\ Promise!Init
  BY DEF SearchesInit, SeenIsMatched, Promise!Init
<1>2. SearchesIInv /\ [SearchesStep]_<<inventory, desk>> => SearchesIInv'
  BY SearchesNextKeeps
<1>3. SearchesIInv /\ SeenIsMatched /\ [SearchesStep]_<<inventory, desk>>
        => SeenIsMatched' /\ [Promise!Next]_(Promise!promise)
  <2>. SUFFICES ASSUME SearchesIInv, SeenIsMatched, [SearchesStep]_<<inventory, desk>>
                PROVE  SeenIsMatched' /\ [Promise!Next]_(Promise!promise)
    OBVIOUS
  <2>1. CASE UNCHANGED <<matches, outbox, baseline, baselined>>
    BY <2>1 DEF SeenIsMatched, Promise!promise
  <2>2. ASSUME NEW e \in Evaluator, CommitBaseline(e) \/ CommitMatches(e)
        PROVE  SeenIsMatched' /\ [Promise!Next]_(Promise!promise)
    BY <2>2, BaselineIsPromised, AlertIsPromised
  <2>3. CASE \/ \E d \in Editor, q \in Query, enabled \in BOOLEAN : BeginSave(d, q, enabled)
             \/ \E d \in Editor : CommitSave(d)
             \/ \E e \in Evaluator : StartEvaluation(e) \/ FetchPage(e) \/ CheckPrimed(e)
             \/ UNCHANGED desk
    BY <2>1, <2>3 DEF BeginSave, CommitSave, StartEvaluation, FetchPage, CheckPrimed,
       store, history, desk
  <2>4. QED
    BY <2>2, <2>3 DEF SearchesStep, SearchesNext
<1>4. QED
  BY SearchesInitIInv, <1>1, <1>2, <1>3, PTL DEF SearchesSpec, SearchesStep, AlertsSpec, Promise!Spec

-----------------------------------------------------------------------------
(* A review case                                                           *)

Decided == {"RESOLVED", "DISMISSED"}
CaseStatus == {"OPEN", "IN_REVIEW"} \cup Decided
Entry == [actor : Reviewer \cup {Detector}, from : CaseStatus \cup {"NONE"}, to : CaseStatus]

QueueTypes ==
  /\ DOMAIN cases = DOMAIN audit
  /\ \A f \in DOMAIN cases :
       /\ cases[f] \in [status : CaseStatus, reviewer : Reviewer \cup {"NONE"}]
       /\ audit[f] \in Seq(Entry)
  /\ DOMAIN work = Reviewer
  /\ \A r \in Reviewer :
       \/ work[r] = NoWork
       \/ work[r] \in [kind : {"start"}, case : DOMAIN cases, to : {"IN_REVIEW"}]
       \/ work[r] \in [kind : {"resolve"}, case : DOMAIN cases, to : Decided]

\* What a call has checked of a case still holds when it writes, and it is alone
\* on the case, unless another came between.
WorkFits ==
  \A r \in Reviewer : (work[r] # NoWork /\ work[r].case \notin raced) =>
    LET f == work[r].case IN
    /\ work[r].kind = "start" =>
         /\ cases[f].status = "OPEN"
         /\ f.severity \in {"HIGH", "CRITICAL"} => r # Detector
    /\ work[r].kind = "resolve" => cases[f].status = "IN_REVIEW" /\ cases[f].reviewer = r
    /\ \A s \in Reviewer \ {r} : work[s] # NoWork => work[s].case # f

\* CaseIsAPath, of one case
CaseFits(f) ==
  LET log == audit[f] IN
  /\ Len(log) \in 1..3 /\ log[Len(log)].to = cases[f].status
  /\ \A i \in 1..Len(log) :
       /\ log[i].from = IF i = 1 THEN "NONE" ELSE log[i - 1].to
       /\ log[i].to \in <<{"OPEN"}, {"IN_REVIEW"}, {"RESOLVED", "DISMISSED"}>>[i]
       /\ i > 1 => log[i].actor = cases[f].reviewer
  /\ f.severity \in {"HIGH", "CRITICAL"} => cases[f].reviewer # Detector

LEMMA CasesFit == CaseIsAPath <=> \A f \in DOMAIN cases \ raced : CaseFits(f)
BY DEF CaseIsAPath, CaseFits

QueueIInv == QueueTypes /\ WorkFits /\ CaseIsAPath

LEMMA QueueInitIInv == QueueInit => QueueIInv
BY DEF QueueInit, QueueIInv, QueueTypes, WorkFits, CaseIsAPath

\* A case's path after one event more, when the case was where the event begins.
LEMMA PathGrows ==
  ASSUME NEW f, NEW r \in Reviewer, NEW to, NEW from,
         audit[f] \in Seq(Entry), CaseFits(f), Event(r, from, to) \in Entry,
         from = cases[f].status,
         \/ from = "OPEN" /\ to = "IN_REVIEW" /\ (f.severity \in {"HIGH", "CRITICAL"} => r # Detector)
         \/ from = "IN_REVIEW" /\ to \in Decided /\ cases[f].reviewer = r,
         audit'[f] = Append(audit[f], Event(r, from, to)),
         cases'[f].status = to, cases'[f].reviewer = r
  PROVE  CaseFits(f)'
<1>. DEFINE log == audit[f]  log1 == audit'[f]  n == Len(audit[f])  e == Event(r, from, to)
            Stage == <<{"OPEN"}, {"IN_REVIEW"}, {"RESOLVED", "DISMISSED"}>>
<1>1. /\ Len(log1) = n + 1 /\ log1[n + 1] = e /\ n \in Nat
      /\ \A i \in 1..n : log1[i] = log[i]
  BY AppendProperties, LenProperties
<1>2. e.actor = r /\ e.from = from /\ e.to = to
  BY DEF Event
<1>3. n \in 1..3 /\ log[n].to = from /\ from \in Stage[n]
  BY DEF CaseFits
<1>4. \/ n = 1 /\ from = "OPEN"
      \/ n = 2 /\ from = "IN_REVIEW"
  <2>1. n = 1 \/ n = 2 \/ n = 3
    BY <1>3
  <2>2. Stage[1] = {"OPEN"} /\ Stage[2] = {"IN_REVIEW"} /\ Stage[3] = {"RESOLVED", "DISMISSED"}
    OBVIOUS
  <2>3. QED
    BY <1>3, <2>1, <2>2 DEF Decided
<1>5. to \in Stage[n + 1]
  <2>1. Stage[2] = {"IN_REVIEW"} /\ Stage[3] = {"RESOLVED", "DISMISSED"}
    OBVIOUS
  <2>2. CASE n = 1 /\ from = "OPEN"
    <3>1. to = "IN_REVIEW"
      BY <2>2
    <3>. HIDE DEF Stage
    <3>2. QED
      BY <2>1, <2>2, <3>1
  <2>3. CASE n = 2 /\ from = "IN_REVIEW"
    <3>1. to \in {"RESOLVED", "DISMISSED"}
      BY <2>3 DEF Decided
    <3>. HIDE DEF Stage
    <3>2. QED
      BY <2>1, <2>3, <3>1
  <2>4. QED
    BY <1>4, <2>2, <2>3
<1>6. \A i \in 1..n : i > 1 => log[i].actor = r
  BY <1>4 DEF CaseFits
<1>7. \A i \in 1..(n + 1) :
        /\ log1[i].from = IF i = 1 THEN "NONE" ELSE log1[i - 1].to
        /\ log1[i].to \in Stage[i]
        /\ i > 1 => log1[i].actor = r
  <2>. HIDE DEF Stage
  <2>1. ASSUME NEW i \in 1..n
        PROVE  /\ log1[i].from = IF i = 1 THEN "NONE" ELSE log1[i - 1].to
               /\ log1[i].to \in Stage[i]
               /\ i > 1 => log1[i].actor = r
    <3>1. i # 1 => i - 1 \in 1..n
      BY <1>1
    <3>2. /\ log[i].from = IF i = 1 THEN "NONE" ELSE log[i - 1].to
          /\ log[i].to \in Stage[i]
      BY DEF CaseFits, Stage
    <3>3. QED
      BY <1>1, <1>6, <3>1, <3>2
  <2>2. /\ log1[n + 1].from = log1[n].to /\ n + 1 # 1
        /\ log1[n + 1].to \in Stage[n + 1] /\ log1[n + 1].actor = r
    BY <1>1, <1>2, <1>3, <1>5
  <2>3. \A i \in 1..(n + 1) : i \in 1..n \/ i = n + 1
    BY <1>1
  <2>4. QED
    BY <1>1, <2>1, <2>2, <2>3
<1>8. Len(log1) \in 1..3 /\ log1[Len(log1)].to = cases'[f].status
  BY <1>1, <1>2, <1>4
<1>9. f.severity \in {"HIGH", "CRITICAL"} => r # Detector
  BY DEF CaseFits
<1>10. QED
  BY <1>1, <1>7, <1>8, <1>9 DEF CaseFits

LEMMA QueueKeeps ==
  ASSUME QueueIInv, Queue
  PROVE  QueueIInv'
<1>1. CASE finding \in DOMAIN cases
  BY <1>1 DEF Queue, QueueIInv, QueueTypes, WorkFits, CaseIsAPath
<1>2. CASE finding \notin DOMAIN cases
  <2>. DEFINE open == [status |-> "OPEN", reviewer |-> "NONE"]
              first == <<Event(Detector, "NONE", "OPEN")>>
              known == DOMAIN cases \cup {finding}
  <2>1. /\ DOMAIN cases' = known /\ DOMAIN audit' = known /\ UNCHANGED <<work, raced>>
        /\ cases'[finding] = open /\ audit'[finding] = first
        /\ \A f \in DOMAIN cases : cases'[f] = cases[f] /\ audit'[f] = audit[f]
    BY <1>2 DEF Queue
  <2>2. open \in [status : CaseStatus, reviewer : Reviewer \cup {"NONE"}] /\ first \in Seq(Entry)
    <3>1. Event(Detector, "NONE", "OPEN") \in Entry
      BY DEF Event, Entry, CaseStatus
    <3>2. QED
      BY <3>1 DEF CaseStatus
  <2>3. QueueTypes'
    BY <2>1, <2>2 DEF QueueIInv, QueueTypes
  <2>4. WorkFits'
    BY <2>1 DEF QueueIInv, QueueTypes, WorkFits
  <2>5. ASSUME NEW g, g = finding PROVE CaseFits(g)'
    <3>1. /\ Len(first) = 1 /\ first[1].to = "OPEN" /\ first[1].from = "NONE"
          /\ open.status = "OPEN" /\ open.reviewer = "NONE"
      BY DEF Event
    <3>. HIDE DEF first, open
    <3>2. \A i \in 1..1 : i = 1
      OBVIOUS
    <3>3. cases'[g].status = "OPEN" /\ cases'[g].reviewer = "NONE"
      BY <2>1, <2>5, <3>1
    <3>. DEFINE log == audit'[g]
    <3>4. Len(log) = 1 /\ log[1].to = "OPEN" /\ log[1].from = "NONE"
      BY <2>1, <2>5, <3>1
    <3>. HIDE DEF log
    <3>5. Len(log) \in 1..3 /\ log[Len(log)].to = cases'[g].status
      BY <3>3, <3>4
    <3>6. \A i \in 1..Len(log) :
            /\ log[i].from = IF i = 1 THEN "NONE" ELSE log[i - 1].to
            /\ log[i].to \in <<{"OPEN"}, {"IN_REVIEW"}, {"RESOLVED", "DISMISSED"}>>[i]
            /\ i > 1 => log[i].actor = cases'[g].reviewer
      BY <3>2, <3>4
    <3>7. QED
      BY <3>3, <3>5, <3>6, QueueAssumption DEF CaseFits, log
  <2>6. \A f \in DOMAIN cases : CaseFits(f) => CaseFits(f)'
    BY <2>1 DEF CaseFits
  <2>7. CaseIsAPath'
    <3>1. SUFFICES ASSUME NEW g \in known \ raced PROVE CaseFits(g)'
      BY <2>1 DEF CaseIsAPath, CaseFits
    <3>2. CASE g = finding
      BY <2>5, <3>2
    <3>3. CASE g # finding
      BY <2>6, <3>3, CasesFit DEF QueueIInv
    <3>4. QED
      BY <3>2, <3>3
  <2>8. QED
    BY <2>3, <2>4, <2>7 DEF QueueIInv
<1>3. QED
  BY <1>1, <1>2

\* A call that has checked its case, whatever it is to write.
LEMMA UndertakeKeeps ==
  ASSUME QueueIInv, NEW r \in Reviewer, NEW job, Undertake(r, job),
         \/ /\ job \in [kind : {"start"}, case : DOMAIN cases, to : {"IN_REVIEW"}]
            /\ cases[job.case].status = "OPEN"
            /\ job.case.severity \in {"HIGH", "CRITICAL"} => r # Detector
         \/ /\ job \in [kind : {"resolve"}, case : DOMAIN cases, to : Decided]
            /\ cases[job.case].status = "IN_REVIEW" /\ cases[job.case].reviewer = r
  PROVE  QueueIInv'
<1>1. /\ work[r] = NoWork /\ work' = [work EXCEPT ![r] = job] /\ UNCHANGED <<cases, audit>>
      /\ raced \subseteq raced'
      /\ job.case \notin raced' => \A s \in Reviewer \ {r} : work[s] # NoWork => work[s].case # job.case
  BY DEF Undertake
<1>2. job # NoWork /\ job.kind \in {"start", "resolve"}
  BY DEF NoWork
<1>3. QueueTypes'
  BY <1>1 DEF QueueIInv, QueueTypes
<1>4. WorkFits'
  <2>1. SUFFICES ASSUME NEW s \in Reviewer, work'[s] # NoWork, work'[s].case \notin raced'
        PROVE  LET f == work'[s].case IN
               /\ work'[s].kind = "start" =>
                    /\ cases[f].status = "OPEN"
                    /\ f.severity \in {"HIGH", "CRITICAL"} => s # Detector
               /\ work'[s].kind = "resolve" => cases[f].status = "IN_REVIEW" /\ cases[f].reviewer = s
               /\ \A t \in Reviewer \ {s} : work'[t] # NoWork => work'[t].case # f
    BY <1>1 DEF WorkFits
  <2>2. work'[r] = job /\ \A t \in Reviewer \ {r} : work'[t] = work[t]
    BY <1>1 DEF QueueIInv, QueueTypes
  <2>3. CASE s = r
    BY <1>1, <2>1, <2>2, <2>3
  <2>4. CASE s # r
    <3>1. work'[s] = work[s] /\ work[s].case # job.case
      BY <1>1, <2>1, <2>2, <2>4
    <3>2. work[s].case \notin raced
      BY <1>1, <2>1, <3>1
    <3>3. QED
      BY <2>1, <2>2, <3>1, <3>2 DEF QueueIInv, WorkFits
  <2>5. QED
    BY <2>3, <2>4
<1>5. CaseIsAPath'
  BY <1>1 DEF QueueIInv, CaseIsAPath
<1>6. QED
  BY <1>3, <1>4, <1>5 DEF QueueIInv

LEMMA CommitReviewKeeps ==
  ASSUME QueueIInv, NEW r \in Reviewer, CommitReview(r)
  PROVE  QueueIInv'
<1>. DEFINE job == work[r]
            f == job.case
            from == IF job.kind = "start" THEN "OPEN" ELSE "IN_REVIEW"
            reviewer == IF job.kind = "start" THEN r ELSE cases[f].reviewer
            e == Event(r, from, job.to)
<1>1. /\ \/ job \in [kind : {"start"}, case : DOMAIN cases, to : {"IN_REVIEW"}]
         \/ job \in [kind : {"resolve"}, case : DOMAIN cases, to : Decided]
      /\ job # NoWork /\ f \in DOMAIN cases
  BY DEF CommitReview, QueueIInv, QueueTypes
<1>2. /\ work' = [work EXCEPT ![r] = NoWork] /\ raced' = raced
      /\ DOMAIN cases' = DOMAIN cases /\ DOMAIN audit' = DOMAIN cases
      /\ \A g \in DOMAIN cases \ {f} : cases'[g] = cases[g] /\ audit'[g] = audit[g]
      /\ audit'[f] = Append(audit[f], e)
      /\ cases'[f] = [cases[f] EXCEPT !.status = job.to, !.reviewer = reviewer]
  <2>. HIDE DEF e
  <2>1. DOMAIN audit = DOMAIN cases
    BY DEF QueueIInv, QueueTypes
  <2>2. QED
    BY <1>1, <2>1 DEF CommitReview, e
<1>3. from \in CaseStatus /\ job.to \in CaseStatus
  BY <1>1 DEF CaseStatus
<1>4. e \in Entry
  BY <1>3 DEF Event, Entry
<1>5. /\ cases'[f] \in [status : CaseStatus, reviewer : Reviewer \cup {"NONE"}]
      /\ cases'[f].status = job.to /\ cases'[f].reviewer = reviewer
  <2>1. cases[f] \in [status : CaseStatus, reviewer : Reviewer \cup {"NONE"}]
    BY <1>1 DEF QueueIInv, QueueTypes
  <2>2. QED
    BY <1>2, <1>3, <2>1
<1>6. audit[f] \in Seq(Entry) /\ audit'[f] \in Seq(Entry)
  <2>1. audit[f] \in Seq(Entry)
    BY <1>1 DEF QueueIInv, QueueTypes
  <2>2. QED
    BY <1>2, <1>4, <2>1, AppendProperties
<1>7. /\ DOMAIN work' = Reviewer /\ work'[r] = NoWork
      /\ \A s \in Reviewer \ {r} : work'[s] = work[s]
  BY <1>2 DEF QueueIInv, QueueTypes
<1>. HIDE DEF from, e
<1>8. QueueTypes'
  <2>1. \A g \in DOMAIN cases :
          /\ cases'[g] \in [status : CaseStatus, reviewer : Reviewer \cup {"NONE"}]
          /\ audit'[g] \in Seq(Entry)
    BY <1>2, <1>5, <1>6 DEF QueueIInv, QueueTypes
  <2>2. \A s \in Reviewer :
          \/ work'[s] = NoWork
          \/ work'[s] \in [kind : {"start"}, case : DOMAIN cases, to : {"IN_REVIEW"}]
          \/ work'[s] \in [kind : {"resolve"}, case : DOMAIN cases, to : Decided]
    BY <1>7 DEF QueueIInv, QueueTypes
  <2>3. QED
    BY <1>2, <1>7, <2>1, <2>2 DEF QueueTypes
<1>9. WorkFits'
  <2>1. SUFFICES ASSUME NEW s \in Reviewer, work'[s] # NoWork, work'[s].case \notin raced
        PROVE  LET g == work'[s].case IN
               /\ work'[s].kind = "start" =>
                    /\ cases'[g].status = "OPEN"
                    /\ g.severity \in {"HIGH", "CRITICAL"} => s # Detector
               /\ work'[s].kind = "resolve" => cases'[g].status = "IN_REVIEW" /\ cases'[g].reviewer = s
               /\ \A t \in Reviewer \ {s} : work'[t] # NoWork => work'[t].case # g
    BY <1>2 DEF WorkFits
  <2>2. s # r /\ work'[s] = work[s]
    BY <1>7, <2>1
  <2>3. work[s].case # f
    BY <1>1, <2>1, <2>2 DEF QueueIInv, WorkFits
  <2>4. work[s].case \in DOMAIN cases
    BY <2>1, <2>2 DEF QueueIInv, QueueTypes
  <2>5. cases'[work[s].case] = cases[work[s].case]
    BY <1>2, <2>3, <2>4
  <2>6. QED
    BY <1>7, <2>1, <2>2, <2>5 DEF QueueIInv, WorkFits
<1>10. CaseIsAPath'
  <2>1. SUFFICES ASSUME NEW g \in DOMAIN cases \ raced PROVE CaseFits(g)'
    BY <1>2 DEF CaseIsAPath, CaseFits
  <2>2. CaseFits(g)
    BY CasesFit DEF QueueIInv
  <2>3. CASE g # f
    BY <1>2, <2>2, <2>3 DEF CaseFits
  <2>4. CASE g = f
    <3>1. /\ job.kind = "start" =>
               /\ cases[f].status = "OPEN"
               /\ f.severity \in {"HIGH", "CRITICAL"} => r # Detector
          /\ job.kind = "resolve" => cases[f].status = "IN_REVIEW" /\ cases[f].reviewer = r
      BY <1>1, <2>4 DEF QueueIInv, WorkFits
    <3>2. job.kind = "start" \/ job.kind = "resolve"
      BY <1>1
    <3>3. from = cases[f].status /\ reviewer = r
      BY <3>1, <3>2 DEF from
    <3>4. \/ /\ from = "OPEN" /\ job.to = "IN_REVIEW"
             /\ f.severity \in {"HIGH", "CRITICAL"} => r # Detector
          \/ from = "IN_REVIEW" /\ job.to \in Decided /\ cases[f].reviewer = r
      BY <1>1, <3>1, <3>2 DEF from
    <3>. HIDE DEF f, job, reviewer
    <3>5. QED
      BY <1>2, <1>4, <1>5, <1>6, <2>2, <2>4, <3>3, <3>4, PathGrows DEF e
  <2>5. QED
    BY <2>3, <2>4
<1>11. QED
  BY <1>8, <1>9, <1>10 DEF QueueIInv

LEMMA QueueNextKeeps ==
  ASSUME QueueIInv, [QueueNext]_queue
  PROVE  QueueIInv'
<1>1. CASE UNCHANGED <<cases, audit, work, raced>>
  BY <1>1 DEF QueueIInv, QueueTypes, WorkFits, CaseIsAPath
<1>2. ASSUME NEW l \in Listing, Detect(l) PROVE QueueIInv'
  BY <1>1, <1>2 DEF Detect
<1>3. ASSUME NEW r \in Reviewer, NEW f \in DOMAIN cases, BeginReview(r, f) PROVE QueueIInv'
  <2>. DEFINE job == [kind |-> "start", case |-> f, to |-> "IN_REVIEW"]
  <2>1. /\ job \in [kind : {"start"}, case : DOMAIN cases, to : {"IN_REVIEW"}]
        /\ job.case = f
    OBVIOUS
  <2>. HIDE DEF job
  <2>2. QED
    BY <1>3, <2>1, UndertakeKeeps DEF BeginReview, job
<1>4. ASSUME NEW r \in Reviewer, NEW f \in DOMAIN cases, NEW to \in Decided, BeginResolve(r, f, to)
      PROVE  QueueIInv'
  <2>. DEFINE job == [kind |-> "resolve", case |-> f, to |-> to]
  <2>1. /\ job \in [kind : {"resolve"}, case : DOMAIN cases, to : Decided]
        /\ job.case = f
    OBVIOUS
  <2>2. cases[f].status = "IN_REVIEW" /\ cases[f].reviewer = r
    BY <1>4 DEF BeginResolve, MayResolve
  <2>. HIDE DEF job
  <2>3. QED
    BY <1>4, <2>1, <2>2, UndertakeKeeps DEF BeginResolve, job
<1>5. QED
  BY <1>1, <1>2, <1>3, <1>4, QueueKeeps, CommitReviewKeeps
     DEF QueueNext, BeginResolveCurrent, queue, Decided

\* While no two calls are under way on a case, the case's events are a path from
\* OPEN over IN_REVIEW to a decision, by one reviewer and, when the stake is high,
\* not by its detector: for any sources that arrive, detectors and reviewers
\* (start_review, resolve).
THEOREM CasesFollowTheirPath == QueueSpec => []CaseIsAPath
<1>1. QueueIInv /\ [ \/ InventoryNext /\ UNCHANGED queue
                     \/ QueueNext /\ UNCHANGED inventory ]_<<inventory, queue>> => QueueIInv'
  BY QueueNextKeeps
<1>2. QueueIInv => CaseIsAPath
  BY DEF QueueIInv
<1>3. QED
  BY QueueInitIInv, <1>1, <1>2, PTL DEF QueueSpec

-----------------------------------------------------------------------------
(* A finding that is stale stays stale                                     *)

\* The detector's view of the first n of a sequence of sources.
OriginIn(s, i) == <<s[i].publisher, s[i].ref>>
Within(s, l, n) == {i \in 1..n : s[i].listing = l}
Better(s, i, j) ==
  \/ s[j].verified < s[i].verified
  \/ s[j].verified = s[i].verified /\ i < j
LatestIn(s, l, n) ==
  {i \in Within(s, l, n) :
     \A j \in Within(s, l, n) \ {i} : OriginIn(s, j) = OriginIn(s, i) => Better(s, i, j)}
EvidenceIn(s, l, n) == {VersionOf(s[i]) : i \in LatestIn(s, l, n)}

LEMMA LatestIsOfAll ==
  ASSUME DOMAIN sources = 1..Len(sources), NEW l
  PROVE  /\ Latest(l) = LatestIn(sources, l, Len(sources))
         /\ Evidence(l) = EvidenceIn(sources, l, Len(sources))
<1>1. SourcesOf(l) = Within(sources, l, Len(sources))
  BY DEF SourcesOf, Within
<1>2. Latest(l) = LatestIn(sources, l, Len(sources))
  BY <1>1 DEF Latest, LatestIn, Better, Origin, OriginIn
<1>3. QED
  BY <1>2 DEF Evidence, EvidenceIn

\* Every origin has a latest version.
LEMMA OriginHasLatest ==
  ASSUME NEW n \in Nat, NEW s, \A i \in 1..n : s[i].verified \in Int,
         NEW l, NEW i \in Within(s, l, n)
  PROVE  \E j \in LatestIn(s, l, n) : OriginIn(s, j) = OriginIn(s, i)
<1>. DEFINE S == {j \in Within(s, l, n) : OriginIn(s, j) = OriginIn(s, i)}
            R == {p \in S \X S : Better(s, p[2], p[1])}
<1>1. S \in SUBSET (1..n) /\ S # {}
  BY DEF Within
<1>2. IsFiniteSet(S)
  BY <1>1, FS_Interval, FS_Subset
<1>3. \A j, k \in S : <<j, k>> \in R <=> Better(s, k, j)
  OBVIOUS
<1>4. \A j \in S : j \in Int /\ s[j].verified \in Int
  BY <1>1
<1>5. \A j, k \in S : j # k => Better(s, k, j) \/ Better(s, j, k)
  BY <1>4 DEF Better
<1>6. \A j, k, m \in S : Better(s, k, j) /\ Better(s, m, k) => Better(s, m, j)
  BY <1>4 DEF Better
<1>7. \E j \in S : \A k \in S \ {j} : <<k, j>> \in R
  <2>1. S # {}
    BY <1>1
  <2>2. \A x, y \in S : x # y => <<x, y>> \in R \/ <<y, x>> \in R
    BY <1>3, <1>5
  <2>3. \A x, y, z \in S : <<x, y>> \in R /\ <<y, z>> \in R => <<x, z>> \in R
    BY <1>3, <1>6
  <2>. HIDE DEF S, R
  <2>4. QED
    BY <1>2, <2>1, <2>2, <2>3, FiniteHasLast
<1>8. QED
  BY <1>3, <1>7 DEF LatestIn

\* What was the latest of every origin once and is so again was so all along.
LEMMA LatestReturns ==
  ASSUME NEW n \in Nat, NEW m \in Nat, NEW k \in Nat, n <= m, m <= k,
         NEW s, \A i \in 1..k : s[i].verified \in Int,
         NEW l, LatestIn(s, l, n) = LatestIn(s, l, k)
  PROVE  LatestIn(s, l, m) = LatestIn(s, l, n)
<1>1. Within(s, l, n) \subseteq Within(s, l, m) /\ Within(s, l, m) \subseteq Within(s, l, k)
  BY DEF Within
<1>2. ASSUME NEW i \in LatestIn(s, l, n) PROVE i \in LatestIn(s, l, m)
  BY <1>1, <1>2 DEF LatestIn
<1>3. ASSUME NEW i \in LatestIn(s, l, m) PROVE i \in LatestIn(s, l, n)
  <2>1. i \in Within(s, l, m) /\ i \in Within(s, l, k)
    BY <1>1 DEF LatestIn
  <2>2. PICK j \in LatestIn(s, l, k) : OriginIn(s, j) = OriginIn(s, i)
    BY <2>1, OriginHasLatest
  <2>3. j \in LatestIn(s, l, n) /\ j \in Within(s, l, m)
    BY <1>1, <2>2 DEF LatestIn
  <2>4. i # j => Better(s, i, j) /\ Better(s, j, i)
    BY <2>1, <2>2, <2>3 DEF LatestIn
  <2>5. i \in Int /\ j \in Int /\ s[i].verified \in Int /\ s[j].verified \in Int
    BY <1>1, <2>1, <2>3 DEF Within
  <2>6. i = j
    BY <2>4, <2>5 DEF Better
  <2>7. QED
    BY <2>3, <2>6
<1>4. QED
  BY <1>2, <1>3

\* No version is inserted twice, so equal evidence is evidence of the same sources.
VersionsDiffer(s) ==
  \A i, j \in 1..Len(s) : VersionOf(s[i]) = VersionOf(s[j]) => i = j

LEMMA EvidenceTellsLatest ==
  ASSUME NEW s, VersionsDiffer(s), NEW n \in 0..Len(s), NEW m \in 0..Len(s), Len(s) \in Nat,
         NEW l, EvidenceIn(s, l, n) = EvidenceIn(s, l, m)
  PROVE  LatestIn(s, l, n) = LatestIn(s, l, m)
<1>1. LatestIn(s, l, n) \subseteq 1..Len(s) /\ LatestIn(s, l, m) \subseteq 1..Len(s)
  BY DEF LatestIn, Within
<1>2. ASSUME NEW i \in LatestIn(s, l, n) PROVE i \in LatestIn(s, l, m)
  <2>1. VersionOf(s[i]) \in EvidenceIn(s, l, m)
    BY DEF EvidenceIn
  <2>2. PICK j \in LatestIn(s, l, m) : VersionOf(s[i]) = VersionOf(s[j])
    BY <2>1 DEF EvidenceIn
  <2>3. QED
    BY <1>1, <2>2 DEF VersionsDiffer
<1>3. ASSUME NEW i \in LatestIn(s, l, m) PROVE i \in LatestIn(s, l, n)
  <2>1. VersionOf(s[i]) \in EvidenceIn(s, l, n)
    BY DEF EvidenceIn
  <2>2. PICK j \in LatestIn(s, l, n) : VersionOf(s[i]) = VersionOf(s[j])
    BY <2>1 DEF EvidenceIn
  <2>3. QED
    BY <1>1, <2>2 DEF VersionsDiffer
<1>4. QED
  BY <1>2, <1>3

\* A finding shows the evidence of some earlier moment.
WasFound(f) == \E n \in 0..Len(sources) : f.evidence = EvidenceIn(sources, f.listing, n)

FindingsArePast ==
  /\ \A f \in DOMAIN cases : WasFound(f)
  /\ finding # NoFinding => WasFound(finding)

PastIInv == IInv /\ VersionsDiffer(sources) /\ FindingsArePast

LEMMA SourcesAreSeq ==
  ASSUME IInv
  PROVE  /\ sources \in Seq(Admissible) /\ Len(sources) \in Nat
         /\ DOMAIN sources = 1..Len(sources)
         /\ \A i \in 1..Len(sources) : sources[i].verified \in Int
<1>1. sources \in Seq(Admissible)
  BY DEF IInv, Types
<1>2. \A i \in 1..Len(sources) : sources[i] \in Admissible
  BY <1>1, ElementOfSeq
<1>3. QED
  BY <1>1, <1>2, LenProperties, InventoryAssumption DEF Admissible

\* What the detector saw of the sources before is what it sees of them now.
LEMMA PastStays ==
  ASSUME IInv, NEW c \in Submission, AddSource(c)
  PROVE  /\ Len(sources') = Len(sources) + 1
         /\ \A i \in 1..Len(sources) : sources'[i] = sources[i]
         /\ \A i \in 1..Len(sources') : sources'[i].verified \in Int
         /\ DOMAIN sources' = 1..Len(sources')
         /\ VersionsDiffer(sources) => VersionsDiffer(sources')
         /\ \A l, n : n \in 0..Len(sources) =>
              /\ LatestIn(sources', l, n) = LatestIn(sources, l, n)
              /\ EvidenceIn(sources', l, n) = EvidenceIn(sources, l, n)
<1>1. sources \in Seq(Admissible) /\ sources' = Append(sources, c) /\ c \in Admissible
  BY DEF IInv, Types, AddSource, Admissible, AllowedRights
<1>2. /\ Len(sources') = Len(sources) + 1 /\ Len(sources) \in Nat
      /\ DOMAIN sources = 1..Len(sources) /\ DOMAIN sources' = 1..Len(sources')
      /\ \A i \in 1..Len(sources) : sources'[i] = sources[i] /\ sources[i].verified \in Int
      /\ sources'[Len(sources) + 1] = c
  BY <1>1, SourcesAreSeq, AppendProperties, LenProperties
<1>3. \A i \in 1..Len(sources') : i \in 1..Len(sources) \/ i = Len(sources) + 1
  BY <1>2
<1>4. \A i \in 1..Len(sources') : sources'[i].verified \in Int
  BY <1>2, <1>3, InventoryAssumption
<1>5. ASSUME VersionsDiffer(sources) PROVE VersionsDiffer(sources')
  <2>1. \A i \in 1..Len(sources) : VersionOf(sources'[i]) # VersionOf(sources'[Len(sources) + 1])
    BY <1>2 DEF AddSource
  <2>2. QED
    BY <1>2, <1>3, <1>5, <2>1 DEF VersionsDiffer
<1>6. ASSUME NEW l, NEW n \in 0..Len(sources)
      PROVE  /\ LatestIn(sources', l, n) = LatestIn(sources, l, n)
             /\ EvidenceIn(sources', l, n) = EvidenceIn(sources, l, n)
  <2>1. \A i \in 1..n : sources'[i] = sources[i]
    BY <1>2
  <2>2. Within(sources', l, n) = Within(sources, l, n) /\ Within(sources, l, n) \subseteq 1..n
    BY <2>1 DEF Within
  <2>3. LatestIn(sources', l, n) = LatestIn(sources, l, n)
    BY <2>1, <2>2 DEF LatestIn, OriginIn, Better
  <2>4. LatestIn(sources, l, n) \subseteq 1..n
    BY <2>2 DEF LatestIn
  <2>5. QED
    BY <2>1, <2>3, <2>4 DEF EvidenceIn
<1>7. QED
  BY <1>2, <1>4, <1>5, <1>6

LEMMA PastKeeps ==
  ASSUME PastIInv,
         [ \/ InventoryNext /\ UNCHANGED queue
           \/ QueueNext /\ UNCHANGED inventory ]_<<inventory, queue>>
  PROVE  PastIInv'
<1>1. IInv'
  BY NextKeeps DEF PastIInv
<1>. USE DEF PastIInv
<1>2. ASSUME UNCHANGED sources, UNCHANGED <<cases, finding>> PROVE PastIInv'
  BY <1>1, <1>2 DEF FindingsArePast, WasFound
<1>3. CASE UNCHANGED <<inventory, queue>>
  BY <1>2, <1>3 DEF inventory, queue
<1>4. ASSUME NEW c \in Submission, AddSource(c), UNCHANGED queue PROVE PastIInv'
  <2>1. \A f : WasFound(f) => WasFound(f)'
    BY <1>4, PastStays, SourcesAreSeq DEF WasFound
  <2>2. finding' = finding /\ cases' = cases
    BY <1>4 DEF queue
  <2>3. FindingsArePast'
    BY <2>1, <2>2 DEF FindingsArePast, WasFound
  <2>4. QED
    BY <1>1, <1>4, <2>3, PastStays
<1>5. CASE (Endorse \/ Tick \/ Move) /\ UNCHANGED queue
  BY <1>2, <1>5 DEF Endorse, RecordTrust, Tick, Move, BeginTransition, CommitTransition, BeginSweep,
     SweepOne, records, queue
<1>6. ASSUME NEW l \in Listing, Detect(l), UNCHANGED inventory PROVE PastIInv'
  <2>1. cases' = cases /\ sources' = sources /\ finding' = Found(l)
    BY <1>6 DEF Detect, inventory
  <2>2. finding'.listing = l /\ finding'.evidence = EvidenceIn(sources, l, Len(sources))
    BY <2>1, SourcesAreSeq, LatestIsOfAll DEF Found
  <2>3. Len(sources) \in 0..Len(sources)
    BY SourcesAreSeq
  <2>4. FindingsArePast'
    BY <2>1, <2>2, <2>3 DEF FindingsArePast, WasFound
  <2>5. QED
    BY <1>1, <2>1, <2>4
<1>7. ASSUME Queue, UNCHANGED inventory PROVE PastIInv'
  <2>1. /\ sources' = sources /\ finding # NoFinding /\ finding' = NoFinding
        /\ DOMAIN cases' = DOMAIN cases \/ DOMAIN cases' = DOMAIN cases \cup {finding}
    BY <1>7 DEF Queue, inventory
  <2>2. QED
    BY <1>1, <2>1 DEF FindingsArePast, WasFound
<1>8. ASSUME QueueNext, UNCHANGED inventory, DOMAIN cases' = DOMAIN cases, finding' = finding
      PROVE  PastIInv'
  BY <1>1, <1>8 DEF FindingsArePast, WasFound, inventory
<1>9. CASE QueueNext /\ UNCHANGED inventory
  BY <1>6, <1>7, <1>8, <1>9
     DEF QueueNext, BeginReview, BeginResolve, BeginResolveCurrent, Undertake, CommitReview
<1>10. QED
  BY <1>3, <1>4, <1>5, <1>9 DEF InventoryNext

\* The severity of a group is that of its latest versions.
LEMMA SeverityOfLatest ==
  ASSUME NEW l, Latest(l)' = Latest(l), \A i \in Latest(l) : sources'[i] = sources[i]
  PROVE  Severity(l)' = Severity(l)
<1>1. {sources'[i].price : i \in Latest(l)'} = {sources[i].price : i \in Latest(l)}
  OBVIOUS
<1>2. ASSUME NEW p PROVE GapAtLeast(l, p)' = GapAtLeast(l, p)
  BY <1>1 DEF GapAtLeast, Lowest, Highest
<1>3. QED
  BY <1>2 DEF Severity

LEMMA StaleStays ==
  ASSUME PastIInv, NEW c \in Submission, AddSource(c),
         NEW f, WasFound(f), ~Current(f)
  PROVE  ~Current(f)'
<1>. DEFINE l == f.listing  N == Len(sources)
<1>1. SUFFICES ASSUME Current(f)' PROVE FALSE
  OBVIOUS
<1>2. PICK n \in 0..N : f.evidence = EvidenceIn(sources, l, n)
  BY DEF WasFound
<1>3. /\ N \in Nat /\ DOMAIN sources = 1..N
      /\ Len(sources') = N + 1 /\ DOMAIN sources' = 1..(N + 1)
      /\ \A i \in 1..(N + 1) : sources'[i].verified \in Int
      /\ VersionsDiffer(sources) /\ VersionsDiffer(sources')
  BY SourcesAreSeq, PastStays DEF PastIInv
<1>4. Latest(l) = LatestIn(sources, l, N) /\ Evidence(l) = EvidenceIn(sources, l, N)
  BY <1>3, LatestIsOfAll
<1>5. /\ Latest(l)' = LatestIn(sources', l, N + 1)
      /\ Evidence(l)' = EvidenceIn(sources', l, N + 1)
  <2>1. SourcesOf(l)' = Within(sources', l, N + 1)
    BY <1>3 DEF SourcesOf, Within
  <2>2. Latest(l)' = LatestIn(sources', l, N + 1)
    BY <2>1 DEF Latest, LatestIn, Better, Origin, OriginIn
  <2>3. QED
    BY <2>2 DEF Evidence, EvidenceIn
<1>6. /\ LatestIn(sources', l, n) = LatestIn(sources, l, n)
      /\ EvidenceIn(sources', l, n) = EvidenceIn(sources, l, n)
      /\ LatestIn(sources', l, N) = LatestIn(sources, l, N)
      /\ EvidenceIn(sources', l, N) = EvidenceIn(sources, l, N)
  BY <1>3, PastStays DEF PastIInv
<1>7. EvidenceIn(sources', l, N + 1) = EvidenceIn(sources', l, n)
  BY <1>1, <1>2, <1>5, <1>6 DEF Current
<1>8. LatestIn(sources', l, N + 1) = LatestIn(sources', l, n)
  BY <1>3, <1>7, EvidenceTellsLatest
<1>9. LatestIn(sources', l, N) = LatestIn(sources', l, n)
  BY <1>3, <1>8, LatestReturns
<1>10. Latest(l)' = Latest(l) /\ Evidence(l) = f.evidence
  BY <1>2, <1>4, <1>5, <1>6, <1>8, <1>9 DEF EvidenceIn
<1>11. Latest(l) \subseteq 1..N
  BY <1>4 DEF LatestIn, Within
<1>12. Severity(l)' = Severity(l)
  BY <1>10, <1>11, PastStays, SeverityOfLatest DEF PastIInv
<1>13. QED
  BY <1>1, <1>10, <1>12 DEF Current

\* A finding whose evidence has changed is never current again, however many
\* sources arrive afterwards and in whatever order (resolve_current's refusal is
\* final): no version comes twice, and one that was displaced as the latest of its
\* origin stays so.
THEOREM StalenessIsFinal == QueueSpec => StaleStaysStale
<1>. DEFINE Step == \/ InventoryNext /\ UNCHANGED queue
                    \/ QueueNext /\ UNCHANGED inventory
            Stale == \A f \in DOMAIN cases : ~Current(f) => ~Current(f)'
<1>1. InventoryInit /\ QueueInit => PastIInv
  <2>1. SUFFICES ASSUME InventoryInit, QueueInit PROVE VersionsDiffer(sources) /\ FindingsArePast
    BY InitIInv DEF PastIInv
  <2>2. Len(sources) = 0 /\ DOMAIN cases = {} /\ finding = NoFinding
    BY <2>1 DEF InventoryInit, QueueInit
  <2>3. QED
    BY <2>2 DEF VersionsDiffer, FindingsArePast
<1>2. PastIInv /\ [Step]_<<inventory, queue>> => PastIInv'
  BY PastKeeps
<1>3. PastIInv /\ [Step]_<<inventory, queue>> => [Stale]_<<sources, cases>>
  <2>1. SUFFICES ASSUME PastIInv, [Step]_<<inventory, queue>>, NEW f \in DOMAIN cases, ~Current(f)
        PROVE  ~Current(f)'
    OBVIOUS
  <2>2. CASE sources' = sources
    <3>1. Latest(f.listing)' = Latest(f.listing)
      BY <2>2 DEF Latest, SourcesOf, Origin
    <3>2. Evidence(f.listing)' = Evidence(f.listing)
      BY <2>2, <3>1 DEF Evidence
    <3>3. Severity(f.listing)' = Severity(f.listing)
      BY <2>2, <3>1, SeverityOfLatest
    <3>4. QED
      BY <2>1, <3>2, <3>3 DEF Current
  <2>3. CASE sources' # sources
    <3>1. PICK c \in Submission : AddSource(c)
      BY <2>1, <2>3 DEF InventoryNext, Endorse, RecordTrust, Tick, Move, BeginTransition,
         CommitTransition, BeginSweep, SweepOne, records, inventory
    <3>2. WasFound(f)
      BY <2>1 DEF PastIInv, FindingsArePast
    <3>3. QED
      BY <2>1, <3>1, <3>2, StaleStays
  <2>4. QED
    BY <2>2, <2>3
<1>. HIDE DEF Step, Stale
<1>4. InventoryInit /\ QueueInit /\ [][Step]_<<inventory, queue>> => [][Stale]_<<sources, cases>>
  BY <1>1, <1>2, <1>3, PTL
<1>5. QED
  BY <1>4 DEF QueueSpec, StaleStaysStale, Step, Stale
=============================================================================
