-------------------------- MODULE OcrChunks_proofs --------------------------
(***************************************************************************)
(* What holds of OcrChunks for every chunk size and overlap, every         *)
(* document, every number of retries and whatever the service answers: its *)
(* types, that the merged text has each page read once and in its place,   *)
(* and that what a page break has split is whole again.                    *)
(***************************************************************************)
EXTENDS OcrChunks, FiniteSetTheorems, TLAPS

----------------------------------------------------------------------------
\* Numbers, and functions defined by recursion

\* A set of numbers that is not empty has a smallest one.
LEMMA Smallest ==
    ASSUME NEW S \in SUBSET Nat, S # {}
    PROVE  \E m \in S : \A x \in S : m <= x
<1>1. PICK m \in S : \A x \in S : ~(<<x, m>> \in OpToRel(<, Nat))
  BY NatLessThanWellFounded, WFMin
<1>2. ASSUME NEW x \in S PROVE m <= x
  <2>1. x \in Nat /\ m \in Nat /\ ~(<<x, m>> \in OpToRel(<, Nat))
    BY <1>1
  <2> QED BY <2>1 DEF OpToRel
<1> QED BY <1>2

\* A bounded one has a largest.
LEMMA Largest ==
    ASSUME NEW n \in Nat, NEW S \in SUBSET (0 .. n), S # {}
    PROVE  \E m \in S : \A x \in S : x <= m
<1> DEFINE T == {n - x : x \in S}
<1>1. T \in SUBSET Nat /\ T # {}
  <2>1. \A x \in S : n - x \in Nat
    OBVIOUS
  <2> QED BY <2>1
<1>2. PICK t \in T : \A u \in T : t <= u
  <2> HIDE DEF T
  <2> QED BY <1>1, Smallest
<1>3. PICK m \in S : t = n - m
  OBVIOUS
<1>4. ASSUME NEW x \in S PROVE x <= m
  <2>1. t <= n - x
    BY <1>2
  <2> QED BY <1>3, <2>1
<1> QED BY <1>4

\* What holds of 0 and of a number whenever it holds of the one before holds of all.
LEMMA Upwards ==
    ASSUME NEW n \in Nat, NEW G \in SUBSET (0 .. n), 0 \in G,
           \A i \in 1 .. n : i - 1 \in G => i \in G
    PROVE  G = 0 .. n
<1>1. SUFFICES ASSUME (0 .. n) \ G # {} PROVE FALSE
  OBVIOUS
<1>2. PICK m \in (0 .. n) \ G : \A x \in (0 .. n) \ G : m <= x
  <2> DEFINE S == (0 .. n) \ G
  <2>1. S \in SUBSET Nat /\ S # {}
    BY <1>1
  <2> HIDE DEF S
  <2>2. \E m \in S : \A x \in S : m <= x
    BY <2>1, Smallest
  <2> QED BY <2>2 DEF S
<1>3. m \in 1 .. n /\ m - 1 \in 0 .. n
  OBVIOUS
<1>4. m - 1 \in G
  BY <1>2, <1>3
<1> QED BY <1>3, <1>4

\* A function given by its first value and the step from each value to the next exists.
Iterated(n, S, a, step) ==
    {f \in [0 .. n -> S] : f[0] = a /\ \A i \in 1 .. n : f[i] = step[i][f[i - 1]]}

LEMMA Recursion ==
    ASSUME NEW n \in Nat, NEW S, NEW a \in S, NEW step \in [1 .. n -> [S -> S]]
    PROVE  Iterated(n, S, a, step) # {}
<1> DEFINE Up(m, f) == f[0] = a /\ \A i \in 1 .. m : f[i] = step[i][f[i - 1]]
           G == {m \in 0 .. n : \E f \in [0 .. m -> S] : Up(m, f)}
<1>1. 0 \in G
  <2> DEFINE f == [i \in 0 .. 0 |-> a]
  <2>1. f \in [0 .. 0 -> S] /\ Up(0, f)
    OBVIOUS
  <2> HIDE DEF Up, f
  <2> QED BY <2>1
<1>2. ASSUME NEW m \in 1 .. n, m - 1 \in G PROVE m \in G
  <2>1. PICK f \in [0 .. m - 1 -> S] : Up(m - 1, f)
    BY <1>2
  <2> DEFINE g == [i \in 0 .. m |-> IF i = m THEN step[m][f[m - 1]] ELSE f[i]]
  <2>2. step[m] \in [S -> S] /\ f[m - 1] \in S
    OBVIOUS
  <2>3. g \in [0 .. m -> S]
    BY <2>2
  <2>4. g[0] = a
    BY <2>1
  <2>5. ASSUME NEW i \in 1 .. m PROVE g[i] = step[i][g[i - 1]]
    <3>1. g[i - 1] = f[i - 1]
      OBVIOUS
    <3>2. i # m => i \in 1 .. m - 1 /\ g[i] = f[i]
      OBVIOUS
    <3> QED BY <2>1, <3>1, <3>2
  <2>6. Up(m, g)
    BY <2>4, <2>5
  <2> HIDE DEF Up, g
  <2> QED BY <2>3, <2>6
<1>3. n \in G
  <2> HIDE DEF G
  <2>1. G \in SUBSET (0 .. n)
    BY DEF G
  <2> QED BY <1>1, <1>2, <2>1, Upwards
<1> QED BY <1>3 DEF Iterated

----------------------------------------------------------------------------
\* Sets of numbers in their order

LEMMA AscendingOrder ==
    ASSUME NEW n \in Nat, NEW S \in SUBSET (1 .. n)
    PROVE  /\ Cardinality(S) \in Nat /\ Ascending(S) \in [1 .. Cardinality(S) -> S]
           /\ \A x \in S : \E k \in 1 .. Cardinality(S) : Ascending(S)[k] = x
           /\ \A j, k \in 1 .. Cardinality(S) : j < k => Ascending(S)[j] < Ascending(S)[k]
           /\ \A k \in 1 .. Cardinality(S) :
                 Cardinality({y \in S : y <= Ascending(S)[k]}) = k
<1> DEFINE c == Cardinality(S)
           upTo(x) == {y \in S : y <= x}
           rank == [x \in S |-> Cardinality(upTo(x))]
           nth(k) == CHOOSE x \in S : Cardinality(upTo(x)) = k
<1>1. IsFiniteSet(S) /\ c \in Nat
  <2>1. IsFiniteSet(1 .. n)
    BY FS_Interval
  <2> QED BY <2>1, FS_Subset, FS_CardinalityType
<1>2. ASSUME NEW x \in S PROVE rank[x] \in 1 .. c
  <2>1. upTo(x) \in SUBSET S /\ upTo(x) # {}
    OBVIOUS
  <2>2. IsFiniteSet(upTo(x)) /\ Cardinality(upTo(x)) <= c
    BY <1>1, <2>1, FS_Subset
  <2>3. Cardinality(upTo(x)) \in Nat /\ Cardinality(upTo(x)) # 0
    BY <2>1, <2>2, FS_EmptySet, FS_CardinalityType
  <2> QED BY <1>1, <2>2, <2>3
<1>3. ASSUME NEW x \in S, NEW y \in S, x < y PROVE rank[x] < rank[y]
  <2>1. upTo(x) \in SUBSET upTo(y) /\ upTo(y) \in SUBSET S /\ y \in upTo(y) /\ y \notin upTo(x)
    <3>1. x \in Int /\ y \in Int /\ \A z \in S : z \in Int
      OBVIOUS
    <3>2. \A z \in S : z <= x => z <= y
      BY <1>3, <3>1
    <3>3. y <= y /\ ~(y <= x)
      BY <1>3, <3>1
    <3> QED BY <3>2, <3>3
  <2>2. IsFiniteSet(upTo(y))
    BY <1>1, <2>1, FS_Subset
  <2>3. /\ Cardinality(upTo(x)) <= Cardinality(upTo(y))
        /\ Cardinality(upTo(y)) = Cardinality(upTo(x)) => upTo(y) = upTo(x)
    BY <2>1, <2>2, FS_Subset
  <2>4. rank[x] \in Int /\ rank[y] \in Int /\ rank[x] = Cardinality(upTo(x))
        /\ rank[y] = Cardinality(upTo(y))
    BY <1>2
  <2> QED BY <2>1, <2>3, <2>4
<1>4. rank \in Injection(S, 1 .. c)
  <2>1. rank \in [S -> 1 .. c]
    BY <1>2
  <2>2. ASSUME NEW x \in S, NEW y \in S, rank[x] = rank[y] PROVE x = y
    <3>1. x \in Int /\ y \in Int /\ rank[x] \in Int
      BY <2>1
    <3> HIDE DEF rank
    <3> QED BY <1>3, <2>2, <3>1
  <2> HIDE DEF rank
  <2> QED BY <2>1, <2>2 DEF Injection, IsInjective
<1>5. rank \in Surjection(S, 1 .. c)
  <2>1. IsFiniteSet(1 .. c) /\ Cardinality(1 .. c) = c
    BY <1>1, FS_Interval
  <2> HIDE DEF rank
  <2> QED BY <1>4, <2>1, FS_Injection
<1>6. ASSUME NEW k \in 1 .. c PROVE nth(k) \in S /\ rank[nth(k)] = k
  <2>1. \E x \in S : rank[x] = k
    BY <1>5 DEF Surjection
  <2> QED BY <2>1
<1>7. ASSUME NEW x \in S PROVE \E k \in 1 .. c : nth(k) = x
  <2>1. rank[x] \in 1 .. c
    BY <1>2
  <2>2. nth(rank[x]) \in S /\ rank[nth(rank[x])] = rank[x]
    BY <1>6, <2>1
  <2>3. nth(rank[x]) = x
    <3> HIDE DEF rank, nth
    <3> QED BY <1>4, <2>2 DEF Injection, IsInjective
  <2> QED BY <2>1, <2>3
<1>8. ASSUME NEW j \in 1 .. c, NEW k \in 1 .. c, j < k PROVE nth(j) < nth(k)
  <2>1. /\ nth(j) \in S /\ nth(k) \in S /\ rank[nth(j)] = j /\ rank[nth(k)] = k
    BY <1>6
  <2>2. nth(k) < nth(j) => rank[nth(k)] < rank[nth(j)]
    BY <1>3, <2>1
  <2> HIDE DEF rank, nth
  <2>3. nth(j) \in Int /\ nth(k) \in Int /\ j \in Int /\ k \in Int
    <3>1. \A z \in S : z \in Int
      OBVIOUS
    <3>2. j \in Int /\ k \in Int
      BY <1>1
    <3> QED BY <2>1, <3>1, <3>2
  <2>4. nth(j) # nth(k)
    BY <1>8, <2>1, <2>3
  <2> QED BY <1>8, <2>1, <2>2, <2>3, <2>4
<1>9. Ascending(S) = [k \in 1 .. c |-> nth(k)]
  BY DEF Ascending
<1>10. \A k \in 1 .. c : Cardinality(upTo(nth(k))) = k
  BY <1>6
<1> HIDE DEF c, nth, rank
<1> QED BY <1>1, <1>6, <1>7, <1>8, <1>9, <1>10 DEF c

LEMMA AscendingOne ==
    ASSUME NEW n \in Nat, NEW x \in 1 .. n
    PROVE  Ascending({x}) = <<x>>
<1>1. Cardinality({x}) = 1
  BY FS_Singleton
<1>2. Ascending({x}) \in [1 .. 1 -> {x}]
  <2>1. {x} \in SUBSET (1 .. n)
    OBVIOUS
  <2> QED BY <1>1, <2>1, AscendingOrder
<1>3. Ascending({x})[1] = x /\ DOMAIN Ascending({x}) = 1 .. 1
  BY <1>2
<1> QED BY <1>2, <1>3

LEMMA AscendingAll ==
    ASSUME NEW n \in Nat
    PROVE  Ascending(1 .. n) = [i \in 1 .. n |-> i]
<1> DEFINE S == 1 .. n
           q == Ascending(S)
<1>1. Cardinality(S) = n
  BY FS_Interval
<1>2. /\ q \in [1 .. n -> S]
      /\ \A k \in 1 .. n : Cardinality({y \in S : y <= q[k]}) = k
  BY <1>1, AscendingOrder
<1>3. ASSUME NEW k \in 1 .. n PROVE q[k] = k
  <2>1. q[k] \in 1 .. n
    BY <1>2
  <2>2. {y \in S : y <= q[k]} = 1 .. q[k]
    BY <2>1
  <2>3. Cardinality(1 .. q[k]) = q[k]
    BY <2>1, FS_Interval
  <2> QED BY <1>2, <2>2, <2>3
<1> QED BY <1>2, <1>3

\* Pages in the order of their numbers.
LEMMA ByNumberList ==
    ASSUME NEW n \in Nat, NEW S, \A pg \in S : pg.number \in 1 .. n
    PROVE  \E c \in Nat : ByNumber(S) \in [1 .. c -> S]
<1> DEFINE N == {pg.number : pg \in S}
           q == Ascending(N)
           page(i) == CHOOSE pg \in S : pg.number = q[i]
<1>1. N \in SUBSET (1 .. n)
  OBVIOUS
<1>2. Cardinality(N) \in Nat /\ q \in [1 .. Cardinality(N) -> N]
  <2> HIDE DEF N
  <2> QED BY <1>1, AscendingOrder
<1>3. ASSUME NEW i \in DOMAIN q PROVE page(i) \in S
  <2>1. q[i] \in N
    BY <1>2
  <2>2. PICK pg \in S : pg.number = q[i]
    BY <2>1
  <2> QED BY <2>2
<1>4. ByNumber(S) = [i \in DOMAIN q |-> page(i)]
  BY DEF ByNumber
<1>5. DOMAIN q = 1 .. Cardinality(N)
  BY <1>2
<1> HIDE DEF q, page, N
<1>6. ByNumber(S) \in [1 .. Cardinality(N) -> S]
  BY <1>3, <1>4, <1>5
<1> QED BY <1>2, <1>6

----------------------------------------------------------------------------
\* The document and its chunks

LEMMA Document ==
    ASSUME layout \in Layouts
    PROVE  PageCount \in Nat \ {0} /\ 1 \in Pages /\ ~Continues(1)
<1>1. layout \in Seq(Kinds) /\ layout # <<>> /\ layout[1] \in {"text", "opens"}
  BY LayoutsAssumption
<1>2. Len(layout) \in Nat /\ Len(layout) # 0
  BY <1>1
<1> QED BY <1>1, <1>2 DEF PageCount, Pages, Continues

\* Every chunk has a page of the document, its first.
LEMMA ChunkHasPages ==
    ASSUME layout \in Layouts, NEW k \in ChunkIds(PageCount)
    PROVE  /\ k \in Nat /\ FirstPage(k) \in Nat /\ FirstPage(k) \in ChunkPages(k)
           /\ ChunkPages(k) \in SUBSET Pages
<1>1. PageCount \in Nat \ {0}
  BY Document
<1>2. CHUNK_SIZE \in Nat /\ CHUNK_OVERLAP \in Nat /\ CHUNK_SIZE - CHUNK_OVERLAP \in Nat
      /\ CHUNK_SIZE >= 1
  BY ChunkAssumption
<1>3. k \in Nat /\ k * (CHUNK_SIZE - CHUNK_OVERLAP) < PageCount
      /\ k * (CHUNK_SIZE - CHUNK_OVERLAP) \in Nat
  <2>1. CASE PageCount <= CHUNK_SIZE
    <3>1. k = 0
      BY <2>1 DEF ChunkIds
    <3> QED BY <1>1, <1>2, <3>1
  <2>2. CASE ~(PageCount <= CHUNK_SIZE)
    <3>1. k \in 0 .. PageCount /\ k * (CHUNK_SIZE - CHUNK_OVERLAP) < PageCount
      BY <2>2 DEF ChunkIds
    <3> QED BY <1>1, <1>2, <3>1
  <2> QED BY <2>1, <2>2
<1> DEFINE first == FirstPage(k)
<1>4. first \in Nat /\ first \in Pages
  BY <1>1, <1>3 DEF FirstPage, Pages
<1>5. first \in first .. first + CHUNK_SIZE - 1
  <2> HIDE DEF first
  <2> QED BY <1>2, <1>4
<1> QED BY <1>3, <1>4, <1>5 DEF ChunkPages

\* The pages of an answer are pages of the chunk, and an answer without page objects has
\* all of them.
LEMMA AnswerPages ==
    ASSUME layout \in Layouts, NEW k \in ChunkIds(PageCount), NEW answer \in Answers(k)
    PROVE  /\ answer.got \in SUBSET Pages /\ answer.got # {}
           /\ answer.labelled \in SUBSET Pages
           /\ answer.form # "pages" => answer.got = ChunkPages(k)
<1>1. FirstPage(k) \in ChunkPages(k) /\ ChunkPages(k) \in SUBSET Pages
  BY ChunkHasPages
<1> DEFINE some == (SUBSET ChunkPages(k)) \ {{}}
<1>2. CASE answer \in [form : {"pages"}, got : some, labelled : {{}}]
  <2> HIDE DEF some
  <2>1. answer.form = "pages" /\ answer.labelled = {} /\ answer.got \in some
    BY <1>2
  <2> QED BY <1>1, <2>1 DEF some
<1>3. CASE answer \in [form : {"text"}, got : {ChunkPages(k)}, labelled : SUBSET ChunkPages(k)]
  BY <1>1, <1>3
<1> QED BY <1>2, <1>3 DEF Answers

\* What is complete.
LEMMA CompleteAnswers ==
    ASSUME TypeOK, NEW k \in Complete
    PROVE  /\ layout \in Layouts /\ shift \in Nat
           /\ k \in ChunkIds(PageCount) /\ chunks[k].answer \in Answers(k)
<1>1. layout \in Layouts /\ shift \in Shifts /\ DOMAIN chunks = ChunkIds(PageCount)
  BY DEF TypeOK
<1>2. k \in DOMAIN chunks /\ chunks[k].status = "complete"
  BY DEF Complete
<1>3. chunks[k].answer \in Answers(k)
  BY <1>2 DEF TypeOK
<1> QED BY <1>1, <1>2, <1>3, ChunkAssumption

----------------------------------------------------------------------------
\* Types

\* A page of the text has a number within bounds and is made of pages of the document.
Extracted == [number : 1 .. PageCount + shift, pages : Seq(Pages)]

LEMMA AscendingPages ==
    ASSUME layout \in Layouts, NEW S \in SUBSET Pages
    PROVE  Ascending(S) \in Seq(Pages)
<1>1. PageCount \in Nat
  BY Document
<1>2. S \in SUBSET (1 .. PageCount)
  BY DEF Pages
<1>3. Cardinality(S) \in Nat /\ Ascending(S) \in [1 .. Cardinality(S) -> S]
  BY <1>1, <1>2, AscendingOrder
<1>4. Ascending(S) \in [1 .. Cardinality(S) -> Pages]
  BY <1>3
<1> QED BY <1>3, <1>4

LEMMA ExtractedPages ==
    ASSUME TypeOK, NEW k \in Complete
    PROVE  ExtractPages(k) \in SUBSET Extracted
<1>1. layout \in Layouts /\ shift \in Nat /\ k \in ChunkIds(PageCount)
      /\ chunks[k].answer \in Answers(k)
  BY CompleteAnswers
<1> DEFINE answer == chunks[k].answer
<1>2. /\ answer.got \in SUBSET Pages /\ answer.labelled \in SUBSET Pages
  BY <1>1, AnswerPages
<1>3. PageCount \in Nat /\ Pages = 1 .. PageCount
  BY <1>1, Document DEF Pages
<1>4. FirstPage(k) \in Nat /\ FirstPage(k) \in Pages
  BY <1>1, ChunkHasPages
<1>5. CASE answer.form = "pages"
  <2>1. ASSUME NEW p \in answer.got
        PROVE  Page(FirstPage(k) + (p - FirstPage(k) + 1) - 1, <<p>>) \in Extracted
    <3>1. FirstPage(k) + (p - FirstPage(k) + 1) - 1 \in 1 .. PageCount + shift
      BY <1>1, <1>2, <1>3, <1>4
    <3>2. <<p>> \in Seq(Pages)
      BY <1>2
    <3> HIDE DEF answer
    <3> QED BY <3>1, <3>2 DEF Page, Extracted
  <2> QED BY <1>5, <2>1 DEF ExtractPages
<1>6. CASE answer.form # "pages" /\ answer.labelled # {}
  <2>1. ExtractPages(k) = SplitAtLabels(answer)
    BY <1>6 DEF ExtractPages
  <2> HIDE DEF answer
  <2> DEFINE last == CHOOSE f \in answer.labelled : \A b \in answer.labelled : b <= f
             follows(p, f) == \A b \in answer.labelled : b < f => b < p
             ended(f) == {p \in answer.got : follows(p, f) /\ (p <= f \/ f = last)}
  <2>2. SplitAtLabels(answer) = {Page(f + shift, Ascending(ended(f))) : f \in answer.labelled}
    BY DEF SplitAtLabels
  <2>3. ASSUME NEW f \in answer.labelled
        PROVE  Page(f + shift, Ascending(ended(f))) \in Extracted
    <3>1. ended(f) \in SUBSET Pages
      BY <1>2
    <3> HIDE DEF ended
    <3>2. Ascending(ended(f)) \in Seq(Pages)
      BY <1>1, <3>1, AscendingPages
    <3>3. f + shift \in 1 .. PageCount + shift
      BY <1>1, <1>2, <1>3
    <3> QED BY <3>2, <3>3 DEF Page, Extracted
  <2> HIDE DEF ended
  <2> QED BY <2>1, <2>2, <2>3
<1>7. CASE answer.form # "pages" /\ answer.labelled = {}
  <2>1. ExtractPages(k) = {Page(FirstPage(k), Ascending(answer.got))}
    BY <1>7 DEF ExtractPages
  <2>2. Ascending(answer.got) \in Seq(Pages)
    BY <1>1, <1>2, AscendingPages
  <2>3. FirstPage(k) \in 1 .. PageCount + shift
    BY <1>1, <1>3, <1>4
  <2> HIDE DEF answer
  <2> QED BY <2>1, <2>2, <2>3 DEF Page, Extracted
<1> QED BY <1>5, <1>6, <1>7

LEMMA DeduplicatedPages ==
    ASSUME TypeOK
    PROVE  \E c \in Nat : DeduplicatePages \in [1 .. c -> Extracted]
<1> DEFINE extracted == [k \in Complete |-> ExtractPages(k)]
           numbers(k) == {pg.number : pg \in extracted[k]}
           seen(k) == UNION {numbers(j) : j \in {c \in Complete : c < k}}
           S == UNION {{pg \in extracted[k] : pg.number \notin seen(k)} : k \in Complete}
<1>1. DeduplicatePages = ByNumber(S)
  BY DEF DeduplicatePages
<1>2. \A k \in Complete : extracted[k] \in SUBSET Extracted
  BY ExtractedPages
<1>3. S \in SUBSET Extracted
  <2> HIDE DEF extracted, seen
  <2> QED BY <1>2
<1> HIDE DEF S
<1>4. PageCount + shift \in Nat
  <2>1. layout \in Layouts /\ shift \in Nat
    BY ChunkAssumption DEF TypeOK
  <2> QED BY <2>1, Document
<1>5. \A pg \in S : pg.number \in 1 .. PageCount + shift
  BY <1>3 DEF Extracted
<1>6. PICK c \in Nat : ByNumber(S) \in [1 .. c -> S]
  BY <1>4, <1>5, ByNumberList
<1>7. ByNumber(S) \in [1 .. c -> Extracted]
  BY <1>3, <1>6
<1> QED BY <1>1, <1>7

\* What Joined says of each page is what it defines: the recursion ends.
LEMMA JoinedEach ==
    ASSUME NEW c \in Nat, NEW S, NEW pgs \in [1 .. c -> S]
    PROVE  /\ Joined(pgs) \in [1 .. c + 1 -> BOOLEAN]
           /\ \A i \in 1 .. c + 1 :
                 Joined(pgs)[i] <=> /\ i \in 2 .. c
                                    /\ ~Joined(pgs)[i - 1]
                                    /\ Open(Last(pgs[i - 1].pages)) /\ Continues(Head(pgs[i].pages))
<1> DEFINE splits(i) == Open(Last(pgs[i - 1].pages)) /\ Continues(Head(pgs[i].pages))
           D == 1 .. c + 1
           bits == {0, 1}
           step == [i \in 1 .. c |-> [b \in bits |->
                       IF i + 1 \in 2 .. c /\ b = 0 /\ splits(i + 1) THEN 1 ELSE 0]]
           joined[i \in D] == i \in 2 .. c /\ ~joined[i - 1] /\ splits(i)
<1>1. step \in [1 .. c -> [bits -> bits]] /\ 0 \in bits
  <2> HIDE DEF splits
  <2> QED OBVIOUS
<1>2. PICK f \in [0 .. c -> bits] :
          f[0] = 0 /\ \A i \in 1 .. c : f[i] = step[i][f[i - 1]]
  <2> HIDE DEF step, bits
  <2>1. Iterated(c, bits, 0, step) # {}
    BY <1>1, Recursion
  <2> QED BY <2>1 DEF Iterated
<1> DEFINE g == [i \in D |-> f[i - 1] = 1]
<1>3. g = [i \in D |-> i \in 2 .. c /\ ~g[i - 1] /\ splits(i)]
  <2>0. \A i \in D : g[i] <=> f[i - 1] = 1
    BY Zenon
  <2>1. ASSUME NEW i \in D PROVE g[i] <=> (i \in 2 .. c /\ ~g[i - 1] /\ splits(i))
    <3> HIDE DEF splits
    <3>1. CASE i = 1
      <4>1. ~g[i] /\ i \notin 2 .. c
        <5> HIDE DEF g
        <5> QED BY <1>2, <2>0, <3>1
      <4> QED BY <4>1
    <3>2. CASE i # 1
      <4> DEFINE j == i - 1
      <4>1. /\ j \in 1 .. c /\ j + 1 = i /\ j \in D /\ j - 1 \in 0 .. c
        BY <3>2
      <4>4. (g[i] <=> f[j] = 1) /\ (g[j] <=> f[j - 1] = 1)
        <5> HIDE DEF g, D
        <5> QED BY <2>0, <4>1
      <4>2. f[j - 1] \in bits /\ f[j] = step[j][f[j - 1]]
        BY <1>2, <4>1
      <4>3. step[j][f[j - 1]] = IF j + 1 \in 2 .. c /\ f[j - 1] = 0 /\ splits(j + 1) THEN 1 ELSE 0
        BY <4>1, <4>2
      <4> HIDE DEF step, g
      <4> QED BY <4>1, <4>2, <4>3, <4>4
    <3> QED BY <3>1, <3>2
  <2> HIDE DEF splits, D
  <2> QED BY <2>1, Zenon
<1>4. joined = [i \in D |-> i \in 2 .. c /\ ~joined[i - 1] /\ splits(i)]
  <2> HIDE DEF g, splits, D
  <2> QED BY <1>3, Zenon
<1>5. Joined(pgs) = joined
  <2>1. Len(pgs) = c
    OBVIOUS
  <2> QED BY <2>1, Zenon DEF Joined
<1> HIDE DEF joined
<1>6. joined \in [D -> BOOLEAN]
  BY <1>4, Zenon
<1>7. ASSUME NEW i \in D PROVE joined[i] <=> (i \in 2 .. c /\ ~joined[i - 1] /\ splits(i))
  <2> HIDE DEF splits, D
  <2> QED BY <1>4, Zenon
<1> QED BY <1>5, <1>6, <1>7

LEMMA JoinedPages ==
    ASSUME NEW T, NEW c \in Nat, NEW pgs \in [1 .. c -> [number : T, pages : Seq(Pages)]]
    PROVE  JoinTables(pgs) \in [1 .. c -> [number : T, pages : Seq(Pages)]]
<1> DEFINE joined == Joined(pgs)
           text(i) == IF joined[i] THEN <<>>
                      ELSE IF joined[i + 1] THEN pgs[i].pages \o pgs[i + 1].pages
                      ELSE pgs[i].pages
<1>1. JoinTables(pgs) = [i \in 1 .. c |-> Page(pgs[i].number, text(i))]
  BY DEF JoinTables
<1>2. \A i \in 1 .. c + 1 : joined[i] => i \in 2 .. c
  BY JoinedEach
<1>3. ASSUME NEW i \in 1 .. c PROVE pgs[i].number \in T /\ text(i) \in Seq(Pages)
  <2> HIDE DEF joined
  <2>1. pgs[i].number \in T /\ pgs[i].pages \in Seq(Pages)
    OBVIOUS
  <2>2. joined[i + 1] => i + 1 \in 1 .. c
    BY <1>2
  <2>3. joined[i + 1] => pgs[i + 1].pages \in Seq(Pages)
    BY <2>2
  <2> QED BY <2>1, <2>3
<1> HIDE DEF text
<1> QED BY <1>1, <1>3 DEF Page

\* merge_chunked_outputs
MergedPages == IF Cardinality(Complete) = 1 THEN DeduplicatePages ELSE JoinTables(DeduplicatePages)

\* What is merged is always what MergeStage makes of the chunks.
MergedOK == stage = "merged" => merged = MergedPages

MergeInv == TypeOK /\ MergedOK

LEMMA MergedType ==
    ASSUME TypeOK
    PROVE  \E c \in Nat : MergedPages \in [1 .. c -> Extracted]
<1>1. PICK c \in Nat : DeduplicatePages \in [1 .. c -> Extracted]
  BY DeduplicatedPages
<1>2. JoinTables(DeduplicatePages) \in [1 .. c -> Extracted]
  BY <1>1, JoinedPages DEF Extracted
<1> QED BY <1>1, <1>2 DEF MergedPages

LEMMA InitTypes == Init => MergeInv
<1> SUFFICES ASSUME Init PROVE MergeInv
  OBVIOUS
<1>1. /\ layout \in Layouts /\ shift \in Shifts /\ stage = "ocr" /\ merged = <<>> /\ reruns = 0
      /\ chunks = Pending
  BY DEF Init
<1>2. reruns \in 0 .. MaxReruns /\ 0 \in 0 .. MAX_RETRIES - 1
  BY <1>1, ChunkAssumption
<1>3. \A i \in DOMAIN merged : Range(merged[i].pages) \subseteq Pages
  BY <1>1
<1> QED BY <1>1, <1>2, <1>3 DEF MergeInv, MergedOK, TypeOK, Pending, ChunkResult

\* A step keeps the types of the chunks where each result is still of one of the kinds.
ResultOK(r, k) ==
    \/ /\ r.status = "complete" /\ r.answer \in Answers(k) /\ r.tries = 0 /\ r.credits
    \/ /\ r.status = "pending" /\ r.answer = NoAnswer
       /\ r.tries \in 0 .. MAX_RETRIES - 1 /\ r.credits
    \/ /\ r.status = "failed" /\ r.answer = NoAnswer /\ r.tries = 0 /\ r.credits \in BOOLEAN

LEMMA ResultKept ==
    ASSUME MergeInv, NEW k \in DOMAIN chunks, NEW r, ResultOK(r, k), stage = "ocr",
           chunks' = [chunks EXCEPT ![k] = r], UNCHANGED <<layout, shift, stage, merged, reruns>>
    PROVE  MergeInv'
<1>1. DOMAIN chunks' = DOMAIN chunks /\ chunks'[k] = r
      /\ \A j \in DOMAIN chunks : j # k => chunks'[j] = chunks[j]
  OBVIOUS
<1>2. PageCount' = PageCount /\ Pages' = Pages
  BY DEF PageCount, Pages
<1>3. \A j : Answers(j)' = Answers(j)
  BY <1>2 DEF Answers, ChunkPages, FirstPage
<1>4. ASSUME NEW j \in DOMAIN chunks'
      PROVE  \/ /\ chunks'[j].status = "complete" /\ chunks'[j].answer \in Answers(j)
                /\ chunks'[j].tries = 0 /\ chunks'[j].credits
             \/ /\ chunks'[j].status = "pending" /\ chunks'[j].answer = NoAnswer
                /\ chunks'[j].tries \in 0 .. MAX_RETRIES - 1 /\ chunks'[j].credits
             \/ /\ chunks'[j].status = "failed" /\ chunks'[j].answer = NoAnswer
                /\ chunks'[j].tries = 0 /\ chunks'[j].credits \in BOOLEAN
  <2>1. CASE j = k
    BY <1>1, <2>1 DEF ResultOK
  <2>2. CASE j # k
    <3>1. j \in DOMAIN chunks /\ chunks'[j] = chunks[j]
      BY <1>1, <2>2
    <3> QED BY <3>1 DEF MergeInv, TypeOK
  <2> QED BY <2>1, <2>2
<1>5. TypeOK'
  BY <1>1, <1>2, <1>3, <1>4 DEF MergeInv, TypeOK
<1> QED BY <1>5 DEF MergeInv, MergedOK

LEMMA SucceedKeeps ==
    ASSUME MergeInv, NEW k \in DOMAIN chunks, Succeed(k)
    PROVE  MergeInv'
<1>1. PICK answer \in Answers(k) :
          chunks' = [chunks EXCEPT ![k] = ChunkResult("complete", 0, TRUE, answer)]
  BY DEF Succeed
<1>2. ResultOK(ChunkResult("complete", 0, TRUE, answer), k)
  BY DEF ResultOK, ChunkResult
<1> QED BY <1>1, <1>2, ResultKept DEF Succeed

LEMMA FailCallKeeps ==
    ASSUME MergeInv, NEW k \in DOMAIN chunks, FailCall(k)
    PROVE  MergeInv'
<1> DEFINE tries == chunks[k].tries + 1
           r == IF tries < MAX_RETRIES THEN ChunkResult("pending", tries, TRUE, NoAnswer)
                ELSE ChunkResult("failed", 0, TRUE, NoAnswer)
<1>1. chunks[k].status = "pending" /\ chunks' = [chunks EXCEPT ![k] = r]
  BY DEF FailCall
<1>2. chunks[k].tries \in 0 .. MAX_RETRIES - 1
  BY <1>1 DEF MergeInv, TypeOK
<1>3. MAX_RETRIES \in Nat
  BY ChunkAssumption
<1>4. CASE tries < MAX_RETRIES
  <2>1. tries \in 0 .. MAX_RETRIES - 1
    BY <1>2, <1>3, <1>4
  <2> HIDE DEF tries
  <2>2. ResultOK(r, k)
    BY <1>4, <2>1 DEF ResultOK, ChunkResult
  <2> HIDE DEF r
  <2> QED BY <1>1, <2>2, ResultKept DEF FailCall
<1>5. CASE ~(tries < MAX_RETRIES)
  <2> HIDE DEF tries
  <2>2. ResultOK(r, k)
    BY <1>5 DEF ResultOK, ChunkResult
  <2> HIDE DEF r
  <2> QED BY <1>1, <2>2, ResultKept DEF FailCall
<1> QED BY <1>4, <1>5

LEMMA RunOutKeeps ==
    ASSUME MergeInv, NEW k \in DOMAIN chunks, RunOut(k)
    PROVE  MergeInv'
<1>1. ResultOK(ChunkResult("failed", 0, FALSE, NoAnswer), k)
  BY DEF ResultOK, ChunkResult
<1> QED BY <1>1, ResultKept DEF RunOut

\* Where the stage alone changes, and to one that has no text.
LEMMA StageKeeps ==
    ASSUME MergeInv, merged = <<>>, stage' \in {"ocr", "ocr_done", "failed", "waiting"},
           UNCHANGED <<layout, shift, chunks, merged, reruns>>
    PROVE  MergeInv'
<1>1. PageCount' = PageCount /\ Pages' = Pages
  BY DEF PageCount, Pages
<1>2. \A j : Answers(j)' = Answers(j)
  BY <1>1 DEF Answers, ChunkPages, FirstPage
<1>3. TypeOK'
  BY <1>1, <1>2 DEF MergeInv, TypeOK
<1> QED BY <1>3 DEF MergeInv, MergedOK

LEMMA RerunKeeps == MergeInv /\ Rerun => MergeInv'
<1> SUFFICES ASSUME MergeInv, Rerun PROVE MergeInv'
  OBVIOUS
<1>1. /\ stage' = "ocr" /\ chunks' = Pending /\ merged' = merged /\ layout' = layout /\ shift' = shift
      /\ reruns' = reruns + 1 /\ reruns < MaxReruns /\ stage # "merged"
  BY DEF Rerun
<1>2. layout \in Layouts /\ shift \in Shifts /\ reruns \in 0 .. MaxReruns /\ merged = <<>>
  BY <1>1 DEF MergeInv, TypeOK
<1>3. PageCount' = PageCount
  BY <1>1 DEF PageCount
<1>4. reruns' \in 0 .. MaxReruns /\ 0 \in 0 .. MAX_RETRIES - 1
  BY <1>1, <1>2, ChunkAssumption
<1>5. TypeOK'
  BY <1>1, <1>2, <1>3, <1>4 DEF TypeOK, Pending, ChunkResult
<1> QED BY <1>1, <1>5 DEF MergeInv, MergedOK

LEMMA MergedSame ==
    ASSUME UNCHANGED <<layout, shift, chunks>>
    PROVE  MergedPages' = MergedPages
BY DEF MergedPages, DeduplicatePages, ExtractPages, SplitAtLabels, Complete, FirstPage, Page,
       JoinTables, Joined, Open, Continues

LEMMA MergeStageKeeps == MergeInv /\ MergeStage => MergeInv'
<1> SUFFICES ASSUME MergeInv, MergeStage PROVE MergeInv'
  OBVIOUS
<1>1. /\ stage' = "merged" /\ merged' = MergedPages
      /\ UNCHANGED <<layout, shift, chunks, reruns>>
  BY DEF MergeStage, MergedPages
<1>2. PICK c \in Nat : merged' \in [1 .. c -> Extracted]
  BY <1>1, MergedType DEF MergeInv
<1>3. PageCount' = PageCount /\ Pages' = Pages
  BY <1>1 DEF PageCount, Pages
<1>4. \A j : Answers(j)' = Answers(j)
  BY <1>1, <1>3 DEF Answers, ChunkPages, FirstPage
<1>5. ASSUME NEW i \in DOMAIN merged' PROVE Range(merged'[i].pages) \subseteq Pages
  <2>1. merged'[i].pages \in Seq(Pages)
    BY <1>2 DEF Extracted
  <2> QED BY <2>1 DEF Range
<1>6. TypeOK'
  BY <1>1, <1>3, <1>4, <1>5 DEF MergeInv, TypeOK
<1>7. MergedPages' = MergedPages
  BY <1>1, MergedSame
<1> QED BY <1>1, <1>6, <1>7 DEF MergeInv, MergedOK

LEMMA StutterKeeps == MergeInv /\ UNCHANGED vars => MergeInv'
<1> SUFFICES ASSUME MergeInv, UNCHANGED vars PROVE MergeInv'
  OBVIOUS
<1>1. UNCHANGED <<layout, shift, stage, chunks, merged, reruns>>
  BY DEF vars
<1>2. PageCount' = PageCount /\ Pages' = Pages
  BY <1>1 DEF PageCount, Pages
<1>3. \A j : Answers(j)' = Answers(j)
  BY <1>1, <1>2 DEF Answers, ChunkPages, FirstPage
<1>4. TypeOK'
  BY <1>1, <1>2, <1>3 DEF MergeInv, TypeOK
<1>5. MergedPages' = MergedPages
  BY <1>1, MergedSame
<1> QED BY <1>1, <1>4, <1>5 DEF MergeInv, MergedOK

LEMMA NextKeeps == MergeInv /\ [Next]_vars => MergeInv'
<1> SUFFICES ASSUME MergeInv, [Next]_vars PROVE MergeInv'
  OBVIOUS
<1>1. ASSUME NEW k \in DOMAIN chunks, Succeed(k) \/ FailCall(k) \/ RunOut(k) PROVE MergeInv'
  BY <1>1, SucceedKeeps, FailCallKeeps, RunOutKeeps
<1>2. CASE CannotStart
  BY <1>2, StageKeeps DEF CannotStart, MergeInv, TypeOK
<1>3. CASE Judge
  BY <1>3, StageKeeps DEF Judge, MergeInv, TypeOK
<1>4. CASE MergeStage
  BY <1>4, MergeStageKeeps
<1>5. CASE Rerun
  BY <1>5, RerunKeeps
<1>6. CASE UNCHANGED vars
  BY <1>6, StutterKeeps
<1> QED BY <1>1, <1>2, <1>3, <1>4, <1>5, <1>6 DEF Next

LEMMA MergeInvariant == Spec => []MergeInv
<1> QED BY InitTypes, NextKeeps, PTL DEF Spec

\* Whatever the service answers and however often a call fails: a chunk is tried again
\* within its bound, its result is of one of the kinds _process_single_pdf can leave, and
\* the merged text is made of pages of the document.
THEOREM TypeCorrect == Spec => []TypeOK
<1>1. MergeInv => TypeOK
  BY DEF MergeInv
<1> QED BY <1>1, MergeInvariant, PTL

----------------------------------------------------------------------------
\* The text, where every page has the number it has in the document

LEMMA Chunked ==
    ASSUME TypeOK
    PROVE  /\ layout \in Layouts /\ PageCount \in Nat \ {0} /\ Pages = 1 .. PageCount
           /\ Complete \in SUBSET Nat /\ ReadPages \in SUBSET Pages
<1>1. layout \in Layouts
  BY DEF TypeOK
<1>2. ASSUME NEW k \in Complete PROVE k \in Nat /\ chunks[k].answer.got \in SUBSET Pages
  <2>1. k \in ChunkIds(PageCount) /\ chunks[k].answer \in Answers(k)
    BY CompleteAnswers
  <2> QED BY <1>1, <2>1, ChunkHasPages, AnswerPages
<1> QED BY <1>1, <1>2, Document DEF Pages, ReadPages

\* A label at the end of each page cuts the text of a chunk into its pages.
LEMMA LabelsAreEnds ==
    ASSUME layout \in Layouts, NEW answer, answer.got \in SUBSET Pages,
           answer.labelled = answer.got, answer.got # {}, shift = 0
    PROVE  SplitAtLabels(answer) = {Page(p, <<p>>) : p \in answer.got}
<1> DEFINE got == answer.got
           last == CHOOSE f \in answer.labelled : \A b \in answer.labelled : b <= f
           follows(p, f) == \A b \in answer.labelled : b < f => b < p
           ended(f) == {p \in answer.got : follows(p, f) /\ (p <= f \/ f = last)}
<1>1. PageCount \in Nat /\ got \in SUBSET (0 .. PageCount) /\ got \in SUBSET (1 .. PageCount)
  BY Document DEF Pages
<1>2. last \in got /\ \A b \in got : b <= last
  <2> HIDE DEF got
  <2>1. got # {}
    BY DEF got
  <2>2. \E m \in got : \A b \in got : b <= m
    BY <1>1, <2>1, Largest
  <2> QED BY <2>2 DEF got
<1>3. ASSUME NEW f \in got PROVE ended(f) = {f}
  <2>1. ended(f) = {p \in got : (\A b \in got : b < f => b < p) /\ (p <= f \/ f = last)}
    OBVIOUS
  <2> HIDE DEF got, ended, last
  <2>2. \A p \in got : p \in Int
    BY <1>1
  <2>3. ASSUME NEW p \in got, \A b \in got : b < f => b < p, p <= f \/ f = last PROVE p = f
    <3>1. p <= f
      BY <1>2, <2>3
    <3>2. ~(p < f)
      BY <2>2, <2>3
    <3> QED BY <2>2, <3>1, <3>2
  <2>4. f <= f /\ \A b \in got : b < f => b < f
    BY <2>2
  <2> QED BY <2>1, <2>3, <2>4
<1>4. ASSUME NEW f \in got PROVE Page(f + shift, Ascending(ended(f))) = Page(f, <<f>>)
  <2> HIDE DEF got, ended
  <2>1. f \in 1 .. PageCount /\ f + shift = f
    BY <1>1
  <2>2. Ascending({f}) = <<f>>
    BY <1>1, <2>1, AscendingOne
  <2> QED BY <1>3, <2>1, <2>2
<1>5. SplitAtLabels(answer) = {Page(f + shift, Ascending(ended(f))) : f \in got}
  BY DEF SplitAtLabels
<1> HIDE DEF ended, got
<1> QED BY <1>4, <1>5 DEF got

LEMMA FaithfulPages ==
    ASSUME TypeOK, NEW k \in Complete, Numbered(k)
    PROVE  ExtractPages(k) = {Page(p, <<p>>) : p \in chunks[k].answer.got}
<1> DEFINE answer == chunks[k].answer
<1>1. layout \in Layouts /\ k \in ChunkIds(PageCount) /\ answer \in Answers(k)
  BY CompleteAnswers
<1>2. /\ answer.got \in SUBSET Pages /\ answer.got # {}
      /\ answer.form # "pages" => answer.got = ChunkPages(k)
  BY <1>1, AnswerPages
<1>3. FirstPage(k) \in Nat /\ PageCount \in Nat /\ Pages = 1 .. PageCount
  BY <1>1, ChunkHasPages, Document DEF Pages
<1>4. answer.form = "pages" \/ (answer.labelled = ChunkPages(k) /\ shift = 0)
  BY DEF Numbered
<1>5. CASE answer.form = "pages"
  <2> DEFINE got == answer.got
             number(p) == FirstPage(k) + (p - FirstPage(k) + 1) - 1
  <2>1. ExtractPages(k) = {Page(number(p), <<p>>) : p \in got}
    BY <1>5 DEF ExtractPages
  <2>2. ASSUME NEW p \in got PROVE number(p) = p
    <3>1. p \in Int
      BY <1>2, <1>3
    <3> HIDE DEF got
    <3> QED BY <1>3, <3>1
  <2> HIDE DEF number, got
  <2>3. {Page(number(p), <<p>>) : p \in got} = {Page(p, <<p>>) : p \in got}
    BY <2>2
  <2> QED BY <2>1, <2>3 DEF got
<1>6. CASE answer.form # "pages"
  <2>1. answer.labelled = answer.got /\ shift = 0
    BY <1>2, <1>4, <1>6
  <2>2. ExtractPages(k) = SplitAtLabels(answer)
    BY <1>2, <1>6, <2>1 DEF ExtractPages
  <2> HIDE DEF answer
  <2>3. SplitAtLabels(answer) = {Page(p, <<p>>) : p \in answer.got}
    BY <1>1, <1>2, <2>1, LabelsAreEnds
  <2> QED BY <2>2, <2>3 DEF answer
<1> QED BY <1>5, <1>6

\* Of the pages that several chunks have read, one is kept.
LEMMA FaithfulSet ==
    ASSUME TypeOK, Faithful
    PROVE  DeduplicatePages = ByNumber({Page(p, <<p>>) : p \in ReadPages})
<1> DEFINE extracted == [k \in Complete |-> ExtractPages(k)]
           numbers(k) == {pg.number : pg \in extracted[k]}
           seen(k) == UNION {numbers(j) : j \in {c \in Complete : c < k}}
           kept(k) == {pg \in extracted[k] : pg.number \notin seen(k)}
           got(k) == chunks[k].answer.got
           R == {Page(p, <<p>>) : p \in ReadPages}
<1>1. DeduplicatePages = ByNumber(UNION {kept(k) : k \in Complete})
  BY DEF DeduplicatePages
<1>2. ASSUME NEW k \in Complete PROVE extracted[k] = {Page(p, <<p>>) : p \in got(k)}
  BY FaithfulPages DEF Faithful
<1>3. \A p : Page(p, <<p>>).number = p
  BY DEF Page
<1>4. ASSUME NEW k \in Complete, NEW pg \in kept(k) PROVE pg \in R
  <2>1. PICK p \in got(k) : pg = Page(p, <<p>>)
    <3> HIDE DEF extracted, got
    <3> QED BY <1>2
  <2>2. p \in ReadPages
    BY <2>1 DEF ReadPages
  <2> QED BY <2>1, <2>2
<1>5. ASSUME NEW p \in ReadPages PROVE \E k \in Complete : Page(p, <<p>>) \in kept(k)
  <2> DEFINE K == {k \in Complete : p \in got(k)}
  <2>1. K \in SUBSET Nat /\ K # {}
    <3>1. Complete \in SUBSET Nat
      BY Chunked
    <3> QED BY <3>1 DEF ReadPages
  <2>2. PICK k \in K : \A j \in K : k <= j
    <3> HIDE DEF K
    <3> QED BY <2>1, Smallest
  <2>3. k \in Complete /\ p \in got(k) /\ Page(p, <<p>>) \in extracted[k]
    <3> HIDE DEF extracted
    <3> QED BY <1>2
  <2>4. ASSUME NEW j \in Complete, j < k PROVE p \notin numbers(j)
    <3>1. j \in Nat /\ k \in Nat
      BY <2>1, <2>3, Chunked
    <3>2. j \notin K
      <4> HIDE DEF K
      <4> QED BY <2>2, <2>4, <3>1
    <3>3. p \notin got(j)
      BY <3>2
    <3>4. extracted[j] = {Page(b, <<b>>) : b \in got(j)}
      BY <1>2
    <3> HIDE DEF extracted, got
    <3> QED BY <1>3, <3>3, <3>4
  <2>5. p \notin seen(k)
    <3> HIDE DEF numbers
    <3> QED BY <2>4
  <2> HIDE DEF seen, extracted, got, K
  <2> QED BY <1>3, <2>3, <2>5
<1>6. UNION {kept(k) : k \in Complete} = R
  <2> HIDE DEF kept
  <2>1. \A pg \in R : pg \in UNION {kept(k) : k \in Complete}
    BY <1>5
  <2> HIDE DEF R
  <2> QED BY <1>4, <2>1
<1> QED BY <1>1, <1>6

\* The pages read, in their order.
InOrder == Ascending(ReadPages)
Read == Cardinality(ReadPages)

LEMMA FaithfulList ==
    ASSUME TypeOK, Faithful
    PROVE  /\ Read \in Nat /\ InOrder \in [1 .. Read -> ReadPages]
           /\ DeduplicatePages = [i \in 1 .. Read |-> Page(InOrder[i], <<InOrder[i]>>)]
<1> DEFINE R == {Page(p, <<p>>) : p \in ReadPages}
           page(i) == CHOOSE pg \in R : pg.number = InOrder[i]
<1>1. Read \in Nat /\ InOrder \in [1 .. Read -> ReadPages]
  <2>1. PageCount \in Nat /\ ReadPages \in SUBSET (1 .. PageCount)
    BY Chunked
  <2> QED BY <2>1, AscendingOrder DEF Read, InOrder
<1>2. \A p : Page(p, <<p>>).number = p
  BY DEF Page
<1>3. {pg.number : pg \in R} = ReadPages
  <2>1. \A pg \in R : pg.number \in ReadPages
    BY <1>2
  <2>2. \A p \in ReadPages : \E pg \in R : pg.number = p
    BY <1>2
  <2> HIDE DEF R
  <2> QED BY <2>1, <2>2
<1>4. ByNumber(R) = [i \in DOMAIN InOrder |-> page(i)]
  <2> DEFINE N == {pg.number : pg \in R}
  <2>1. ByNumber(R) = [i \in DOMAIN Ascending(N) |-> CHOOSE pg \in R : pg.number = Ascending(N)[i]]
    BY DEF ByNumber
  <2>2. N = ReadPages
    BY <1>3
  <2> HIDE DEF R, N
  <2> QED BY <2>1, <2>2, Zenon DEF InOrder
<1>5. ASSUME NEW i \in 1 .. Read PROVE page(i) = Page(InOrder[i], <<InOrder[i]>>)
  <2> DEFINE p == InOrder[i]
  <2>1. p \in ReadPages
    BY <1>1
  <2>2. Page(p, <<p>>) \in R /\ Page(p, <<p>>).number = p
    BY <1>2, <2>1
  <2>3. ASSUME NEW pg \in R, pg.number = p PROVE pg = Page(p, <<p>>)
    BY <1>2, <2>3
  <2> HIDE DEF R
  <2> QED BY <2>2, <2>3
<1>6. DOMAIN InOrder = 1 .. Read
  BY <1>1
<1> HIDE DEF page, R
<1>7. ByNumber(R) = [i \in 1 .. Read |-> Page(InOrder[i], <<InOrder[i]>>)]
  BY <1>4, <1>5, <1>6
<1> QED BY <1>1, <1>7, FaithfulSet DEF R

\* Each page of the list is one page read, or it and the next one, or empty where it was
\* added to the one before.
Split(J, i) == ~J[i - 1] /\ Open(InOrder[i - 1]) /\ Continues(InOrder[i])

JoinedBy(J) ==
    /\ J \in [1 .. Read + 1 -> BOOLEAN]
    /\ merged \in [1 .. Read -> Extracted]
    /\ \A i \in 1 .. Read + 1 : J[i] => i \in 2 .. Read /\ Split(J, i)
    /\ \A i \in 1 .. Read :
          merged[i].pages = IF J[i] THEN <<>>
                            ELSE IF J[i + 1] THEN <<InOrder[i], InOrder[i + 1]>>
                            ELSE <<InOrder[i]>>
    /\ Cardinality(Complete) # 1 => \A i \in 2 .. Read : Split(J, i) => J[i]

LEMMA TwoPages ==
    ASSUME NEW a, NEW b
    PROVE  <<a>> \o <<b>> = <<a, b>>
<1> DEFINE S == {a, b}
<1>1. <<a>> \in Seq(S) /\ <<b>> \in Seq(S)
  OBVIOUS
<1>2. /\ <<a>> \o <<b>> \in Seq(S) /\ Len(<<a>> \o <<b>>) = 2
      /\ (<<a>> \o <<b>>)[1] = a /\ (<<a>> \o <<b>>)[2] = b
  <2> HIDE DEF S
  <2> QED BY <1>1
<1> DEFINE s == <<a>> \o <<b>>
<1>3. s \in Seq(S) /\ Len(s) = 2 /\ s[1] = a /\ s[2] = b
  BY <1>2
<1> HIDE DEF s, S
<1>4. s = <<a, b>>
  BY <1>3
<1> QED BY <1>4 DEF s

LEMMA FaithfulMerge ==
    ASSUME MergeInv, Faithful
    PROVE  \E J : JoinedBy(J)
<1> DEFINE D == DeduplicatePages
<1>1. TypeOK /\ merged = MergedPages
  BY DEF MergeInv, MergedOK, Faithful
<1>2. Read \in Nat /\ InOrder \in [1 .. Read -> ReadPages]
      /\ D = [i \in 1 .. Read |-> Page(InOrder[i], <<InOrder[i]>>)]
  BY <1>1, FaithfulList
<1>3. merged \in [1 .. Read -> Extracted]
  <2>1. PICK c \in Nat : D \in [1 .. c -> Extracted]
    BY <1>1, DeduplicatedPages
  <2> HIDE DEF D
  <2>2. D \in [1 .. Read -> Extracted]
    BY <1>2, <2>1
  <2>3. JoinTables(D) \in [1 .. Read -> Extracted]
    BY <1>2, <2>2, JoinedPages DEF Extracted
  <2> QED BY <1>1, <2>2, <2>3 DEF MergedPages, D
<1>4. \A i \in 1 .. Read : D[i].pages = <<InOrder[i]>>
  <2> HIDE DEF D
  <2> QED BY <1>2 DEF Page
<1>5. CASE Cardinality(Complete) = 1
  <2> DEFINE J == [i \in 1 .. Read + 1 |-> FALSE]
  <2>1. merged = D
    BY <1>1, <1>5 DEF MergedPages
  <2>2. \A i \in 1 .. Read + 1 : ~J[i]
    OBVIOUS
  <2>3. \A i \in 1 .. Read : i + 1 \in 1 .. Read + 1 /\ i \in 1 .. Read + 1
    BY <1>2
  <2>4. J \in [1 .. Read + 1 -> BOOLEAN]
    OBVIOUS
  <2> HIDE DEF J, D
  <2>5. JoinedBy(J)
    BY <1>3, <1>4, <1>5, <2>1, <2>2, <2>3, <2>4 DEF JoinedBy
  <2> QED BY <2>5
<1>6. CASE Cardinality(Complete) # 1
  <2> DEFINE J == Joined(D)
             text(i) == IF J[i] THEN <<>>
                        ELSE IF J[i + 1] THEN D[i].pages \o D[i + 1].pages
                        ELSE D[i].pages
  <2>1. merged = JoinTables(D) /\ DOMAIN D = 1 .. Read
    BY <1>1, <1>2, <1>6 DEF MergedPages
  <2>2. JoinTables(D) = [i \in 1 .. Read |-> Page(D[i].number, text(i))]
    <3>1. JoinTables(D) = [i \in DOMAIN D |-> Page(D[i].number, text(i))]
      BY DEF JoinTables
    <3> QED BY <2>1, <3>1
  <2> HIDE DEF D
  <2>3. /\ J \in [1 .. Read + 1 -> BOOLEAN]
        /\ \A i \in 1 .. Read + 1 :
              J[i] <=> /\ i \in 2 .. Read
                       /\ ~J[i - 1]
                       /\ Open(Last(D[i - 1].pages)) /\ Continues(Head(D[i].pages))
    <3>1. D \in [1 .. Read -> Extracted]
      <4>1. PICK c \in Nat : D \in [1 .. c -> Extracted]
        BY <1>1, DeduplicatedPages DEF D
      <4> QED BY <2>1, <4>1
    <3> HIDE DEF J
    <3>2. ASSUME NEW S, NEW pgs \in [1 .. Read -> S]
          PROVE  /\ Joined(pgs) \in [1 .. Read + 1 -> BOOLEAN]
                 /\ \A i \in 1 .. Read + 1 :
                       Joined(pgs)[i] <=> /\ i \in 2 .. Read
                                          /\ ~Joined(pgs)[i - 1]
                                          /\ Open(Last(pgs[i - 1].pages))
                                          /\ Continues(Head(pgs[i].pages))
      BY <1>2, JoinedEach
    <3> QED BY <3>1, <3>2, Zenon DEF J
  <2> HIDE DEF J
  <2>4. ASSUME NEW i \in 2 .. Read
        PROVE  Last(D[i - 1].pages) = InOrder[i - 1] /\ Head(D[i].pages) = InOrder[i]
    <3>1. i \in 1 .. Read /\ i - 1 \in 1 .. Read
      BY <1>2
    <3>2. D[i].pages = <<InOrder[i]>> /\ D[i - 1].pages = <<InOrder[i - 1]>>
      BY <1>4, <3>1
    <3> QED BY <3>2 DEF Last
  <2>5. ASSUME NEW i \in 1 .. Read + 1
        PROVE  J[i] <=> i \in 2 .. Read /\ Split(J, i)
    BY <2>3, <2>4 DEF Split
  <2>6. ASSUME NEW i \in 1 .. Read
        PROVE  merged[i].pages = IF J[i] THEN <<>>
                                 ELSE IF J[i + 1] THEN <<InOrder[i], InOrder[i + 1]>>
                                 ELSE <<InOrder[i]>>
    <3>1. merged[i].pages = text(i)
      <4> HIDE DEF text
      <4> QED BY <2>1, <2>2 DEF Page
    <3>2. D[i].pages = <<InOrder[i]>>
      BY <1>4
    <3>3. J[i + 1] => D[i + 1].pages = <<InOrder[i + 1]>>
      <4>1. i + 1 \in 1 .. Read + 1
        BY <1>2
      <4>2. J[i + 1] => i + 1 \in 1 .. Read
        BY <1>2, <2>5, <4>1
      <4> QED BY <1>4, <4>2
    <3>4. <<InOrder[i]>> \o <<InOrder[i + 1]>> = <<InOrder[i], InOrder[i + 1]>>
      BY TwoPages
    <3> QED BY <3>1, <3>2, <3>3, <3>4
  <2>7. \A i \in 2 .. Read : i \in 1 .. Read + 1
    BY <1>2
  <2>8. JoinedBy(J)
    BY <1>3, <2>3, <2>5, <2>6, <2>7 DEF JoinedBy
  <2> QED BY <2>8
<1> QED BY <1>5, <1>6

\* The text is built page by page.
LEMMA TextIs ==
    ASSUME NEW c \in Nat, NEW T, merged \in [1 .. c -> [number : T, pages : Seq(Pages)]]
    PROVE  \E f \in [0 .. c -> Seq(Pages)] :
              /\ f[0] = <<>> /\ \A i \in 1 .. c : f[i] = f[i - 1] \o merged[i].pages
              /\ Text = f[c]
<1> DEFINE S == Seq(Pages)
           D == 0 .. c
           step == [i \in 1 .. c |-> [s \in S |-> s \o merged[i].pages]]
           text[i \in D] == IF i = 0 THEN <<>> ELSE text[i - 1] \o merged[i].pages
<1>1. step \in [1 .. c -> [S -> S]] /\ <<>> \in S
  OBVIOUS
<1>2. PICK f \in [0 .. c -> S] : f[0] = <<>> /\ \A i \in 1 .. c : f[i] = step[i][f[i - 1]]
  <2> HIDE DEF step, S
  <2>1. Iterated(c, S, <<>>, step) # {}
    BY <1>1, Recursion
  <2> QED BY <2>1 DEF Iterated
<1>3. ASSUME NEW i \in 1 .. c PROVE f[i] = f[i - 1] \o merged[i].pages
  <2>1. f[i - 1] \in S
    BY <1>2
  <2>2. step[i][f[i - 1]] = f[i - 1] \o merged[i].pages
    <3> HIDE DEF S
    <3> QED BY <2>1
  <2> QED BY <1>2, <2>2
<1>4. f = [i \in D |-> IF i = 0 THEN <<>> ELSE f[i - 1] \o merged[i].pages]
  <2>1. \A i \in D : i = 0 \/ i \in 1 .. c
    OBVIOUS
  <2>2. \A i \in D : f[i] = IF i = 0 THEN <<>> ELSE f[i - 1] \o merged[i].pages
    <3> HIDE DEF D
    <3> QED BY <1>2, <1>3, <2>1
  <2> QED BY <2>2
<1>5. text = [i \in D |-> IF i = 0 THEN <<>> ELSE text[i - 1] \o merged[i].pages]
  <2> HIDE DEF D
  <2> QED BY <1>4, Zenon
<1>6. Text = text[c]
  <2>1. Len(merged) = c
    OBVIOUS
  <2> QED BY <2>1, Zenon DEF Text
<1> HIDE DEF text
<1>7. ASSUME NEW i \in D PROVE text[i] = IF i = 0 THEN <<>> ELSE text[i - 1] \o merged[i].pages
  <2> HIDE DEF D
  <2> QED BY <1>5, Zenon
<1> DEFINE G == {i \in 0 .. c : text[i] = f[i]}
<1>8. 0 \in G
  <2>1. 0 \in D
    OBVIOUS
  <2> QED BY <1>2, <1>7, <2>1
<1>9. ASSUME NEW i \in 1 .. c, i - 1 \in G PROVE i \in G
  <2>1. i \in D /\ i # 0 /\ text[i - 1] = f[i - 1]
    BY <1>9
  <2>2. text[i] = text[i - 1] \o merged[i].pages
    BY <1>7, <2>1
  <2> QED BY <1>3, <2>1, <2>2
<1>10. c \in G
  <2>1. G \in SUBSET (0 .. c)
    OBVIOUS
  <2> HIDE DEF G, D, step, S
  <2>2. \A i \in 1 .. c : i - 1 \in G => i \in G
    BY <1>9
  <2>3. G = 0 .. c
    BY <1>8, <2>1, <2>2, Upwards
  <2> QED BY <2>3
<1> QED BY <1>2, <1>3, <1>6, <1>10

\* The first k of a list.
First(q, k) == [j \in 1 .. k |-> q[j]]

LEMMA FirstType ==
    ASSUME NEW S, NEW n \in Nat, NEW q \in [1 .. n -> S], NEW k \in 0 .. n
    PROVE  /\ First(q, k) \in Seq(S) /\ Len(First(q, k)) = k
           /\ \A j \in 1 .. k : First(q, k)[j] = q[j]
<1>1. First(q, k) \in [1 .. k -> S] /\ k \in Nat /\ First(q, k) = [j \in 1 .. k |-> q[j]]
  BY DEF First
<1> QED BY <1>1

LEMMA SameList ==
    ASSUME NEW S, NEW s \in Seq(S), NEW t \in Seq(S), Len(s) = Len(t),
           \A j \in 1 .. Len(s) : s[j] = t[j]
    PROVE  s = t
OBVIOUS

LEMMA FirstAdd ==
    ASSUME NEW S, NEW n \in Nat, NEW q \in [1 .. n -> S], NEW k \in 0 .. n, NEW s \in Seq(S),
           k + Len(s) <= n, \A j \in 1 .. Len(s) : s[j] = q[k + j]
    PROVE  First(q, k) \o s = First(q, k + Len(s))
<1> DEFINE m == k + Len(s)
           t == First(q, k) \o s
<1>1. m \in 0 .. n /\ Len(s) \in Nat
  OBVIOUS
<1>2. First(q, k) \in Seq(S) /\ Len(First(q, k)) = k /\ \A j \in 1 .. k : First(q, k)[j] = q[j]
  BY FirstType
<1>3. t \in Seq(S) /\ Len(t) = m
  <2> DEFINE r == First(q, k)
  <2>1. r \in Seq(S) /\ Len(r) = k
    BY <1>2
  <2> HIDE DEF r
  <2>2. r \o s \in Seq(S) /\ Len(r \o s) = Len(r) + Len(s)
    BY <2>1
  <2> QED BY <2>1, <2>2 DEF r
<1>4. ASSUME NEW j \in 1 .. m PROVE t[j] = q[j]
  <2>1. CASE j \in 1 .. k
    <3>1. t[j] = First(q, k)[j]
      BY <1>2, <2>1
    <3> QED BY <1>2, <2>1, <3>1
  <2>2. CASE j \notin 1 .. k
    <3>1. j - k \in 1 .. Len(s) /\ j = k + (j - k)
      BY <1>1, <2>2
    <3>2. t[j] = s[j - k]
      BY <1>2, <1>1, <3>1
    <3> QED BY <3>1, <3>2
  <2> QED BY <2>1, <2>2
<1>5. First(q, m) \in Seq(S) /\ Len(First(q, m)) = m /\ \A j \in 1 .. m : First(q, m)[j] = q[j]
  BY <1>1, FirstType
<1> HIDE DEF t, m
<1>6. t = First(q, m)
  BY <1>3, <1>4, <1>5
<1> QED BY <1>6 DEF t, m

\* Every page read is in the text once, in the order of the document.
LEMMA TextInOrder ==
    ASSUME MergeInv, Faithful
    PROVE  Text = InOrder
<1>1. TypeOK
  BY DEF MergeInv
<1>2. PICK J : JoinedBy(J)
  BY FaithfulMerge
<1>3. Read \in Nat /\ InOrder \in [1 .. Read -> ReadPages] /\ ReadPages \in SUBSET Pages
  BY <1>1, FaithfulList, Chunked
<1>4. InOrder \in [1 .. Read -> Pages]
  BY <1>3
<1>5. PICK f \in [0 .. Read -> Seq(Pages)] :
         /\ f[0] = <<>> /\ \A i \in 1 .. Read : f[i] = f[i - 1] \o merged[i].pages
         /\ Text = f[Read]
  BY <1>2, <1>3, TextIs DEF JoinedBy, Extracted
<1> DEFINE done(i) == IF J[i + 1] THEN i + 1 ELSE i
           G == {i \in 0 .. Read : f[i] = First(InOrder, done(i))}
<1>6. ASSUME NEW i \in 1 .. Read + 1 PROVE J[i] => i \in 2 .. Read /\ ~J[i - 1]
  BY <1>2 DEF JoinedBy, Split
<1>7. 0 \in G
  <2>1. ~J[1]
    BY <1>3, <1>6
  <2>2. First(InOrder, 0) = <<>>
    BY DEF First
  <2> QED BY <1>3, <1>5, <2>1, <2>2
<1>8. ASSUME NEW i \in 1 .. Read, i - 1 \in G PROVE i \in G
  <2> DEFINE pages == merged[i].pages
  <2>1. f[i] = First(InOrder, done(i - 1)) \o pages
    BY <1>5, <1>8
  <2>2. pages = IF J[i] THEN <<>>
                ELSE IF J[i + 1] THEN <<InOrder[i], InOrder[i + 1]>>
                ELSE <<InOrder[i]>>
    BY <1>2 DEF JoinedBy
  <2>3. done(i - 1) = IF J[i] THEN i ELSE i - 1
    OBVIOUS
  <2>4. i \in 1 .. Read + 1 /\ i + 1 \in 1 .. Read + 1 /\ i + 1 - 1 = i /\ i - 1 \in 0 .. Read
        /\ i \in 0 .. Read
    BY <1>3
  <2>5. (J[i + 1] => i + 1 \in 2 .. Read /\ ~J[i])
    BY <1>6, <2>4
  <2>6. InOrder[i] \in Pages
    BY <1>4
  <2> HIDE DEF done, pages
  <2>7. CASE J[i]
    <3>1. pages = <<>> /\ done(i - 1) = i /\ done(i) = i
      BY <2>2, <2>3, <2>5, <2>7 DEF done
    <3>2. First(InOrder, i) \in Seq(Pages)
      BY <1>3, <1>4, <2>4, FirstType
    <3>3. First(InOrder, i) \o <<>> = First(InOrder, i)
      BY <3>2
    <3> QED BY <2>1, <2>4, <3>1, <3>3
  <2>8. CASE ~J[i] /\ J[i + 1]
    <3>1. pages = <<InOrder[i], InOrder[i + 1]>> /\ done(i - 1) = i - 1 /\ done(i) = i + 1
      BY <2>2, <2>3, <2>8 DEF done
    <3>2. InOrder[i + 1] \in Pages /\ i + 1 <= Read
      BY <1>3, <1>4, <2>5, <2>8
    <3>3. pages \in Seq(Pages) /\ Len(pages) = 2 /\ pages[1] = InOrder[i] /\ pages[2] = InOrder[i + 1]
      BY <2>6, <3>1, <3>2
    <3>4. i - 1 + Len(pages) <= Read /\ i - 1 + Len(pages) = i + 1
      BY <1>3, <3>2, <3>3
    <3>5. \A j \in 1 .. Len(pages) : pages[j] = InOrder[i - 1 + j]
      <4>1. \A j \in 1 .. 2 : j = 1 \/ j = 2
        OBVIOUS
      <4>2. i - 1 + 1 = i /\ i - 1 + 2 = i + 1
        OBVIOUS
      <4> QED BY <3>3, <4>1, <4>2
    <3>6. First(InOrder, i - 1) \o pages = First(InOrder, i - 1 + Len(pages))
      BY <1>3, <1>4, <2>4, <3>3, <3>4, <3>5, FirstAdd
    <3> QED BY <2>1, <2>4, <3>1, <3>4, <3>6
  <2>9. CASE ~J[i] /\ ~J[i + 1]
    <3>1. pages = <<InOrder[i]>> /\ done(i - 1) = i - 1 /\ done(i) = i
      BY <2>2, <2>3, <2>9 DEF done
    <3>3. pages \in Seq(Pages) /\ Len(pages) = 1 /\ pages[1] = InOrder[i]
      BY <2>6, <3>1
    <3>4. i - 1 + Len(pages) <= Read /\ i - 1 + Len(pages) = i
      BY <1>3, <3>3
    <3>5. \A j \in 1 .. Len(pages) : pages[j] = InOrder[i - 1 + j]
      <4>1. \A j \in 1 .. 1 : j = 1
        OBVIOUS
      <4>2. i - 1 + 1 = i
        OBVIOUS
      <4> QED BY <3>3, <4>1, <4>2
    <3>6. First(InOrder, i - 1) \o pages = First(InOrder, i - 1 + Len(pages))
      BY <1>3, <1>4, <2>4, <3>3, <3>4, <3>5, FirstAdd
    <3> QED BY <2>1, <2>4, <3>1, <3>4, <3>6
  <2> QED BY <2>7, <2>8, <2>9
<1>9. Read \in G
  <2>1. G \in SUBSET (0 .. Read)
    OBVIOUS
  <2> HIDE DEF G
  <2>2. \A i \in 1 .. Read : i - 1 \in G => i \in G
    BY <1>8
  <2>3. G = 0 .. Read
    BY <1>3, <1>7, <2>1, <2>2, Upwards
  <2> QED BY <1>3, <2>3
<1>10. done(Read) = Read
  <2>1. Read + 1 \in 1 .. Read + 1 /\ Read + 1 \notin 2 .. Read
    BY <1>3
  <2>2. ~J[Read + 1]
    BY <1>6, <2>1
  <2> QED BY <2>2
<1>11. First(InOrder, Read) = InOrder
  BY <1>3 DEF First
<1> HIDE DEF done
<1> QED BY <1>5, <1>9, <1>10, <1>11

\* The chunks leave no page of the document out.
LEMMA ChunksCover ==
    ASSUME layout \in Layouts, NEW p \in Pages
    PROVE  \E k \in ChunkIds(PageCount) : p \in ChunkPages(k)
<1>1. PageCount \in Nat \ {0} /\ p \in 1 .. PageCount
  BY Document DEF Pages
<1>2. CASE PageCount <= CHUNK_SIZE
  <2>1. 0 \in ChunkIds(PageCount)
    BY <1>2 DEF ChunkIds
  <2>2. FirstPage(0) = 1
    BY ChunkAssumption DEF FirstPage
  <2>3. p \in ChunkPages(0)
    BY <1>1, <1>2, <2>2, ChunkAssumption DEF ChunkPages
  <2> QED BY <2>1, <2>3
<1>3. CASE ~(PageCount <= CHUNK_SIZE)
  <2> DEFINE d == CHUNK_SIZE - CHUNK_OVERLAP
             K == {k \in 0 .. PageCount : k * d < p}
  <2>1. d \in Nat /\ d >= 1 /\ d <= CHUNK_SIZE /\ CHUNK_SIZE \in Nat
    BY ChunkAssumption
  <2> HIDE DEF d
  <2>2. K \in SUBSET (0 .. PageCount) /\ 0 \in K
    BY <1>1, <2>1
  <2>3. PICK k \in K : \A j \in K : j <= k
    <3> HIDE DEF K
    <3> QED BY <1>1, <2>2, Largest
  <2>4. k \in Nat /\ k \in 0 .. PageCount /\ k * d < p /\ k * d \in Nat
    BY <1>1, <2>1
  <2>5. p <= k * d + d
    <3>1. CASE k = PageCount
      <4>1. PageCount <= PageCount * d
        BY <1>1, <2>1
      <4> QED BY <1>1, <2>4, <3>1, <4>1
    <3>2. CASE k # PageCount
      <4>1. k + 1 \in 0 .. PageCount /\ k + 1 \notin K
        BY <1>1, <2>3, <2>4, <3>2
      <4>2. ~((k + 1) * d < p) /\ (k + 1) * d = k * d + d
        BY <2>1, <2>4, <4>1
      <4> QED BY <1>1, <2>1, <2>4, <4>2
    <3> QED BY <3>1, <3>2
  <2>6. k \in ChunkIds(PageCount)
    <3>1. k * d < PageCount
      BY <1>1, <2>4
    <3> QED BY <1>3, <2>4, <3>1 DEF ChunkIds, d
  <2>7. FirstPage(k) = k * d + 1
    BY DEF FirstPage, d
  <2>8. p \in FirstPage(k) .. FirstPage(k) + CHUNK_SIZE - 1
    BY <1>1, <2>1, <2>4, <2>5, <2>7
  <2> QED BY <2>6, <2>8 DEF ChunkPages
<1> QED BY <1>2, <1>3

LEMMA WholeDocument ==
    ASSUME TypeOK, \A k \in DOMAIN chunks : chunks[k].answer.got = ChunkPages(k)
    PROVE  ReadPages = Pages
<1>1. layout \in Layouts /\ ReadPages \in SUBSET Pages /\ DOMAIN chunks = ChunkIds(PageCount)
  BY Chunked DEF TypeOK
<1>2. ASSUME NEW k \in DOMAIN chunks PROVE k \in Complete
  <2>1. chunks[k].answer.got # {}
    BY <1>1, ChunkHasPages
  <2>2. chunks[k].answer # NoAnswer
    BY <2>1 DEF NoAnswer
  <2> QED BY <2>2 DEF TypeOK, Complete
<1>3. ASSUME NEW p \in Pages PROVE p \in ReadPages
  <2>1. PICK k \in DOMAIN chunks : p \in ChunkPages(k)
    BY <1>1, ChunksCover
  <2> QED BY <1>2, <2>1 DEF ReadPages
<1> QED BY <1>1, <1>3

\* Whatever chunks the document is cut into and whichever pages the service answers with:
\* where it numbers them as the document does, the merged text has each page read exactly
\* once and in its place, and every page of the document where no chunk lacks one.
THEOREM EachPage == Spec => []EachPageOnce
<1>1. MergeInv => EachPageOnce
  BY TextInOrder, WholeDocument DEF EachPageOnce, InOrder, MergeInv
<1> QED BY <1>1, MergeInvariant, PTL

----------------------------------------------------------------------------
\* Tables and registrations

\* Where no page is missing, the i-th page of the list is page i.
LEMMA WholeInOrder ==
    ASSUME MergeInv, Faithful, ReadPages = Pages
    PROVE  /\ PageCount \in Nat \ {0} /\ Pages = 1 .. PageCount /\ Read = PageCount
           /\ InOrder = [i \in 1 .. PageCount |-> i]
<1>1. PageCount \in Nat \ {0} /\ Pages = 1 .. PageCount
  BY Chunked DEF MergeInv
<1>2. InOrder = [i \in 1 .. PageCount |-> i]
  BY <1>1, AscendingAll DEF InOrder
<1>3. Cardinality(1 .. PageCount) = PageCount
  BY <1>1, FS_Interval
<1> QED BY <1>1, <1>2, <1>3 DEF Read

LEMMA TablesMended ==
    ASSUME MergeInv
    PROVE  TablesAreJoined
<1> SUFFICES ASSUME Faithful, ReadPages = Pages PROVE
        /\ Cardinality(Complete) > 1 =>
              \A p \in Pages : p + 1 \in Pages /\ Open(p) /\ Continues(p + 1) =>
                 Mended(p) \/ (Continues(p) /\ Mended(p - 1))
        /\ \A i \in DOMAIN merged : \A j \in 2 .. Len(merged[i].pages) :
              Open(merged[i].pages[j - 1]) /\ Continues(merged[i].pages[j])
  BY DEF TablesAreJoined
<1> DEFINE n == PageCount
<1>1. n \in Nat \ {0} /\ Pages = 1 .. n /\ Read = n /\ InOrder = [i \in 1 .. n |-> i]
  BY WholeInOrder
<1>2. PICK J : JoinedBy(J)
  BY FaithfulMerge
<1> HIDE DEF n
<1>3. \A i \in 1 .. n : InOrder[i] = i
  BY <1>1
<1>4. /\ DOMAIN merged = 1 .. n
      /\ \A i \in 1 .. n + 1 : J[i] => i \in 2 .. n
      /\ \A i \in 2 .. n : J[i] => Split(J, i)
      /\ Cardinality(Complete) # 1 => \A i \in 2 .. n : Split(J, i) => J[i]
  <2>1. \A i \in 2 .. n : i \in 1 .. n + 1
    BY <1>1
  <2> QED BY <1>1, <1>2, <2>1 DEF JoinedBy
<1>5. ASSUME NEW i \in 2 .. n
      PROVE  Split(J, i) <=> ~J[i - 1] /\ Open(i - 1) /\ Continues(i)
  <2>1. i \in 1 .. n /\ i - 1 \in 1 .. n
    BY <1>1
  <2>2. InOrder[i] = i /\ InOrder[i - 1] = i - 1
    BY <1>3, <2>1
  <2> QED BY <2>2 DEF Split
<1>6. ASSUME NEW i \in 1 .. n
      PROVE  /\ merged[i].pages = IF J[i] THEN <<>> ELSE IF J[i + 1] THEN <<i, i + 1>> ELSE <<i>>
             /\ J[i + 1] => i + 1 \in 2 .. n /\ ~J[i] /\ Open(i) /\ Continues(i + 1)
  <2>1. merged[i].pages = IF J[i] THEN <<>>
                          ELSE IF J[i + 1] THEN <<InOrder[i], InOrder[i + 1]>>
                          ELSE <<InOrder[i]>>
    BY <1>1, <1>2 DEF JoinedBy
  <2>2. i + 1 \in 1 .. n + 1 /\ i + 1 - 1 = i
    BY <1>1
  <2>3. J[i + 1] => i + 1 \in 2 .. n
    BY <1>4, <2>2
  <2>4. J[i + 1] => ~J[i] /\ Open(i) /\ Continues(i + 1)
    BY <1>4, <1>5, <2>2, <2>3
  <2>5. InOrder[i] = i /\ (J[i + 1] => InOrder[i + 1] = i + 1)
    <3>1. J[i + 1] => i + 1 \in 1 .. n
      BY <1>1, <2>3
    <3> QED BY <1>3, <3>1
  <2> QED BY <2>1, <2>3, <2>4, <2>5
<1>7. ASSUME Cardinality(Complete) > 1, NEW p \in Pages,
             p + 1 \in Pages, Open(p), Continues(p + 1), ~(Continues(p) /\ Mended(p - 1))
      PROVE  Mended(p)
  <2>1. p \in 1 .. n /\ p + 1 \in 2 .. n /\ p + 1 - 1 = p /\ p \in 1 .. n + 1
    BY <1>1, <1>7
  <2>2. ~J[p]
    <3> SUFFICES ASSUME J[p] PROVE FALSE
      OBVIOUS
    <3>1. p \in 2 .. n /\ p - 1 \in 1 .. n /\ p - 1 + 1 = p
      BY <1>1, <1>4, <2>1
    <3>2. Continues(p)
      BY <1>4, <1>5, <3>1
    <3>3. merged[p - 1].pages = <<p - 1, p>>
      BY <1>6, <3>1
    <3>4. {p - 1, p} \subseteq Range(<<p - 1, p>>)
      BY DEF Range
    <3>5. Mended(p - 1)
      BY <1>4, <3>1, <3>3, <3>4 DEF Mended
    <3> QED BY <1>7, <3>2, <3>5
  <2>3. Cardinality(Complete) # 1
    BY <1>7
  <2>4. J[p + 1]
    <3>1. Split(J, p + 1)
      BY <1>5, <1>7, <2>1, <2>2
    <3> QED BY <1>4, <2>1, <2>3, <3>1
  <2>5. merged[p].pages = <<p, p + 1>>
    BY <1>6, <2>1, <2>2, <2>4
  <2>6. {p, p + 1} \subseteq Range(<<p, p + 1>>)
    BY DEF Range
  <2> QED BY <1>4, <2>1, <2>5, <2>6 DEF Mended
<1>8. ASSUME NEW i \in DOMAIN merged, NEW j \in 2 .. Len(merged[i].pages)
      PROVE  Open(merged[i].pages[j - 1]) /\ Continues(merged[i].pages[j])
  <2>1. i \in 1 .. n
    BY <1>4
  <2>2. Len(<<>>) = 0 /\ Len(<<i>>) = 1 /\ Len(<<i, i + 1>>) = 2
    OBVIOUS
  <2>3. merged[i].pages = <<i, i + 1>> /\ J[i + 1]
    <3>1. 2 .. 0 = {} /\ 2 .. 1 = {}
      OBVIOUS
    <3>2. merged[i].pages # <<>> /\ merged[i].pages # <<i>>
      BY <2>2, <3>1
    <3> QED BY <1>6, <2>1, <3>2
  <2>4. j = 2
    BY <2>2, <2>3
  <2>5. merged[i].pages[j - 1] = i /\ merged[i].pages[j] = i + 1
    BY <2>3, <2>4
  <2> QED BY <1>6, <2>1, <2>3, <2>5
<1> QED BY <1>7, <1>8

----------------------------------------------------------------------------
\* The ledger

Entry == [dated : BOOLEAN, pages : Seq(Pages)]

\* merge_split_ledger, for one row.
Added(es, row) == IF es = <<>> \/ row.dated THEN Append(es, row)
                  ELSE [es EXCEPT ![Len(es)].pages = @ \o row.pages]

LEMMA RowBegins ==
    ASSUME NEW es \in Seq(Entry), NEW row \in Entry, es = <<>> \/ row.dated
    PROVE  /\ Added(es, row) \in Seq(Entry) /\ Len(Added(es, row)) = Len(es) + 1
           /\ Added(es, row)[Len(es) + 1] = row
           /\ \A j \in 1 .. Len(es) : Added(es, row)[j] = es[j]
<1>1. Added(es, row) = Append(es, row)
  BY DEF Added
<1> HIDE DEF Entry
<1>2. /\ Append(es, row) \in Seq(Entry) /\ Len(Append(es, row)) = Len(es) + 1
      /\ Append(es, row)[Len(es) + 1] = row
      /\ \A j \in 1 .. Len(es) : Append(es, row)[j] = es[j]
  OBVIOUS
<1> QED BY <1>1, <1>2

LEMMA RowContinues ==
    ASSUME NEW es \in Seq(Entry), NEW row \in Entry, es # <<>>, ~row.dated
    PROVE  /\ Added(es, row) \in Seq(Entry) /\ Len(Added(es, row)) = Len(es)
           /\ Len(es) \in Nat \ {0}
           /\ Added(es, row)[Len(es)].dated = es[Len(es)].dated
           /\ Added(es, row)[Len(es)].pages = es[Len(es)].pages \o row.pages
           /\ \A j \in 1 .. Len(es) : j # Len(es) => Added(es, row)[j] = es[j]
<1> DEFINE n == Len(es)
           e == es[n]
           new == [e EXCEPT !.pages = @ \o row.pages]
<1>1. n \in Nat \ {0} /\ es \in [1 .. n -> Entry] /\ n \in 1 .. n
  OBVIOUS
<1>2. e \in Entry
  BY <1>1
<1>3. new \in Entry /\ new.dated = e.dated /\ new.pages = e.pages \o row.pages
  <2>1. e.pages \in Seq(Pages) /\ row.pages \in Seq(Pages)
    BY <1>2 DEF Entry
  <2>2. e.pages \o row.pages \in Seq(Pages)
    BY <2>1
  <2> HIDE DEF e
  <2> QED BY <1>2, <2>2 DEF Entry
<1>4. Added(es, row) = [es EXCEPT ![n] = new]
  BY DEF Added
<1> HIDE DEF new, e
<1>5. [es EXCEPT ![n] = new] \in [1 .. n -> Entry]
  BY <1>1, <1>3
<1>6. /\ Added(es, row) \in Seq(Entry) /\ Len(Added(es, row)) = n
  BY <1>1, <1>4, <1>5
<1>7. Added(es, row)[n] = new /\ \A j \in 1 .. n : j # n => Added(es, row)[j] = es[j]
  BY <1>1, <1>4
<1> QED BY <1>1, <1>3, <1>6, <1>7 DEF e

LEMMA LedgerIs ==
    ASSUME NEW c \in Nat, NEW rows \in [1 .. c -> Entry]
    PROVE  \E f \in [0 .. c -> Seq(Entry)] :
              /\ f[0] = <<>> /\ \A i \in 1 .. c : f[i] = Added(f[i - 1], rows[i])
              /\ MergeSplitLedger(rows) = f[c]
<1> DEFINE S == Seq(Entry)
           D == 0 .. c
           added(es, row) == IF es = <<>> \/ row.dated THEN Append(es, row)
                             ELSE [es EXCEPT ![Len(es)].pages = @ \o row.pages]
           step == [i \in 1 .. c |-> [es \in S |-> added(es, rows[i])]]
           entries[i \in D] == IF i = 0 THEN <<>> ELSE added(entries[i - 1], rows[i])
<1>0. \A es, row : added(es, row) = Added(es, row)
  BY Zenon DEF Added
<1>1. step \in [1 .. c -> [S -> S]] /\ <<>> \in S
  <2>1. ASSUME NEW i \in 1 .. c, NEW es \in S PROVE added(es, rows[i]) \in S
    <3>1. rows[i] \in Entry
      OBVIOUS
    <3>2. Added(es, rows[i]) \in S
      BY <3>1, RowBegins, RowContinues
    <3> HIDE DEF added
    <3> QED BY <1>0, <3>2
  <2>2. <<>> \in S
    OBVIOUS
  <2> HIDE DEF added, S
  <2> QED BY <2>1, <2>2
<1>2. PICK f \in [0 .. c -> S] : f[0] = <<>> /\ \A i \in 1 .. c : f[i] = step[i][f[i - 1]]
  <2> HIDE DEF step, S
  <2>1. Iterated(c, S, <<>>, step) # {}
    BY <1>1, Recursion
  <2> QED BY <2>1 DEF Iterated
<1>3. ASSUME NEW i \in 1 .. c PROVE f[i] = added(f[i - 1], rows[i])
  <2>1. f[i - 1] \in S
    BY <1>2
  <2>2. step[i][f[i - 1]] = added(f[i - 1], rows[i])
    <3> HIDE DEF S, added
    <3> QED BY <2>1
  <2> QED BY <1>2, <2>2
<1>4. f = [i \in D |-> IF i = 0 THEN <<>> ELSE added(f[i - 1], rows[i])]
  <2> HIDE DEF added
  <2>1. \A i \in D : i = 0 \/ i \in 1 .. c
    OBVIOUS
  <2>2. \A i \in D : f[i] = IF i = 0 THEN <<>> ELSE added(f[i - 1], rows[i])
    <3> HIDE DEF D
    <3> QED BY <1>2, <1>3, <2>1
  <2> QED BY <2>2
<1>5. entries = [i \in D |-> IF i = 0 THEN <<>> ELSE added(entries[i - 1], rows[i])]
  <2> HIDE DEF D, added
  <2> QED BY <1>4, Zenon
<1>6. MergeSplitLedger(rows) = entries[c]
  <2>1. Len(rows) = c
    OBVIOUS
  <2> QED BY <2>1, Zenon DEF MergeSplitLedger
<1> HIDE DEF entries
<1>7. ASSUME NEW i \in D PROVE entries[i] = IF i = 0 THEN <<>> ELSE added(entries[i - 1], rows[i])
  <2> HIDE DEF D, added
  <2> QED BY <1>5, Zenon
<1> HIDE DEF added
<1> DEFINE G == {i \in 0 .. c : entries[i] = f[i]}
<1>8. 0 \in G
  <2>1. 0 \in D
    OBVIOUS
  <2> QED BY <1>2, <1>7, <2>1
<1>9. ASSUME NEW i \in 1 .. c, i - 1 \in G PROVE i \in G
  <2>1. i \in D /\ i # 0 /\ entries[i - 1] = f[i - 1]
    BY <1>9
  <2>2. entries[i] = added(entries[i - 1], rows[i])
    BY <1>7, <2>1
  <2> QED BY <1>3, <2>1, <2>2
<1>10. c \in G
  <2>1. G \in SUBSET (0 .. c)
    OBVIOUS
  <2> HIDE DEF G, D, step, S
  <2>2. \A i \in 1 .. c : i - 1 \in G => i \in G
    BY <1>9
  <2>3. G = 0 .. c
    BY <1>8, <2>1, <2>2, Upwards
  <2> QED BY <2>3
<1>11. \A i \in 1 .. c : f[i] = Added(f[i - 1], rows[i])
  BY <1>0, <1>3
<1> QED BY <1>2, <1>6, <1>10, <1>11

----------------------------------------------------------------------------
\* Registrations

LEMMA BeginningIs ==
    ASSUME layout \in Layouts, NEW p \in Pages
    PROVE  /\ Beginning(p) \in 1 .. p /\ ~Continues(Beginning(p))
           /\ \A q \in Beginning(p) + 1 .. p : Continues(q)
           /\ \A b \in 1 .. p : ~Continues(b) /\ (\A q \in b + 1 .. p : Continues(q)) => b = Beginning(p)
<1> DEFINE begins(b) == ~Continues(b) /\ \A q \in b + 1 .. p : Continues(q)
           B == {b \in 1 .. p : ~Continues(b)}
<1>1. p \in Nat \ {0} /\ ~Continues(1)
  BY Document DEF Pages
<1>2. B \in SUBSET (0 .. p) /\ B # {}
  <2>1. 1 \in B
    BY <1>1
  <2> QED BY <1>1, <2>1
<1>3. PICK b \in B : \A x \in B : x <= b
  <2> HIDE DEF B
  <2> QED BY <1>1, <1>2, Largest
<1>4. b \in 1 .. p /\ begins(b)
  <2>1. ASSUME NEW q \in b + 1 .. p, ~Continues(q) PROVE FALSE
    <3>1. q \in B /\ b \in 1 .. p
      BY <1>1, <2>1
    <3>2. q <= b
      BY <1>3, <3>1
    <3> QED BY <1>1, <3>1, <3>2
  <2> QED BY <2>1
<1>5. Beginning(p) \in 1 .. p /\ begins(Beginning(p))
  <2>1. Beginning(p) = CHOOSE x \in 1 .. p : begins(x)
    BY DEF Beginning
  <2> HIDE DEF begins
  <2> QED BY <1>4, <2>1
<1>6. ASSUME NEW x \in 1 .. p, NEW y \in 1 .. p, begins(x), begins(y) PROVE ~(x < y)
  <2>1. x < y => y \in x + 1 .. p
    BY <1>1
  <2> QED BY <1>6, <2>1
<1>7. ASSUME NEW x \in 1 .. p, begins(x) PROVE x = Beginning(p)
  <2> DEFINE y == Beginning(p)
  <2>1. y \in 1 .. p /\ begins(y)
    BY <1>5
  <2> HIDE DEF y, begins
  <2>2. ~(x < y) /\ ~(y < x)
    BY <1>6, <1>7, <2>1
  <2>3. x = y
    BY <1>1, <2>1, <2>2
  <2> QED BY <2>3 DEF y
<1> QED BY <1>5, <1>7

LEMMA BeginningNext ==
    ASSUME layout \in Layouts, NEW p \in Pages
    PROVE  /\ ~Continues(p) => Beginning(p) = p
           /\ Continues(p) => p - 1 \in Pages /\ Beginning(p) = Beginning(p - 1)
<1>1. p \in Nat \ {0} /\ ~Continues(1) /\ PageCount \in Nat /\ Pages = 1 .. PageCount
  BY Document DEF Pages
<1>2. CASE ~Continues(p)
  <2>1. p \in 1 .. p /\ p + 1 .. p = {}
    BY <1>1
  <2> QED BY <1>2, <2>1, BeginningIs
<1>3. CASE Continues(p)
  <2>1. p # 1 /\ p - 1 \in Pages
    BY <1>1, <1>3
  <2> DEFINE b == Beginning(p - 1)
  <2>2. /\ b \in 1 .. p - 1 /\ ~Continues(b)
        /\ \A q \in b + 1 .. p - 1 : Continues(q)
    BY <2>1, BeginningIs
  <2> HIDE DEF b
  <2>3. b \in 1 .. p
    BY <1>1, <2>2
  <2>4. ASSUME NEW q \in b + 1 .. p PROVE Continues(q)
    <3>1. q = p \/ q \in b + 1 .. p - 1
      BY <1>1, <2>3
    <3> QED BY <1>3, <2>2, <3>1
  <2>5. b = Beginning(p)
    BY <2>2, <2>3, <2>4, BeginningIs
  <2> QED BY <1>3, <2>1, <2>5 DEF b
<1> QED BY <1>2, <1>3

\* The row of a page, and the pages of one registration up to page i.
Row(p) == [dated |-> ~Continues(p), pages |-> <<p>>]
Upto(b, i) == {p \in 1 .. i : Beginning(p) = b}

\* The entries after the rows of the first i pages: each is one registration so far, and
\* the last one is that of page i.
Whole(es, i) ==
    /\ es \in Seq(Entry)
    /\ \A j \in 1 .. Len(es) :
          /\ es[j].dated
          /\ \E b \in Range(es[j].pages) : Range(es[j].pages) = Upto(b, i)
          /\ i >= 1 => (i \in Range(es[j].pages) <=> j = Len(es))
    /\ \A p \in 1 .. i : \E j \in 1 .. Len(es) : p \in Range(es[j].pages)

LEMMA RangeAdd ==
    ASSUME NEW s \in Seq(Pages), NEW p \in Pages
    PROVE  Range(s \o <<p>>) = Range(s) \cup {p} /\ Range(<<p>>) = {p}
<1> DEFINE t == s \o <<p>>
           n == Len(s)
<1>1. n \in Nat /\ DOMAIN s = 1 .. n /\ DOMAIN t = 1 .. n + 1 /\ t[n + 1] = p
      /\ \A j \in 1 .. n : t[j] = s[j]
  OBVIOUS
<1> HIDE DEF t, n
<1>2. ASSUME NEW x \in Range(t) PROVE x \in Range(s) \cup {p}
  <2>1. PICK j \in 1 .. n + 1 : x = t[j]
    BY <1>1 DEF Range
  <2>2. j = n + 1 \/ j \in 1 .. n
    BY <1>1
  <2> QED BY <1>1, <2>1, <2>2 DEF Range
<1>3. ASSUME NEW x \in Range(s) \cup {p} PROVE x \in Range(t)
  <2>1. n + 1 \in 1 .. n + 1 /\ \A j \in 1 .. n : j \in 1 .. n + 1
    BY <1>1
  <2> QED BY <1>1, <2>1 DEF Range
<1>4. Range(<<p>>) = {p}
  BY DEF Range
<1> QED BY <1>2, <1>3, <1>4 DEF t

LEMMA WholeStep ==
    ASSUME layout \in Layouts, NEW i \in Pages, NEW es, Whole(es, i - 1)
    PROVE  Whole(Added(es, Row(i)), i)
<1> DEFINE row == Row(i)
           n == Len(es)
           new == Added(es, row)
           pages(j) == Range(es[j].pages)
<1>1. PageCount \in Nat /\ Pages = 1 .. PageCount /\ i \in Nat \ {0}
  BY Document DEF Pages
<1>2. /\ es \in Seq(Entry) /\ n \in Nat
      /\ \A j \in 1 .. n : es[j] \in Entry
  BY DEF Whole
<1>3. row \in Entry /\ row.dated = ~Continues(i) /\ row.pages = <<i>>
  <2>1. Continues(i) \in BOOLEAN
    BY DEF Continues
  <2> QED BY <2>1 DEF Row, Entry
<1>4. /\ \A j \in 1 .. n : /\ es[j].dated
                           /\ \E b \in pages(j) : pages(j) = Upto(b, i - 1)
                           /\ i - 1 >= 1 => (i - 1 \in pages(j) <=> j = n)
      /\ \A p \in 1 .. i - 1 : \E j \in 1 .. n : p \in pages(j)
  BY DEF Whole
<1>5. ASSUME NEW j \in 1 .. n, NEW p \in pages(j) PROVE p \in 1 .. i - 1 /\ p # i
  <2>1. p \in 1 .. i - 1
    BY <1>4 DEF Upto
  <2> QED BY <1>1, <2>1
<1> HIDE DEF row, n, new, pages
<1>6. CASE ~Continues(i)
  <2>1. Beginning(i) = i
    BY <1>6, BeginningNext
  <2>2. es = <<>> \/ row.dated
    BY <1>3, <1>6
  <2>3. /\ new \in Seq(Entry) /\ Len(new) = n + 1 /\ new[n + 1] = row
        /\ \A j \in 1 .. n : new[j] = es[j]
    BY <1>2, <1>3, <2>2, RowBegins DEF n, new
  <2>4. Range(new[n + 1].pages) = {i}
    <3>1. Range(<<i>>) = {i}
      BY DEF Range
    <3> QED BY <1>3, <2>3, <3>1
  <2>5. Upto(i, i) = {i}
    <3>1. ASSUME NEW p \in 1 .. i, Beginning(p) = i PROVE p = i
      <4>1. p \in Pages
        BY <1>1
      <4>2. Beginning(p) \in 1 .. p
        BY <4>1, BeginningIs
      <4> QED BY <1>1, <3>1, <4>2
    <3>2. i \in 1 .. i
      BY <1>1
    <3> QED BY <2>1, <3>1, <3>2 DEF Upto
  <2>6. ASSUME NEW b, b # i PROVE Upto(b, i) = Upto(b, i - 1)
    <3>1. 1 .. i = (1 .. i - 1) \cup {i}
      BY <1>1
    <3> QED BY <2>1, <2>6, <3>1 DEF Upto
  <2>7. ASSUME NEW j \in 1 .. n + 1
        PROVE  /\ new[j].dated
               /\ \E b \in Range(new[j].pages) : Range(new[j].pages) = Upto(b, i)
               /\ i \in Range(new[j].pages) <=> j = n + 1
    <3>1. CASE j = n + 1
      BY <1>3, <1>6, <2>3, <2>4, <2>5, <3>1
    <3>2. CASE j # n + 1
      <4>1. j \in 1 .. n /\ new[j] = es[j] /\ Range(new[j].pages) = pages(j)
        BY <1>2, <2>3, <3>2 DEF pages
      <4>2. PICK b \in pages(j) : pages(j) = Upto(b, i - 1)
        BY <1>4, <4>1
      <4>3. b # i /\ i \notin pages(j)
        BY <1>5, <4>1, <4>2
      <4>4. pages(j) = Upto(b, i)
        BY <2>6, <4>2, <4>3
      <4> QED BY <1>4, <3>2, <4>1, <4>2, <4>3, <4>4
    <3> QED BY <3>1, <3>2
  <2>8. ASSUME NEW p \in 1 .. i PROVE \E j \in 1 .. n + 1 : p \in Range(new[j].pages)
    <3>1. CASE p = i
      <4>1. n + 1 \in 1 .. n + 1
        BY <1>2
      <4> QED BY <2>4, <3>1, <4>1
    <3>2. CASE p # i
      <4>1. p \in 1 .. i - 1
        BY <1>1, <3>2
      <4>2. PICK j \in 1 .. n : p \in pages(j)
        BY <1>4, <4>1
      <4>3. j \in 1 .. n + 1
        BY <1>2
      <4> QED BY <2>3, <4>2, <4>3 DEF pages
    <3> QED BY <3>1, <3>2
  <2>9. Whole(new, i)
    BY <2>3, <2>7, <2>8 DEF Whole
  <2> QED BY <2>9 DEF new, row
<1>7. CASE Continues(i)
  <2>1. i - 1 \in Pages /\ Beginning(i) = Beginning(i - 1) /\ i - 1 >= 1
    <3>1. i - 1 \in Pages /\ Beginning(i) = Beginning(i - 1)
      BY <1>7, BeginningNext
    <3> QED BY <1>1, <3>1
  <2>2. PICK l \in 1 .. n : i - 1 \in pages(l)
    <3>1. i - 1 \in 1 .. i - 1
      BY <1>1, <2>1
    <3> QED BY <1>4, <3>1
  <2>3. l = n /\ n \in 1 .. n /\ es # <<>> /\ i - 1 \in pages(n)
    BY <1>2, <1>4, <2>1, <2>2 DEF n
  <2>4. ~row.dated
    BY <1>3, <1>7
  <2>5. /\ new \in Seq(Entry) /\ Len(new) = n /\ new[n].dated = es[n].dated
        /\ new[n].pages = es[n].pages \o <<i>>
        /\ \A j \in 1 .. n : j # n => new[j] = es[j]
    BY <1>2, <1>3, <2>3, <2>4, RowContinues DEF n, new
  <2>6. Range(new[n].pages) = pages(n) \cup {i}
    <3>1. es[n].pages \in Seq(Pages)
      BY <1>2, <2>3 DEF Entry
    <3> QED BY <2>5, <3>1, RangeAdd DEF pages
  <2>7. 1 .. i = (1 .. i - 1) \cup {i} /\ i - 1 \in 1 .. i - 1
    BY <1>1, <2>1
  <2>8. ASSUME NEW j \in 1 .. n
        PROVE  /\ new[j].dated
               /\ \E b \in Range(new[j].pages) : Range(new[j].pages) = Upto(b, i)
               /\ i \in Range(new[j].pages) <=> j = n
    <3>1. PICK b \in pages(j) : pages(j) = Upto(b, i - 1)
      BY <1>4
    <3>2. CASE j = n
      <4>1. Beginning(i) = b
        BY <2>1, <2>3, <3>1, <3>2 DEF Upto
      <4>2. pages(j) \cup {i} = Upto(b, i)
        BY <2>7, <3>1, <4>1 DEF Upto
      <4> QED BY <1>4, <2>3, <2>5, <2>6, <3>1, <3>2, <4>2
    <3>3. CASE j # n
      <4>1. new[j] = es[j] /\ Range(new[j].pages) = pages(j)
        BY <2>5, <3>3 DEF pages
      <4>2. i - 1 \notin pages(j)
        BY <1>4, <2>1, <3>3
      <4>3. Beginning(i) # b
        BY <2>1, <2>7, <3>1, <4>2 DEF Upto
      <4>4. pages(j) = Upto(b, i)
        BY <2>7, <3>1, <4>3 DEF Upto
      <4>5. i \notin pages(j)
        BY <1>5
      <4> QED BY <1>4, <3>1, <3>3, <4>1, <4>4, <4>5
    <3> QED BY <3>2, <3>3
  <2>9. ASSUME NEW p \in 1 .. i PROVE \E j \in 1 .. n : p \in Range(new[j].pages)
    <3>1. CASE p = i
      BY <2>3, <2>6, <3>1
    <3>2. CASE p # i
      <4>1. p \in 1 .. i - 1
        BY <2>7, <3>2
      <4>2. PICK j \in 1 .. n : p \in pages(j)
        BY <1>4, <4>1
      <4>3. p \in Range(new[j].pages)
        BY <2>5, <2>6, <4>2 DEF pages
      <4> QED BY <4>3
    <3> QED BY <3>1, <3>2
  <2>10. Whole(new, i)
    BY <2>5, <2>8, <2>9 DEF Whole
  <2> QED BY <2>10 DEF new, row
<1> QED BY <1>6, <1>7

\* A ledger whose entries all have a date is not changed.
LEMMA DatedKept ==
    ASSUME NEW c \in Nat, NEW rows \in [1 .. c -> Entry], \A i \in 1 .. c : rows[i].dated
    PROVE  MergeSplitLedger(rows) = rows
<1>1. PICK f \in [0 .. c -> Seq(Entry)] :
         /\ f[0] = <<>> /\ \A i \in 1 .. c : f[i] = Added(f[i - 1], rows[i])
         /\ MergeSplitLedger(rows) = f[c]
  BY LedgerIs
<1> DEFINE G == {i \in 0 .. c : f[i] = First(rows, i)}
<1>2. 0 \in G
  <2>1. First(rows, 0) = <<>>
    BY DEF First
  <2> QED BY <1>1, <2>1
<1>6. \A k \in 0 .. c : /\ First(rows, k) \in Seq(Entry) /\ Len(First(rows, k)) = k
                        /\ \A j \in 1 .. k : First(rows, k)[j] = rows[j]
  BY FirstType
<1>3. ASSUME NEW i \in 1 .. c, i - 1 \in G PROVE i \in G
  <2>1. f[i - 1] = First(rows, i - 1) /\ i - 1 \in 0 .. c /\ i \in 0 .. c /\ i - 1 + 1 = i
    BY <1>3
  <2>2. rows[i] \in Entry /\ rows[i].dated
    OBVIOUS
  <2>3. /\ First(rows, i - 1) \in Seq(Entry) /\ Len(First(rows, i - 1)) = i - 1
        /\ \A j \in 1 .. i - 1 : First(rows, i - 1)[j] = rows[j]
    BY <1>6, <2>1
  <2> DEFINE es == First(rows, i - 1)
             new == Added(es, rows[i])
  <2>4. /\ new \in Seq(Entry) /\ Len(new) = i /\ new[i] = rows[i]
        /\ \A j \in 1 .. i - 1 : new[j] = es[j]
    <3> HIDE DEF es
    <3>1. es \in Seq(Entry) /\ Len(es) = i - 1
      BY <2>3 DEF es
    <3>2. /\ new \in Seq(Entry) /\ Len(new) = Len(es) + 1 /\ new[Len(es) + 1] = rows[i]
          /\ \A j \in 1 .. Len(es) : new[j] = es[j]
      BY <2>2, <3>1, RowBegins
    <3> QED BY <2>1, <3>1, <3>2
  <2>5. /\ First(rows, i) \in Seq(Entry) /\ Len(First(rows, i)) = i
        /\ \A j \in 1 .. i : First(rows, i)[j] = rows[j]
    BY <1>6, <2>1
  <2> HIDE DEF new
  <2>6. ASSUME NEW j \in 1 .. i PROVE new[j] = First(rows, i)[j]
    <3>1. j = i \/ j \in 1 .. i - 1
      OBVIOUS
    <3> QED BY <2>3, <2>4, <2>5, <3>1
  <2>7. new = First(rows, i)
    BY <2>4, <2>5, <2>6, SameList
  <2>8. f[i] = new
    BY <1>1, <2>1 DEF new
  <2> QED BY <2>1, <2>7, <2>8
<1>4. c \in G
  <2>1. G \in SUBSET (0 .. c)
    OBVIOUS
  <2> HIDE DEF G
  <2>2. \A i \in 1 .. c : i - 1 \in G => i \in G
    BY <1>3
  <2>3. G = 0 .. c
    BY <1>2, <2>1, <2>2, Upwards
  <2> QED BY <2>3
<1>5. First(rows, c) = rows
  BY DEF First
<1> QED BY <1>1, <1>4, <1>5

LEMMA LedgerWhole ==
    ASSUME MergeInv, Faithful, ReadPages = Pages
    PROVE  Whole(HistoricalLedger, PageCount)
<1> DEFINE n == PageCount
           rows == [i \in 1 .. n |-> Row(i)]
<1>1. layout \in Layouts /\ n \in Nat \ {0} /\ Pages = 1 .. n
  BY WholeInOrder DEF MergeInv, TypeOK
<1>2. Rows = rows
  <2>1. Text = [i \in 1 .. n |-> i]
    BY TextInOrder, WholeInOrder
  <2> DEFINE t == Text
  <2>2. Rows = [i \in DOMAIN t |-> Row(t[i])]
    BY Zenon DEF Rows, Row
  <2> HIDE DEF t
  <2>3. DOMAIN t = 1 .. n /\ \A i \in 1 .. n : t[i] = i
    BY <2>1 DEF t
  <2> QED BY <2>2, <2>3
<1>3. rows \in [1 .. n -> Entry]
  <2>1. ASSUME NEW i \in 1 .. n PROVE Row(i) \in Entry
    <3>1. Continues(i) \in BOOLEAN
      BY DEF Continues
    <3> QED BY <1>1, <3>1 DEF Row, Entry
  <2> QED BY <2>1
<1> HIDE DEF n
<1>4. PICK f \in [0 .. n -> Seq(Entry)] :
         /\ f[0] = <<>> /\ \A i \in 1 .. n : f[i] = Added(f[i - 1], rows[i])
         /\ MergeSplitLedger(rows) = f[n]
  <2> HIDE DEF rows
  <2> QED BY <1>1, <1>3, LedgerIs
<1> DEFINE G == {i \in 0 .. n : Whole(f[i], i)}
<1>5. 0 \in G
  <2>1. f[0] = <<>> /\ Len(<<>>) = 0 /\ <<>> \in Seq(Entry) /\ 1 .. 0 = {}
    BY <1>4
  <2>2. Whole(<<>>, 0)
    BY <2>1 DEF Whole
  <2> QED BY <1>1, <2>1, <2>2
<1>6. ASSUME NEW i \in 1 .. n, i - 1 \in G PROVE i \in G
  <2>1. f[i] = Added(f[i - 1], Row(i)) /\ Whole(f[i - 1], i - 1) /\ i \in Pages /\ i \in 0 .. n
    BY <1>1, <1>4, <1>6
  <2>2. Whole(f[i], i)
    BY <1>1, <2>1, WholeStep
  <2> QED BY <2>1, <2>2
<1>7. Whole(f[n], n)
  <2>1. G \in SUBSET (0 .. n)
    OBVIOUS
  <2> HIDE DEF G
  <2>2. \A i \in 1 .. n : i - 1 \in G => i \in G
    BY <1>6
  <2>3. G = 0 .. n
    BY <1>1, <1>5, <2>1, <2>2, Upwards
  <2>4. n \in G
    BY <1>1, <2>3
  <2> QED BY <2>4 DEF G
<1>8. MergeSplitLedger(f[n]) = f[n]
  <2> DEFINE ledger == f[n]
             c == Len(ledger)
  <2>1. ledger \in Seq(Entry) /\ \A j \in 1 .. c : ledger[j].dated
    BY <1>7 DEF Whole
  <2> HIDE DEF ledger
  <2>2. c \in Nat /\ ledger \in [1 .. c -> Entry]
    <3> HIDE DEF Entry
    <3> QED BY <2>1
  <2> HIDE DEF c
  <2>3. MergeSplitLedger(ledger) = ledger
    BY <2>1, <2>2, DatedKept
  <2> QED BY <2>3 DEF ledger
<1>9. HistoricalLedger = f[n]
  BY <1>2, <1>4, <1>8 DEF HistoricalLedger
<1> QED BY <1>7, <1>9 DEF n

LEMMA RegistrationsMended ==
    ASSUME MergeInv
    PROVE  RegistrationsAreWhole
<1> DEFINE ledger == HistoricalLedger
           entry(i) == Range(ledger[i].pages)
<1>1. SUFFICES ASSUME Faithful, ReadPages = Pages PROVE
         /\ \A i \in DOMAIN ledger :
               \E b \in entry(i) : entry(i) = {p \in Pages : Beginning(p) = b}
         /\ UNION {entry(i) : i \in DOMAIN ledger} = Pages
  BY DEF RegistrationsAreWhole
<1>2. PageCount \in Nat /\ Pages = 1 .. PageCount
  BY <1>1, WholeInOrder
<1>3. Whole(ledger, PageCount)
  BY <1>1, LedgerWhole
<1> HIDE DEF ledger
<1>4. DOMAIN ledger = 1 .. Len(ledger)
  BY <1>3 DEF Whole
<1>5. ASSUME NEW i \in DOMAIN ledger
      PROVE  \E b \in entry(i) : entry(i) = {p \in Pages : Beginning(p) = b}
  BY <1>2, <1>3, <1>4 DEF Whole, Upto
<1>6. \A i \in DOMAIN ledger : entry(i) \subseteq Pages
  <2> HIDE DEF entry
  <2> QED BY <1>5
<1>7. \A p \in Pages : \E i \in DOMAIN ledger : p \in entry(i)
  BY <1>2, <1>3, <1>4 DEF Whole
<1> HIDE DEF entry
<1>8. UNION {entry(i) : i \in DOMAIN ledger} = Pages
  BY <1>6, <1>7
<1> QED BY <1>5, <1>8

\* Whatever kinds the pages have and however the document is cut into chunks: where no page
\* is missing, the two pages of a table that goes on are joined unless the first of them was
\* joined to the one before it, no page of the text has two tables, and an entry of the
\* ledger is a registration with all of its pages.
THEOREM Splits == Spec => []SplitsAreMended
<1>1. MergeInv => SplitsAreMended
  BY TablesMended, RegistrationsMended DEF SplitsAreMended
<1> QED BY <1>1, MergeInvariant, PTL

=============================================================================
