-------------------------- MODULE RescueOffersProofs --------------------------
(***************************************************************************)
(* Proofs about RescueOffers and Keyset, for any offers, windows, page     *)
(* sizes and interleaving of venues, checkouts and the customer.           *)
(***************************************************************************)
EXTENDS RescueOffers, FiniteSetTheorems, SequenceTheorems, TLAPS

Places == Nat \X Nat

----------------------------------------------------------------------------
(* Keyset: the order of the rows *)

LEMMA PrecedesIsTotalOrder ==
  /\ \A a \in Places : ~Precedes(a, a)
  /\ \A a, b \in Places : a # b => Precedes(a, b) \/ Precedes(b, a)
  /\ \A a, b, c \in Places : Precedes(a, b) /\ Precedes(b, c) => Precedes(a, c)
BY DEF Places, Precedes

\* A place's rank: how many of the set precede it.
Before(S, p) == {q \in S : Precedes(q, p)}

Rank(S, p) == Cardinality(Before(S, p)) + 1

LEMMA RankType ==
  ASSUME NEW S \in SUBSET Places, IsFiniteSet(S), NEW p \in S
  PROVE  /\ Rank(S, p) \in 1 .. Cardinality(S)
         /\ IsFiniteSet(Before(S, p))
<1>1. Before(S, p) \in SUBSET (S \ {p})
  BY PrecedesIsTotalOrder DEF Before
<1>2. /\ IsFiniteSet(S \ {p}) /\ Cardinality(S \ {p}) = Cardinality(S) - 1
      /\ Cardinality(S) \in Nat
  BY FS_RemoveElement, FS_CardinalityType
<1>3. /\ IsFiniteSet(Before(S, p)) /\ Cardinality(Before(S, p)) <= Cardinality(S \ {p})
      /\ Cardinality(Before(S, p)) \in Nat
  BY <1>1, <1>2, FS_Subset, FS_CardinalityType
<1> QED BY <1>2, <1>3 DEF Rank

\* The place that precedes has the smaller rank.
LEMMA RankOrder ==
  ASSUME NEW S \in SUBSET Places, IsFiniteSet(S), NEW p \in S, NEW q \in S, Precedes(p, q)
  PROVE  Rank(S, p) < Rank(S, q)
<1>1. Before(S, p) \in SUBSET Before(S, q)
  BY PrecedesIsTotalOrder DEF Before
<1>2. p \in Before(S, q) /\ p \notin Before(S, p)
  BY PrecedesIsTotalOrder DEF Before
<1>3. IsFiniteSet(Before(S, q)) /\ IsFiniteSet(Before(S, p))
  BY RankType
<1>4. /\ Cardinality(Before(S, p)) <= Cardinality(Before(S, q))
      /\ Cardinality(Before(S, p)) # Cardinality(Before(S, q))
      /\ Cardinality(Before(S, p)) \in Nat /\ Cardinality(Before(S, q)) \in Nat
  BY <1>1, <1>2, <1>3, FS_Subset, FS_CardinalityType
<1> QED BY <1>4 DEF Rank

\* Every finite set of places can be put in order, and InOrder has each of its places.
LEMMA InOrderSound ==
  ASSUME NEW S \in SUBSET Places, IsFiniteSet(S)
  PROVE  /\ InOrder(S) \in [1 .. Cardinality(S) -> S]
         /\ Ascending(InOrder(S))
         /\ \A p \in S : \E i \in 1 .. Cardinality(S) : InOrder(S)[i] = p
<1> DEFINE n == Cardinality(S)
           rank == [p \in S |-> Rank(S, p)]
<1>1. n \in Nat /\ IsFiniteSet(1 .. n) /\ Cardinality(1 .. n) = n
  BY FS_CardinalityType, FS_Interval
<1>2. rank \in Injection(S, 1 .. n)
  <2>1. rank \in [S -> 1 .. n]
    BY RankType
  <2>2. ASSUME NEW p \in S, NEW q \in S, p # q PROVE rank[p] # rank[q]
    <3>1. Precedes(p, q) \/ Precedes(q, p)
      BY <2>2, PrecedesIsTotalOrder
    <3>2. rank[p] < rank[q] \/ rank[q] < rank[p]
      BY <3>1, RankOrder
    <3>3. rank[p] \in Nat /\ rank[q] \in Nat
      BY RankType
    <3> HIDE DEF rank
    <3> QED BY <3>2, <3>3
  <2> HIDE DEF rank
  <2> QED BY <2>1, <2>2 DEF Injection, IsInjective
<1>3. rank \in Surjection(S, 1 .. n)
  <2> HIDE DEF rank
  <2> QED BY <1>1, <1>2, FS_Injection
<1>4. PICK rows \in [1 .. n -> S] : \A i \in 1 .. n : rank[rows[i]] = i
  <2> DEFINE rows == [i \in 1 .. n |-> CHOOSE p \in S : rank[p] = i]
  <2>1. ASSUME NEW i \in 1 .. n PROVE rows[i] \in S /\ rank[rows[i]] = i
    <3>1. \E p \in S : rank[p] = i
      <4> HIDE DEF rank
      <4> QED BY <1>3 DEF Surjection
    <3> HIDE DEF rank
    <3> QED BY <3>1
  <2>2. rows \in [1 .. n -> S]
    <3> HIDE DEF rank, n
    <3> QED BY <2>1
  <2> HIDE DEF rows, rank
  <2> QED BY <2>1, <2>2
<1>5. Ascending(rows)
  <2> SUFFICES ASSUME NEW i \in 1 .. n, NEW j \in 1 .. n, i < j
               PROVE  Precedes(rows[i], rows[j])
    BY DEF Ascending
  <2>1. rows[i] \in S /\ rows[j] \in S /\ Rank(S, rows[i]) = i /\ Rank(S, rows[j]) = j
    BY <1>4
  <2>2. rows[i] # rows[j]
    BY <2>1
  <2>3. ~Precedes(rows[j], rows[i])
    BY <2>1, RankOrder
  <2> QED BY <2>1, <2>2, <2>3, PrecedesIsTotalOrder
<1> DEFINE r == InOrder(S)
<1>6. r \in [1 .. n -> S] /\ Ascending(r)
  BY <1>5 DEF InOrder
<1> HIDE DEF r
<1>7. \A p \in S : \E i \in 1 .. n : r[i] = p
  <2>1. ASSUME NEW i \in 1 .. n, NEW j \in 1 .. n, r[i] = r[j] PROVE i = j
    <3>1. ~Precedes(r[i], r[j]) /\ ~Precedes(r[j], r[i])
      BY <1>6, <2>1, PrecedesIsTotalOrder
    <3> QED BY <1>6, <3>1 DEF Ascending
  <2>2. r \in Injection(1 .. n, S)
    BY <1>6, <2>1 DEF Injection, IsInjective
  <2>3. r \in Surjection(1 .. n, S)
    BY <1>1, <2>2, FS_Injection
  <2> QED BY <2>3 DEF Surjection
<1> QED BY <1>6, <1>7 DEF r

----------------------------------------------------------------------------
(* Keyset: pages *)

LEMMA StartIsNoPlace == Start \notin Places
<1> SUFFICES ASSUME NEW a \in Nat, NEW b \in Nat, <<a, b>> = <<>> PROVE FALSE
  BY DEF Start, Places
<1> QED BY Len(<<a, b>>) = 2, Len(<<>>) = 0

LEMMA LeastOfTwo ==
  ASSUME NEW a \in Nat, NEW b \in Nat
  PROVE  Min({a, b}) = IF a <= b THEN a ELSE b
BY DEF Min

\* The rows beyond the cursor.
Rest(S, cursor) == {p \in S : Beyond(cursor, p)}

\* The query's rows are the first of the ordered rest, one more than asked if there is.
LEMMA FetchedRows ==
  ASSUME NEW S \in SUBSET Places, IsFiniteSet(S), NEW cursor, NEW limit \in Nat
  PROVE  LET rest == Rest(S, cursor)
             n == Cardinality(rest)
             rows == Fetched(S, cursor, limit)
         IN  /\ n \in Nat /\ rest \in SUBSET Places /\ IsFiniteSet(rest)
             /\ rows \in Seq(rest)
             /\ Len(rows) = IF limit + 1 <= n THEN limit + 1 ELSE n
             /\ \A i \in 1 .. Len(rows) : rows[i] = InOrder(rest)[i]
<1> DEFINE rest == Rest(S, cursor)
           n == Cardinality(rest)
           all == InOrder(rest)
           m == IF limit + 1 <= n THEN limit + 1 ELSE n
<1>1. rest \in SUBSET Places /\ IsFiniteSet(rest) /\ n \in Nat
  <2>1. rest \in SUBSET S
    BY DEF Rest
  <2> HIDE DEF rest
  <2> QED BY <2>1, FS_Subset, FS_CardinalityType
<1> HIDE DEF rest
<1>2. all \in [1 .. n -> rest] /\ Len(all) = n
  <2>1. all \in [1 .. n -> rest]
    BY <1>1, InOrderSound
  <2> HIDE DEF all, n
  <2> QED BY <1>1, <2>1
<1>3. Fetched(S, cursor, limit) = SubSeq(all, 1, m)
  <2>1. Fetched(S, cursor, limit) = SubSeq(all, 1, Min({limit + 1, Len(all)}))
    BY DEF Fetched, rest, Rest
  <2> HIDE DEF all, n
  <2> QED BY <1>1, <1>2, <2>1, LeastOfTwo
<1> HIDE DEF all
<1>4. m \in Nat /\ m <= n /\ \A i \in 1 .. m : all[i] \in rest
  <2> HIDE DEF n
  <2> QED BY <1>1, <1>2
<1> DEFINE rows == SubSeq(all, 1, m)
<1>5. rows \in Seq(rest) /\ Len(rows) = m /\ \A i \in 1 .. m : rows[i] = all[i]
  <2> HIDE DEF m
  <2>1. /\ rows \in Seq(rest)
        /\ Len(rows) = IF 1 <= m THEN m - 1 + 1 ELSE 0
        /\ \A i \in 1 .. m - 1 + 1 : rows[i] = all[1 + i - 1]
    BY <1>4, SubSeqProperties
  <2> HIDE DEF rows
  <2>2. m - 1 + 1 = m /\ \A i \in 1 .. m : 1 + i - 1 = i
    BY <1>4
  <2> QED BY <1>4, <2>1, <2>2
<1> HIDE DEF n, m, rows
<1>6. Fetched(S, cursor, limit) = rows
  BY <1>3 DEF rows
<1> QED BY <1>1, <1>5, <1>6 DEF n, m, all, rest

\* Rows of a page are in ascending order, none is left out between them, and the cursor
\* of the next page is the last row shown; without a next page no row is left out at all.
PageOf(S, cursor, page) ==
  /\ page.items \in Seq(Rest(S, cursor))
  /\ Ascending(page.items)
  /\ \A p \in Rest(S, cursor) : \/ page.next # Start /\ Precedes(page.next, p)
                               \/ \E i \in 1 .. Len(page.items) : page.items[i] = p
  /\ page.next # Start => /\ page.next \in S
                          /\ page.items # <<>>
                          /\ page.next = page.items[Len(page.items)]

LEMMA PageSound ==
  ASSUME NEW S \in SUBSET Places, IsFiniteSet(S), NEW cursor, NEW limit \in Nat \ {0}
  PROVE  PageOf(S, cursor, Page(S, cursor, limit))
<1> DEFINE rest == Rest(S, cursor)
           n == Cardinality(rest)
           all == InOrder(rest)
           rows == Fetched(S, cursor, limit)
           page == Page(S, cursor, limit)
<1>1. /\ n \in Nat /\ rest \in SUBSET Places /\ IsFiniteSet(rest)
      /\ rows \in Seq(rest)
      /\ Len(rows) = IF limit + 1 <= n THEN limit + 1 ELSE n
      /\ \A i \in 1 .. Len(rows) : rows[i] = all[i]
  BY FetchedRows
<1>2. rest \in SUBSET S
  BY DEF Rest
<1>3. page = IF Len(rows) > limit
               THEN [items |-> Front(rows), next |-> rows[limit]]
               ELSE [items |-> rows, next |-> Start]
  BY DEF Page
<1> HIDE DEF rest, rows, page
<1>4. /\ all \in [1 .. n -> rest] /\ Ascending(all)
      /\ \A p \in rest : \E i \in 1 .. n : all[i] = p
  BY <1>1, InOrderSound
<1> HIDE DEF n, all
<1>5. CASE Len(rows) > limit
  <2>1. limit + 1 <= n /\ Len(rows) = limit + 1
    BY <1>1, <1>5
  <2>2. /\ Front(rows) \in Seq(rest) /\ Len(Front(rows)) = limit
        /\ \A i \in 1 .. limit : Front(rows)[i] = all[i]
    <3>1. Front(rows) = SubSeq(rows, 1, limit)
      BY <2>1 DEF Front
    <3>2. \A i \in 1 .. limit : rows[i] \in rest /\ rows[i] = all[i]
      BY <1>1, <2>1, ElementOfSeq
    <3>3. /\ SubSeq(rows, 1, limit) \in Seq(rest)
          /\ Len(SubSeq(rows, 1, limit)) = IF 1 <= limit THEN limit - 1 + 1 ELSE 0
          /\ \A i \in 1 .. limit - 1 + 1 : SubSeq(rows, 1, limit)[i] = rows[1 + i - 1]
      BY <3>2, SubSeqProperties
    <3>4. limit - 1 + 1 = limit /\ 1 <= limit /\ \A i \in 1 .. limit : 1 + i - 1 = i
      OBVIOUS
    <3> QED BY <3>1, <3>2, <3>3, <3>4
  <2>3. page.items = Front(rows) /\ page.next = all[limit] /\ all[limit] \in rest
    BY <1>1, <1>3, <1>4, <1>5, <2>1
  <2>4. all[limit] # Start
    BY <1>1, <2>3, StartIsNoPlace
  <2>5. Ascending(Front(rows))
    <3> DEFINE front == Front(rows)
    <3>1. DOMAIN front = 1 .. limit /\ \A i \in 1 .. limit : front[i] = all[i]
      BY <2>2, LenProperties
    <3>2. \A i \in 1 .. limit : i \in 1 .. n
      BY <1>1, <2>1
    <3>3. DOMAIN all = 1 .. n
      BY <1>4
    <3> HIDE DEF front
    <3>4. ASSUME NEW i \in 1 .. limit, NEW j \in 1 .. limit, i < j
          PROVE  Precedes(front[i], front[j])
      <4>1. Precedes(all[i], all[j])
        BY <1>4, <3>2, <3>3, <3>4 DEF Ascending
      <4> QED BY <3>1, <4>1
    <3>5. Ascending(front)
      BY <3>1, <3>4 DEF Ascending
    <3> QED BY <3>5 DEF front
  <2>6. ASSUME NEW p \in rest
        PROVE  Precedes(all[limit], p) \/ \E i \in 1 .. limit : Front(rows)[i] = p
    <3>1. PICK i \in 1 .. n : all[i] = p
      BY <1>4
    <3>2. CASE i <= limit
      <4>1. i \in 1 .. limit
        BY <3>2
      <4> QED BY <2>2, <3>1, <4>1
    <3>3. CASE limit < i
      <4>1. limit \in 1 .. n /\ DOMAIN all = 1 .. n
        BY <1>1, <1>4, <2>1
      <4> QED BY <1>4, <3>1, <3>3, <4>1 DEF Ascending
    <3> QED BY <3>2, <3>3
  <2>7. Front(rows) # <<>> /\ Front(rows)[limit] = all[limit]
    BY <2>2
  <2> QED BY <1>2, <2>2, <2>3, <2>4, <2>5, <2>6, <2>7 DEF PageOf, rest, page
<1>6. CASE ~(Len(rows) > limit)
  <2>1. Len(rows) = n
    BY <1>1, <1>6
  <2>2. page.items = rows /\ page.next = Start
    BY <1>3, <1>6
  <2>3. Ascending(rows)
    BY <1>1, <1>4, <2>1, LenProperties DEF Ascending
  <2>4. \A p \in rest : \E i \in 1 .. n : rows[i] = p
    BY <1>1, <1>4, <2>1
  <2> QED BY <1>1, <2>1, <2>2, <2>3, <2>4 DEF PageOf, rest, page
<1> QED BY <1>5, <1>6

----------------------------------------------------------------------------
(* The rows *)

\* An offer keeps its item and its window from its creation on, and a cancelled one
\* stays cancelled; at most one offer is created.
Lasting ==
  /\ Created \subseteq Created'
  /\ \E o : Created' \subseteq Created \cup {o}
  /\ \A o \in Created : /\ offers'[o].item = offers[o].item
                        /\ offers'[o].starts = offers[o].starts
                        /\ offers'[o].ends = offers[o].ends
                        /\ offers[o].cancelled => offers'[o].cancelled

OffersTyped == offers \in [OfferIds -> Offer \cup {None}]

LEMMA NoneIsNoOffer == None \notin Offer
<1> SUFFICES ASSUME None \in Offer PROVE FALSE
  OBVIOUS
<1>1. "starts" \in DOMAIN None
  BY DEF Offer
<1> QED BY <1>1 DEF None

LEMMA CreatedType ==
  ASSUME OffersTyped, NEW o \in Created
  PROVE  o \in OfferIds /\ offers[o] \in Offer /\ offers[o].starts \in Nat /\ offers[o].ends \in Nat
BY DEF OffersTyped, Created, Offer

LEMMA CreateStep ==
  ASSUME OffersTyped, NEW o \in OfferIds, NEW item \in Items, NEW w \in Windows,
         NEW units \in 1 .. MaxUnits, CreateOffer(o, item, w, units)
  PROVE  /\ OffersTyped' /\ Lasting
         /\ \A p \in Created : offers'[p] = offers[p]
         /\ o \notin Created /\ Created' = Created \cup {o}
         /\ offers'[o] = [item |-> item, starts |-> w[1], ends |-> w[2],
                          left |-> units, cancelled |-> FALSE]
         /\ w[1] \in Nat /\ w[2] \in Nat
<1> DEFINE row == [item |-> item, starts |-> w[1], ends |-> w[2],
                   left |-> units, cancelled |-> FALSE]
<1>1. w[1] \in Nat /\ w[2] \in Nat
  BY BoundsAssumption
<1>2. row \in Offer
  BY <1>1, BoundsAssumption DEF Offer
<1>3. o \notin Created /\ offers' = [offers EXCEPT ![o] = row]
  BY DEF CreateOffer, Created
<1>4. row # None
  BY <1>2, NoneIsNoOffer
<1> HIDE DEF row
<1>5. OffersTyped' /\ offers'[o] = row /\ \A p \in OfferIds : p # o => offers'[p] = offers[p]
  BY <1>2, <1>3 DEF OffersTyped
<1>6. Created' = Created \cup {o} /\ \A p \in Created : offers'[p] = offers[p]
  BY <1>3, <1>4, <1>5 DEF Created
<1> QED BY <1>1, <1>3, <1>5, <1>6 DEF Lasting, row

LEMMA CancelStep ==
  ASSUME OffersTyped, NEW o \in OfferIds, CancelOffer(o)
  PROVE  OffersTyped' /\ Lasting /\ Created' = Created
<1>1. offers[o] \in Offer /\ offers' = [offers EXCEPT ![o].cancelled = TRUE]
  BY CreatedType DEF CancelOffer
<1>2. /\ OffersTyped' /\ offers'[o] \in Offer
      /\ \A p \in OfferIds : p # o => offers'[p] = offers[p]
      /\ offers'[o].item = offers[o].item /\ offers'[o].starts = offers[o].starts
      /\ offers'[o].ends = offers[o].ends /\ offers'[o].cancelled
  BY <1>1 DEF OffersTyped, Offer
<1>3. Created' = Created
  BY <1>1, <1>2, NoneIsNoOffer DEF Created
<1> QED BY <1>2, <1>3 DEF Lasting, Created

LEMMA DecrementStep ==
  ASSUME OffersTyped, NEW o \in OfferIds, NEW n \in 1 .. MaxUnits, DecrementRemaining(o, n)
  PROVE  OffersTyped' /\ Lasting /\ Created' = Created
<1>1. offers[o] \in Offer /\ offers' = [offers EXCEPT ![o].left = offers[o].left - n]
  BY CreatedType DEF DecrementRemaining
<1>2. offers[o].left - n \in 0 .. MaxUnits
  BY <1>1, BoundsAssumption DEF DecrementRemaining, Offer
<1>3. /\ OffersTyped' /\ offers'[o] \in Offer
      /\ \A p \in OfferIds : p # o => offers'[p] = offers[p]
      /\ offers'[o].item = offers[o].item /\ offers'[o].starts = offers[o].starts
      /\ offers'[o].ends = offers[o].ends /\ offers'[o].cancelled = offers[o].cancelled
  BY <1>1, <1>2 DEF OffersTyped, Offer
<1>4. Created' = Created
  BY <1>1, <1>3, NoneIsNoOffer DEF Created
<1> QED BY <1>3, <1>4 DEF Lasting, Created

LEMMA OtherSteps ==
  ASSUME (\E item \in Items : ToggleItem(item)) \/ Tick \/ BeginList
         \/ (\E limit \in Limits : AskPage(limit)) \/ ListActiveFeed \/ UNCHANGED vars
  PROVE  offers' = offers
BY DEF ToggleItem, Tick, BeginList, AskPage, ListActiveFeed, vars

LEMMA RowsStep ==
  ASSUME OffersTyped, [Next]_vars
  PROVE  OffersTyped' /\ Lasting
<1>1. CASE offers' = offers
  <2>1. OffersTyped' /\ Created' = Created
    BY <1>1 DEF OffersTyped, Created
  <2> QED BY <1>1, <2>1 DEF Lasting, Created
<1> QED BY <1>1, CreateStep, CancelStep, DecrementStep, OtherSteps DEF Next

LEMMA FiniteStep == Lasting /\ IsFiniteSet(Created) => IsFiniteSet(Created')
<1> SUFFICES ASSUME IsFiniteSet(Created), NEW o, Created' \subseteq Created \cup {o}
             PROVE  IsFiniteSet(Created')
  BY DEF Lasting
<1> QED BY FS_AddElement, FS_Subset

\* The exclusion constraint refuses the offer that would overlap; nothing else moves a
\* window or takes a cancellation back.
LEMMA WindowsStep ==
  ASSUME OffersTyped, WindowsApart, [Next]_vars
  PROVE  WindowsApart'
<1> DEFINE Clash(p, q) ==
      /\ p # q /\ offers[p].item = offers[q].item
      /\ ~offers[p].cancelled /\ ~offers[q].cancelled
      /\ Overlap(<<offers[p].starts, offers[p].ends>>, <<offers[q].starts, offers[q].ends>>)
<1>1. \A p, q \in Created : ~Clash(p, q)
  BY DEF WindowsApart
<1> SUFFICES \A p, q \in Created' : ~Clash(p, q)'
  BY DEF WindowsApart
<1>2. CASE Created' = Created
  <2>1. Lasting
    BY RowsStep
  <2>2. ASSUME NEW p \in Created, NEW q \in Created, Clash(p, q)' PROVE FALSE
    <3>1. Clash(p, q)
      BY <2>1, <2>2 DEF Lasting, Overlap
    <3> QED BY <1>1, <3>1
  <2> QED BY <1>2, <2>2
<1>3. ASSUME NEW o \in OfferIds, NEW item \in Items, NEW w \in Windows,
             NEW units \in 1 .. MaxUnits, CreateOffer(o, item, w, units)
      PROVE  \A p, q \in Created' : ~Clash(p, q)'
  <2>1. /\ \A p \in Created : offers'[p] = offers[p]
        /\ Created' = Created \cup {o}
        /\ offers'[o].item = item /\ offers'[o].starts = w[1] /\ offers'[o].ends = w[2]
        /\ w[1] \in Nat /\ w[2] \in Nat
    <3>1. /\ \A p \in Created : offers'[p] = offers[p]
          /\ Created' = Created \cup {o}
          /\ offers'[o] = [item |-> item, starts |-> w[1], ends |-> w[2],
                           left |-> units, cancelled |-> FALSE]
          /\ w[1] \in Nat /\ w[2] \in Nat
      BY <1>3, CreateStep
    <3> QED BY <3>1
  <2>2. ASSUME NEW p \in Created, offers[p].item = item, ~offers[p].cancelled
        PROVE  ~Overlap(w, <<offers[p].starts, offers[p].ends>>)
    BY <1>3, <2>2 DEF CreateOffer, Excluding
  <2>3. \A p \in Created : ~Clash(p, o)' /\ ~Clash(o, p)'
    BY <2>1, <2>2 DEF Overlap
  <2>4. \A p, q \in Created : ~Clash(p, q)'
    BY <1>1, <2>1
  <2>5. ~Clash(o, o)'
    OBVIOUS
  <2> HIDE DEF Clash
  <2> QED BY <2>1, <2>3, <2>4, <2>5
<1>4. CASE offers' = offers
  <2>1. Created' = Created
    BY <1>4 DEF Created
  <2> QED BY <1>2, <2>1
<1> QED BY <1>2, <1>3, <1>4, CancelStep, DecrementStep, OtherSteps DEF Next

----------------------------------------------------------------------------
(* The customer *)

ReaderTyped == reader \in Reader /\ now \in 0 .. EndOfTime

ReaderSound == ReaderTyped /\ SteadyListed /\ Ascending(reader.shown) /\ CursorAtLast /\ ShownSoFar

LEMMA ListedCreated == ASSUME NEW t PROVE Listed(t) \subseteq Created
BY DEF Listed, Active

\* Everybody else's step.
LEMMA WatchedKeeps ==
  ASSUME OffersTyped, ReaderSound, Lasting, Watched, now' \in 0 .. EndOfTime, now <= now'
  PROVE  ReaderSound'
<1> DEFINE left == reader.steady \cap Listed(now)'
<1>1. reader' = [reader EXCEPT !.steady = left]
  BY DEF Watched
<1>2. reader \in Reader /\ now \in Nat /\ reader.at \in Nat /\ now' \in Nat
  BY BoundsAssumption DEF ReaderSound, ReaderTyped, Reader
<1> HIDE DEF left
<1>3. /\ reader'.st = reader.st /\ reader'.at = reader.at /\ reader'.limit = reader.limit
      /\ reader'.cursor = reader.cursor /\ reader'.shown = reader.shown
      /\ reader'.lists = reader.lists /\ reader'.steady = left
  BY <1>1, <1>2 DEF Reader
<1>4. left \subseteq reader.steady /\ left \subseteq Listed(now)'
  BY DEF left
<1>5. reader' \in Reader
  BY <1>1, <1>2, <1>4 DEF Reader
<1>6. \A o \in reader.steady : offers'[o].starts = offers[o].starts /\ Place(o)' = Place(o)
  <2>1. reader.steady \subseteq Created
    BY ListedCreated DEF ReaderSound, SteadyListed
  <2> QED BY <2>1 DEF Lasting, Place
<1>7. SteadyListed'
  BY <1>2, <1>3, <1>4, <1>6 DEF SteadyListed, ReaderSound
<1>8. Ascending(reader.shown)' /\ CursorAtLast'
  BY <1>3 DEF ReaderSound, Ascending, CursorAtLast
<1>9. ShownSoFar'
  BY <1>3, <1>4, <1>6 DEF ReaderSound, ShownSoFar
<1> QED BY <1>5, <1>7, <1>8, <1>9 DEF ReaderSound, ReaderTyped

\* A new offer is no steady one, and hides none.
LEMMA CreateKeepsReader ==
  ASSUME OffersTyped, ReaderSound, NEW o \in OfferIds, NEW item \in Items, NEW w \in Windows,
         NEW units \in 1 .. MaxUnits, CreateOffer(o, item, w, units)
  PROVE  ReaderSound'
<1>1. /\ \A p \in Created : offers'[p] = offers[p]
      /\ Created' = Created \cup {o}
  BY CreateStep
<1>2. reader' = reader /\ now' = now /\ sellable' = sellable
  BY DEF CreateOffer
<1>3. reader.steady \subseteq Listed(now) /\ Listed(now) \subseteq Created
  BY ListedCreated DEF ReaderSound, SteadyListed
<1>4. \A p \in reader.steady : offers'[p] = offers[p] /\ Place(p)' = Place(p)
  BY <1>1, <1>3 DEF Place
<1>5. Listed(now) \subseteq Listed(now)'
  BY <1>1, <1>2 DEF Listed, Active, WindowValid
<1>6. SteadyListed'
  BY <1>2, <1>3, <1>4, <1>5 DEF ReaderSound, SteadyListed
<1>7. ShownSoFar'
  BY <1>2, <1>4 DEF ReaderSound, ShownSoFar
<1> QED
  BY <1>2, <1>6, <1>7 DEF ReaderSound, ReaderTyped, Ascending, CursorAtLast

\* A listing begins with nothing shown and the offers listed now as the steady ones.
LEMMA BeginKeepsReader ==
  ASSUME OffersTyped, ReaderSound, BeginList
  PROVE  ReaderSound'
<1>1. /\ offers' = offers /\ sellable' = sellable /\ now' = now /\ Listed(now)' = Listed(now)
      /\ reader' = [st |-> "asking", at |-> 0, limit |-> 1, cursor |-> Start, shown |-> <<>>,
                    steady |-> Listed(now), lists |-> reader.lists + 1]
  BY DEF BeginList, Idle, Listed, Active, WindowValid, Created
<1>2. reader.lists + 1 \in 0 .. MaxLists
  BY BoundsAssumption DEF BeginList, ReaderSound, ReaderTyped, Reader
<1>3. Listed(now) \in SUBSET OfferIds
  BY ListedCreated DEF Created
<1>4. reader' \in Reader
  BY <1>1, <1>2, <1>3, BoundsAssumption DEF Reader
<1>5. /\ reader'.st = "asking" /\ reader'.cursor = Start /\ reader'.shown = <<>>
      /\ reader'.steady = Listed(now)
  BY <1>1
<1>6. SteadyListed' /\ CursorAtLast' /\ Ascending(reader.shown)'
  BY <1>1, <1>5 DEF SteadyListed, CursorAtLast, Ascending
<1>7. ShownSoFar'
  BY <1>5 DEF ShownSoFar, Beyond
<1> QED BY <1>1, <1>4, <1>6, <1>7 DEF ReaderSound, ReaderTyped

\* The service takes the time of a request while the steady offers are listed.
LEMMA AskKeepsReader ==
  ASSUME OffersTyped, ReaderSound, NEW limit \in Limits, AskPage(limit)
  PROVE  ReaderSound'
<1> DEFINE size == PageLimit(limit, UsualLimit, MostLimit)
<1>1. size \in 1 .. MostLimit
  BY BoundsAssumption DEF PageLimit
<1>2. /\ reader.st = "asking" /\ reader' = [reader EXCEPT !.st = "asked", !.at = now, !.limit = size]
      /\ offers' = offers /\ sellable' = sellable /\ now' = now
  BY DEF AskPage
<1>3. reader \in Reader /\ now \in 0 .. EndOfTime
  BY DEF ReaderSound, ReaderTyped
<1> HIDE DEF size
<1>4. /\ reader' \in Reader /\ reader'.st = "asked" /\ reader'.at = now
      /\ reader'.cursor = reader.cursor /\ reader'.shown = reader.shown
      /\ reader'.steady = reader.steady
  BY <1>1, <1>2, <1>3 DEF Reader
<1>5. Listed(now)' = Listed(now) /\ \A o \in OfferIds : Place(o)' = Place(o)
  BY <1>2 DEF Listed, Active, WindowValid, Created, Place
<1>6. SteadyListed'
  <2>1. now \in Nat
    BY <1>3, BoundsAssumption
  <2>2. \A o \in reader.steady : offers[o].starts <= now
    <3>1. \A o \in reader.steady : WindowValid(o, now) /\ offers[o].starts \in Nat
      BY CreatedType DEF ReaderSound, SteadyListed, Listed, Active
    <3> QED BY <2>1, <3>1 DEF WindowValid
  <2> QED BY <1>2, <1>4, <1>5, <2>1, <2>2 DEF ReaderSound, SteadyListed
<1>7. CursorAtLast' /\ Ascending(reader.shown)'
  BY <1>2, <1>4 DEF ReaderSound, CursorAtLast, Ascending
<1>8. ShownSoFar'
  <2>1. reader.steady \subseteq OfferIds
    BY <1>3 DEF Reader
  <2> QED BY <1>2, <1>4, <1>5, <2>1 DEF ReaderSound, ShownSoFar
<1> QED BY <1>2, <1>3, <1>4, <1>6, <1>7, <1>8 DEF ReaderSound, ReaderTyped

\* The rows of the query are finitely many places.
LEMMA FeedPlaces ==
  ASSUME OffersTyped, IsFiniteSet(Created), NEW t
  PROVE  LET S == {Place(o) : o \in Listed(t)}
         IN  IsFiniteSet(S) /\ S \in SUBSET Places /\ S \in SUBSET (Nat \X OfferIds)
<1> DEFINE S == {Place(o) : o \in Listed(t)}
           f == [o \in Listed(t) |-> Place(o)]
<1>1. IsFiniteSet(Listed(t))
  BY ListedCreated, FS_Subset
<1>2. f \in Surjection(Listed(t), S)
  BY DEF Surjection
<1>3. IsFiniteSet(S)
  <2> HIDE DEF S, f
  <2> QED BY <1>1, <1>2, FS_Surjection
<1>4. \A o \in Listed(t) : Place(o) \in Nat \X OfferIds
  BY ListedCreated, CreatedType DEF Place
<1> QED BY <1>3, <1>4, BoundsAssumption DEF Places

\* A concatenation has the rows of both, and ends as its second part does.
LEMMA ConcatHas ==
  ASSUME NEW R, NEW a \in Seq(R), NEW b \in Seq(R)
  PROVE  /\ \A i \in DOMAIN a : i \in DOMAIN (a \o b) /\ (a \o b)[i] = a[i]
         /\ \A i \in 1 .. Len(b) : \E j \in DOMAIN (a \o b) : (a \o b)[j] = b[i]
         /\ b # <<>> => a \o b # <<>> /\ (a \o b)[Len(a \o b)] = b[Len(b)]
<1> DEFINE m == Len(a)
           n == Len(b)
           c == a \o b
<1>1. /\ m \in Nat /\ n \in Nat /\ DOMAIN a = 1 .. m
      /\ DOMAIN c = 1 .. m + n /\ Len(c) = m + n
      /\ \A i \in 1 .. m + n : c[i] = IF i <= m THEN a[i] ELSE b[i - m]
      /\ b # <<>> => n # 0
      /\ m + n # 0 => c # <<>>
  <2>1. c \in Seq(R) /\ Len(c) = m + n
    BY ConcatProperties
  <2> QED BY <2>1, LenProperties, ConcatProperties, EmptySeq
<1> HIDE DEF m, n, c
<1>2. \A i \in DOMAIN a : i \in DOMAIN c /\ c[i] = a[i]
  BY <1>1
<1>3. ASSUME NEW i \in 1 .. n PROVE m + i \in DOMAIN c /\ c[m + i] = b[i]
  <2>1. m + i \in 1 .. m + n /\ ~(m + i <= m) /\ m + i - m = i
    BY <1>1
  <2> QED BY <1>1, <2>1
<1>4. b # <<>> => c # <<>> /\ c[m + n] = b[n]
  <2>1. ASSUME n # 0 PROVE n \in 1 .. n /\ m + n # 0
    BY <1>1, <2>1
  <2> QED BY <1>1, <1>3, <2>1
<1> QED BY <1>1, <1>2, <1>3, <1>4 DEF m, n, c

\* Ascending rows, then ascending rows beyond the last of them.
LEMMA AscendingConcat ==
  ASSUME NEW a \in Seq(Places), NEW b \in Seq(Places), Ascending(a), Ascending(b),
         a # <<>> => \A k \in 1 .. Len(b) : Precedes(a[Len(a)], b[k])
  PROVE  Ascending(a \o b)
<1> DEFINE m == Len(a)
           n == Len(b)
           c == a \o b
<1>1. /\ m \in Nat /\ n \in Nat /\ DOMAIN a = 1 .. m /\ DOMAIN b = 1 .. n /\ DOMAIN c = 1 .. m + n
      /\ \A i \in 1 .. m + n : c[i] = IF i <= m THEN a[i] ELSE b[i - m]
      /\ m # 0 => a # <<>>
  <2>1. c \in Seq(Places) /\ Len(c) = m + n
    BY ConcatProperties
  <2> QED BY <2>1, LenProperties, ConcatProperties
<1> HIDE DEF m, n, c
<1> SUFFICES ASSUME NEW i \in 1 .. m + n, NEW j \in 1 .. m + n, i < j
             PROVE  Precedes(c[i], c[j])
  BY <1>1 DEF Ascending, c
<1>2. CASE j <= m
  <2>1. i \in 1 .. m /\ j \in 1 .. m /\ c[i] = a[i] /\ c[j] = a[j]
    BY <1>1, <1>2
  <2> QED BY <1>1, <2>1 DEF Ascending
<1>3. CASE m < i
  <2>1. i - m \in 1 .. n /\ j - m \in 1 .. n /\ i - m < j - m
    BY <1>1, <1>3
  <2>2. c[i] = b[i - m] /\ c[j] = b[j - m]
    BY <1>1, <1>3
  <2> QED BY <1>1, <2>1, <2>2 DEF Ascending
<1>4. CASE i <= m /\ m < j
  <2>1. i \in 1 .. m /\ m \in 1 .. m /\ j - m \in 1 .. n /\ c[i] = a[i] /\ c[j] = b[j - m]
    BY <1>1, <1>4
  <2>2. Precedes(a[m], b[j - m])
    BY <1>1, <2>1 DEF m, n
  <2>3. a[i] \in Places /\ a[m] \in Places /\ b[j - m] \in Places
    BY <2>1, ElementOfSeq DEF m, n
  <2>4. i = m \/ Precedes(a[i], a[m])
    <3>1. i = m \/ i < m
      BY <1>1, <2>1
    <3>2. i \in DOMAIN a /\ m \in DOMAIN a
      BY <1>1, <2>1
    <3> QED BY <3>1, <3>2 DEF Ascending
  <2> QED BY <2>1, <2>2, <2>3, <2>4, PrecedesIsTotalOrder
<1> QED BY <1>1, <1>2, <1>3, <1>4

\* A page shows the steady offers between two cursors, whatever became of the others
\* since the service took the time.
LEMMA PageKeepsReader ==
  ASSUME OffersTyped, IsFiniteSet(Created), ReaderSound, ListActiveFeed
  PROVE  ReaderSound'
<1> DEFINE S == {Place(o) : o \in Listed(reader.at)}
           rest == Rest(S, reader.cursor)
           page == Page(S, reader.cursor, reader.limit)
           Row == Nat \X OfferIds
<1>1. reader \in Reader /\ now \in 0 .. EndOfTime /\ reader.st = "asked"
  BY DEF ReaderSound, ReaderTyped, ListActiveFeed
<1>2. /\ reader' = [reader EXCEPT !.st = IF page.next = Start THEN "done" ELSE "asking",
                                  !.cursor = page.next, !.shown = reader.shown \o page.items]
      /\ offers' = offers /\ sellable' = sellable /\ now' = now
  BY DEF ListActiveFeed
<1>3. IsFiniteSet(S) /\ S \in SUBSET Places /\ S \in SUBSET Row
  BY FeedPlaces
<1>4. reader.limit \in Nat \ {0} /\ reader.shown \in Seq(Row)
  BY <1>1, BoundsAssumption DEF Reader
<1>5. /\ page.items \in Seq(rest)
      /\ Ascending(page.items)
      /\ \A p \in rest : \/ page.next # Start /\ Precedes(page.next, p)
                         \/ \E i \in 1 .. Len(page.items) : page.items[i] = p
      /\ page.next # Start => /\ page.next \in S
                              /\ page.items # <<>>
                              /\ page.next = page.items[Len(page.items)]
  <2> HIDE DEF S
  <2>1. PageOf(S, reader.cursor, page)
    BY <1>3, <1>4, PageSound
  <2> HIDE DEF page
  <2> QED BY <2>1 DEF PageOf
<1>6. \A o \in reader.steady : o \in OfferIds /\ Place(o) \in S
  <2>1. \A o \in reader.steady : o \in Listed(now) /\ o \in Created
    BY ListedCreated DEF ReaderSound, SteadyListed
  <2>2. reader.at \in Nat /\ now \in Nat /\ reader.at <= now
    BY <1>1, BoundsAssumption DEF ReaderSound, SteadyListed, Reader
  <2>3. \A o \in reader.steady : o \in Listed(reader.at)
    <3>1. ASSUME NEW o \in reader.steady PROVE WindowValid(o, reader.at)
      <4>1. offers[o].starts <= reader.at /\ WindowValid(o, now)
        BY <1>1, <2>1 DEF ReaderSound, SteadyListed, Listed, Active
      <4>2. offers[o].starts \in Nat /\ offers[o].ends \in Nat
        BY <2>1, CreatedType
      <4> QED BY <2>2, <4>1, <4>2 DEF WindowValid
    <3> QED BY <2>1, <3>1 DEF Listed, Active
  <2> QED BY <2>1, <2>3 DEF Created
<1>7. \A p \in S : p \in rest <=> Beyond(reader.cursor, p)
  BY DEF Rest
<1>8. rest \subseteq Row /\ rest \subseteq Places
  BY <1>3 DEF Rest
<1>9. \A o \in OfferIds : Place(o)' = Place(o)
  BY <1>2 DEF Place
<1>10. Listed(now)' = Listed(now)
  BY <1>2 DEF Listed, Active, WindowValid, Created
<1> HIDE DEF S, rest, page
<1>11. page.items \in Seq(Row) /\ page.items \in Seq(Places) /\ reader.shown \in Seq(Places)
  <2>1. Row \subseteq Places
    BY BoundsAssumption DEF Places
  <2> HIDE DEF Row
  <2> QED BY <1>4, <1>5, <1>8, <2>1, SeqMonotonic
<1>12. page.next \in {Start} \cup Row
  BY <1>3, <1>5
<1> DEFINE shown == reader.shown \o page.items
<1>13. /\ shown \in Seq(Row)
       /\ \A i \in DOMAIN reader.shown : i \in DOMAIN shown /\ shown[i] = reader.shown[i]
       /\ \A i \in 1 .. Len(page.items) : \E j \in DOMAIN shown : shown[j] = page.items[i]
       /\ page.items # <<>> => shown # <<>> /\ shown[Len(shown)] = page.items[Len(page.items)]
  <2> HIDE DEF Row
  <2>1. shown \in Seq(Row)
    BY <1>4, <1>11, ConcatProperties
  <2> DEFINE a == reader.shown
             b == page.items
  <2>2. a \in Seq(Row) /\ b \in Seq(Row)
    BY <1>4, <1>11
  <2> HIDE DEF a, b
  <2>3. /\ \A i \in DOMAIN a : i \in DOMAIN (a \o b) /\ (a \o b)[i] = a[i]
        /\ \A i \in 1 .. Len(b) : \E j \in DOMAIN (a \o b) : (a \o b)[j] = b[i]
        /\ b # <<>> => a \o b # <<>> /\ (a \o b)[Len(a \o b)] = b[Len(b)]
    BY <2>2, ConcatHas
  <2> QED BY <2>1, <2>3 DEF a, b
<1> HIDE DEF shown
<1>14. /\ reader'.st = IF page.next = Start THEN "done" ELSE "asking"
       /\ reader'.cursor = page.next /\ reader'.shown = shown
       /\ reader'.steady = reader.steady /\ reader' \in Reader
  BY <1>1, <1>2, <1>12, <1>13 DEF Reader, shown
<1>15. Ascending(shown)
  <2>1. Ascending(reader.shown) /\ CursorAtLast
    BY DEF ReaderSound
  <2>2. ASSUME reader.shown # <<>>, NEW k \in 1 .. Len(page.items)
        PROVE  Precedes(reader.shown[Len(reader.shown)], page.items[k])
    <3>1. reader.cursor # Start /\ reader.cursor = reader.shown[Len(reader.shown)]
      BY <1>1, <2>1, <2>2 DEF CursorAtLast
    <3>2. Beyond(reader.cursor, page.items[k])
      <4>1. page.items[k] \in rest
        BY <1>5, ElementOfSeq
      <4> QED BY <4>1 DEF rest, Rest
    <3> QED BY <3>1, <3>2 DEF Beyond
  <2> QED BY <1>5, <1>11, <2>1, <2>2, AscendingConcat DEF shown
<1>16. CursorAtLast'
  <2>1. ASSUME page.next # Start
        PROVE  shown # <<>> /\ page.next = shown[Len(shown)]
    BY <1>5, <1>13, <2>1
  <2> QED BY <1>14, <2>1 DEF CursorAtLast
<1>17. ShownSoFar'
  <2> SUFFICES ASSUME NEW o \in reader.steady,
                      page.next = Start \/ ~Beyond(page.next, Place(o))
               PROVE  \E i \in DOMAIN shown : shown[i] = Place(o)
    BY <1>6, <1>9, <1>14 DEF ShownSoFar
  <2>1. CASE ~Beyond(reader.cursor, Place(o))
    <3>1. PICK i \in DOMAIN reader.shown : reader.shown[i] = Place(o)
      BY <2>1 DEF ReaderSound, ShownSoFar
    <3> QED BY <1>13, <3>1
  <2>2. CASE Beyond(reader.cursor, Place(o))
    <3>1. ~(page.next # Start /\ Precedes(page.next, Place(o)))
      BY DEF Beyond
    <3>2. PICK i \in 1 .. Len(page.items) : page.items[i] = Place(o)
      BY <1>5, <1>6, <1>7, <2>2, <3>1
    <3> QED BY <1>13, <3>2
  <2> QED BY <2>1, <2>2
<1>18. SteadyListed'
  BY <1>10, <1>14 DEF ReaderSound, SteadyListed
<1> QED
  BY <1>1, <1>2, <1>14, <1>15, <1>16, <1>17, <1>18 DEF ReaderSound, ReaderTyped

LEMMA ReaderStep ==
  ASSUME OffersTyped, IsFiniteSet(Created), ReaderSound, [Next]_vars
  PROVE  ReaderSound'
<1>1. now \in 0 .. EndOfTime /\ EndOfTime \in Nat
  BY BoundsAssumption DEF ReaderSound, ReaderTyped
<1>2. Lasting
  BY RowsStep
<1>3. CASE Watched /\ now' = now
  BY <1>1, <1>2, <1>3, WatchedKeeps
<1>4. CASE Tick
  <2>1. Watched /\ now' \in 0 .. EndOfTime /\ now <= now'
    BY <1>1, <1>4 DEF Tick
  <2> QED BY <1>2, <2>1, WatchedKeeps
<1>5. CASE UNCHANGED vars
  BY <1>5 DEF vars, ReaderSound, ReaderTyped, SteadyListed, CursorAtLast, ShownSoFar,
              Ascending, Listed, Active, WindowValid, Created, Place
<1>6. CASE (\E o \in OfferIds : CancelOffer(o)) \/ (\E item \in Items : ToggleItem(item))
           \/ (\E o \in OfferIds, n \in 1 .. MaxUnits : DecrementRemaining(o, n))
  BY <1>3, <1>6 DEF CancelOffer, ToggleItem, DecrementRemaining
<1> QED
  BY <1>4, <1>5, <1>6, CreateKeepsReader, BeginKeepsReader, AskKeepsReader, PageKeepsReader DEF Next

----------------------------------------------------------------------------
(* The invariant *)

LEMMA OffersInit == Init => IInv
<1> SUFFICES ASSUME Init PROVE IInv
  OBVIOUS
<1>1. Created = {} /\ offers \in [OfferIds -> Offer \cup {None}]
  BY DEF Init, Created
<1>2. reader = [st |-> "idle", at |-> 0, limit |-> 1, cursor |-> Start, shown |-> <<>>,
                steady |-> {}, lists |-> 0]
  BY DEF Init, Idle
<1>3. reader \in Reader
  BY <1>2, BoundsAssumption DEF Reader
<1>4. SteadyListed /\ Ascending(reader.shown) /\ CursorAtLast /\ ShownSoFar
  BY <1>2 DEF SteadyListed, Ascending, CursorAtLast, ShownSoFar
<1>5. now \in 0 .. EndOfTime /\ sellable \subseteq Items
  BY BoundsAssumption DEF Init
<1> QED BY <1>1, <1>3, <1>4, <1>5, FS_EmptySet DEF IInv, TypeOK, WindowsApart

LEMMA IInvParts ==
  IInv <=> /\ OffersTyped /\ sellable \subseteq Items /\ IsFiniteSet(Created)
           /\ WindowsApart /\ ReaderSound
BY DEF IInv, TypeOK, OffersTyped, ReaderSound, ReaderTyped

LEMMA OffersStep == IInv /\ [Next]_vars => IInv'
<1> SUFFICES ASSUME OffersTyped, sellable \subseteq Items, IsFiniteSet(Created),
                    WindowsApart, ReaderSound, [Next]_vars
             PROVE  /\ OffersTyped' /\ sellable' \subseteq Items /\ IsFiniteSet(Created')
                    /\ WindowsApart' /\ ReaderSound'
  BY DEF IInv, TypeOK, OffersTyped, ReaderSound, ReaderTyped
<1>1. OffersTyped' /\ IsFiniteSet(Created')
  BY RowsStep, FiniteStep
<1>2. sellable' \subseteq Items
  BY DEF Next, CreateOffer, CancelOffer, DecrementRemaining, ToggleItem, Tick, BeginList,
         AskPage, ListActiveFeed, vars
<1> QED BY <1>1, <1>2, WindowsStep, ReaderStep

\* The rows, the clock and the customer's listing keep their types: no remaining_quantity
\* below zero, no page size or cursor the query would refuse.
THEOREM TypeCorrect == Spec => []TypeOK
<1>1. IInv => TypeOK
  BY DEF IInv
<1> QED BY <1>1, OffersInit, OffersStep, PTL DEF Spec

\* The exclusion constraint is enough: an item never has two offers a customer could use
\* at one instant, whatever windows venues ask for and whatever they cancel.
THEOREM OneUsableOffer == Spec => []AtMostOneActive
<1>1. IInv => AtMostOneActive
  <2> SUFFICES ASSUME IInv, NEW t \in 0 .. EndOfTime, NEW o \in Active(t), NEW p \in Active(t),
                      offers[o].item = offers[p].item, o # p
               PROVE  FALSE
    BY DEF AtMostOneActive
  <2>1. /\ o \in Created /\ p \in Created
        /\ WindowValid(o, t) /\ WindowValid(p, t)
    BY DEF Active
  <2>2. /\ offers[o].starts \in Nat /\ offers[o].ends \in Nat
        /\ offers[p].starts \in Nat /\ offers[p].ends \in Nat /\ t \in Nat
    BY <2>1, CreatedType, IInvParts, BoundsAssumption
  <2>3. Overlap(<<offers[o].starts, offers[o].ends>>, <<offers[p].starts, offers[p].ends>>)
    BY <2>1, <2>2 DEF WindowValid, Overlap
  <2> QED BY <2>1, <2>3 DEF IInv, WindowsApart, WindowValid
<1> QED BY <1>1, OffersInit, OffersStep, PTL DEF Spec

\* Keyset pages lose nothing that stays: a customer who follows the cursors to the end
\* was shown every offer that was listed all the while, whatever the page sizes and
\* however offers come, go and sell out between the requests.
THEOREM NothingSteadyMissed == Spec => []EverySteadyShown
<1>1. IInv => EverySteadyShown
  <2>1. \A o : Place(o)[2] = o
    BY DEF Place
  <2> QED BY <2>1 DEF IInv, ShownSoFar, EverySteadyShown
<1> QED BY <1>1, OffersInit, OffersStep, PTL DEF Spec

\* The pages of a listing together are strictly ascending: soonest closing first, and no
\* offer twice.
THEOREM PagesInOrder == Spec => []SoonestFirstNoneTwice
<1>1. IInv => SoonestFirstNoneTwice
  BY DEF IInv, Ascending, Precedes, SoonestFirstNoneTwice
<1> QED BY <1>1, OffersInit, OffersStep, PTL DEF Spec

=============================================================================
