--------------------------- MODULE ScoreListProofs ---------------------------
(***************************************************************************)
(* Theorems about ScoreList for lists of any length.                       *)
(***************************************************************************)
EXTENDS ScoreList, Functions, FiniteSetTheorems, SequenceTheorems, TLAPS

\* What each stage has of the two lists.
Stages ==
    /\ step = "load" => order = <<>>
    /\ step \in {"load", "cut"} => place = <<>>
    /\ step = "cut" => Len(order) = Len(loaded)
    /\ step \in {"resolve", "done"} => KeptAreEnough

\* After the sort the list is the beginning of the loaded scores in some
\* order that the sort may give them.
IsPrefix(f) == Len(order) <= Len(loaded) /\ \A i \in 1 .. Len(order) : order[i] = f[i]

Prefix == step # "load" => \E f \in Sorted(loaded) : IsPrefix(f)

\* A place separates the entries with a better score, which come before it,
\* from the others up to its own.
Splits(j) ==
    /\ place[j] \in 1 .. j
    /\ \A i \in 1 .. j : i < place[j] <=> Score(i) > Score(j)

PlacesSplit == \A j \in 1 .. Len(place) : Splits(j)

ListInv == TypeOK /\ Stages /\ Prefix /\ PlacesSplit

----------------------------------------------------------------------------
LEMMA LoadedFacts ==
    ASSUME TypeOK
    PROVE  /\ Len(loaded) \in Nat
           /\ loaded \in [1 .. Len(loaded) -> Int]
           /\ loaded \in Seq(Points)
  <1>1. PICK n \in 0 .. MaxScores : loaded \in [1 .. n -> Points]
    BY DEF TypeOK
  <1>2. loaded \in Seq(Points)
    BY <1>1
  <1>3. Len(loaded) \in Nat /\ loaded \in [1 .. Len(loaded) -> Points]
    BY <1>2
  <1>4. \A i \in 1 .. Len(loaded) : loaded[i] \in Int
    BY <1>3, ListAssumption
  <1>5. QED
    BY <1>2, <1>3, <1>4

\* An order the sort may give holds every loaded score once, and no score
\* comes after a lower one.
LEMMA SortedFacts ==
    ASSUME TypeOK, NEW f \in Sorted(loaded)
    PROVE  /\ f \in [1 .. Len(loaded) -> 1 .. Len(loaded)]
           /\ \A i, j \in 1 .. Len(loaded) : f[i] = f[j] => i = j
           /\ \A k \in 1 .. Len(loaded) : \E i \in 1 .. Len(loaded) : f[i] = k
           /\ \A i, j \in 1 .. Len(loaded) : i < j => loaded[f[i]] >= loaded[f[j]]
  <1> DEFINE S == 1 .. Len(loaded)
  <1>1. f \in [S -> S] /\ \A i, j \in S : f[i] = f[j] => i = j
    BY DEF Sorted
  <1>2. f \in Injection(S, S)
    BY <1>1 DEF Injection, IsInjective
  <1>3. IsFiniteSet(S)
    BY LoadedFacts, FS_Interval
  <1>4. f \in Surjection(S, S)
    BY <1>2, <1>3, FS_Injection
  <1>5. \A i, j \in S : i < j => loaded[f[i]] >= loaded[f[j]]
    BY <1>1, LoadedFacts DEF Sorted, SortScores
  <1>6. QED
    BY <1>1, <1>4, <1>5 DEF Surjection

\* The first entries of a list are a list of the same kind.
LEMMA CutFacts ==
    ASSUME NEW S, NEW s \in Seq(S), NEW t \in Int
    PROVE  /\ SliceLength(Len(s), t) \in 0 .. Len(s)
           /\ SubSeq(s, 1, SliceLength(Len(s), t)) \in Seq(S)
           /\ Len(SubSeq(s, 1, SliceLength(Len(s), t))) = SliceLength(Len(s), t)
           /\ \A i \in 1 .. SliceLength(Len(s), t) :
                 SubSeq(s, 1, SliceLength(Len(s), t))[i] = s[i]
  <1> DEFINE m == SliceLength(Len(s), t)
  <1>1. m \in 0 .. Len(s)
    BY DEF SliceLength
  <1>2. \A i \in 1 .. m : s[i] \in S
    BY <1>1
  <1> HIDE DEF m
  <1>3. /\ SubSeq(s, 1, m) \in Seq(S)
        /\ Len(SubSeq(s, 1, m)) = IF 1 <= m THEN m - 1 + 1 ELSE 0
        /\ \A i \in 1 .. m - 1 + 1 : SubSeq(s, 1, m)[i] = s[1 + i - 1]
    BY <1>1, <1>2, SubSeqProperties
  <1>4. Len(SubSeq(s, 1, m)) = m
    BY <1>1, <1>3
  <1>5. \A i \in 1 .. m : SubSeq(s, 1, m)[i] = s[i]
    BY <1>1, <1>3
  <1>6. QED
    BY <1>1, <1>3, <1>4, <1>5 DEF m

----------------------------------------------------------------------------
LEMMA InitListInv == Init => ListInv
  BY ListAssumption DEF Init, ListInv, TypeOK, Stages, Prefix, PlacesSplit

LEMMA SortListInv == ASSUME ListInv, Sort PROVE ListInv'
  <1>1. PICK f \in Sorted(loaded) : order' = f
    BY DEF Sort
  <1>2. TypeOK /\ Len(loaded) \in Nat
    BY LoadedFacts DEF ListInv
  <1>3. f \in [1 .. Len(loaded) -> 1 .. Len(loaded)]
    BY <1>2, SortedFacts
  <1>4. order' \in Seq(1 .. Len(loaded)) /\ Len(order') = Len(loaded)
    BY <1>1, <1>2, <1>3
  <1>5. place = <<>> /\ place' = place /\ loaded' = loaded /\ top' = top /\ step' = "cut"
    BY DEF Sort, ListInv, Stages
  <1>6. TypeOK'
    BY <1>2, <1>4, <1>5 DEF TypeOK
  <1>7. Prefix'
    BY <1>1, <1>2, <1>4, <1>5 DEF Prefix, IsPrefix
  <1>8. Stages'
    BY <1>4, <1>5 DEF Stages
  <1>9. QED
    BY <1>5, <1>6, <1>7, <1>8 DEF ListInv, PlacesSplit

LEMMA EmptyListInv == ASSUME ListInv, Empty PROVE ListInv'
  <1>1. TypeOK /\ order = <<>> /\ place = <<>> /\ loaded = <<>>
    BY DEF ListInv, Empty, Stages
  <1>2. UNCHANGED <<loaded, top, order, place>> /\ step' = "done"
    BY DEF Empty
  <1>3. TypeOK'
    BY <1>1, <1>2 DEF TypeOK
  <1>4. Prefix'
    <2>1. Len(loaded) = 0 /\ Len(order) = 0
      BY <1>1
    <2>2. order \in Sorted(loaded) /\ IsPrefix(order)
      BY <1>1, <2>1 DEF Sorted, IsPrefix
    <2>3. QED
      BY <1>2, <2>2 DEF Prefix, IsPrefix
  <1>5. KeptAreEnough'
    <2>1. Len(order) = 0 /\ Len(loaded) = 0 /\ top \in Int
      BY <1>1, ListAssumption DEF TypeOK
    <2>2. QED
      BY <1>2, <2>1 DEF KeptAreEnough
  <1>6. QED
    BY <1>1, <1>2, <1>3, <1>4, <1>5 DEF ListInv, Stages, PlacesSplit

LEMMA CutListInv == ASSUME ListInv, Cut PROVE ListInv'
  <1> DEFINE m == SliceLength(Len(order), top)
  <1>1. /\ order \in Seq(1 .. Len(loaded)) /\ top \in Int /\ place = <<>>
        /\ Len(loaded) \in Nat /\ step # "load" /\ Len(order) = Len(loaded)
    BY ListAssumption, LoadedFacts DEF ListInv, TypeOK, Stages, Cut
  <1>2. /\ order' = SubSeq(order, 1, m) /\ step' = "resolve"
        /\ UNCHANGED <<loaded, top, place>>
    BY DEF Cut
  <1>3. /\ m \in 0 .. Len(order)
        /\ order' \in Seq(1 .. Len(loaded))
        /\ Len(order') = m
        /\ \A i \in 1 .. m : order'[i] = order[i]
    BY <1>1, <1>2, CutFacts
  <1>4. top >= 0 => m <= top /\ (m < top => m = Len(loaded))
    BY <1>1 DEF SliceLength
  <1> HIDE DEF m
  <1>5. TypeOK'
    BY <1>1, <1>2, <1>3 DEF ListInv, TypeOK
  <1>6. Prefix'
    <2>1. PICK f \in Sorted(loaded) : IsPrefix(f)
      BY <1>1 DEF ListInv, Prefix
    <2>2. IsPrefix(f)'
      BY <1>1, <1>2, <1>3, <2>1 DEF IsPrefix
    <2>3. QED
      BY <1>2, <2>1, <2>2 DEF Prefix
  <1>7. KeptAreEnough'
    BY <1>2, <1>3, <1>4 DEF KeptAreEnough
  <1>8. QED
    BY <1>1, <1>2, <1>5, <1>6, <1>7 DEF ListInv, Stages, PlacesSplit

----------------------------------------------------------------------------
\* The list that is left is in order and holds nothing twice.
LEMMA OrderFacts ==
    ASSUME TypeOK, Prefix, step # "load"
    PROVE  /\ Len(order) \in Nat
           /\ order \in [1 .. Len(order) -> 1 .. Len(loaded)]
           /\ \A i \in 1 .. Len(order) : Score(i) \in Int
           /\ \A i, j \in 1 .. Len(order) : order[i] = order[j] => i = j
           /\ \A i, j \in 1 .. Len(order) : i < j => Score(i) >= Score(j)
  <1>1. PICK f \in Sorted(loaded) : IsPrefix(f)
    BY DEF Prefix
  <1>2. order \in Seq(1 .. Len(loaded))
    BY DEF TypeOK
  <1>3. \A i \in 1 .. Len(order) : i \in 1 .. Len(loaded) /\ order[i] = f[i]
    BY <1>1, <1>2, LoadedFacts DEF IsPrefix
  <1>4. \A i, j \in 1 .. Len(order) : order[i] = order[j] => i = j
    BY <1>1, <1>3, SortedFacts
  <1>5. \A i, j \in 1 .. Len(order) : i < j => Score(i) >= Score(j)
    BY <1>1, <1>3, SortedFacts DEF Score
  <1>6. QED
    BY <1>2, <1>4, <1>5, LoadedFacts DEF Score

\* Every score that is better than an entry comes before it.
LEMMA BetterBefore ==
    ASSUME TypeOK, Prefix, step # "load",
           NEW j \in 1 .. Len(order), NEW k \in 1 .. Len(loaded), loaded[k] > Score(j)
    PROVE  \E i \in 1 .. j : order[i] = k
  <1>1. PICK f \in Sorted(loaded) : IsPrefix(f)
    BY DEF Prefix
  <1>2. Len(order) \in Nat /\ Len(loaded) \in Nat /\ j \in 1 .. Len(loaded) /\ order[j] = f[j]
    BY <1>1, OrderFacts, LoadedFacts DEF IsPrefix
  <1>3. PICK i \in 1 .. Len(loaded) : f[i] = k
    BY <1>1, SortedFacts
  <1>4. loaded[f[i]] > loaded[f[j]]
    BY <1>2, <1>3 DEF Score
  <1>5. loaded[f[i]] \in Int /\ loaded[f[j]] \in Int
    BY <1>1, <1>2, SortedFacts, LoadedFacts
  <1>6. i <= j
    <2>1. j < i => loaded[f[j]] >= loaded[f[i]]
      BY <1>1, <1>2, SortedFacts
    <2>2. QED
      BY <1>2, <1>4, <1>5, <2>1
  <1>7. order[i] = k
    BY <1>1, <1>2, <1>3, <1>6 DEF IsPrefix
  <1>8. QED
    BY <1>6, <1>7

\* The loop gives the next entry a place that splits the list as well.
LEMMA PositionFacts ==
    ASSUME ListInv, step # "load", NEW i \in 1 .. Len(order), i = Len(place) + 1
    PROVE  /\ Position(i) \in 1 .. i
           /\ \A h \in 1 .. i : h < Position(i) <=> Score(h) > Score(i)
  <1>1. TypeOK /\ Prefix /\ place \in Seq(1 .. Len(loaded)) /\ PlacesSplit
    BY DEF ListInv, TypeOK
  <1>2. /\ Len(order) \in Nat
        /\ \A h \in 1 .. Len(order) : Score(h) \in Int
        /\ \A g, h \in 1 .. Len(order) : g < h => Score(g) >= Score(h)
    BY <1>1, OrderFacts
  <1> HIDE DEF Score
  <1>3. CASE i = 1
    BY <1>2, <1>3 DEF Position
  <1>4. CASE i > 1 /\ Score(i - 1) > Score(i)
    <2>1. Position(i) = i
      BY <1>4 DEF Position
    <2>2. \A h \in 1 .. i - 1 : Score(h) >= Score(i - 1)
      BY <1>2, <1>4
    <2>3. \A h \in 1 .. i - 1 : Score(h) > Score(i)
      BY <1>2, <1>4, <2>2
    <2>4. QED
      BY <1>2, <1>4, <2>1, <2>3
  <1>5. CASE i > 1 /\ ~(Score(i - 1) > Score(i))
    <2>1. Position(i) = place[i - 1] /\ i - 1 \in 1 .. Len(place)
      BY <1>1, <1>5 DEF Position
    <2>2. Score(i - 1) = Score(i)
      BY <1>2, <1>5
    <2>3. place[i - 1] \in 1 .. i - 1
          /\ \A h \in 1 .. i - 1 : h < place[i - 1] <=> Score(h) > Score(i - 1)
      BY <1>1, <2>1 DEF PlacesSplit, Splits
    <2>4. QED
      BY <1>2, <1>5, <2>1, <2>2, <2>3
  <1>6. QED
    BY <1>1, <1>3, <1>4, <1>5

LEMMA ResolveListInv == ASSUME ListInv, Resolve PROVE ListInv'
  <1> DEFINE i == Len(place) + 1
             p == Position(i)
  <1>1. /\ step = "resolve" /\ Len(place) < Len(order)
        /\ UNCHANGED <<loaded, top, order, step>>
        /\ place' = Append(place, p)
    BY DEF Resolve
  <1>2. /\ TypeOK /\ order \in Seq(1 .. Len(loaded)) /\ place \in Seq(1 .. Len(loaded))
        /\ Prefix /\ Len(order) <= Len(loaded) /\ Len(loaded) \in Nat
    BY <1>1, LoadedFacts DEF ListInv, TypeOK, Prefix, IsPrefix
  <1>3. i \in 1 .. Len(order)
    BY <1>1, <1>2
  <1>4. p \in 1 .. i /\ \A h \in 1 .. i : h < p <=> Score(h) > Score(i)
    BY <1>1, <1>3, PositionFacts
  <1> HIDE DEF p
  <1>5. /\ place' \in Seq(1 .. Len(loaded)) /\ Len(place') = i /\ place'[i] = p
        /\ \A j \in 1 .. Len(place) : place'[j] = place[j]
    BY <1>1, <1>2, <1>3, <1>4
  <1>6. TypeOK'
    BY <1>1, <1>2, <1>3, <1>5 DEF TypeOK
  <1>7. Prefix'
    BY <1>1, <1>2 DEF Prefix, IsPrefix
  <1>8. ASSUME NEW j \in 1 .. i PROVE Splits(j)'
    <2>1. \A h : Score(h)' = Score(h)
      BY <1>1 DEF Score
    <2>2. CASE j = i
      BY <1>4, <1>5, <2>1, <2>2 DEF Splits
    <2>3. CASE j \in 1 .. Len(place)
      <3>1. Splits(j)
        BY <2>3 DEF ListInv, PlacesSplit
      <3>2. QED
        BY <1>5, <2>1, <2>3, <3>1 DEF Splits
    <2>4. QED
      BY <1>2, <2>2, <2>3
  <1>9. Stages'
    BY <1>1 DEF ListInv, Stages, KeptAreEnough
  <1>10. QED
    BY <1>1, <1>5, <1>6, <1>7, <1>8, <1>9 DEF ListInv, PlacesSplit

LEMMA SameListInv ==
    ASSUME ListInv, UNCHANGED <<loaded, top, order, place>>,
           step' = step \/ (step = "resolve" /\ step' = "done")
    PROVE  ListInv'
  <1>1. TypeOK' /\ Stages'
    BY DEF ListInv, TypeOK, Stages, KeptAreEnough
  <1>2. Prefix'
    BY DEF ListInv, Prefix, IsPrefix
  <1>3. PlacesSplit'
    BY DEF ListInv, PlacesSplit, Splits, Score
  <1>4. QED
    BY <1>1, <1>2, <1>3 DEF ListInv

LEMMA NextListInv == ListInv /\ [Next]_vars => ListInv'
  <1> SUFFICES ASSUME ListInv, [Next]_vars PROVE ListInv'
    OBVIOUS
  <1>1. CASE Finish
    BY <1>1, SameListInv DEF Finish
  <1>2. CASE UNCHANGED vars
    BY <1>2, SameListInv DEF vars
  <1>3. QED
    BY <1>1, <1>2, SortListInv, EmptyListInv, CutListInv, ResolveListInv DEF Next

THEOREM ListInvariant == Spec => []ListInv
  BY InitListInv, NextListInv, PTL DEF Spec

\* The list holds indexes of loaded scores, and every place given is one of
\* the places there are.
THEOREM ListTypes == Spec => []TypeOK
  <1>1. ListInv => TypeOK
    BY DEF ListInv
  <1>2. QED
    BY <1>1, ListInvariant, PTL

\* Whatever top a client sends, the scores left out are no better than those
\* kept, no score is kept twice, and a positive top is met if it can be.
THEOREM BestAreKept == Spec => []KeptAreBest
  <1>1. ListInv => KeptAreBest
    BY OrderFacts, BetterBefore DEF ListInv, Stages, KeptAreBest
  <1>2. QED
    BY <1>1, ListInvariant, PTL

\* The entries before a place are the better scores of the whole game.
LEMMA BetterCounted ==
    ASSUME ListInv, NEW j \in 1 .. Len(place)
    PROVE  place[j] = Cardinality(Better(Score(j))) + 1
  <1> DEFINE p == place[j]
             B == Better(Score(j))
             f == [i \in 1 .. p - 1 |-> order[i]]
  <1>1. TypeOK /\ Prefix /\ place \in Seq(1 .. Len(loaded)) /\ Len(place) <= Len(order)
    BY DEF ListInv, TypeOK
  <1>2. step # "load"
    BY <1>1 DEF ListInv, Stages
  <1>3. /\ Len(order) \in Nat /\ j \in 1 .. Len(order)
        /\ order \in [1 .. Len(order) -> 1 .. Len(loaded)]
        /\ \A g, h \in 1 .. Len(order) : order[g] = order[h] => g = h
    BY <1>1, <1>2, OrderFacts
  <1>4. p \in 1 .. j /\ \A i \in 1 .. j : i < p <=> Score(i) > Score(j)
    BY DEF ListInv, PlacesSplit, Splits
  <1> HIDE DEF p
  <1>5. \A i \in 1 .. p - 1 : i \in 1 .. j /\ i \in 1 .. Len(order) /\ i < p
    BY <1>3, <1>4
  <1>6. f \in [1 .. p - 1 -> B]
    BY <1>3, <1>4, <1>5 DEF Better, Score
  <1>7. \A g, h \in 1 .. p - 1 : f[g] = f[h] => g = h
    BY <1>3, <1>5
  <1>8. ASSUME NEW k \in B PROVE \E i \in 1 .. p - 1 : f[i] = k
    <2>1. k \in 1 .. Len(loaded) /\ loaded[k] > Score(j)
      BY <1>8 DEF Better
    <2>2. PICK i \in 1 .. j : order[i] = k
      BY <1>1, <1>2, <1>3, <2>1, BetterBefore
    <2>3. i < p
      BY <1>4, <2>1, <2>2 DEF Score
    <2>4. QED
      BY <1>4, <2>2, <2>3
  <1> HIDE DEF B, f
  <1>9. ExistsBijection(1 .. p - 1, B)
    BY <1>6, <1>7, <1>8 DEF ExistsBijection, Bijection, Injection, Surjection, IsInjective
  <1>10. IsFiniteSet(1 .. p - 1) /\ Cardinality(1 .. p - 1) = p - 1
    <2>1. p \in Int /\ p - 1 \in Int /\ p >= 1
      BY <1>3, <1>4
    <2>2. /\ IsFiniteSet(1 .. p - 1)
          /\ Cardinality(1 .. p - 1) = IF 1 > p - 1 THEN 0 ELSE (p - 1) - 1 + 1
      BY <2>1, FS_Interval
    <2>3. QED
      BY <2>1, <2>2
  <1>11. Cardinality(B) = p - 1
    BY <1>9, <1>10, FS_Bijection
  <1>12. QED
    BY <1>3, <1>4, <1>11 DEF p, B

\* The place of an entry of the cut list is its place among all scores of
\* the game, with gaps after ties.
THEOREM PlacesAreRanks == Spec => []PlacesCountBetter
  <1>1. ListInv => PlacesCountBetter
    BY BetterCounted DEF PlacesCountBetter
  <1>2. QED
    BY <1>1, ListInvariant, PTL
================================================================================
