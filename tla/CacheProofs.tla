----------------------------- MODULE CacheProofs -----------------------------
(***************************************************************************)
(* The cache of the image decoder for any sources, readers, sessions,      *)
(* costs, budgets and number of entries: CacheInv is inductive, and the    *)
(* cache implements PictureStore.  The bytes of the cache are a sum over   *)
(* its entries, a fold: the first lemmas say what it is for every finite   *)
(* set, by the smallest set for which it would not be so.                  *)
(***************************************************************************)
EXTENDS DecoderCache, FiniteSetTheorems, WellFoundedInduction, TLAPS

-----------------------------------------------------------------------------
(* Sums over finite sets *)

Pick(T) == CHOOSE x \in T : TRUE

\* What the fold's recursive function must be on the subsets of S.
Sums(c, S, g) ==
  g = [T \in SUBSET S |-> IF T = {} THEN 0 ELSE c[Pick(T)] + g[T \ {Pick(T)}]]

LEMMA SumIsFold ==
  ASSUME NEW c, NEW S
  PROVE  SumFunctionOnSet(c, S) = (CHOOSE g : Sums(c, S, g))[S]
BY DEF SumFunctionOnSet, FoldFunctionOnSet, MapThenFoldSet, Sums, Pick

LEMMA PickIsMember ==
  ASSUME NEW T, T # {}
  PROVE  Pick(T) \in T
BY DEF Pick

\* Every set of subsets of a finite set has a member no other member is part of.
LEMMA SmallestSubset ==
  ASSUME NEW S, IsFiniteSet(S), NEW C \in SUBSET (SUBSET S), C # {}
  PROVE  \E T \in C : \A U \in SUBSET T : U # T => U \notin C
<1>1. FiniteSubsetsOf(S) = SUBSET S
  BY FS_FiniteSubsetsOfFinite
<1>2. IsWellFoundedOn(StrictSubsetOrdering(S), SUBSET S)
  BY <1>1, FS_StrictSubsetOrderingWellFounded
<1>3. PICK T \in C : \A U \in C : <<U, T>> \notin StrictSubsetOrdering(S)
  BY <1>2, WFMin
<1>4. ASSUME NEW U \in SUBSET T, U # T, U \in C
      PROVE  FALSE
  <2>1. U \in SUBSET S /\ T \in SUBSET S
    BY <1>4
  <2> QED BY <1>3, <1>4, <2>1 DEF StrictSubsetOrdering
<1> QED BY <1>3, <1>4

LEMMA SumsRestrict ==
  ASSUME NEW c, NEW S, NEW g, Sums(c, S, g), NEW T \in SUBSET S
  PROVE  Sums(c, T, [U \in SUBSET T |-> g[U]])
<1> DEFINE h == [U \in SUBSET T |-> g[U]]
<1>1. \A U \in SUBSET T : h[U] = IF U = {} THEN 0 ELSE c[Pick(U)] + h[U \ {Pick(U)}]
  <2> TAKE U \in SUBSET T
  <2>1. U \in SUBSET S /\ U \ {Pick(U)} \in SUBSET T
    OBVIOUS
  <2>2. g[U] = IF U = {} THEN 0 ELSE c[Pick(U)] + g[U \ {Pick(U)}]
    BY <2>1 DEF Sums
  <2> QED BY <2>1, <2>2
<1>2. h = [U \in SUBSET T |-> h[U]]
  OBVIOUS
<1> HIDE DEF h
<1>3. h = [U \in SUBSET T |-> IF U = {} THEN 0 ELSE c[Pick(U)] + h[U \ {Pick(U)}]]
  BY <1>1, <1>2
<1> QED BY <1>3 DEF Sums, h

LEMMA SumsAreOne ==
  ASSUME NEW c, NEW S, IsFiniteSet(S), NEW g, NEW h, Sums(c, S, g), Sums(c, S, h)
  PROVE  g = h
<1> DEFINE C == {T \in SUBSET S : g[T] # h[T]}
<1>1. C = {}
  <2> SUFFICES ASSUME C # {}
               PROVE  FALSE
    OBVIOUS
  <2>1. PICK T \in C : \A U \in SUBSET T : U # T => U \notin C
    <3>1. C \in SUBSET (SUBSET S)
      OBVIOUS
    <3> HIDE DEF C
    <3> QED BY <3>1, SmallestSubset
  <2>2. CASE T = {}
    BY <2>1, <2>2 DEF Sums
  <2>3. CASE T # {}
    <3>1. Pick(T) \in T /\ T \ {Pick(T)} \in SUBSET S
      BY <2>3, PickIsMember
    <3>2. g[T \ {Pick(T)}] = h[T \ {Pick(T)}]
      BY <2>1, <3>1
    <3>3. g[T] = c[Pick(T)] + g[T \ {Pick(T)}] /\ h[T] = c[Pick(T)] + h[T \ {Pick(T)}]
      BY <2>3 DEF Sums
    <3> QED BY <3>2, <3>3
  <2> QED BY <2>2, <2>3
<1>2. g = [T \in SUBSET S |-> g[T]] /\ h = [T \in SUBSET S |-> h[T]]
  BY DEF Sums
<1> QED BY <1>1, <1>2

\* The fold is defined: the sums of the proper subsets define that of the set.
LEMMA SumsExist ==
  ASSUME NEW c, NEW S, IsFiniteSet(S)
  PROVE  \E g : Sums(c, S, g)
<1> DEFINE C == {T \in SUBSET S : ~\E g : Sums(c, T, g)}
<1> SUFFICES C = {}
  OBVIOUS
<1> SUFFICES ASSUME C # {}
             PROVE  FALSE
  OBVIOUS
<1>1. PICK T \in C : \A U \in SUBSET T : U # T => U \notin C
  <2>1. C \in SUBSET (SUBSET S)
    OBVIOUS
  <2> HIDE DEF C
  <2> QED BY <2>1, SmallestSubset
<1> DEFINE s(U) == SumFunctionOnSet(c, U)
           g == [U \in SUBSET T |-> IF U = T /\ T # {} THEN c[Pick(T)] + s(T \ {Pick(T)}) ELSE s(U)]
<1>2. T \in SUBSET S /\ ~\E h : Sums(c, T, h)
  BY <1>1
<1>3. ASSUME NEW U \in SUBSET T, U # T
      PROVE  \E h : Sums(c, U, h)
  BY <1>1, <1>3
\* The sum of a part of U is what the function of U has there.
<1>4. ASSUME NEW U \in SUBSET T, U # T, NEW V \in SUBSET U, NEW h, Sums(c, U, h)
      PROVE  s(V) = h[V]
  <2> DEFINE k == [W \in SUBSET V |-> h[W]]
  <2>1. Sums(c, V, k)
    BY <1>4, SumsRestrict
  <2>2. Sums(c, V, CHOOSE m : Sums(c, V, m))
    BY <2>1
  <2>3. IsFiniteSet(V)
    BY <1>2, <1>4, FS_Subset
  <2>4. k = CHOOSE m : Sums(c, V, m)
    BY <2>1, <2>2, <2>3, SumsAreOne
  <2> QED BY <2>4, SumIsFold
<1>5. ASSUME NEW U \in SUBSET T, U # T
      PROVE  s(U) = IF U = {} THEN 0 ELSE c[Pick(U)] + s(U \ {Pick(U)})
  <2>1. PICK h : Sums(c, U, h)
    BY <1>3, <1>5
  <2>2. h[U] = IF U = {} THEN 0 ELSE c[Pick(U)] + h[U \ {Pick(U)}]
    BY <2>1 DEF Sums
  <2>3. s(U) = h[U] /\ s(U \ {Pick(U)}) = h[U \ {Pick(U)}]
    BY <1>4, <1>5, <2>1
  <2> QED BY <2>2, <2>3
<1>6. T # {}
  <2>1. Sums(c, {}, [U \in SUBSET {} |-> 0])
    BY DEF Sums
  <2> QED BY <1>2, <2>1
<1>7. Pick(T) \in T /\ T \ {Pick(T)} # T
  BY <1>6, PickIsMember
<1> HIDE DEF s
<1>8. ASSUME NEW U \in SUBSET T
      PROVE  g[U] = IF U = {} THEN 0 ELSE c[Pick(U)] + g[U \ {Pick(U)}]
  <2>1. CASE U = T
    BY <1>6, <1>7, <2>1
  <2>2. CASE U # T
    <3>1. U \ {Pick(U)} # T /\ U \ {Pick(U)} \in SUBSET T
      BY <2>2
    <3>2. g[U] = s(U) /\ g[U \ {Pick(U)}] = s(U \ {Pick(U)})
      BY <2>2, <3>1
    <3> QED BY <1>5, <2>2, <3>2
  <2> QED BY <2>1, <2>2
<1>9. g = [U \in SUBSET T |-> g[U]]
  OBVIOUS
<1> HIDE DEF g
<1>10. g = [U \in SUBSET T |-> IF U = {} THEN 0 ELSE c[Pick(U)] + g[U \ {Pick(U)}]]
  BY <1>8, <1>9
<1> QED BY <1>2, <1>10 DEF Sums

\* What the fold computes, by the order in which it happens to go.
LEMMA SumStep ==
  ASSUME NEW c, NEW S, IsFiniteSet(S)
  PROVE  /\ SumFunctionOnSet(c, {}) = 0
         /\ S # {} => SumFunctionOnSet(c, S) = c[Pick(S)] + SumFunctionOnSet(c, S \ {Pick(S)})
<1>1. ASSUME NEW T \in SUBSET S, NEW g, Sums(c, S, g)
      PROVE  SumFunctionOnSet(c, T) = g[T]
  <2> DEFINE k == [U \in SUBSET T |-> g[U]]
  <2>1. Sums(c, T, k)
    BY <1>1, SumsRestrict
  <2>2. IsFiniteSet(T) /\ Sums(c, T, CHOOSE m : Sums(c, T, m))
    BY <2>1, FS_Subset
  <2>3. k = CHOOSE m : Sums(c, T, m)
    BY <2>1, <2>2, SumsAreOne
  <2> QED BY <2>3, SumIsFold
<1>2. PICK g : Sums(c, S, g)
  BY SumsExist
<1>3. /\ g[{}] = 0
      /\ S # {} => g[S] = c[Pick(S)] + g[S \ {Pick(S)}]
  BY <1>2 DEF Sums
<1> QED BY <1>1, <1>2, <1>3

\* Any member can be taken out first.
LEMMA SumAdds ==
  ASSUME NEW c, NEW S, IsFiniteSet(S), \A x \in S : c[x] \in Nat
  PROVE  /\ SumFunctionOnSet(c, S) \in Nat
         /\ \A x \in S : SumFunctionOnSet(c, S) = c[x] + SumFunctionOnSet(c, S \ {x})
<1> DEFINE s(T) == SumFunctionOnSet(c, T)
           Good(T) == s(T) \in Nat /\ \A x \in T : s(T) = c[x] + s(T \ {x})
           C == {T \in SUBSET S : ~Good(T)}
<1> SUFFICES C = {}
  OBVIOUS
<1> SUFFICES ASSUME C # {}
             PROVE  FALSE
  OBVIOUS
<1>1. PICK T \in C : \A U \in SUBSET T : U # T => U \notin C
  <2>1. C \in SUBSET (SUBSET S)
    OBVIOUS
  <2> HIDE DEF C
  <2> QED BY <2>1, SmallestSubset
<1>2. T \in SUBSET S /\ ~Good(T)
  BY <1>1
<1>3. ASSUME NEW U \in SUBSET T, U # T
      PROVE  Good(U)
  BY <1>1, <1>3
<1>4. ASSUME NEW U \in SUBSET S, U # {}
      PROVE  Pick(U) \in U /\ s(U) = c[Pick(U)] + s(U \ {Pick(U)})
  <2>1. IsFiniteSet(U)
    BY FS_Subset
  <2> QED BY <1>4, <2>1, PickIsMember, SumStep
<1>5. s({}) = 0
  BY FS_EmptySet, SumStep
<1> HIDE DEF s
<1>6. T # {}
  <2>1. Good({})
    BY <1>5
  <2> HIDE DEF Good
  <2> QED BY <1>2, <2>1
<1> DEFINE y == Pick(T)
           V == T \ {y}
<1>7. y \in T /\ s(T) = c[y] + s(V) /\ c[y] \in Nat
  BY <1>2, <1>4, <1>6
<1> HIDE DEF y
<1>8. Good(V)
  BY <1>3, <1>7
<1>9. s(T) \in Nat
  BY <1>7, <1>8
<1>10. ASSUME NEW x \in T
       PROVE  s(T) = c[x] + s(T \ {x})
  <2>1. CASE x = y
    BY <1>7, <2>1
  <2>2. CASE x # y
    <3>1. s(V) = c[x] + s(V \ {x})
      BY <1>8, <2>2
    <3>2. Good(T \ {x}) /\ y \in T \ {x}
      BY <1>3, <1>7, <2>2
    <3>3. s(T \ {x}) = c[y] + s((T \ {x}) \ {y})
      BY <3>2
    <3>4. (T \ {x}) \ {y} = V \ {x}
      OBVIOUS
    <3>5. Good(V \ {x})
      BY <1>3, <1>7
    <3>6. c[x] \in Nat /\ s(V \ {x}) \in Nat
      BY <1>2, <3>5
    <3> QED BY <1>7, <3>1, <3>3, <3>4, <3>6
  <2> QED BY <2>1, <2>2
<1> QED BY <1>2, <1>9, <1>10

\* The sum is of the values on the set.
LEMMA SumAgrees ==
  ASSUME NEW c, NEW d, NEW S, IsFiniteSet(S), \A x \in S : c[x] = d[x]
  PROVE  SumFunctionOnSet(c, S) = SumFunctionOnSet(d, S)
<1> DEFINE s(T) == SumFunctionOnSet(c, T)
           t(T) == SumFunctionOnSet(d, T)
           C == {T \in SUBSET S : s(T) # t(T)}
<1> SUFFICES ASSUME C # {}
             PROVE  FALSE
  OBVIOUS
<1>1. PICK T \in C : \A U \in SUBSET T : U # T => U \notin C
  <2>1. C \in SUBSET (SUBSET S)
    OBVIOUS
  <2> HIDE DEF C
  <2> QED BY <2>1, SmallestSubset
<1>2. IsFiniteSet(T)
  BY <1>1, FS_Subset
<1>3. CASE T = {}
  BY <1>1, <1>2, <1>3, SumStep
<1>4. CASE T # {}
  <2>1. Pick(T) \in T
    BY <1>4, PickIsMember
  <2>2. s(T \ {Pick(T)}) = t(T \ {Pick(T)})
    BY <1>1, <2>1
  <2>3. s(T) = c[Pick(T)] + s(T \ {Pick(T)}) /\ t(T) = d[Pick(T)] + t(T \ {Pick(T)})
    BY <1>2, <1>4, SumStep
  <2>4. c[Pick(T)] = d[Pick(T)]
    BY <1>1, <2>1
  <2> QED BY <1>1, <2>2, <2>3, <2>4
<1> QED BY <1>3, <1>4

\* The sum of a set is that of a part and of the rest.
LEMMA SumSplits ==
  ASSUME NEW c, NEW S, IsFiniteSet(S), \A x \in S : c[x] \in Nat, NEW T \in SUBSET S
  PROVE  /\ SumFunctionOnSet(c, T) \in Nat /\ SumFunctionOnSet(c, S \ T) \in Nat
         /\ SumFunctionOnSet(c, S) = SumFunctionOnSet(c, T) + SumFunctionOnSet(c, S \ T)
<1> DEFINE s(U) == SumFunctionOnSet(c, U)
           C == {U \in SUBSET T : s(S) # s(U) + s(S \ U)}
<1>1. ASSUME NEW U \in SUBSET S
      PROVE  /\ s(U) \in Nat
             /\ \A x \in U : s(U) = c[x] + s(U \ {x})
  <2>1. IsFiniteSet(U)
    BY FS_Subset
  <2> QED BY <2>1, SumAdds
<1>2. s({}) = 0
  BY FS_EmptySet, SumStep
<1> HIDE DEF s
<1>3. C = {}
  <2> SUFFICES ASSUME C # {}
               PROVE  FALSE
    OBVIOUS
  <2>1. PICK U \in C : \A V \in SUBSET U : V # U => V \notin C
    <3>1. C \in SUBSET (SUBSET T) /\ IsFiniteSet(T)
      BY FS_Subset
    <3> HIDE DEF C
    <3> QED BY <3>1, SmallestSubset
  <2>2. U \in SUBSET S /\ s(S) # s(U) + s(S \ U)
    BY <2>1
  <2>3. U # {}
    <3>1. S \ {} = S /\ s(S) \in Nat
      BY <1>1
    <3> QED BY <1>2, <2>2, <3>1
  <2>4. PICK x \in U : TRUE
    BY <2>3
  <2> DEFINE V == U \ {x}
  <2>5. V \in SUBSET U /\ V # U /\ V \in SUBSET T
    BY <2>1
  <2>6. s(S) = s(V) + s(S \ V)
    BY <2>1, <2>5
  <2>7. s(U) = c[x] + s(V)
    BY <1>1, <2>2
  <2>8. x \in S \ V /\ (S \ V) \ {x} = S \ U /\ S \ V \in SUBSET S
    BY <2>2
  <2>9. s(S \ V) = c[x] + s(S \ U)
    <3>1. s(S \ V) = c[x] + s((S \ V) \ {x})
      BY <1>1, <2>8
    <3> QED BY <2>8, <3>1
  <2>10. c[x] \in Nat /\ s(V) \in Nat /\ s(S \ U) \in Nat /\ s(S) \in Nat
    BY <1>1, <2>2, <2>5
  <2> HIDE DEF V
  <2> QED BY <2>2, <2>6, <2>7, <2>9, <2>10
<1>4. T \in SUBSET S /\ S \ T \in SUBSET S /\ T \in SUBSET T
  OBVIOUS
<1> QED BY <1>1, <1>3, <1>4 DEF s

-----------------------------------------------------------------------------
(* The list, the bytes and the readers *)

\* What the provers need of CacheTypeOK for the list.
ListTypes == Entries \subseteq Session /\ older \in [Entries -> SUBSET Session]

LEMMA EntriesFinite ==
  ASSUME ListTypes
  PROVE  IsFiniteSet(Entries) /\ \A S \in SUBSET Entries : IsFiniteSet(S)
BY CacheConstants, FS_Subset DEF ListTypes

LEMMA ListKept ==
  ASSUME ListTypes, ListIsOrder, NEW S, older' = Kept(S)
  PROVE  Entries' = Entries \ S /\ ListTypes' /\ ListIsOrder'
<1>1. Entries' = Entries \ S /\ \A s \in Entries' : older'[s] = older[s] \ S
  BY DEF Kept, Entries
<1>2. ListTypes'
  BY <1>1 DEF ListTypes, Kept
<1>3. ListIsOrder'
  BY <1>1 DEF ListIsOrder, ListTypes
<1> QED BY <1>1, <1>2, <1>3

LEMMA ListNewest ==
  ASSUME ListTypes, ListIsOrder, NEW S, NEW s \in Session, older' = Newest(s, S)
  PROVE  Entries' = (Entries \ S) \cup {s} /\ ListTypes' /\ ListIsOrder'
<1> DEFINE R == S \cup {s}
<1>1. /\ Entries' = (Entries \ S) \cup {s} /\ older'[s] = Entries \ R
      /\ \A t \in Entries' \ {s} : older'[t] = older[t] \ R
  BY DEF Newest, Entries
<1>2. ListTypes'
  BY <1>1 DEF ListTypes, Newest
<1>3. ListIsOrder'
  <2>1. \A t \in Entries' : older'[t] \subseteq Entries' \ {t}
    BY <1>1 DEF ListIsOrder
  <2>2. ASSUME NEW t \in Entries', NEW u \in Entries' \ {t}
        PROVE  t \in older'[u] <=> u \notin older'[t]
    BY <1>1, <2>2 DEF ListIsOrder
  <2>3. ASSUME NEW t \in Entries', NEW u \in older'[t]
        PROVE  older'[u] \subseteq older'[t]
    BY <1>1, <2>3 DEF ListIsOrder
  <2> QED BY <2>1, <2>2, <2>3 DEF ListIsOrder
<1> QED BY <1>1, <1>2, <1>3

Costly == \A s \in Entries : ses[s].cost \in Nat

LEMMA CostRemoved ==
  ASSUME ListTypes, Costly, NEW S \in SUBSET Entries, Entries' = Entries \ S,
         \A s \in Entries' : ses'[s].cost = ses[s].cost
  PROVE  /\ Cost(S) \in Nat /\ Cost(Entries)' \in Nat
         /\ Cost(Entries) = Cost(S) + Cost(Entries)'
<1> DEFINE c == [s \in Entries |-> ses[s].cost]
           d == [s \in Entries' |-> ses'[s].cost]
<1>1. \A s \in Entries : c[s] \in Nat
  BY DEF Costly
<1>2. \A s \in Entries' : c[s] = d[s]
  OBVIOUS
<1>3. IsFiniteSet(Entries) /\ IsFiniteSet(Entries')
  BY EntriesFinite
<1> HIDE DEF c, d
<1>4. SumFunctionOnSet(c, Entries') = SumFunctionOnSet(d, Entries')
  BY <1>2, <1>3, SumAgrees
<1>5. IsFiniteSet(Entries) /\ (\A s \in Entries : c[s] \in Nat) /\ S \in SUBSET Entries
  BY <1>1, <1>3
<1>6. /\ SumFunctionOnSet(c, S) \in Nat /\ SumFunctionOnSet(c, Entries \ S) \in Nat
      /\ SumFunctionOnSet(c, Entries) = SumFunctionOnSet(c, S) + SumFunctionOnSet(c, Entries \ S)
  BY ONLY <1>5, SumSplits
<1> QED BY <1>4, <1>6 DEF Cost, c, d

LEMMA CostAdded ==
  ASSUME ListTypes, Costly, NEW S \in SUBSET Entries, NEW s \in Session \ Entries,
         Entries' = (Entries \ S) \cup {s}, ses'[s].cost \in Nat,
         \A t \in Entries \ S : ses'[t].cost = ses[t].cost
  PROVE  /\ Cost(S) \in Nat /\ Cost(Entries)' \in Nat
         /\ Cost(Entries) + ses'[s].cost = Cost(S) + Cost(Entries)'
<1> DEFINE c == [t \in Entries |-> ses[t].cost]
           d == [t \in Entries' |-> ses'[t].cost]
           R == Entries \ S
<1>1. \A t \in Entries : c[t] \in Nat
  BY DEF Costly
<1>2. R \subseteq Entries' /\ Entries' \ {s} = R /\ s \in Entries' /\ \A t \in R : c[t] = d[t]
  OBVIOUS
<1>3. d[s] = ses'[s].cost /\ \A t \in Entries' : d[t] \in Nat
  BY DEF Costly
<1>4. IsFiniteSet(Entries) /\ IsFiniteSet(R) /\ IsFiniteSet(Entries')
  <2>1. IsFiniteSet(Entries) /\ IsFiniteSet(R)
    BY EntriesFinite
  <2>2. IsFiniteSet(R \cup {s})
    BY <2>1, FS_AddElement
  <2> QED BY <2>1, <2>2
<1> HIDE DEF c, d, R
<1>5. SumFunctionOnSet(c, R) = SumFunctionOnSet(d, R)
  BY <1>2, <1>4, SumAgrees
<1>6. /\ SumFunctionOnSet(d, Entries') \in Nat
      /\ SumFunctionOnSet(d, Entries') = d[s] + SumFunctionOnSet(d, R)
  BY <1>2, <1>3, <1>4, SumAdds
<1>7. /\ SumFunctionOnSet(c, S) \in Nat /\ SumFunctionOnSet(c, R) \in Nat
      /\ SumFunctionOnSet(c, Entries) = SumFunctionOnSet(c, S) + SumFunctionOnSet(c, R)
  BY <1>1, <1>4, SumSplits DEF R
<1> QED BY <1>3, <1>5, <1>6, <1>7 DEF Cost, c, d

Openers == {r \in Reader : has[r] # NoSession}

LEMMA ReadersCounted ==
  ASSUME NEW S \in SUBSET Reader
  PROVE  /\ IsFiniteSet(S) /\ Cardinality(S) \in 0..Cardinality(Reader)
         /\ Cardinality(S) = 0 <=> S = {}
<1>1. IsFiniteSet(Reader) /\ Cardinality(Reader) \in Nat
  BY CacheConstants, FS_CardinalityType
<1>2. IsFiniteSet(S) /\ Cardinality(S) <= Cardinality(Reader)
  BY <1>1, FS_Subset
<1> QED BY <1>1, <1>2, FS_CardinalityType, FS_EmptySet

LEMMA ReaderCame ==
  ASSUME has \in [Reader -> Session \cup {NoSession}], NEW r \in Reader, NEW s \in Session,
         has[r] = NoSession, has' = [has EXCEPT ![r] = s]
  PROVE  /\ Cardinality(ReadersOf(s)') = Cardinality(ReadersOf(s)) + 1
         /\ \A t \in Session \ {s} : ReadersOf(t)' = ReadersOf(t)
         /\ Cardinality(Openers') = Cardinality(Openers) + 1
<1>1. /\ ReadersOf(s)' = ReadersOf(s) \cup {r} /\ r \notin ReadersOf(s)
      /\ Openers' = Openers \cup {r} /\ r \notin Openers
      /\ \A t \in Session \ {s} : ReadersOf(t)' = ReadersOf(t)
  BY CacheConstants DEF ReadersOf, Openers
<1>2. IsFiniteSet(ReadersOf(s)) /\ IsFiniteSet(Openers)
  BY ReadersCounted DEF ReadersOf, Openers
<1>3. Cardinality(ReadersOf(s) \cup {r}) = Cardinality(ReadersOf(s)) + 1
  BY <1>1, <1>2, FS_AddElement
<1>4. Cardinality(Openers \cup {r}) = Cardinality(Openers) + 1
  BY <1>1, <1>2, FS_AddElement
<1> QED BY <1>1, <1>3, <1>4

LEMMA ReaderWent ==
  ASSUME has \in [Reader -> Session \cup {NoSession}], NEW r \in Reader, has[r] # NoSession,
         has' = [has EXCEPT ![r] = NoSession]
  PROVE  /\ Cardinality(ReadersOf(has[r])) \in Nat \ {0}
         /\ Cardinality({q \in Reader : has'[q] = has[r]}) = Cardinality(ReadersOf(has[r])) - 1
         /\ \A t \in Session \ {has[r]} : ReadersOf(t)' = ReadersOf(t)
         /\ Cardinality(Openers) \in Nat \ {0} /\ Cardinality(Openers') = Cardinality(Openers) - 1
<1> DEFINE s == has[r]
<1>1. /\ {q \in Reader : has'[q] = s} = ReadersOf(s) \ {r} /\ r \in ReadersOf(s)
      /\ Openers' = Openers \ {r} /\ r \in Openers
      /\ \A t \in Session \ {s} : ReadersOf(t)' = ReadersOf(t)
  BY CacheConstants DEF ReadersOf, Openers
<1>2. /\ IsFiniteSet(ReadersOf(s)) /\ Cardinality(ReadersOf(s)) \in Nat \ {0}
      /\ IsFiniteSet(Openers) /\ Cardinality(Openers) \in Nat \ {0}
  <2>1. ReadersOf(s) \in SUBSET Reader /\ Openers \in SUBSET Reader
    BY DEF ReadersOf, Openers
  <2> QED BY <1>1, <2>1, ReadersCounted
<1> HIDE DEF s
<1>3. Cardinality(ReadersOf(s) \ {r}) = Cardinality(ReadersOf(s)) - 1
  BY <1>1, <1>2, FS_RemoveElement
<1>4. Cardinality(Openers \ {r}) = Cardinality(Openers) - 1
  BY <1>1, <1>2, FS_RemoveElement
<1> QED BY <1>1, <1>2, <1>3, <1>4 DEF s

-----------------------------------------------------------------------------
(* The operations keep the invariant *)

\* CacheAccounted without the sum, for which there are the lemmas above.
Told ==
  /\ \A r \in Reader : has[r] # NoSession => has[r] \in Live
  /\ \A s \in Live :
       /\ ses[s].refs = Cardinality(ReadersOf(s))
       /\ ses[s].cached <=> s \in Entries
       /\ ~ses[s].cached => ses[s].refs = 1
  /\ Entries \subseteq Live
  /\ opens = Cardinality(Openers)

LEMMA InvParts ==
  CacheInv <=> /\ CacheTypeOK /\ Told /\ bytes = Cost(Entries)
               /\ ListIsOrder /\ BudgetKept /\ CacheCurrent /\ GoneIsEmpty
BY DEF CacheInv, CacheAccounted, Told, Openers

LEMMA Typed ==
  ASSUME CacheTypeOK, Told
  PROVE  /\ ListTypes /\ Costly
         /\ \A s \in Live : ses[s] \in Sessions
         /\ Idle \in SUBSET Entries /\ \A r \in Reader : has[r] \notin Idle
<1>1. ListTypes /\ \A s \in Live : ses[s] \in Sessions
  BY DEF CacheTypeOK, ListTypes, Live
<1>2. Costly
  BY <1>1, CacheConstants DEF Told, Costly, Sessions
<1>3. ASSUME NEW r \in Reader, has[r] \in Idle
      PROVE  FALSE
  <2>1. ReadersOf(has[r]) = {}
    BY <1>3, ReadersCounted DEF Idle, Told, ReadersOf
  <2> QED BY <2>1 DEF ReadersOf
<1> QED BY <1>1, <1>2, <1>3 DEF Idle

\* Entries without readers go: for memory, or because the budget is lowered.
LEMMA EvictionKeeps ==
  ASSUME CacheInv, NEW gone \in SUBSET Idle, ses' = Released(gone), older' = Kept(gone),
         bytes' = bytes - Cost(gone), UNCHANGED <<opens, has, registered, version>>,
         limit' \in Limits, \A s \in Idle \ gone : bytes - Cost(gone) <= limit'
  PROVE  CacheInv'
<1>1. /\ CacheTypeOK /\ Told /\ bytes = Cost(Entries)
      /\ ListIsOrder /\ BudgetKept /\ CacheCurrent /\ GoneIsEmpty
  BY InvParts
<1>2. /\ ListTypes /\ Costly /\ gone \in SUBSET Entries /\ gone \subseteq Session
      /\ \A r \in Reader : has[r] \notin gone
  BY <1>1, Typed DEF ListTypes
<1>3. Entries' = Entries \ gone /\ ListTypes' /\ ListIsOrder'
  BY <1>1, <1>2, ListKept
<1>4. \A s \in Session : ses'[s] = IF s \in gone THEN Free ELSE ses[s]
  BY DEF Released
<1>5. Live' = Live \ gone
  BY <1>4 DEF Live
<1>6. /\ Cost(gone) \in Nat /\ Cost(Entries)' \in Nat
      /\ Cost(Entries) = Cost(gone) + Cost(Entries)'
  BY <1>2, <1>3, <1>4, CostRemoved DEF ListTypes
<1>7. bytes' = Cost(Entries)' /\ bytes' \in Nat
  BY <1>1, <1>6
<1>8. CacheTypeOK'
  BY <1>1, <1>3, <1>7 DEF CacheTypeOK, ListTypes, Released
<1>9. Told'
  <2>1. \A s : ReadersOf(s)' = ReadersOf(s)
    BY DEF ReadersOf
  <2>2. Openers' = Openers
    BY DEF Openers
  <2>3. \A s \in Live' : s \in Live /\ s \notin gone /\ ses'[s] = ses[s]
    BY <1>4, <1>5 DEF Live
  <2> QED BY <1>1, <1>2, <1>3, <1>5, <2>1, <2>2, <2>3 DEF Told
<1>10. BudgetKept'
  <2>1. Cardinality(Entries') <= Cardinality(Entries) /\ Cardinality(Entries') \in Nat
        /\ Cardinality(Entries) \in Nat
    BY <1>2, <1>3, EntriesFinite, FS_Subset, FS_CardinalityType
  <2>2. \A s \in Entries' : s \in Entries \ gone /\ ses'[s] = ses[s]
    BY <1>2, <1>3, <1>4 DEF ListTypes
  <2> QED BY <1>1, <2>1, <2>2, CacheConstants DEF BudgetKept, Idle
<1>11. CacheCurrent'
  <2>1. \A s \in Entries' : s \in Entries /\ ses'[s] = ses[s]
    BY <1>2, <1>3, <1>4 DEF ListTypes
  <2> QED BY <1>1, <2>1 DEF CacheCurrent
<1>12. GoneIsEmpty'
  BY <1>1, <1>5 DEF GoneIsEmpty
<1> QED BY <1>3, <1>7, <1>8, <1>9, <1>10, <1>11, <1>12, InvParts
    DEF CacheInv, CacheAccounted, Told, Openers

LEMMA OpenFailsKeeps ==
  ASSUME CacheInv, NEW r, NEW src, NEW args, NEW nocache, OpenFails(r, src, args, nocache)
  PROVE  CacheInv'
<1>1. PICK k \in 0..Cardinality(Idle) :
        ses' = Released(Oldest(k)) /\ older' = Kept(Oldest(k)) /\ bytes' = bytes - Cost(Oldest(k))
  BY DEF OpenFails
<1>2. UNCHANGED <<limit, opens, has, registered, version>>
  BY DEF OpenFails
<1>3. Oldest(k) \in SUBSET Idle
  BY DEF Oldest
<1>4. Cost(Oldest(k)) \in Nat
  <2>1. ListTypes /\ Costly /\ Oldest(k) \in SUBSET Entries
    BY <1>3, InvParts, Typed
  <2>2. SumFunctionOnSet([s \in Entries |-> ses[s].cost], Oldest(k)) \in Nat
    BY <2>1, EntriesFinite, SumSplits DEF Costly
  <2> QED BY <2>2 DEF Cost
<1>5. limit \in Nat /\ bytes \in Nat /\ limit' \in Limits /\ \A s \in Idle : bytes <= limit
  BY <1>2, InvParts, CacheConstants DEF CacheTypeOK, BudgetKept, Idle
<1> QED BY <1>1, <1>2, <1>3, <1>4, <1>5, EvictionKeeps

\* Evicting goes on until it is enough or nothing without readers is left.
LEMMA EvictedEnough ==
  ASSUME NEW C \in SUBSET Nat
  PROVE  Evicted(C) = Idle \/ \E j \in C : Evicted(C) = Oldest(j)
<1>1. CASE C = {}
  BY <1>1 DEF Evicted
<1>2. CASE C # {}
  <2>1. IsWellFoundedOn({q \in Nat \X Nat : q[1] < q[2]}, Nat)
    BY NatLessThanWellFounded DEF OpToRel
  <2>2. PICK i \in C : \A j \in C : <<j, i>> \notin {q \in Nat \X Nat : q[1] < q[2]}
    BY <1>2, <2>1, WFMin
  <2>3. \A j \in C : i <= j
    <3> TAKE j \in C
    <3>1. i \in Nat /\ j \in Nat
      OBVIOUS
    <3>2. ~(j < i)
      BY <2>2, <3>1
    <3> QED BY <3>1, <3>2
  <2>4. Min(C) \in C
    BY <2>3 DEF Min
  <2> QED BY <1>2, <2>4 DEF Evicted
<1> QED BY <1>1, <1>2

\* Some entries are dropped: hidden, or gone if nobody reads them.  Sources may
\* change whose entries are all dropped.
LEMMA DropKeeps ==
  ASSUME CacheInv, NEW S \in SUBSET Source, DropLocked(S), UNCHANGED <<opens, has>>,
         limit' \in Limits,
         limit' = limit \/ (limit' = 0 /\ S = Source),
         version' \in [Source -> 0..MaxVersion],
         \A src \in Source \ S : version'[src] = version[src],
         \/ registered' = registered
         \/ registered /\ registered' = FALSE /\ opens = 0 /\ S = Source
  PROVE  CacheInv'
<1> DEFINE hit == {s \in Entries : ses[s].src \in S}
           gone == {s \in hit : ses[s].refs = 0}
<1>1. /\ CacheTypeOK /\ Told /\ bytes = Cost(Entries)
      /\ ListIsOrder /\ BudgetKept /\ CacheCurrent /\ GoneIsEmpty
  BY InvParts
<1>2. /\ ses' = [s \in Session |->
           IF s \in gone THEN Free
           ELSE IF s \in hit THEN [ses[s] EXCEPT !.invalid = TRUE] ELSE ses[s]]
      /\ older' = Kept(gone) /\ bytes' = bytes - Cost(gone)
  BY DEF DropLocked
<1>3. /\ ListTypes /\ Costly /\ gone \in SUBSET Idle /\ gone \in SUBSET Entries
      /\ gone \subseteq Session /\ \A r \in Reader : has[r] \notin gone
      /\ \A s \in Live : ses[s] \in Sessions
  <2>1. gone \in SUBSET Idle
    BY DEF Idle
  <2> HIDE DEF gone
  <2> QED BY <1>1, <2>1, Typed DEF ListTypes
<1>4. \A s \in Session :
        /\ s \in gone => ses'[s] = Free
        /\ s \in hit \ gone => ses'[s] = [ses[s] EXCEPT !.invalid = TRUE]
        /\ s \notin hit => ses'[s] = ses[s]
  BY <1>2
<1>5. hit \subseteq Live /\ hit \subseteq Session
  BY <1>1, <1>3 DEF Told, ListTypes
<1>6. \A s \in hit : s \in Entries /\ ses[s].src \in S /\ (s \notin gone => ses[s].refs # 0)
  OBVIOUS
<1>7. \A s \in Entries : ses[s].src \in S => s \in hit
  OBVIOUS
<1> HIDE DEF gone, hit
<1>8. \A s \in Session \ gone :
        /\ s \in Live => ses'[s] \in Sessions
        /\ s \in Live =>
             /\ ses'[s].src = ses[s].src /\ ses'[s].ver = ses[s].ver /\ ses'[s].args = ses[s].args
             /\ ses'[s].cost = ses[s].cost /\ ses'[s].refs = ses[s].refs
             /\ ses'[s].cached = ses[s].cached
             /\ ses'[s].invalid = IF s \in hit THEN TRUE ELSE ses[s].invalid
        /\ s \notin Live => ses'[s] = Free
  <2> SUFFICES ASSUME NEW s \in Session \ gone
               PROVE  /\ s \in Live => ses'[s] \in Sessions
                      /\ s \in Live =>
                           /\ ses'[s].src = ses[s].src /\ ses'[s].ver = ses[s].ver
                           /\ ses'[s].args = ses[s].args
                           /\ ses'[s].cost = ses[s].cost /\ ses'[s].refs = ses[s].refs
                           /\ ses'[s].cached = ses[s].cached
                           /\ ses'[s].invalid = IF s \in hit THEN TRUE ELSE ses[s].invalid
                      /\ s \notin Live => ses'[s] = Free
    OBVIOUS
  <2>1. CASE s \notin hit
    BY <1>3, <1>4, <2>1 DEF Live
  <2>2. CASE s \in hit
    <3>1. s \in Live /\ ses[s] \in Sessions /\ ses'[s] = [ses[s] EXCEPT !.invalid = TRUE]
      BY <1>3, <1>4, <1>5, <2>2
    <3> QED BY <2>2, <3>1 DEF Sessions
  <2> QED BY <2>1, <2>2
<1>9. Entries' = Entries \ gone /\ ListTypes' /\ ListIsOrder'
  BY <1>1, <1>2, <1>3, ListKept
<1>10. Live' = Live \ gone
  <2>1. ASSUME NEW s \in Session PROVE ses'[s] # Free <=> s \in Live \ gone
    <3>1. CASE s \in gone
      BY <1>4, <3>1
    <3>2. CASE s \notin gone
      BY <1>8, <3>2, FreeIsNone
    <3> QED BY <3>1, <3>2
  <2> QED BY <2>1 DEF Live
<1>11. \A s \in Entries' : s \in Session \ gone /\ s \in Live /\ s \in Entries
  BY <1>1, <1>3, <1>9 DEF Told, ListTypes
<1>12. /\ Cost(gone) \in Nat /\ Cost(Entries)' \in Nat
       /\ Cost(Entries) = Cost(gone) + Cost(Entries)'
  BY <1>3, <1>8, <1>9, <1>11, CostRemoved
<1>13. bytes' = Cost(Entries)' /\ bytes' \in Nat /\ bytes' <= bytes
  BY <1>1, <1>2, <1>12
<1>14. CacheTypeOK'
  <2>1. ses' \in [Session -> Sessions \cup {Free}]
    <3>1. \A s \in Session : ses'[s] \in Sessions \cup {Free}
      BY <1>4, <1>8
    <3>2. ses' = [s \in Session |-> ses'[s]]
      BY ONLY <1>2
    <3> QED BY ONLY <3>1, <3>2
  <2>2. /\ opens' \in Nat /\ has' \in [Reader -> Session \cup {NoSession}]
        /\ registered' \in BOOLEAN
    BY <1>1 DEF CacheTypeOK
  <2> QED BY <1>9, <1>13, <2>1, <2>2 DEF CacheTypeOK, ListTypes
<1>15. Told'
  <2>1. \A s : ReadersOf(s)' = ReadersOf(s)
    BY DEF ReadersOf
  <2>2. Openers' = Openers
    BY DEF Openers
  <2>3. \A s \in Live' : s \in Live /\ s \in Session \ gone
    BY <1>10 DEF Live
  <2>4. \A r \in Reader : has'[r] # NoSession => has'[r] \in Live'
    BY <1>1, <1>3, <1>10 DEF Told
  <2>5. ASSUME NEW s \in Live'
        PROVE  /\ ses'[s].refs = Cardinality(ReadersOf(s)')
               /\ ses'[s].cached <=> s \in Entries'
               /\ ~ses'[s].cached => ses'[s].refs = 1
    <3>1. s \in Live /\ s \in Session \ gone
      BY <2>3
    <3>2. /\ ses[s].refs = Cardinality(ReadersOf(s))
          /\ ses[s].cached <=> s \in Entries
          /\ ~ses[s].cached => ses[s].refs = 1
      BY <1>1, <3>1 DEF Told
    <3>3. ses'[s].refs = ses[s].refs /\ ses'[s].cached = ses[s].cached
      BY <1>8, <3>1
    <3>4. s \in Entries' <=> s \in Entries
      BY <1>9, <3>1
    <3> QED BY <2>1, <3>2, <3>3, <3>4
  <2>6. Entries' \subseteq Live'
    BY <1>1, <1>9, <1>10 DEF Told
  <2>7. opens' = Cardinality(Openers')
    BY <1>1, <2>2 DEF Told
  <2> QED BY <2>4, <2>5, <2>6, <2>7 DEF Told
<1>16. BudgetKept'
  <2>1. Cardinality(Entries') <= Cardinality(Entries) /\ Cardinality(Entries') \in Nat
        /\ Cardinality(Entries) \in Nat
    BY <1>3, <1>9, EntriesFinite, FS_Subset, FS_CardinalityType
  <2>2. ASSUME NEW s \in Entries', ses'[s].refs = 0
        PROVE  ~ses'[s].invalid /\ bytes' <= limit'
    <3>1. s \in Entries /\ s \notin gone /\ s \in Live /\ s \in Session /\ ses[s].refs = 0
      BY <1>8, <1>11, <2>2
    <3>2. s \notin hit
      BY <1>6, <3>1
    <3>3. ~ses[s].invalid /\ bytes <= limit
      BY <1>1, <3>1 DEF BudgetKept
    <3>4. limit' = limit
      BY <1>3, <1>7, <3>1, <3>2 DEF Sessions
    <3>5. limit \in Nat /\ bytes \in Nat
      BY <1>1, CacheConstants DEF CacheTypeOK
    <3>6. ~ses'[s].invalid
      BY <1>8, <3>1, <3>2, <3>3
    <3>7. bytes' \in Nat /\ bytes' <= bytes
      BY <1>13
    <3> QED BY ONLY <3>3, <3>4, <3>5, <3>6, <3>7
  <2> QED BY <1>1, <2>1, <2>2, CacheConstants DEF BudgetKept
<1>17. CacheCurrent'
  <2> SUFFICES ASSUME NEW s \in Entries', NEW t \in Entries', ~ses'[s].invalid
               PROVE  /\ ses'[s].ver = version'[ses'[s].src]
                      /\ s # t /\ ~ses'[t].invalid =>
                           <<ses'[s].src, ses'[s].args>> # <<ses'[t].src, ses'[t].args>>
    BY DEF CacheCurrent
  <2>1. /\ s \in Entries /\ s \in Live /\ s \in Session \ gone
        /\ t \in Entries /\ t \in Live /\ t \in Session \ gone
    BY <1>11
  <2>2. s \notin hit /\ ~ses[s].invalid /\ (~ses'[t].invalid => ~ses[t].invalid)
    BY <1>8, <2>1
  <2>3. ses[s].src \in Source \ S
    BY <1>3, <1>7, <2>1, <2>2 DEF Sessions
  <2>4. /\ ses'[s].src = ses[s].src /\ ses'[s].ver = ses[s].ver /\ ses'[s].args = ses[s].args
        /\ ses'[t].src = ses[t].src /\ ses'[t].args = ses[t].args
    BY <1>8, <2>1
  <2>5. version'[ses[s].src] = version[ses[s].src]
    BY <2>3
  <2>6. /\ ses[s].ver = version[ses[s].src]
        /\ s # t /\ ~ses[t].invalid => <<ses[s].src, ses[s].args>> # <<ses[t].src, ses[t].args>>
    BY <1>1, <2>1, <2>2 DEF CacheCurrent
  <2> QED BY ONLY <2>2, <2>4, <2>5, <2>6
<1>18. GoneIsEmpty'
  <2>1. CASE registered' = registered
    BY <1>1, <1>10, <2>1 DEF GoneIsEmpty
  <2>2. CASE opens = 0 /\ S = Source
    <3>1. Openers = {}
      BY <1>1, <2>2, ReadersCounted DEF Told, Openers
    <3>2. ASSUME NEW s \in Live
          PROVE  s \in gone
      <4>1. ReadersOf(s) = {} /\ s \in Session
        BY <3>1, CacheConstants DEF ReadersOf, Openers, Live
      <4>2. ses[s].refs = 0
        BY <1>1, <4>1, FS_EmptySet DEF Told
      <4>3. s \in Entries /\ ses[s].src \in S
        BY <1>1, <1>3, <2>2, <4>2 DEF Told, Sessions
      <4> QED BY <1>6, <1>7, <4>2, <4>3
    <3> QED BY <1>10, <2>2, <3>2 DEF GoneIsEmpty
  <2> QED BY <2>1, <2>2
<1> QED BY <1>9, <1>13, <1>14, <1>15, <1>16, <1>17, <1>18, InvParts
    DEF CacheInv, CacheAccounted, Told, Openers

LEMMA DropsKeep ==
  ASSUME CacheInv,
         \/ \E S \in SUBSET Source : CacheDrop(S)
         \/ \E src \in Source : DropAndChange(src)
         \/ DecoderDeinit
  PROVE  CacheInv'
<1>1. CacheTypeOK /\ version \in [Source -> 0..MaxVersion] /\ limit \in Limits
  BY InvParts DEF CacheTypeOK
<1>2. ASSUME NEW S \in SUBSET Source, CacheDrop(S)
      PROVE  CacheInv'
  BY <1>1, <1>2, DropKeeps DEF CacheDrop
<1>3. ASSUME NEW src \in Source, DropAndChange(src)
      PROVE  CacheInv'
  <2>1. version' \in [Source -> 0..MaxVersion] /\ \A x \in Source \ {src} : version'[x] = version[x]
    <3>1. version[src] + 1 \in 0..MaxVersion
      BY <1>1, <1>3, CacheConstants DEF DropAndChange
    <3> QED BY <1>1, <1>3, <3>1 DEF DropAndChange
  <2> QED BY <1>1, <1>3, <2>1, DropKeeps DEF DropAndChange
<1>4. CASE DecoderDeinit
  BY <1>1, <1>4, DropKeeps DEF DecoderDeinit, CanDeinit
<1> QED BY <1>2, <1>3, <1>4

LEMMA SetLimitKeeps ==
  ASSUME CacheInv, NEW b \in Limits, SetLimit(b)
  PROVE  CacheInv'
<1>1. /\ limit' = b /\ limit' \in Limits /\ UNCHANGED <<opens, has, registered, version>>
      /\ version \in [Source -> 0..MaxVersion]
  BY InvParts DEF SetLimit, CacheTypeOK
<1>2. CASE b = 0
  BY <1>1, <1>2, DropKeeps DEF SetLimit
<1>3. CASE b # 0
  <2> DEFINE C == {j \in 0..Cardinality(Idle) : bytes - Cost(Oldest(j)) <= b}
             gone == Evicted(C)
  <2>1. ses' = Released(gone) /\ older' = Kept(gone) /\ bytes' = bytes - Cost(gone)
    BY <1>3 DEF SetLimit
  <2>2. gone \in SUBSET Idle
    BY DEF Evicted, Oldest
  <2>3. \A s \in Idle \ gone : bytes - Cost(gone) <= limit'
    <3>1. gone = Idle \/ \E j \in C : gone = Oldest(j)
      <4>1. C \in SUBSET Nat
        OBVIOUS
      <4> HIDE DEF C
      <4> QED BY <4>1, EvictedEnough
    <3> QED BY <1>1, <3>1
  <2> HIDE DEF gone
  <2> QED BY <1>1, <2>1, <2>2, <2>3, EvictionKeeps
<1> QED BY <1>2, <1>3

\* A reader takes an entry, which is the newest then.
LEMMA OpenHitKeeps ==
  ASSUME CacheInv, NEW r \in Reader, NEW src \in Source, NEW args \in Requests, OpenHit(r, src, args)
  PROVE  CacheInv'
<1>1. /\ CacheTypeOK /\ Told /\ bytes = Cost(Entries)
      /\ ListIsOrder /\ BudgetKept /\ CacheCurrent /\ GoneIsEmpty
  BY InvParts
<1>2. PICK s \in Hits(src, args) :
        /\ ses' = [ses EXCEPT ![s].refs = @ + 1] /\ older' = Newest(s, {})
        /\ has' = [has EXCEPT ![r] = s]
  BY DEF OpenHit
<1>3. /\ registered /\ has[r] = NoSession /\ opens' = opens + 1
      /\ UNCHANGED <<limit, bytes, registered, version>>
  BY DEF OpenHit
<1>4. /\ ListTypes /\ Costly /\ s \in Entries /\ s \in Session /\ s \in Live
      /\ (\A t \in Live : ses[t] \in Sessions) /\ ~ses[s].invalid
  BY <1>1, Typed DEF ListTypes, Hits, Told
<1>5. Entries' = Entries /\ ListTypes' /\ ListIsOrder'
  <2>1. Entries' = (Entries \ {}) \cup {s} /\ ListTypes' /\ ListIsOrder'
    BY <1>1, <1>2, <1>4, ListNewest
  <2> QED BY <1>4, <2>1
<1>6. /\ Cardinality(ReadersOf(s)') = Cardinality(ReadersOf(s)) + 1
      /\ \A t \in Session \ {s} : ReadersOf(t)' = ReadersOf(t)
      /\ Cardinality(Openers') = Cardinality(Openers) + 1
  BY <1>1, <1>2, <1>3, <1>4, ReaderCame DEF CacheTypeOK
<1>7. ses[s].refs = Cardinality(ReadersOf(s)) /\ Cardinality(ReadersOf(s)') \in 0..Cardinality(Reader)
  <2>1. ReadersOf(s)' \in SUBSET Reader
    BY DEF ReadersOf
  <2>2. Cardinality(ReadersOf(s)') \in 0..Cardinality(Reader)
    BY ONLY <2>1, ReadersCounted
  <2> QED BY <1>1, <1>4, <2>2 DEF Told
<1>8. /\ ses'[s] = [ses[s] EXCEPT !.refs = Cardinality(ReadersOf(s)')] /\ ses'[s] \in Sessions
      /\ \A t \in Session \ {s} : ses'[t] = ses[t]
      /\ ses' \in [Session -> Sessions \cup {Free}]
  <2>1. ses \in [Session -> Sessions \cup {Free}]
    BY <1>1 DEF CacheTypeOK
  <2>2. /\ ses'[s] = [ses[s] EXCEPT !.refs = Cardinality(ReadersOf(s)')]
        /\ \A t \in Session \ {s} : ses'[t] = ses[t]
        /\ ses' = [t \in Session |-> ses'[t]]
    BY <1>2, <1>4, <1>6, <1>7, <2>1
  <2>3. ses'[s] \in Sessions
    BY <1>4, <1>7, <2>2 DEF Sessions
  <2>4. \A t \in Session : ses'[t] \in Sessions \cup {Free}
    BY <2>1, <2>2, <2>3
  <2>5. ses' \in [Session -> Sessions \cup {Free}]
    BY ONLY <2>2, <2>4
  <2> QED BY <2>2, <2>3, <2>5
<1>9. /\ ses'[s].src = ses[s].src /\ ses'[s].ver = ses[s].ver /\ ses'[s].args = ses[s].args
      /\ ses'[s].cost = ses[s].cost /\ ses'[s].cached = ses[s].cached
      /\ ses'[s].invalid = ses[s].invalid /\ ses'[s].refs = Cardinality(ReadersOf(s)')
  <2>1. ses[s] \in Sessions
    BY <1>4
  <2> QED BY <1>8, <2>1 DEF Sessions
<1>10. Live' = Live
  BY <1>4, <1>8, FreeIsNone DEF Live
<1>11. bytes' = Cost(Entries)'
  <2>1. \A t \in Entries' : ses'[t].cost = ses[t].cost
    BY <1>4, <1>5, <1>8, <1>9 DEF ListTypes
  <2>2. /\ Cost({}) \in Nat /\ Cost(Entries)' \in Nat /\ Cost(Entries) = Cost({}) + Cost(Entries)'
    BY <1>4, <1>5, <2>1, CostRemoved
  <2>3. Cost({}) = 0
    BY FS_EmptySet, SumStep DEF Cost
  <2> QED BY <1>1, <1>3, <2>2, <2>3
<1>12. CacheTypeOK'
  <2>1. limit' \in Limits /\ bytes' \in Nat /\ opens' \in Nat /\ registered' \in BOOLEAN
        /\ version' \in [Source -> 0..MaxVersion]
    BY <1>1, <1>3 DEF CacheTypeOK
  <2>2. has' \in [Reader -> Session \cup {NoSession}]
    BY <1>1, <1>2, <1>4 DEF CacheTypeOK
  <2> QED BY <1>5, <1>8, <2>1, <2>2 DEF CacheTypeOK, ListTypes
<1>13. Told'
  <2>1. \A q \in Reader : has'[q] # NoSession => has'[q] \in Live'
    BY <1>1, <1>2, <1>4, <1>10 DEF Told, CacheTypeOK
  <2>2. ASSUME NEW t \in Live'
        PROVE  /\ ses'[t].refs = Cardinality(ReadersOf(t)')
               /\ ses'[t].cached <=> t \in Entries'
               /\ ~ses'[t].cached => ses'[t].refs = 1
    <3>1. CASE t = s
      <4>1. ses[s].cached
        BY <1>1, <1>4 DEF Told
      <4> QED BY <1>4, <1>5, <1>9, <3>1, <4>1
    <3>2. CASE t # s
      <4>1. t \in Session \ {s} /\ t \in Live
        BY <1>10, <3>2, <2>2 DEF Live
      <4> QED BY <1>1, <1>5, <1>6, <1>8, <4>1 DEF Told
    <3> QED BY <3>1, <3>2
  <2>3. Entries' \subseteq Live'
    BY <1>1, <1>5, <1>10 DEF Told
  <2>4. opens' = Cardinality(Openers')
    BY <1>1, <1>3, <1>6 DEF Told
  <2> QED BY <2>1, <2>2, <2>3, <2>4 DEF Told
<1>14. \A t \in Entries : /\ ses'[t].src = ses[t].src /\ ses'[t].ver = ses[t].ver
                          /\ ses'[t].args = ses[t].args /\ ses'[t].invalid = ses[t].invalid
  BY <1>4, <1>8, <1>9 DEF ListTypes
<1>15. BudgetKept'
  <2>1. ASSUME NEW t \in Entries', ses'[t].refs = 0
        PROVE  ~ses'[t].invalid /\ bytes' <= limit'
    <3>1. CASE t = s
      <4>1. ses[s].refs \in Nat
        BY <1>4 DEF Sessions
      <4> QED BY <1>6, <1>7, <1>9, <2>1, <3>1, <4>1
    <3>2. CASE t # s
      <4>1. t \in Entries /\ ses[t].refs = 0
        BY <1>4, <1>5, <1>8, <2>1, <3>2 DEF ListTypes
      <4> QED BY <1>1, <1>3, <1>14, <4>1 DEF BudgetKept
    <3> QED BY <3>1, <3>2
  <2> QED BY <1>1, <1>5, <2>1 DEF BudgetKept
<1>16. CacheCurrent'
  BY <1>1, <1>3, <1>5, <1>14 DEF CacheCurrent
<1>17. GoneIsEmpty'
  BY <1>3 DEF GoneIsEmpty
<1> QED BY <1>5, <1>11, <1>12, <1>13, <1>15, <1>16, <1>17
    DEF CacheInv, CacheAccounted, Told, Openers

LEMMA CostOfOne ==
  ASSUME ListTypes, Costly
  PROVE  Cost({}) = 0 /\ \A s \in Entries : Cost({s}) = ses[s].cost
<1> DEFINE c == [s \in Entries |-> ses[s].cost]
<1>1. SumFunctionOnSet(c, {}) = 0
  BY FS_EmptySet, SumStep
<1>2. ASSUME NEW s \in Entries
      PROVE  SumFunctionOnSet(c, {s}) = c[s] + SumFunctionOnSet(c, {s} \ {s}) /\ c[s] \in Nat
  <2>1. IsFiniteSet({s}) /\ (\A x \in {s} : c[x] \in Nat) /\ s \in {s}
    BY FS_Singleton DEF Costly
  <2> QED BY ONLY <2>1, SumAdds
<1>3. \A s : {s} \ {s} = {}
  OBVIOUS
<1>4. \A s \in Entries : SumFunctionOnSet(c, {s}) = c[s]
  <2> HIDE DEF c
  <2> QED BY <1>1, <1>2, <1>3
<1> QED BY <1>1, <1>4 DEF Cost

\* The last reader takes a session along that is no entry, or not to be kept.
LEMMA LastLeaves ==
  ASSUME CacheInv, NEW r \in Reader, CloseReader(r), Goes(has[r])
  PROVE  CacheInv'
<1> DEFINE s == has[r]
           gone == {s} \cap Entries
<1>1. /\ CacheTypeOK /\ Told /\ bytes = Cost(Entries)
      /\ ListIsOrder /\ BudgetKept /\ CacheCurrent /\ GoneIsEmpty
  BY InvParts
<1>2. /\ s # NoSession /\ ses' = Released({s}) /\ older' = Kept({s})
      /\ bytes' = bytes - (IF ses[s].cached THEN ses[s].cost ELSE 0)
      /\ has' = [has EXCEPT ![r] = NoSession] /\ opens' = opens - 1
      /\ UNCHANGED <<limit, registered, version>>
  BY DEF CloseReader
<1>3. ~ses[s].cached \/ ses[s].refs = 1
  BY DEF Goes
<1> HIDE DEF s
<1>4. /\ ListTypes /\ Costly /\ s \in Live /\ s \in Session
      /\ \A t \in Live : ses[t] \in Sessions
  <2>1. s \in Live
    BY <1>1, <1>2 DEF Told, s
  <2> QED BY <1>1, <2>1, Typed DEF Live
<1>5. ses[s].refs = 1 /\ (ses[s].cached <=> s \in Entries)
  BY <1>1, <1>3, <1>4 DEF Told
<1>6. /\ Cardinality({q \in Reader : has'[q] = s}) = Cardinality(ReadersOf(s)) - 1
      /\ \A t \in Session \ {s} : ReadersOf(t)' = ReadersOf(t)
      /\ Cardinality(Openers) \in Nat \ {0} /\ Cardinality(Openers') = Cardinality(Openers) - 1
  BY <1>1, <1>2, ReaderWent DEF CacheTypeOK, s
<1>7. \A q \in Reader : has'[q] # s
  <2>1. Cardinality({q \in Reader : has'[q] = s}) = 0
    BY <1>1, <1>4, <1>5, <1>6 DEF Told
  <2>2. {q \in Reader : has'[q] = s} = {}
    BY <2>1, ReadersCounted
  <2> QED BY <2>2
<1>8. Entries' = Entries \ {s} /\ ListTypes' /\ ListIsOrder'
  BY <1>1, <1>2, <1>4, ListKept
<1>9. \A t \in Session : ses'[t] = IF t = s THEN Free ELSE ses[t]
  BY <1>2 DEF Released
<1>10. Live' = Live \ {s}
  BY <1>9 DEF Live
<1>11. bytes' = Cost(Entries)' /\ bytes' \in Nat
  <2>1. gone \in SUBSET Entries /\ Entries' = Entries \ gone
    BY <1>8
  <2>2. \A t \in Entries' : ses'[t].cost = ses[t].cost
    BY <1>4, <1>8, <1>9 DEF ListTypes
  <2>3. Cost(gone) \in Nat /\ Cost(Entries)' \in Nat /\ Cost(Entries) = Cost(gone) + Cost(Entries)'
    BY ONLY <1>4, <2>1, <2>2, CostRemoved
  <2>4. Cost(gone) = IF ses[s].cached THEN ses[s].cost ELSE 0
    <3>1. CASE s \in Entries
      <4>1. gone = {s}
        BY <3>1
      <4> HIDE DEF gone
      <4> QED BY <1>4, <1>5, <3>1, <4>1, CostOfOne
    <3>2. CASE s \notin Entries
      <4>1. gone = {}
        BY <3>2
      <4> HIDE DEF gone
      <4> QED BY <1>4, <1>5, <3>2, <4>1, CostOfOne
    <3> QED BY <3>1, <3>2
  <2> HIDE DEF gone
  <2> QED BY <1>1, <1>2, <2>3, <2>4
<1>12. CacheTypeOK'
  <2>1. limit' \in Limits /\ registered' \in BOOLEAN /\ version' \in [Source -> 0..MaxVersion]
    BY <1>1, <1>2 DEF CacheTypeOK
  <2>2. has' \in [Reader -> Session \cup {NoSession}]
    BY <1>1, <1>2 DEF CacheTypeOK
  <2>3. opens' \in Nat
    BY <1>1, <1>2, <1>6 DEF Told
  <2>4. ses' \in [Session -> Sessions \cup {Free}]
    BY <1>1, <1>2 DEF CacheTypeOK, Released
  <2> QED BY <1>8, <1>11, <2>1, <2>2, <2>3, <2>4 DEF CacheTypeOK, ListTypes
<1>13. Told'
  <2>1. \A q \in Reader : has'[q] # NoSession => has'[q] \in Live'
    <3>1. \A q \in Reader : has'[q] # NoSession => has'[q] = has[q]
      BY <1>1, <1>2 DEF CacheTypeOK
    <3> QED BY <1>1, <1>7, <1>10, <3>1 DEF Told
  <2>2. \A t \in Live' : t \in Live /\ t \in Session \ {s} /\ ses'[t] = ses[t]
    BY <1>9, <1>10 DEF Live
  <2>3. opens' = Cardinality(Openers')
    BY <1>1, <1>2, <1>6 DEF Told
  <2> QED BY <1>1, <1>6, <1>8, <1>10, <2>1, <2>2, <2>3 DEF Told
<1>14. \A t \in Entries' : t \in Entries /\ ses'[t] = ses[t]
  BY <1>4, <1>8, <1>9 DEF ListTypes
<1>15. BudgetKept'
  <2>1. Cardinality(Entries') <= Cardinality(Entries) /\ Cardinality(Entries') \in Nat
        /\ Cardinality(Entries) \in Nat
    BY <1>4, <1>8, EntriesFinite, FS_Subset, FS_CardinalityType
  <2>2. bytes' <= bytes /\ bytes \in Nat /\ limit \in Nat
    <3>1. ses[s].cost \in Nat
      BY <1>4, CacheConstants DEF Sessions
    <3>2. bytes \in Nat /\ limit \in Nat
      BY <1>1, CacheConstants DEF CacheTypeOK
    <3> QED BY <1>2, <3>1, <3>2
  <2>3. Cardinality(Entries') <= MaxEntries
    BY <1>1, <2>1, CacheConstants DEF BudgetKept
  <2>4. \A t \in Entries' : ses'[t].refs = 0 => ~ses'[t].invalid /\ bytes <= limit
    BY <1>1, <1>14 DEF BudgetKept
  <2>5. limit' = limit /\ bytes' \in Nat
    BY <1>2, <1>11
  <2> QED BY <2>2, <2>3, <2>4, <2>5 DEF BudgetKept
<1>16. CacheCurrent'
  <2>1. version' = version
    BY <1>2
  <2> QED BY ONLY <1>1, <1>14, <2>1 DEF CacheCurrent
<1>17. GoneIsEmpty'
  BY <1>1, <1>2, <1>4 DEF GoneIsEmpty
<1> QED BY <1>8, <1>11, <1>12, <1>13, <1>15, <1>16, <1>17
    DEF CacheInv, CacheAccounted, Told, Openers

\* Another reader leaves an entry where it is.
LEMMA OthersLeave ==
  ASSUME CacheInv, NEW r \in Reader, CloseReader(r), ~Goes(has[r])
  PROVE  CacheInv'
<1>1. /\ CacheTypeOK /\ Told /\ bytes = Cost(Entries)
      /\ ListIsOrder /\ BudgetKept /\ CacheCurrent /\ GoneIsEmpty
  BY InvParts
<1>2. PICK s \in Session : s = has[r] /\ s \in Live
  BY <1>1 DEF CloseReader, Told, Live
<1>3. /\ ses' = [ses EXCEPT ![s].refs = @ - 1] /\ older' = older /\ bytes' = bytes
      /\ has' = [has EXCEPT ![r] = NoSession] /\ opens' = opens - 1
      /\ UNCHANGED <<limit, registered, version>>
  BY <1>2 DEF CloseReader
<1>4. /\ ListTypes /\ Costly /\ \A t \in Live : ses[t] \in Sessions
      /\ s \in Entries /\ ses[s].cached
      /\ ses[s].refs = 1 => ~ses[s].invalid /\ ~(bytes > limit)
  BY <1>1, <1>2, Typed DEF Told, Goes
<1>5. has[r] # NoSession /\ has[r] = s
  BY <1>2, CacheConstants
<1>6. /\ ses[s].refs \in Nat \ {0} /\ ses[s].refs = Cardinality(ReadersOf(s))
      /\ Cardinality(ReadersOf(s)') = ses[s].refs - 1
      /\ \A t \in Session \ {s} : ReadersOf(t)' = ReadersOf(t)
      /\ Cardinality(Openers) \in Nat \ {0} /\ Cardinality(Openers') = Cardinality(Openers) - 1
  <2>1. ses[s].refs = Cardinality(ReadersOf(s))
    BY <1>1, <1>2 DEF Told
  <2>2. /\ Cardinality(ReadersOf(s)) \in Nat \ {0}
        /\ Cardinality({q \in Reader : has'[q] = s}) = Cardinality(ReadersOf(s)) - 1
        /\ \A t \in Session \ {s} : ReadersOf(t)' = ReadersOf(t)
        /\ Cardinality(Openers) \in Nat \ {0} /\ Cardinality(Openers') = Cardinality(Openers) - 1
    BY <1>1, <1>3, <1>5, ReaderWent DEF CacheTypeOK
  <2>3. ReadersOf(s)' = {q \in Reader : has'[q] = s}
    BY DEF ReadersOf
  <2> QED BY <2>1, <2>2, <2>3
<1>7. Cardinality(ReadersOf(s)') \in 0..Cardinality(Reader)
  <2>1. ReadersOf(s)' \in SUBSET Reader
    BY DEF ReadersOf
  <2> QED BY ONLY <2>1, ReadersCounted
<1>8. /\ ses'[s] = [ses[s] EXCEPT !.refs = Cardinality(ReadersOf(s)')] /\ ses'[s] \in Sessions
      /\ \A t \in Session \ {s} : ses'[t] = ses[t]
      /\ ses' \in [Session -> Sessions \cup {Free}]
  <2>1. ses \in [Session -> Sessions \cup {Free}]
    BY <1>1 DEF CacheTypeOK
  <2>2. /\ ses'[s] = [ses[s] EXCEPT !.refs = Cardinality(ReadersOf(s)')]
        /\ \A t \in Session \ {s} : ses'[t] = ses[t]
        /\ ses' = [t \in Session |-> ses'[t]]
    BY <1>3, <1>6, <2>1
  <2>3. ses'[s] \in Sessions
    BY <1>2, <1>4, <1>7, <2>2 DEF Sessions
  <2>4. \A t \in Session : ses'[t] \in Sessions \cup {Free}
    BY <2>1, <2>2, <2>3
  <2>5. ses' \in [Session -> Sessions \cup {Free}]
    BY ONLY <2>2, <2>4
  <2> QED BY <2>2, <2>3, <2>5
<1>9. /\ ses'[s].src = ses[s].src /\ ses'[s].ver = ses[s].ver /\ ses'[s].args = ses[s].args
      /\ ses'[s].cost = ses[s].cost /\ ses'[s].cached = ses[s].cached
      /\ ses'[s].invalid = ses[s].invalid /\ ses'[s].refs = Cardinality(ReadersOf(s)')
  <2>1. ses[s] \in Sessions
    BY <1>2, <1>4
  <2> QED BY <1>8, <2>1 DEF Sessions
<1>10. Live' = Live /\ Entries' = Entries
  BY <1>2, <1>3, <1>8, FreeIsNone DEF Live, Entries
<1>11. bytes' = Cost(Entries)'
  <2>1. \A t \in Entries' : ses'[t].cost = ses[t].cost
    BY <1>4, <1>8, <1>9, <1>10 DEF ListTypes
  <2>2. /\ Cost({}) \in Nat /\ Cost(Entries)' \in Nat /\ Cost(Entries) = Cost({}) + Cost(Entries)'
    BY <1>4, <1>10, <2>1, CostRemoved
  <2>3. Cost({}) = 0
    BY <1>4, CostOfOne
  <2> QED BY <1>1, <1>3, <2>2, <2>3
<1>12. CacheTypeOK'
  <2>1. limit' \in Limits /\ bytes' \in Nat /\ registered' \in BOOLEAN
        /\ version' \in [Source -> 0..MaxVersion]
    BY <1>1, <1>3 DEF CacheTypeOK
  <2>2. has' \in [Reader -> Session \cup {NoSession}]
    BY <1>1, <1>3 DEF CacheTypeOK
  <2>3. opens' \in Nat
    BY <1>1, <1>3, <1>6 DEF Told
  <2>4. Entries' \subseteq Session /\ older' \in [Entries' -> SUBSET Session]
    BY <1>3, <1>4, <1>10 DEF ListTypes
  <2> QED BY <1>8, <2>1, <2>2, <2>3, <2>4 DEF CacheTypeOK
<1>13. Told'
  <2>1. \A q \in Reader : has'[q] # NoSession => has'[q] \in Live'
    BY <1>1, <1>3, <1>10 DEF Told, CacheTypeOK
  <2>2. ASSUME NEW t \in Live'
        PROVE  /\ ses'[t].refs = Cardinality(ReadersOf(t)')
               /\ ses'[t].cached <=> t \in Entries'
               /\ ~ses'[t].cached => ses'[t].refs = 1
    <3>1. CASE t = s
      BY <1>4, <1>9, <1>10, <3>1
    <3>2. CASE t # s
      <4>1. t \in Session \ {s} /\ t \in Live
        BY <1>10, <3>2, <2>2 DEF Live
      <4> QED BY <1>1, <1>6, <1>8, <1>10, <4>1 DEF Told
    <3> QED BY <3>1, <3>2
  <2>3. Entries' \subseteq Live'
    BY <1>1, <1>10 DEF Told
  <2>4. opens' = Cardinality(Openers')
    BY <1>1, <1>3, <1>6 DEF Told
  <2> QED BY <2>1, <2>2, <2>3, <2>4 DEF Told
<1>14. \A t \in Entries : /\ ses'[t].src = ses[t].src /\ ses'[t].ver = ses[t].ver
                          /\ ses'[t].args = ses[t].args /\ ses'[t].invalid = ses[t].invalid
  BY <1>4, <1>8, <1>9 DEF ListTypes
<1>15. BudgetKept'
  <2>1. ASSUME NEW t \in Entries, ses'[t].refs = 0
        PROVE  ~ses'[t].invalid /\ bytes' <= limit'
    <3>1. CASE t = s
      <4>1. ses[s].refs = 1
        BY <1>6, <1>9, <2>1, <3>1
      <4>2. bytes \in Nat /\ limit \in Nat
        BY <1>1, CacheConstants DEF CacheTypeOK
      <4> QED BY <1>3, <1>4, <1>9, <3>1, <4>1, <4>2
    <3>2. CASE t # s
      <4>1. t \in Entries /\ ses[t].refs = 0
        BY <1>4, <1>8, <2>1, <3>2 DEF ListTypes
      <4> QED BY <1>1, <1>3, <1>14, <4>1 DEF BudgetKept
    <3> QED BY <3>1, <3>2
  <2> QED BY <1>1, <1>10, <2>1 DEF BudgetKept
<1>16. CacheCurrent'
  <2>1. version' = version
    BY <1>3
  <2> QED BY ONLY <1>1, <1>10, <1>14, <2>1 DEF CacheCurrent
<1>17. GoneIsEmpty'
  BY <1>1, <1>2, <1>3 DEF GoneIsEmpty
<1>18. ListIsOrder'
  BY <1>1, <1>3, <1>10 DEF ListIsOrder
<1> QED BY <1>11, <1>12, <1>13, <1>15, <1>16, <1>17, <1>18
    DEF CacheInv, CacheAccounted, Told, Openers

\* A picture is decoded for a reader, over the evicted ones, and may become an entry.
LEMMA PictureComes ==
  ASSUME CacheInv, NEW r \in Reader, NEW gone \in SUBSET Idle, NEW s \in Session, NEW p \in Sessions,
         registered, has[r] = NoSession, ses[s] = Free, p.refs = 1, p.invalid = FALSE,
         ses' = [Released(gone) EXCEPT ![s] = p],
         older' = IF p.cached THEN Newest(s, gone) ELSE Kept(gone),
         bytes' = bytes - Cost(gone) + (IF p.cached THEN p.cost ELSE 0),
         has' = [has EXCEPT ![r] = s], opens' = opens + 1,
         UNCHANGED <<limit, registered, version>>,
         p.cached => /\ Fits(gone, p.cost) /\ p.ver = version[p.src]
                     /\ \A t \in Entries :
                          ~ses[t].invalid => <<ses[t].src, ses[t].args>> # <<p.src, p.args>>
  PROVE  CacheInv'
<1>1. /\ CacheTypeOK /\ Told /\ bytes = Cost(Entries)
      /\ ListIsOrder /\ BudgetKept /\ CacheCurrent /\ GoneIsEmpty
  BY InvParts
<1>2. /\ ListTypes /\ Costly /\ gone \in SUBSET Entries /\ gone \subseteq Session
      /\ (\A q \in Reader : has[q] \notin gone) /\ \A t \in Live : ses[t] \in Sessions
  BY <1>1, Typed DEF ListTypes
<1>3. s \notin Live /\ s \notin Entries /\ s \notin gone /\ \A q \in Reader : has[q] # s
  BY <1>1, <1>2, CacheConstants DEF Live, Told
<1>4. p.cost \in Nat /\ p.cached \in BOOLEAN
  BY CacheConstants DEF Sessions
<1>5. /\ ses'[s] = p
      /\ \A t \in Session \ {s} : ses'[t] = IF t \in gone THEN Free ELSE ses[t]
      /\ ses' = [t \in Session |-> ses'[t]]
  BY DEF Released
<1>6. Live' = (Live \ gone) \cup {s}
  BY <1>3, <1>5, FreeIsNone DEF Live
<1>7. /\ Entries' = (Entries \ gone) \cup (IF p.cached THEN {s} ELSE {})
      /\ ListTypes' /\ ListIsOrder'
  <2>1. CASE p.cached
    <3>1. older' = Newest(s, gone)
      BY <2>1
    <3> QED BY <1>1, <1>2, <2>1, <3>1, ListNewest
  <2>2. CASE ~p.cached
    <3>1. older' = Kept(gone)
      BY <2>2
    <3> QED BY <1>1, <1>2, <2>2, <3>1, ListKept
  <2> QED BY <2>1, <2>2
<1>8. \A t \in Entries \ gone : t \in Session \ {s} /\ t \in Entries /\ ses'[t] = ses[t]
  BY <1>2, <1>3, <1>5 DEF ListTypes
<1>9. /\ bytes' = Cost(Entries)' /\ bytes' \in Nat
      /\ bytes' = bytes - Cost(gone) + (IF p.cached THEN p.cost ELSE 0) /\ Cost(gone) \in Nat
  <2>1. CASE p.cached
    <3>1. Entries' = (Entries \ gone) \cup {s} /\ ses'[s].cost = p.cost
      BY <1>5, <1>7, <2>1
    <3>2. /\ Cost(gone) \in Nat /\ Cost(Entries)' \in Nat
          /\ Cost(Entries) + ses'[s].cost = Cost(gone) + Cost(Entries)'
      BY <1>2, <1>3, <1>4, <1>8, <3>1, CostAdded
    <3>3. bytes \in Nat
      BY <1>1 DEF CacheTypeOK
    <3> QED BY <1>1, <1>4, <2>1, <3>1, <3>2, <3>3
  <2>2. CASE ~p.cached
    <3>1. Entries' = Entries \ gone
      BY <1>7, <2>2
    <3>2. /\ Cost(gone) \in Nat /\ Cost(Entries)' \in Nat
          /\ Cost(Entries) = Cost(gone) + Cost(Entries)'
      BY <1>2, <1>8, <3>1, CostRemoved
    <3> QED BY <1>1, <2>2, <3>2
  <2> QED BY <2>1, <2>2
<1>10. /\ Cardinality(ReadersOf(s)') = 1
       /\ \A t \in Session \ {s} : ReadersOf(t)' = ReadersOf(t)
       /\ Cardinality(Openers') = Cardinality(Openers) + 1
  <2>1. /\ Cardinality(ReadersOf(s)') = Cardinality(ReadersOf(s)) + 1
        /\ \A t \in Session \ {s} : ReadersOf(t)' = ReadersOf(t)
        /\ Cardinality(Openers') = Cardinality(Openers) + 1
    BY <1>1, ReaderCame DEF CacheTypeOK
  <2>2. ReadersOf(s) = {}
    BY <1>3 DEF ReadersOf
  <2> QED BY <2>1, <2>2, FS_EmptySet
<1>11. CacheTypeOK'
  <2>1. /\ limit' \in Limits /\ registered' \in BOOLEAN /\ version' \in [Source -> 0..MaxVersion]
        /\ has' \in [Reader -> Session \cup {NoSession}] /\ opens' \in Nat
    BY <1>1 DEF CacheTypeOK
  <2>2. \A t \in Session : ses'[t] \in Sessions \cup {Free}
    BY <1>1, <1>5 DEF CacheTypeOK
  <2>3. ses' \in [Session -> Sessions \cup {Free}]
    BY ONLY <1>5, <2>2
  <2> QED BY <1>7, <1>9, <2>1, <2>3 DEF CacheTypeOK, ListTypes
<1>12. Told'
  <2>1. \A q \in Reader : has'[q] # NoSession => has'[q] \in Live'
    BY <1>1, <1>2, <1>6 DEF Told, CacheTypeOK
  <2>2. ASSUME NEW t \in Live'
        PROVE  /\ ses'[t].refs = Cardinality(ReadersOf(t)')
               /\ ses'[t].cached <=> t \in Entries'
               /\ ~ses'[t].cached => ses'[t].refs = 1
    <3>1. CASE t = s
      BY <1>3, <1>5, <1>7, <1>10, <3>1
    <3>2. CASE t # s
      <4>1. t \in Session \ {s} /\ t \in Live /\ t \notin gone /\ ses'[t] = ses[t]
        BY <1>5, <1>6, <2>2, <3>2 DEF Live
      <4>2. t \in Entries' <=> t \in Entries
        BY <1>7, <4>1
      <4> QED BY <1>1, <1>10, <4>1, <4>2 DEF Told
    <3> QED BY <3>1, <3>2
  <2>3. Entries' \subseteq Live'
    BY <1>1, <1>6, <1>7 DEF Told
  <2>4. opens' = Cardinality(Openers')
    BY <1>1, <1>10 DEF Told
  <2> QED BY <2>1, <2>2, <2>3, <2>4 DEF Told
<1>13. BudgetKept'
  <2>1. /\ IsFiniteSet(Entries \ gone) /\ Cardinality(Entries \ gone) \in Nat
        /\ Cardinality(Entries \ gone) <= MaxEntries
    <3>1. /\ Cardinality(Entries \ gone) <= Cardinality(Entries) /\ IsFiniteSet(Entries \ gone)
          /\ Cardinality(Entries \ gone) \in Nat /\ Cardinality(Entries) \in Nat
      BY <1>2, EntriesFinite, FS_Subset, FS_CardinalityType
    <3> QED BY <1>1, <3>1, CacheConstants DEF BudgetKept
  <2>2. limit' = limit /\ limit \in Nat /\ bytes \in Nat
    BY <1>1, CacheConstants DEF CacheTypeOK
  <2>3. Cardinality(Entries') <= MaxEntries
    <3>1. CASE p.cached
      <4>1. Entries' = (Entries \ gone) \cup {s} /\ Cardinality(Entries \ gone) < MaxEntries
        BY <1>7, <3>1 DEF Fits
      <4>2. Cardinality(Entries') = Cardinality(Entries \ gone) + 1
        BY <1>3, <2>1, <4>1, FS_AddElement
      <4> QED BY <2>1, <4>1, <4>2, CacheConstants
    <3>2. CASE ~p.cached
      BY <1>7, <2>1, <3>2
    <3> QED BY <3>1, <3>2
  <2>4. ASSUME NEW t \in Entries', ses'[t].refs = 0
        PROVE  ~ses'[t].invalid /\ bytes' <= limit
    <3>1. t \in Entries \ gone /\ ses'[t] = ses[t]
      BY <1>5, <1>7, <1>8, <2>4
    <3>2. ~ses[t].invalid /\ bytes <= limit
      BY <1>1, <2>4, <3>1 DEF BudgetKept
    <3>3. bytes' <= limit
      <4>1. CASE p.cached
        <5>1. p.cost + bytes - Cost(gone) <= limit
          BY <4>1 DEF Fits
        <5> QED BY <1>4, <1>9, <2>2, <4>1, <5>1
      <4>2. CASE ~p.cached
        BY <1>9, <2>2, <3>2, <4>2
      <4> QED BY <4>1, <4>2
    <3> QED BY <3>1, <3>2, <3>3
  <2> QED BY <2>2, <2>3, <2>4 DEF BudgetKept
<1>14. CacheCurrent'
  <2> SUFFICES ASSUME NEW t \in Entries', NEW u \in Entries', ~ses'[t].invalid
               PROVE  /\ ses'[t].ver = version'[ses'[t].src]
                      /\ t # u /\ ~ses'[u].invalid =>
                           <<ses'[t].src, ses'[t].args>> # <<ses'[u].src, ses'[u].args>>
    BY DEF CacheCurrent
  <2>1. \A v \in Entries' :
          \/ v = s /\ p.cached
          \/ v \in Entries \ gone /\ v \in Entries /\ ses'[v] = ses[v]
    BY <1>7, <1>8
  <2>2. version' = version
    OBVIOUS
  <2>3. p.cached => /\ p.ver = version[p.src]
                    /\ \A v \in Entries :
                         ~ses[v].invalid => <<ses[v].src, ses[v].args>> # <<p.src, p.args>>
    OBVIOUS
  <2> QED BY ONLY <1>1, <1>5, <2>1, <2>2, <2>3, ~ses'[t].invalid, t \in Entries', u \in Entries'
      DEF CacheCurrent
<1>15. GoneIsEmpty'
  BY DEF GoneIsEmpty
<1> QED BY <1>7, <1>9, <1>11, <1>12, <1>13, <1>14, <1>15
    DEF CacheInv, CacheAccounted, Told, Openers

\* The picture a miss decodes, and what goes for it.
Decoded(r, src, args, s, gone, p) ==
  /\ registered /\ has[r] = NoSession /\ ses[s] = Free
  /\ p.src = src /\ p.ver = version[src] /\ p.args = args
  /\ p.refs = 1 /\ p.invalid = FALSE
  /\ p.heap => args.pre \/ args.align
  /\ args.align => p.align
  /\ ses' = [Released(gone) EXCEPT ![s] = p]
  /\ older' = IF p.cached THEN Newest(s, gone) ELSE Kept(gone)
  /\ bytes' = bytes - Cost(gone) + (IF p.cached THEN p.cost ELSE 0)
  /\ has' = [has EXCEPT ![r] = s] /\ opens' = opens + 1
  /\ UNCHANGED <<limit, registered, version>>
  /\ p.cached =>
       /\ Fits(gone, p.cost)
       /\ \A t \in Entries : ~ses[t].invalid => <<ses[t].src, ses[t].args>> # <<src, args>>

LEMMA OpenDecodesAs ==
  ASSUME CacheInv, NEW r \in Reader, NEW src \in Source, NEW args \in Requests,
         NEW nocache \in BOOLEAN, OpenDecodes(r, src, args, nocache)
  PROVE  \E s \in Session, gone \in SUBSET Idle, p \in Sessions : Decoded(r, src, args, s, gone, p)
<1>1. PICK s \in {t \in Session : ses[t] = Free}, k \in 0..Cardinality(Idle), cost \in Costs,
           heap, align, named \in BOOLEAN :
        LET wanted == ~nocache /\ limit > 0 /\ cost <= limit
            gone   == IF wanted
                        THEN Evicted({j \in k..Cardinality(Idle) : Fits(Oldest(j), cost)})
                        ELSE Oldest(k)
            cached == wanted /\ named /\ Fits(gone, cost)
        IN
        /\ heap => args.pre \/ args.align
        /\ args.align => align
        /\ ses' = [Released(gone) EXCEPT
             ![s] = [src |-> src, ver |-> version[src], args |-> args, heap |-> heap, align |-> align,
                     cost |-> cost, refs |-> 1, cached |-> cached, invalid |-> FALSE]]
        /\ older' = IF cached THEN Newest(s, gone) ELSE Kept(gone)
        /\ bytes' = bytes - Cost(gone) + (IF cached THEN cost ELSE 0)
        /\ has' = [has EXCEPT ![r] = s]
  BY Zenon DEF OpenDecodes
<1> DEFINE wanted == ~nocache /\ limit > 0 /\ cost <= limit
           gone   == IF wanted
                       THEN Evicted({j \in k..Cardinality(Idle) : Fits(Oldest(j), cost)})
                       ELSE Oldest(k)
           cached == wanted /\ named /\ Fits(gone, cost)
           p == [src |-> src, ver |-> version[src], args |-> args, heap |-> heap, align |-> align,
                 cost |-> cost, refs |-> 1, cached |-> cached, invalid |-> FALSE]
<1>2. gone \in SUBSET Idle
  BY DEF Evicted, Oldest
<1>3. cached \in BOOLEAN /\ (cached => Fits(gone, cost) /\ ~nocache /\ limit > 0)
  OBVIOUS
<1>4. /\ ses' = [Released(gone) EXCEPT ![s] = p]
      /\ older' = IF cached THEN Newest(s, gone) ELSE Kept(gone)
      /\ bytes' = bytes - Cost(gone) + (IF cached THEN cost ELSE 0)
      /\ has' = [has EXCEPT ![r] = s]
  BY <1>1
<1>11. (heap => args.pre \/ args.align) /\ (args.align => align)
  BY <1>1
<1> HIDE DEF gone, cached, wanted
<1>5. /\ registered /\ has[r] = NoSession /\ opens' = opens + 1
      /\ (nocache \/ limit = 0 \/ Hits(src, args) = {})
      /\ UNCHANGED <<limit, registered, version>>
  BY DEF OpenDecodes, Missed
<1>6. version[src] \in 0..MaxVersion /\ limit \in Nat
  BY InvParts, CacheConstants DEF CacheTypeOK
<1>7. 1 \in 0..Cardinality(Reader)
  <2>1. Cardinality({r}) = 1
    BY FS_Singleton
  <2> QED BY <2>1, ReadersCounted
<1>8. p \in Sessions
  BY <1>3, <1>6, <1>7, CacheConstants DEF Sessions
<1>9. cached => \A t \in Entries : ~ses[t].invalid => <<ses[t].src, ses[t].args>> # <<src, args>>
  <2> SUFFICES ASSUME cached, NEW t \in Entries, ~ses[t].invalid, ses[t].src = src, ses[t].args = args
               PROVE  FALSE
    OBVIOUS
  <2>1. t \in Hits(src, args)
    BY DEF Hits, Compatible
  <2> QED BY <1>3, <1>5, <1>6, <2>1
<1>10. /\ p.refs = 1 /\ p.invalid = FALSE /\ p.cached = cached /\ p.cost = cost /\ p.ver = version[src]
       /\ p.src = src /\ p.args = args /\ p.heap = heap /\ p.align = align
       /\ s \in Session /\ ses[s] = Free
  OBVIOUS
<1> HIDE DEF p
<1>12. Decoded(r, src, args, s, gone, p)
  BY <1>3, <1>4, <1>5, <1>9, <1>10, <1>11 DEF Decoded
<1> QED BY <1>2, <1>8, <1>10, <1>12

LEMMA OpenDecodesKeeps ==
  ASSUME CacheInv, NEW r \in Reader, NEW src \in Source, NEW args \in Requests,
         NEW nocache \in BOOLEAN, OpenDecodes(r, src, args, nocache)
  PROVE  CacheInv'
<1>1. PICK s \in Session, gone \in SUBSET Idle, p \in Sessions : Decoded(r, src, args, s, gone, p)
  BY OpenDecodesAs
<1> QED BY <1>1, PictureComes DEF Decoded

LEMMA CacheStarts ==
  ASSUME CacheInit
  PROVE  CacheInv
<1>1. Entries = {} /\ Live = {}
  BY DEF CacheInit, Entries, Live
<1>2. Openers = {}
  BY DEF CacheInit, Openers
<1>3. Cardinality(Entries) = 0 /\ Cardinality(Openers) = 0
  BY <1>1, <1>2, FS_EmptySet
<1>4. Cost(Entries) = 0
  BY <1>1, FS_EmptySet, SumStep DEF Cost
<1>5. CacheTypeOK
  <2>1. Entries \subseteq Session /\ older \in [Entries -> SUBSET Session]
    BY DEF CacheInit, Entries
  <2>2. ses \in [Session -> Sessions \cup {Free}] /\ has \in [Reader -> Session \cup {NoSession}]
    BY DEF CacheInit
  <2>3. limit \in Limits /\ bytes \in Nat /\ opens \in Nat /\ registered \in BOOLEAN
    BY DEF CacheInit
  <2>4. version \in [Source -> 0..MaxVersion]
    BY CacheConstants DEF CacheInit
  <2> QED BY ONLY <2>1, <2>2, <2>3, <2>4 DEF CacheTypeOK
<1>6. Told
  BY <1>1, <1>3 DEF Told, CacheInit
<1>7. BudgetKept /\ ListIsOrder /\ CacheCurrent
  BY <1>1, <1>3, CacheConstants DEF BudgetKept, ListIsOrder, CacheCurrent
<1>8. GoneIsEmpty /\ bytes = 0
  BY <1>1 DEF GoneIsEmpty, CacheInit
<1> QED BY <1>4, <1>5, <1>6, <1>7, <1>8 DEF CacheInv, CacheAccounted, Told, Openers

LEMMA NothingHappens ==
  ASSUME CacheInv, UNCHANGED <<ses, older, limit, bytes, opens, has, version>>,
         registered' \in BOOLEAN, registered => registered'
  PROVE  CacheInv'
<1>1. /\ Entries' = Entries /\ Live' = Live /\ (\A s : ReadersOf(s)' = ReadersOf(s))
      /\ Cost(Entries)' = Cost(Entries)
      /\ \A s : (s \in Entries <=> s \in Entries')
  BY DEF Entries, Live, ReadersOf, Cost
<1>2. CacheAccounted'
  BY <1>1 DEF CacheInv, CacheAccounted, CacheTypeOK
<1>3. ListIsOrder' /\ BudgetKept' /\ CacheCurrent' /\ GoneIsEmpty'
  BY <1>1 DEF CacheInv, ListIsOrder, BudgetKept, CacheCurrent, GoneIsEmpty
<1> QED BY <1>2, <1>3 DEF CacheInv

LEMMA CacheSteps ==
  ASSUME CacheInv, [CacheNext]_cacheVars
  PROVE  CacheInv'
<1>1. ASSUME NEW r \in Reader, NEW src \in Source, NEW args \in Requests, OpenHit(r, src, args)
      PROVE  CacheInv'
  BY <1>1, OpenHitKeeps
<1>2. ASSUME NEW r \in Reader, NEW src \in Source, NEW args \in Requests, NEW nocache \in BOOLEAN,
             OpenDecodes(r, src, args, nocache) \/ OpenFails(r, src, args, nocache)
      PROVE  CacheInv'
  BY <1>2, OpenDecodesKeeps, OpenFailsKeeps
<1>3. ASSUME NEW r \in Reader, CloseReader(r)
      PROVE  CacheInv'
  BY <1>3, LastLeaves, OthersLeave
<1>4. ASSUME NEW src \in Source, CacheDrop({src}) \/ DropAndChange(src)
      PROVE  CacheInv'
  BY <1>4, DropsKeep
<1>5. ASSUME CacheDrop(Source) \/ DecoderDeinit
      PROVE  CacheInv'
  BY <1>5, DropsKeep
<1>6. ASSUME NEW b \in Limits, SetLimit(b)
      PROVE  CacheInv'
  BY <1>6, SetLimitKeeps
<1>7. CASE DecoderInit
  BY <1>7, NothingHappens DEF DecoderInit
<1>8. CASE UNCHANGED cacheVars
  <2>1. registered' \in BOOLEAN
    BY <1>8, InvParts DEF cacheVars, CacheTypeOK
  <2> QED BY <1>8, <2>1, NothingHappens DEF cacheVars
<1>9. CASE CacheOps
  BY <1>1, <1>2, <1>3, <1>4, <1>5, <1>6, <1>9 DEF CacheOps
<1> QED BY <1>5, <1>7, <1>8, <1>9 DEF CacheNext

\* Whenever the lock is free, the counters tell who reads and what is kept, the
\* entries are in the order of their use, the budget is kept, a hit returns what
\* the source holds, and a decoder that is gone left nothing (the decoder's
\* open_cb, close_cb, drop, set_limit, init and deinit), for any number of
\* readers, pictures and entries and for any costs and budgets.
THEOREM CacheHolds == CacheSpec => []CacheInv
<1>1. CacheInit => CacheInv
  BY CacheStarts
<1>2. CacheInv /\ [CacheNext]_cacheVars => CacheInv'
  BY CacheSteps
<1> QED BY <1>1, <1>2, PTL DEF CacheSpec

-----------------------------------------------------------------------------
(* The cache implements the store *)

\* A copy on the heap is made only for a request that needs one, and a picture
\* asked for with aligned rows has them.
PicturesFit ==
  \A s \in Live : /\ ses[s].heap => ses[s].args.pre \/ ses[s].args.align
                  /\ ses[s].args.align => ses[s].align

\* What readers see of a session is what they saw.
Unchanged(s) ==
  /\ ses'[s].src = ses[s].src /\ ses'[s].ver = ses[s].ver /\ ses'[s].args = ses[s].args
  /\ ses'[s].align = ses[s].align /\ ses'[s].heap = ses[s].heap

Older == \A s \in Live' : s \in Live /\ Unchanged(s)

LEMMA SessionsTyped ==
  ASSUME CacheInv
  PROVE  /\ ses \in [Session -> Sessions \cup {Free}] /\ version \in [Source -> 0..MaxVersion]
         /\ has \in [Reader -> Session \cup {NoSession}]
         /\ \A s \in Live : s \in Session /\ ses[s] \in Sessions
         /\ \A r \in Reader : has[r] # NoSession => has[r] \in Live
         /\ Entries \subseteq Live
BY InvParts DEF CacheTypeOK, Told, Live

LEMMA ReleasedOlder ==
  ASSUME NEW S, ses' = Released(S)
  PROVE  Older
BY DEF Released, Older, Unchanged, Live

LEMMA CountedOlder ==
  ASSUME CacheInv, NEW s \in Live, NEW n, ses' = [ses EXCEPT ![s].refs = n]
  PROVE  Older
<1>1. ses \in [Session -> Sessions \cup {Free}] /\ s \in Session /\ ses[s] \in Sessions
  BY SessionsTyped
<1>2. Unchanged(s)
  BY <1>1 DEF Unchanged, Sessions
<1>3. \A t \in Session \ {s} : ses'[t] = ses[t]
  BY <1>1
<1>4. \A t \in Live' : t \in Session /\ (t # s => ses[t] # Free)
  BY <1>3 DEF Live
<1> QED BY <1>2, <1>3, <1>4 DEF Older, Live, Unchanged

LEMMA DroppedOlder ==
  ASSUME CacheInv, NEW S, DropLocked(S)
  PROVE  Older
<1> DEFINE hit == {s \in Entries : ses[s].src \in S}
           gone == {s \in hit : ses[s].refs = 0}
<1>1. ses' = [s \in Session |->
        IF s \in gone THEN Free
        ELSE IF s \in hit THEN [ses[s] EXCEPT !.invalid = TRUE] ELSE ses[s]]
  BY DEF DropLocked
<1>2. hit \subseteq Live /\ \A s \in Live : ses[s] \in Sessions
  BY SessionsTyped
<1> HIDE DEF hit, gone
<1>3. ASSUME NEW s \in Live'
      PROVE  s \in Live /\ Unchanged(s)
  <2>1. s \in Session /\ s \notin gone
    BY <1>1 DEF Live
  <2>2. CASE s \notin hit
    <3>1. ses'[s] = ses[s] /\ ses'[s] # Free
      BY <1>1, <1>3, <2>1, <2>2 DEF Live
    <3> QED BY <2>1, <3>1 DEF Live, Unchanged
  <2>3. CASE s \in hit
    <3>1. s \in Live /\ ses[s] \in Sessions /\ ses'[s] = [ses[s] EXCEPT !.invalid = TRUE]
      BY <1>1, <1>2, <2>1, <2>3
    <3> QED BY <3>1 DEF Unchanged, Sessions
  <2> QED BY <2>2, <2>3
<1> QED BY <1>3 DEF Older

LEMMA FitKept ==
  ASSUME PicturesFit, Older
  PROVE  PicturesFit'
BY DEF PicturesFit, Older, Unchanged

LEMMA ViewKept ==
  ASSUME CacheInv', NEW r \in Reader, has'[r] = has[r], has[r] \in Live' => Unchanged(has[r])
  PROVE  View(r)' = View(r)
<1>1. CASE has[r] = NoSession
  BY <1>1 DEF View
<1>2. CASE has[r] # NoSession
  <2>1. has[r] \in Live'
    BY <1>2, InvParts DEF CacheInv, CacheAccounted
  <2>2. Unchanged(has[r])
    BY <2>1
  <2> QED BY <1>2, <2>2 DEF View, Unchanged
<1> QED BY <1>1, <1>2

LEMMA ViewTyped ==
  ASSUME CacheInv, NEW r \in Reader, has[r] # NoSession
  PROVE  View(r) \in Pictures /\ View(r) # Free
<1>1. ses[has[r]] \in Sessions
  BY SessionsTyped
<1>2. View(r) \in Pictures
  BY <1>1 DEF View, Pictures, Sessions, Args
<1> QED BY <1>2, FreeIsNone

Shown == [r \in Reader |-> View(r)]

\* Steps that open, close and change nothing leave what is shown.
LEMMA StoreRests ==
  ASSUME CacheInv', Older, UNCHANGED has
  PROVE  UNCHANGED Shown
<1>1. \A r \in Reader : View(r)' = View(r)
  BY ViewKept DEF Older
<1> QED BY <1>1 DEF Shown

\* A reader that opens sees the picture it asked for, and the others what they saw.
LEMMA StoreOpens ==
  ASSUME CacheInv, CacheInv', NEW r \in Reader, NEW src \in Source, NEW args \in Requests,
         NEW s \in Session, has[r] = NoSession, has' = [has EXCEPT ![r] = s], UNCHANGED version,
         \A t \in Live' : (t \in Live /\ Unchanged(t)) \/ (t = s /\ t \notin Live),
         ses'[s].src = src, ses'[s].ver = version[src], ses'[s].args.pre = args.pre,
         args.align => ses'[s].align,
         ~args.align /\ ~args.pre => ~ses'[s].heap
  PROVE  Store!OpenPicture(r, src, args)
<1>1. /\ has \in [Reader -> Session \cup {NoSession}]
      /\ \A q \in Reader : has[q] # NoSession => has[q] \in Live
  BY SessionsTyped
<1>2. has'[r] = s /\ s # NoSession
  BY <1>1, CacheConstants
<1>3. ses'[s] \in Sessions
  <2>1. has'[r] \in Live' /\ \A t \in Live' : ses'[t] \in Sessions
    BY <1>2, InvParts, SessionsTyped DEF CacheInv, CacheAccounted, CacheTypeOK, Live
  <2> QED BY <1>2, <2>1
<1> DEFINE p == [src |-> src, ver |-> version[src], pre |-> ses'[s].args.pre,
                 align |-> ses'[s].align, dma |-> ~ses'[s].heap]
<1>4. View(r)' = p
  BY <1>2 DEF View
<1>5. /\ p \in [src : {src}, ver : {version[src]}, pre : BOOLEAN, align : BOOLEAN, dma : BOOLEAN]
      /\ Store!Serves(p, args)
  BY <1>3 DEF Sessions, Args, Store!Serves
<1> HIDE DEF p
<1>6. \A q \in Reader \ {r} : View(q)' = View(q)
  <2> TAKE q \in Reader \ {r}
  <2>1. has'[q] = has[q]
    BY <1>1
  <2>2. has[q] \in Live' => Unchanged(has[q])
    <3>1. CASE has[q] = NoSession
      BY <3>1, CacheConstants DEF Live
    <3>2. CASE has[q] # NoSession
      BY <1>1, <3>2
    <3> QED BY <3>1, <3>2
  <2> QED BY <2>1, <2>2, ViewKept
<1>7. Shown' = [Shown EXCEPT ![r] = p]
  BY <1>4, <1>6 DEF Shown
<1>8. Shown[r] = Free
  BY DEF Shown, View
<1> QED BY <1>5, <1>7, <1>8 DEF Store!OpenPicture, Shown

LEMMA StoreCloses ==
  ASSUME CacheInv, CacheInv', NEW r \in Reader, CloseReader(r)
  PROVE  Older /\ Store!ClosePicture(r)
<1>1. /\ has \in [Reader -> Session \cup {NoSession}] /\ has[r] # NoSession
      /\ has' = [has EXCEPT ![r] = NoSession] /\ version' = version
  BY SessionsTyped DEF CloseReader
<1>2. Older
  <2>1. has[r] \in Live
    BY <1>1, SessionsTyped
  <2> QED BY <2>1, ReleasedOlder, CountedOlder DEF CloseReader
<1>3. \A q \in Reader \ {r} : View(q)' = View(q)
  <2> TAKE q \in Reader \ {r}
  <2>1. has'[q] = has[q]
    BY <1>1
  <2> QED BY <1>2, <2>1, ViewKept DEF Older
<1>4. View(r)' = Free
  BY <1>1 DEF View
<1>5. Shown' = [Shown EXCEPT ![r] = Free]
  BY <1>3, <1>4 DEF Shown
<1>6. Shown[r] # Free
  BY <1>1, ViewTyped DEF Shown
<1> QED BY <1>1, <1>2, <1>5, <1>6 DEF Store!ClosePicture, Shown

LEMMA HitServes ==
  ASSUME CacheInv, CacheInv', PicturesFit, NEW r \in Reader, NEW src \in Source, NEW args \in Requests,
         OpenHit(r, src, args)
  PROVE  Older /\ Store!OpenPicture(r, src, args)
<1>1. PICK s \in Hits(src, args) :
        ses' = [ses EXCEPT ![s].refs = @ + 1] /\ has' = [has EXCEPT ![r] = s]
  BY DEF OpenHit
<1>2. has[r] = NoSession /\ version' = version
  BY DEF OpenHit
<1>3. /\ s \in Entries /\ ~ses[s].invalid /\ ses[s].src = src /\ Compatible(s, args)
      /\ s \in Live /\ s \in Session /\ ses[s] \in Sessions
  BY SessionsTyped DEF Hits
<1>4. Older
  BY <1>1, <1>3, CountedOlder
<1>5. ses[s].ver = version[src]
  BY <1>3 DEF CacheInv, CacheCurrent
<1>6. Unchanged(s)
  <2>1. ses'[s] # Free
    <3>1. has'[r] = s /\ s # NoSession
      BY <1>1, <1>3, SessionsTyped, CacheConstants
    <3>2. has'[r] # NoSession => has'[r] \in Live'
      BY DEF CacheInv, CacheAccounted
    <3> QED BY <3>1, <3>2 DEF Live
  <2> QED BY <1>3, <1>4, <2>1 DEF Older, Live
<1>7. /\ ses[s].args.pre = args.pre
      /\ args.align => ses[s].align
      /\ ~args.align /\ ~args.pre => ~ses[s].heap
  <2>1. /\ ses[s].heap => ses[s].args.pre \/ ses[s].args.align
        /\ ses[s].args.align => ses[s].align
    BY <1>3 DEF PicturesFit
  <2> QED BY <1>3, <2>1 DEF Compatible, Sessions
<1>8. Store!OpenPicture(r, src, args)
  <2>1. \A t \in Live' : (t \in Live /\ Unchanged(t)) \/ (t = s /\ t \notin Live)
    BY <1>4 DEF Older
  <2>2. /\ ses'[s].src = src /\ ses'[s].ver = version[src] /\ ses'[s].args.pre = args.pre
        /\ args.align => ses'[s].align
        /\ ~args.align /\ ~args.pre => ~ses'[s].heap
    BY <1>3, <1>5, <1>6, <1>7 DEF Unchanged
  <2> QED BY <1>1, <1>2, <1>3, <2>1, <2>2, StoreOpens
<1> QED BY <1>4, <1>8

LEMMA DecodedServes ==
  ASSUME CacheInv, CacheInv', PicturesFit, NEW r \in Reader, NEW src \in Source, NEW args \in Requests,
         NEW nocache \in BOOLEAN, OpenDecodes(r, src, args, nocache)
  PROVE  PicturesFit' /\ Store!OpenPicture(r, src, args)
<1>1. PICK s \in Session, gone \in SUBSET Idle, p \in Sessions : Decoded(r, src, args, s, gone, p)
  BY OpenDecodesAs
<1>2. /\ ses'[s] = p /\ s \notin Live
      /\ \A t \in Session \ {s} : ses'[t] = IF t \in gone THEN Free ELSE ses[t]
  BY <1>1 DEF Decoded, Released, Live
<1>3. \A t \in Live' : (t \in Live /\ Unchanged(t)) \/ (t = s /\ t \notin Live)
  BY <1>2 DEF Live, Unchanged
<1>4. /\ p.heap => p.args.pre \/ p.args.align
      /\ p.args.align => p.align
      /\ p.args = args /\ p.src = src /\ p.ver = version[src]
  BY <1>1 DEF Decoded
<1>5. PicturesFit'
  BY <1>2, <1>3, <1>4 DEF PicturesFit, Unchanged
<1>6. has[r] = NoSession /\ has' = [has EXCEPT ![r] = s] /\ version' = version
  BY <1>1 DEF Decoded
<1>7. Store!OpenPicture(r, src, args)
  BY <1>2, <1>3, <1>4, <1>6, StoreOpens
<1> QED BY <1>5, <1>7

LEMMA StoreStep ==
  ASSUME CacheInv, CacheInv', PicturesFit, [CacheNext]_cacheVars
  PROVE  PicturesFit' /\ [Store!StoreNext]_<<version, Shown>>
<1>1. ASSUME NEW r \in Reader, NEW src \in Source, NEW args \in Requests,
             OpenHit(r, src, args) \/ \E nocache \in BOOLEAN : OpenDecodes(r, src, args, nocache)
      PROVE  PicturesFit' /\ Store!OpenPicture(r, src, args)
  BY <1>1, HitServes, DecodedServes, FitKept
<1>2. ASSUME NEW r \in Reader, CloseReader(r)
      PROVE  PicturesFit' /\ Store!ClosePicture(r)
  BY <1>2, StoreCloses, FitKept
<1>3. ASSUME NEW src \in Source, DropAndChange(src)
      PROVE  PicturesFit' /\ Store!ChangeSource(src)
  <2>1. Older /\ UNCHANGED has /\ version' = [version EXCEPT ![src] = @ + 1]
    BY <1>3, DroppedOlder DEF DropAndChange
  <2> QED BY <2>1, StoreRests, FitKept DEF Store!ChangeSource, Shown
<1>4. ASSUME Older, UNCHANGED <<has, version>>
      PROVE  PicturesFit' /\ UNCHANGED <<version, Shown>>
  BY <1>4, StoreRests, FitKept
<1>5. ASSUME NEW r, NEW src, NEW args, NEW nocache, OpenFails(r, src, args, nocache)
      PROVE  Older /\ UNCHANGED <<has, version>>
  BY <1>5, ReleasedOlder DEF OpenFails
<1>6. ASSUME (\E S : CacheDrop(S)) \/ DecoderDeinit
      PROVE  Older /\ UNCHANGED <<has, version>>
  BY <1>6, DroppedOlder DEF CacheDrop, DecoderDeinit
<1>7. ASSUME NEW b, SetLimit(b)
      PROVE  Older /\ UNCHANGED <<has, version>>
  BY <1>7, DroppedOlder, ReleasedOlder DEF SetLimit
<1>8. ASSUME DecoderInit \/ UNCHANGED cacheVars
      PROVE  Older /\ UNCHANGED <<has, version>>
  BY <1>8 DEF DecoderInit, cacheVars, Older, Unchanged, Live
<1>9. CASE CacheOps
  <2>1. CASE \E r \in Reader, src \in Source, args \in Requests :
               OpenHit(r, src, args) \/ \E nocache \in BOOLEAN : OpenDecodes(r, src, args, nocache)
    <3>1. PICK r \in Reader, src \in Source, args \in Requests :
            OpenHit(r, src, args) \/ \E nocache \in BOOLEAN : OpenDecodes(r, src, args, nocache)
      BY <2>1
    <3>2. args \in Store!Args
      BY CacheConstants DEF Args, Store!Args
    <3> QED BY <1>1, <3>1, <3>2 DEF Store!StoreNext
  <2>2. CASE \E r \in Reader : CloseReader(r)
    BY <1>2, <2>2 DEF Store!StoreNext
  <2>3. CASE \E src \in Source : DropAndChange(src)
    BY <1>3, <2>3 DEF Store!StoreNext
  <2>4. CASE \/ \E r \in Reader, src \in Source, args \in Requests, nocache \in BOOLEAN :
                  OpenFails(r, src, args, nocache)
             \/ \E S : CacheDrop(S)
             \/ \E b \in Limits : SetLimit(b)
    BY <1>4, <1>5, <1>6, <1>7, <2>4
  <2> QED BY <1>9, <2>1, <2>2, <2>3, <2>4 DEF CacheOps
<1> QED BY <1>4, <1>6, <1>8, <1>9 DEF CacheNext

\* Readers see what image/mpp/README.md promises them: the picture their source
\* has when they open it, fit for their arguments, the same until they close,
\* however sessions are shared, evicted and invalidated.
THEOREM PicturesAreHonoured == CacheSpec => PicturesHonoured
<1>1. CacheInit => PicturesFit /\ Store!StoreInit
  BY DEF CacheInit, PicturesFit, Live, Store!StoreInit, View
<1>2. CacheInv /\ CacheInv' /\ PicturesFit /\ [CacheNext]_cacheVars
        => PicturesFit' /\ [Store!StoreNext]_(Store!storeVars)
  BY StoreStep DEF Store!storeVars, Shown
<1> QED BY <1>1, <1>2, CacheHolds, PTL DEF CacheSpec, PicturesHonoured, Store!StoreSpec

=============================================================================
