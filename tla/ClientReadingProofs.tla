------------------------ MODULE ClientReadingProofs ------------------------
(***************************************************************************)
(* Proofs about what the browser client reads: the search of a text        *)
(* (ClientSearch) and the tree of a chat's messages (ClientBranches), for  *)
(* any letters, texts, limits and number of messages.  The two share no    *)
(* state, and rest on the same facts about the filter and the sort of an   *)
(* array (Arrays).                                                         *)
(*                                                                         *)
(* A recursive function is introduced with CHOOSE: that it satisfies its   *)
(* equation is proved with WalkExists and ChainStep, from functions that   *)
(* satisfy it up to some number, by the least number that has none.        *)
(***************************************************************************)
EXTENDS ClientBranches, ClientSearch, TLAPS, FiniteSetTheorems, WellFoundedInduction, SequenceTheorems

-----------------------------------------------------------------------------
(* Arrays: filtering and sorting put the places of an array in order.       *)

\* R orders the places P strictly and totally.
Orders(R, P) ==
    /\ \A i \in P : <<i, i>> \notin R
    /\ \A i, j, k \in P : <<i, j>> \in R /\ <<j, k>> \in R => <<i, k>> \in R
    /\ \A i, j \in P : i # j => <<i, j>> \in R \/ <<j, i>> \in R

\* f lists the places P in the order R.
Lists(f, P, R) ==
    /\ f \in [1..Cardinality(P) -> P]
    /\ \A i \in P : \E k \in 1..Cardinality(P) : f[k] = i
    /\ \A j, k \in 1..Cardinality(P) : <<f[j], f[k]>> \in R <=> j < k

\* InOrder takes the elements in the order of their places, each place once.
LEMMA InOrderLists ==
    ASSUME NEW P, IsFiniteSet(P), NEW R, Orders(R, P)
    PROVE  \E f : /\ Lists(f, P, R)
                  /\ \A s : InOrder(s, P, R) = [k \in 1..Cardinality(P) |-> s[f[k]]]
<1> DEFINE n == Cardinality(P)
           B(i) == {j \in P : <<j, i>> \in R}
           r(i) == Cardinality(B(i))
           g == [i \in P |-> r(i) + 1]
           f == [k \in 1..n |-> CHOOSE i \in P : r(i) = k - 1]
<1>1. n \in Nat
  BY FS_CardinalityType
<1>2. \A i \in P : IsFiniteSet(B(i)) /\ r(i) \in Nat
  <2> SUFFICES ASSUME NEW i \in P PROVE IsFiniteSet(B(i)) /\ r(i) \in Nat
    OBVIOUS
  <2>1. B(i) \in SUBSET P
    OBVIOUS
  <2> QED BY <2>1, FS_Subset, FS_CardinalityType
<1>3. ASSUME NEW i \in P, NEW S \in SUBSET P, B(i) \subseteq S, i \in S
      PROVE  r(i) + 1 <= Cardinality(S) /\ Cardinality(S) \in Nat
  <2>1. IsFiniteSet(S) /\ Cardinality(S) \in Nat
    BY FS_Subset, FS_CardinalityType
  <2>2. i \notin B(i)
    BY DEF Orders
  <2>3. Cardinality(B(i) \cup {i}) = r(i) + 1
    BY <1>2, <2>2, FS_AddElement
  <2>4. B(i) \cup {i} \in SUBSET S
    BY <1>3
  <2>5. Cardinality(B(i) \cup {i}) <= Cardinality(S)
    BY <2>1, <2>4, FS_Subset
  <2> QED BY <2>1, <2>3, <2>5
<1>4. ASSUME NEW i \in P, NEW j \in P, <<i, j>> \in R
      PROVE  r(i) < r(j)
  <2>1. B(i) \subseteq B(j) /\ i \in B(j) /\ B(j) \in SUBSET P
    BY <1>4 DEF Orders
  <2>2. r(i) + 1 <= r(j)
    BY <1>3, <2>1
  <2>3. r(i) \in Nat /\ r(j) \in Nat
    BY <1>2
  <2> HIDE DEF r
  <2> QED BY <2>2, <2>3
<1>5. \A i \in P : r(i) + 1 \in 1..n
  <2> SUFFICES ASSUME NEW i \in P PROVE r(i) + 1 \in 1..n
    OBVIOUS
  <2>1. B(i) \subseteq P
    OBVIOUS
  <2>2. r(i) + 1 <= n
    BY <1>3, <2>1
  <2>3. r(i) \in Nat
    BY <1>2
  <2> HIDE DEF r, n
  <2> QED BY <1>1, <2>2, <2>3
<1> HIDE DEF r, n
<1>6. \A i, j \in P : r(i) = r(j) => i = j
  <2> SUFFICES ASSUME NEW i \in P, NEW j \in P, r(i) = r(j), i # j PROVE FALSE
    OBVIOUS
  <2>1. <<i, j>> \in R \/ <<j, i>> \in R
    BY DEF Orders
  <2>2. r(i) < r(j) \/ r(j) < r(i)
    BY <1>4, <2>1
  <2>3. r(i) \in Nat /\ r(j) \in Nat
    BY <1>2
  <2> QED BY <2>2, <2>3
<1>7. g \in Injection(P, 1..n)
  <2>1. g \in [P -> 1..n]
    BY <1>5
  <2>2. ASSUME NEW i \in P, NEW j \in P, g[i] = g[j]
        PROVE  i = j
    <3>1. r(i) + 1 = r(j) + 1 /\ r(i) \in Nat /\ r(j) \in Nat
      BY <1>2, <2>2
    <3>2. r(i) = r(j)
      BY <3>1
    <3> QED BY <1>6, <3>2
  <2> HIDE DEF g
  <2> QED BY <2>1, <2>2 DEF Injection, IsInjective
<1>8. g \in Surjection(P, 1..n)
  <2>1. IsFiniteSet(1..n) /\ Cardinality(1..n) = n
    BY <1>1, FS_Interval
  <2>2. Cardinality(P) = Cardinality(1..n)
    BY <2>1 DEF n
  <2> QED BY <1>7, <2>1, <2>2, FS_Injection
<1>9. ASSUME NEW k \in 1..n
      PROVE  f[k] \in P /\ r(f[k]) = k - 1
  <2>1. PICK i \in P : g[i] = k
    BY <1>8 DEF Surjection
  <2>2. r(i) + 1 = k /\ r(i) \in Nat
    BY <1>2, <2>1
  <2>3. r(i) = k - 1
    BY <1>1, <2>2
  <2>4. f[k] = CHOOSE x \in P : r(x) = k - 1
    OBVIOUS
  <2> QED BY <2>3, <2>4
<1>10. \A s : InOrder(s, P, R) = [k \in 1..n |-> s[f[k]]]
  BY DEF InOrder, n, r
<1>11. f \in [1..n -> P]
  BY <1>9
<1> HIDE DEF f, g
<1>12. ASSUME NEW i \in P
       PROVE  \E k \in 1..n : f[k] = i
  <2>1. PICK k : k = r(i) + 1
    OBVIOUS
  <2>2. k \in 1..n /\ r(i) \in Nat
    BY <1>2, <1>5, <2>1
  <2>3. f[k] \in P /\ r(f[k]) = k - 1
    BY <1>9, <2>2
  <2>4. r(f[k]) = r(i)
    BY <2>1, <2>2, <2>3
  <2> QED BY <1>6, <2>2, <2>3, <2>4
<1>13. ASSUME NEW j \in 1..n, NEW k \in 1..n
       PROVE  <<f[j], f[k]>> \in R <=> j < k
  <2>1. /\ f[j] \in P /\ r(f[j]) = j - 1 /\ f[k] \in P /\ r(f[k]) = k - 1
        /\ j \in Nat /\ k \in Nat
    BY <1>1, <1>9
  <2>2. <<f[j], f[k]>> \in R => j < k
    <3> SUFFICES ASSUME <<f[j], f[k]>> \in R PROVE j < k
      OBVIOUS
    <3>1. r(f[j]) < r(f[k])
      BY <1>4, <2>1
    <3> QED BY <2>1, <3>1
  <2>3. <<f[k], f[j]>> \in R => k < j
    <3> SUFFICES ASSUME <<f[k], f[j]>> \in R PROVE k < j
      OBVIOUS
    <3>1. r(f[k]) < r(f[j])
      BY <1>4, <2>1
    <3> QED BY <2>1, <3>1
  <2>4. j < k => <<f[j], f[k]>> \in R
    <3> SUFFICES ASSUME j < k, <<f[j], f[k]>> \notin R PROVE FALSE
      OBVIOUS
    <3>1. <<f[k], f[j]>> \notin R
      BY <2>1, <2>3
    <3>2. f[j] = f[k]
      BY <2>1, <3>1 DEF Orders
    <3>3. j - 1 = k - 1
      BY <2>1, <3>2
    <3> QED BY <2>1, <3>3
  <2> QED BY <2>2, <2>4
<1> QED BY <1>10, <1>11, <1>12, <1>13 DEF Lists, n

\* Array.filter takes the kept places in their order.
LEMMA KeptLists ==
    ASSUME NEW T, NEW s \in Seq(T), NEW P \in SUBSET (1..Len(s))
    PROVE  /\ Cardinality(P) \in Nat
           /\ KeptAt(s, P) \in Seq(T) /\ Len(KeptAt(s, P)) = Cardinality(P)
           /\ \E f \in [1..Cardinality(P) -> P] :
                /\ \A i \in P : \E k \in 1..Cardinality(P) : f[k] = i
                /\ \A j, k \in 1..Cardinality(P) : f[j] < f[k] <=> j < k
                /\ \A k \in 1..Cardinality(P) : KeptAt(s, P)[k] = s[f[k]]
<1> DEFINE R == {r \in P \X P : r[1] < r[2]}
           n == Cardinality(P)
<1>1. Len(s) \in Nat /\ \A i \in 1..Len(s) : s[i] \in T
  BY LenProperties, ElementOfSeq
<1>2. IsFiniteSet(P) /\ n \in Nat
  <2>1. IsFiniteSet(1..Len(s))
    BY <1>1, FS_Interval
  <2>2. IsFiniteSet(P)
    BY <2>1, FS_Subset
  <2> QED BY <2>2, FS_CardinalityType
<1>3. \A i, j \in P : <<i, j>> \in R <=> i < j
  OBVIOUS
<1>4. KeptAt(s, P) = InOrder(s, P, R)
  BY DEF KeptAt
<1> HIDE DEF R
<1>5. Orders(R, P)
  BY <1>1, <1>3 DEF Orders
<1>6. PICK f : /\ Lists(f, P, R)
               /\ \A t : InOrder(t, P, R) = [k \in 1..n |-> t[f[k]]]
  BY <1>2, <1>5, InOrderLists
<1>7. KeptAt(s, P) = [k \in 1..n |-> s[f[k]]]
  BY <1>4, <1>6
<1> HIDE DEF n
<1>8. f \in [1..n -> P] /\ \A i \in P : \E k \in 1..n : f[k] = i
  BY <1>6 DEF Lists, n
<1>9. \A j, k \in 1..n : f[j] < f[k] <=> j < k
  BY <1>3, <1>6, <1>8 DEF Lists, n
<1>10. KeptAt(s, P) \in [1..n -> T]
  BY <1>1, <1>7, <1>8
<1>11. KeptAt(s, P) \in Seq(T) /\ Len(KeptAt(s, P)) = n
  BY <1>2, <1>10, SeqDef
<1> QED BY <1>2, <1>7, <1>8, <1>9, <1>11 DEF n

\* f lists the places 1..n, each of them, by key and among equal keys in their order.
ListsByKey(f, n, key) ==
    /\ f \in [1..n -> 1..n]
    /\ \A i \in 1..n : \E k \in 1..n : f[k] = i
    /\ \A j, k \in 1..n : j < k <=> key[f[j]] < key[f[k]] \/ (key[f[j]] = key[f[k]] /\ f[j] < f[k])

\* Array.sort takes each place once, by key and among equal keys in their order.
LEMMA SortedLists ==
    ASSUME NEW T, NEW s \in Seq(T), NEW key \in [1..Len(s) -> Nat]
    PROVE  /\ SortedBy(s, key) \in Seq(T) /\ Len(SortedBy(s, key)) = Len(s)
           /\ \E f : /\ ListsByKey(f, Len(s), key)
                      /\ \A k \in 1..Len(s) : SortedBy(s, key)[k] = s[f[k]]
<1> DEFINE P == DOMAIN s
           R == {r \in P \X P : key[r[1]] < key[r[2]] \/ (key[r[1]] = key[r[2]] /\ r[1] < r[2])}
           n == Cardinality(P)
<1>1. P = 1..Len(s) /\ Len(s) \in Nat /\ \A i \in 1..Len(s) : s[i] \in T
  BY LenProperties, ElementOfSeq
<1>2. IsFiniteSet(P) /\ n = Len(s)
  <2>1. 1 \in Int /\ Len(s) \in Int /\ (1 > Len(s) => Len(s) = 0) /\ Len(s) - 1 + 1 = Len(s)
    BY <1>1
  <2>2. IsFiniteSet(1..Len(s)) /\ Cardinality(1..Len(s)) = Len(s)
    BY <2>1, FS_Interval
  <2> QED BY <1>1, <2>2
<1>3. \A i, j \in P : <<i, j>> \in R <=> key[i] < key[j] \/ (key[i] = key[j] /\ i < j)
  OBVIOUS
<1>4. SortedBy(s, key) = InOrder(s, P, R)
  BY DEF SortedBy
<1> HIDE DEF R, P
<1>5. Orders(R, P)
  <2>1. \A i \in P : i \in Nat /\ key[i] \in Nat
    BY <1>1
  <2> QED BY <1>3, <2>1 DEF Orders
<1>6. PICK f : /\ Lists(f, P, R)
               /\ \A t : InOrder(t, P, R) = [k \in 1..n |-> t[f[k]]]
  BY <1>2, <1>5, InOrderLists
<1>7. SortedBy(s, key) = [k \in 1..Len(s) |-> s[f[k]]]
  BY <1>2, <1>4, <1>6
<1>8. f \in [1..Len(s) -> 1..Len(s)] /\ \A i \in 1..Len(s) : \E k \in 1..Len(s) : f[k] = i
  BY <1>1, <1>2, <1>6 DEF Lists
<1>9. \A j, k \in 1..Len(s) : <<f[j], f[k]>> \in R <=> j < k
  BY <1>2, <1>6 DEF Lists
<1>10. \A j, k \in 1..Len(s) :
          j < k <=> key[f[j]] < key[f[k]] \/ (key[f[j]] = key[f[k]] /\ f[j] < f[k])
  BY <1>1, <1>3, <1>8, <1>9
<1>11. SortedBy(s, key) \in [1..Len(s) -> T]
  BY <1>1, <1>7, <1>8
<1>12. SortedBy(s, key) \in Seq(T) /\ Len(SortedBy(s, key)) = Len(s)
  BY <1>1, <1>11, SeqDef
<1>13. ListsByKey(f, Len(s), key)
  BY <1>8, <1>10 DEF ListsByKey
<1>14. \A k \in 1..Len(s) : SortedBy(s, key)[k] = s[f[k]]
  BY <1>7
<1> QED BY <1>12, <1>13, <1>14

-----------------------------------------------------------------------------
(* The text search.                                                         *)

\* Between blanks nothing is normalized away: a token is a word of the text.
LEMMA TokensAreWords ==
    ASSUME NEW text \in Seq(Characters), NEW w \in Seq(Characters)
    PROVE  w \in Tokenize(text)
              <=> w # <<>> /\ Range(w) \cap {Mark, Blank} = {} /\ HasWord(text, w)
<1> DEFINE t == NormalizeText(text)
           in(i) == i \in DOMAIN t /\ t[i] # Blank
<1>1. /\ Len(text) \in Nat /\ DOMAIN text = 1..Len(text) /\ DOMAIN t = 1..Len(text)
      /\ \A i \in 1..Len(text) : text[i] \in Characters
      /\ \A i \in 1..Len(text) : t[i] = IF text[i] = Mark THEN Blank ELSE text[i]
  BY LenProperties, ElementOfSeq DEF NormalizeText
<1>2. Mark # Blank /\ Mark \in Characters /\ Blank \in Characters
  BY SearchAssumption DEF Characters
<1>3. \A i \in 1..Len(text) : in(i) => t[i] = text[i] /\ text[i] \notin {Mark, Blank}
  BY <1>1
<1>4. \A i \in 1..Len(text) : ~in(i) <=> text[i] \in {Mark, Blank}
  BY <1>1
<1>5. \A i : in(i) => i \in 1..Len(text)
  BY <1>1
<1>6. w \in Tokenize(text)
         <=> \E a, b \in 1..Len(text) : /\ w = SubSeq(t, a, b) /\ a <= b /\ \A i \in a..b : in(i)
                                        /\ ~in(a - 1) /\ ~in(b + 1)
  <2> DEFINE D == DOMAIN t
             C == {r \in D \X D : /\ \A i \in r[1]..r[2] : in(i)
                                 /\ r[1] <= r[2] /\ ~in(r[1] - 1) /\ ~in(r[2] + 1)}
  <2>1. Tokenize(text) = {SubSeq(t, r[1], r[2]) : r \in C}
    BY DEF Tokenize
  <2> HIDE DEF t, in
  <2>2. D = 1..Len(text)
    BY <1>1
  <2> HIDE DEF D
  <2>3. \A a, b \in D : <<a, b>> \in C <=> /\ \A i \in a..b : in(i)
                                           /\ a <= b /\ ~in(a - 1) /\ ~in(b + 1)
    OBVIOUS
  <2>4. \A r \in C : r = <<r[1], r[2]>> /\ r[1] \in D /\ r[2] \in D
    OBVIOUS
  <2> HIDE DEF C
  <2>5. w \in Tokenize(text) <=> \E a, b \in D : <<a, b>> \in C /\ w = SubSeq(t, a, b)
    <3>1. ASSUME w \in Tokenize(text)
          PROVE  \E a, b \in D : <<a, b>> \in C /\ w = SubSeq(t, a, b)
      <4>1. PICK r \in C : w = SubSeq(t, r[1], r[2])
        BY <2>1, <3>1
      <4> QED BY <2>4, <4>1
    <3>2. ASSUME NEW a \in D, NEW b \in D, <<a, b>> \in C, w = SubSeq(t, a, b)
          PROVE  w \in Tokenize(text)
      <4>1. <<a, b>>[1] = a /\ <<a, b>>[2] = b
        OBVIOUS
      <4>2. \E r \in C : w = SubSeq(t, r[1], r[2])
        BY <3>2, <4>1
      <4> QED BY <2>1, <4>2
    <3> QED BY <3>1, <3>2
  <2> QED BY <2>2, <2>3, <2>5
<1> HIDE DEF in, t
<1>7. ASSUME NEW a \in 1..Len(text), NEW b \in 1..Len(text), a <= b, \A i \in a..b : in(i)
      PROVE  SubSeq(t, a, b) = SubSeq(text, a, b)
  <2>1. /\ \A i \in a..b : i \in 1..Len(text) /\ t[i] = text[i] /\ text[i] \in Characters
        /\ a \in Int /\ b \in Int
    BY <1>1, <1>3, <1>7
  <2>2. /\ SubSeq(t, a, b) \in Seq(Characters) /\ SubSeq(text, a, b) \in Seq(Characters)
        /\ Len(SubSeq(t, a, b)) = b - a + 1 /\ Len(SubSeq(text, a, b)) = b - a + 1
        /\ \A i \in 1..b - a + 1 : SubSeq(t, a, b)[i] = t[a + i - 1] /\ SubSeq(text, a, b)[i] = text[a + i - 1]
    BY <1>7, <2>1, SubSeqProperties
  <2>3. \A i \in 1..b - a + 1 : a + i - 1 \in a..b
    BY <2>1
  <2>4. \A i \in 1..b - a + 1 : SubSeq(t, a, b)[i] = SubSeq(text, a, b)[i]
    BY <2>1, <2>2, <2>3
  <2> QED BY <2>2, <2>4, SeqEqual
<1>8. ASSUME NEW a \in 1..Len(text), NEW b \in 1..Len(text), a <= b
      PROVE  /\ SubSeq(text, a, b) \in Seq(Characters) /\ Len(SubSeq(text, a, b)) = b - a + 1
             /\ DOMAIN SubSeq(text, a, b) = 1..b - a + 1
             /\ \A i \in a..b : SubSeq(text, a, b)[i - a + 1] = text[i]
             /\ \A k \in 1..b - a + 1 : k + a - 1 \in a..b /\ SubSeq(text, a, b)[k] = text[k + a - 1]
  <2>1. /\ \A i \in a..b : i \in 1..Len(text) /\ text[i] \in Characters
        /\ a \in Int /\ b \in Int
    BY <1>1, <1>8
  <2>2. /\ SubSeq(text, a, b) \in Seq(Characters) /\ Len(SubSeq(text, a, b)) = b - a + 1
        /\ \A i \in 1..b - a + 1 : SubSeq(text, a, b)[i] = text[a + i - 1]
    BY <1>8, <2>1, SubSeqProperties
  <2>3. \A i \in a..b : i - a + 1 \in 1..b - a + 1 /\ a + (i - a + 1) - 1 = i
    BY <2>1
  <2>4. \A k \in 1..b - a + 1 : k + a - 1 \in a..b /\ k + a - 1 = a + k - 1
    BY <2>1
  <2>5. DOMAIN SubSeq(text, a, b) = 1..b - a + 1
    BY <2>2, LenProperties
  <2> QED BY <2>2, <2>3, <2>4, <2>5
<1>9. ASSUME NEW a \in 1..Len(text), NEW b \in 1..Len(text), a <= b, \A i \in a..b : in(i),
             ~in(a - 1), ~in(b + 1), w = SubSeq(t, a, b)
      PROVE  w # <<>> /\ Range(w) \cap {Mark, Blank} = {} /\ HasWord(text, w)
  <2>1. w = SubSeq(text, a, b)
    BY <1>7, <1>9
  <2>2. /\ Len(w) = b - a + 1 /\ DOMAIN w = 1..b - a + 1
        /\ \A k \in 1..b - a + 1 : k + a - 1 \in a..b /\ w[k] = text[k + a - 1]
    BY <1>8, <1>9, <2>1
  <2>3. a + Len(w) - 1 = b /\ a + Len(w) = b + 1 /\ Len(w) # 0
    BY <1>1, <1>9, <2>2
  <2>4. w # <<>>
    BY <2>3, EmptySeq
  <2>5. \A k \in 1..b - a + 1 : w[k] \notin {Mark, Blank}
    BY <1>3, <1>5, <1>9, <2>2
  <2>6. Range(w) \cap {Mark, Blank} = {}
    BY <2>2, <2>5 DEF Range
  <2>7. \A j \in {a - 1, b + 1} : j \in 1..Len(text) => text[j] \in {Mark, Blank}
    BY <1>4, <1>9
  <2>8. a + Len(w) - 1 <= Len(text) /\ SubSeq(text, a, a + Len(w) - 1) = w
    BY <1>1, <2>1, <2>3
  <2>9. HasWord(text, w)
    BY <1>1, <2>3, <2>7, <2>8 DEF HasWord
  <2> QED BY <2>4, <2>6, <2>9
<1>10. ASSUME w # <<>>, Range(w) \cap {Mark, Blank} = {}, HasWord(text, w)
       PROVE  \E a, b \in 1..Len(text) : /\ w = SubSeq(t, a, b) /\ a <= b /\ \A i \in a..b : in(i)
                                         /\ ~in(a - 1) /\ ~in(b + 1)
  <2>1. PICK a \in 1..Len(text) :
            /\ a + Len(w) - 1 <= Len(text) /\ SubSeq(text, a, a + Len(w) - 1) = w
            /\ \A j \in {a - 1, a + Len(w)} : j \in 1..Len(text) => text[j] \in {Mark, Blank}
    BY <1>1, <1>10 DEF HasWord
  <2>2. Len(w) \in Nat \ {0}
    BY <1>10, EmptySeq
  <2>3. PICK b : b = a + Len(w) - 1
    OBVIOUS
  <2>4. b \in 1..Len(text) /\ a <= b /\ a + Len(w) = b + 1
    BY <1>1, <2>1, <2>2, <2>3
  <2>5. w = SubSeq(text, a, b)
    BY <2>1, <2>3
  <2>6. \A i \in a..b : in(i)
    <3> SUFFICES ASSUME NEW i \in a..b PROVE in(i)
      OBVIOUS
    <3>1. w[i - a + 1] = text[i] /\ i - a + 1 \in DOMAIN w
      BY <1>8, <2>4, <2>5
    <3>2. text[i] \in Range(w) /\ i \in 1..Len(text)
      BY <2>4, <3>1 DEF Range
    <3> QED BY <1>4, <1>10, <3>2
  <2>7. ~in(a - 1) /\ ~in(b + 1)
    BY <1>4, <1>5, <2>1, <2>4
  <2> QED BY <1>7, <2>4, <2>5, <2>6, <2>7
<1> QED BY <1>6, <1>9, <1>10

\* A token of a text without blanks at its ends is made of its characters.
LEMMA TokensAreTexts ==
    ASSUME NEW text \in Seq(Characters), NEW w \in Tokenize(text)
    PROVE  w \in Seq(Characters) /\ Len(w) <= Len(text)
<1> DEFINE t == NormalizeText(text)
<1>1. /\ Len(text) \in Nat /\ DOMAIN text = 1..Len(text) /\ DOMAIN t = 1..Len(text)
      /\ \A i \in 1..Len(text) : text[i] \in Characters
      /\ \A i \in 1..Len(text) : t[i] = IF text[i] = Mark THEN Blank ELSE text[i]
  BY LenProperties, ElementOfSeq DEF NormalizeText
<1>2. Blank \in Characters
  BY DEF Characters
<1>3. \A i \in 1..Len(text) : t[i] \in Characters
  BY <1>1, <1>2
<1>4. PICK a \in 1..Len(text), b \in 1..Len(text) : a <= b /\ w = SubSeq(t, a, b)
  BY <1>1 DEF Tokenize
<1> HIDE DEF t
<1>5. \A i \in a..b : t[i] \in Characters
  BY <1>1, <1>3
<1>6. SubSeq(t, a, b) \in Seq(Characters) /\ Len(SubSeq(t, a, b)) = b - a + 1
  BY <1>1, <1>4, <1>5, SubSeqProperties
<1> QED BY <1>1, <1>4, <1>6

\* Squeezing keeps every character that is no blank.
LEMMA SqueezedKeeps ==
    ASSUME NEW text \in Seq(Characters)
    PROVE  /\ Squeezed(text) \in Seq(Characters)
           /\ \A c \in Range(text) \ {Blank} : c \in Range(Squeezed(text))
<1> DEFINE P == {i \in DOMAIN text : text[i] # Blank}
<1>1. DOMAIN text = 1..Len(text)
  BY LenProperties
<1>2. P \in SUBSET (1..Len(text))
  BY <1>1
<1>3. Squeezed(text) = KeptAt(text, P)
  BY DEF Squeezed
<1> HIDE DEF P
<1>4. PICK f \in [1..Cardinality(P) -> P] :
            /\ \A i \in P : \E k \in 1..Cardinality(P) : f[k] = i
            /\ \A k \in 1..Cardinality(P) : KeptAt(text, P)[k] = text[f[k]]
  BY <1>2, KeptLists
<1>5. Squeezed(text) \in Seq(Characters) /\ DOMAIN Squeezed(text) = 1..Cardinality(P)
  <2>1. KeptAt(text, P) \in Seq(Characters) /\ Len(KeptAt(text, P)) = Cardinality(P)
    BY <1>2, KeptLists
  <2> QED BY <1>3, <2>1, LenProperties
<1>6. ASSUME NEW c \in Range(text), c # Blank
      PROVE  c \in Range(Squeezed(text))
  <2>1. PICK i \in P : text[i] = c
    BY <1>6 DEF Range, P
  <2>2. PICK k \in 1..Cardinality(P) : f[k] = i
    BY <1>4
  <2>3. Squeezed(text)[k] = c
    BY <1>3, <1>4, <2>1, <2>2
  <2> QED BY <1>5, <2>3 DEF Range
<1> QED BY <1>5, <1>6

\* Every ideograph of a text is a token of it.
LEMMA IdeographsAreTokens ==
    ASSUME NEW text \in Seq(Characters), NEW c \in Range(text) \cap Ideographs
    PROVE  <<c>> \in TokenizeCJK(text)
<1> DEFINE t == Squeezed(text)
<1>1. c # Blank
  BY SearchAssumption
<1>2. t \in Seq(Characters) /\ c \in Range(t) /\ Len(t) \in Nat
  BY <1>1, SqueezedKeeps, LenProperties
<1> HIDE DEF t
<1>3. CASE Len(t) < 2
  <2>1. PICK i \in DOMAIN t : t[i] = c
    BY <1>2 DEF Range
  <2>2. DOMAIN t = 1..Len(t)
    BY <1>2, LenProperties
  <2>3. Len(t) = 1 /\ i = 1
    BY <1>2, <1>3, <2>1, <2>2
  <2>4. c \in Characters
    BY <1>2, <2>1, <2>2, ElementOfSeq
  <2>5. t = <<c>>
    BY <1>2, <2>1, <2>3, <2>4, SeqEqual
  <2> QED BY <1>3, <2>5 DEF TokenizeCJK, t
<1>4. CASE ~(Len(t) < 2)
  BY <1>2, <1>4 DEF TokenizeCJK, t
<1> QED BY <1>3, <1>4

CommonWord(q, c) == \E w \in Words : HasWord(q, w) /\ HasWord(c, w)
SharedIdeograph(q, c) == Range(q) \cap Range(c) \cap Ideographs # {}

\* What scores: a shared ideograph always, and without ideographs in the query
\* exactly a common word.
LEMMA ScoresMean ==
    ASSUME NEW q \in TextsUpTo(MaxQuery), NEW c \in Seq(Characters)
    PROVE  /\ SharedIdeograph(q, c) => Scores(q, c)
           /\ ~ContainsCJK(q) => (Scores(q, c) <=> CommonWord(q, c))
<1>1. q \in Seq(Characters) /\ Len(q) <= MaxQuery
  <2>1. PICK m \in 0..MaxQuery : q \in [1..m -> Characters]
    BY DEF TextsUpTo, BoundedSeq, SeqOf
  <2>2. m \in Nat
    BY SearchAssumption
  <2>3. q \in Seq(Characters)
    BY <2>1, <2>2, SeqDef
  <2>4. Len(q) = m
    BY <2>1, <2>2
  <2> QED BY <2>1, <2>3, <2>4, SearchAssumption
<1>2. ASSUME SharedIdeograph(q, c)
      PROVE  Scores(q, c)
  <2>1. PICK x \in Ideographs : x \in Range(q) /\ x \in Range(c)
    BY <1>2 DEF SharedIdeograph
  <2>2. <<x>> \in TokenizeCJK(q) /\ <<x>> \in TokenizeCJK(c)
    BY <1>1, <2>1, IdeographsAreTokens
  <2>3. ContainsCJK(q) /\ ContainsCJK(c)
    BY <2>1 DEF ContainsCJK
  <2> QED BY <2>2, <2>3 DEF Scores, SmartTokenize, ChunkTokens
<1>3. ASSUME ~ContainsCJK(q)
      PROVE  Scores(q, c) <=> CommonWord(q, c)
  <2>1. Scores(q, c) <=> Tokenize(q) \cap Tokenize(c) # {}
    BY <1>3 DEF Scores, SmartTokenize, ChunkTokens
  <2>2. ASSUME NEW w \in Tokenize(q) \cap Tokenize(c)
        PROVE  CommonWord(q, c)
    <3>1. w \in Seq(Characters) /\ Len(w) <= Len(q)
      BY <1>1, TokensAreTexts
    <3>2. w # <<>> /\ Range(w) \cap {Mark, Blank} = {} /\ HasWord(q, w) /\ HasWord(c, w)
      BY <1>1, <3>1, TokensAreWords
    <3>3. Len(w) \in 0..MaxQuery /\ w \in [1..Len(w) -> Characters]
      BY <1>1, <3>1, LenProperties, SearchAssumption
    <3>4. w \in Words
      BY <3>2, <3>3 DEF Words, TextsUpTo, BoundedSeq, SeqOf
    <3> QED BY <3>2, <3>4 DEF CommonWord
  <2>3. ASSUME NEW w \in Words, HasWord(q, w), HasWord(c, w)
        PROVE  w \in Tokenize(q) \cap Tokenize(c)
    <3>1. w # <<>> /\ Range(w) \cap {Mark, Blank} = {}
      BY DEF Words
    <3>2. PICK m \in 0..MaxQuery : w \in [1..m -> Characters]
      BY DEF Words, TextsUpTo, BoundedSeq, SeqOf
    <3>3. m \in Nat
      BY SearchAssumption
    <3>4. w \in Seq(Characters)
      BY <3>2, <3>3, SeqDef
    <3> QED BY <1>1, <2>3, <3>1, <3>4, TokensAreWords
  <2> QED BY <2>1, <2>2, <2>3 DEF CommonWord
<1> QED BY <1>2, <1>3

\* What is kept: the results are those of a search with the query and the chunks
\* on display, unless the timer of a new search runs.
SearchSound ==
    /\ view \in [query : TextsUpTo(MaxQuery), chunks : Seq(Seq(Characters)), timer : BOOLEAN,
                 results : SUBSET Nat]
    /\ IsBlank(view.query) => view.results = {} /\ ~view.timer
    /\ ~IsBlank(view.query) /\ ~view.timer => view.results \in TextBasedSearch(view.query, view.chunks)

\* The page sees the chunks of a file, or none.
LEMMA ChunksTyped ==
    /\ <<>> \in TextsUpTo(MaxQuery)
    /\ \A chunks \in FileChunks : chunks \in Seq(Seq(Characters))
    /\ \A chunks \in Seq(Seq(Characters)) : Reverse(chunks) \in Seq(Seq(Characters))
<1>1. <<>> \in TextsUpTo(MaxQuery)
  <2>1. <<>> \in [1..0 -> Characters] /\ 0 \in 0..MaxQuery
    BY SearchAssumption
  <2> QED BY <2>1 DEF TextsUpTo, BoundedSeq, SeqOf
<1>2. \A n \in Nat : \A c \in TextsUpTo(n) : c \in Seq(Characters)
  BY SeqDef DEF TextsUpTo, BoundedSeq, SeqOf
<1>3. ASSUME NEW chunks \in FileChunks
      PROVE  chunks \in Seq(Seq(Characters))
  <2>1. CASE chunks = <<>>
    BY <2>1
  <2>2. ASSUME NEW c \in TextsUpTo(MaxChunk), NEW d \in TextsUpTo(1), chunks = <<c, d>>
        PROVE  chunks \in Seq(Seq(Characters))
    <3>1. c \in Seq(Characters) /\ d \in Seq(Characters)
      BY <1>2, SearchAssumption
    <3> QED BY <2>2, <3>1
  <2> QED BY <2>1, <2>2 DEF FileChunks
<1>4. ASSUME NEW chunks \in Seq(Seq(Characters))
      PROVE  Reverse(chunks) \in Seq(Seq(Characters))
  <2>1. Len(chunks) \in Nat /\ \A i \in 1..Len(chunks) : chunks[i] \in Seq(Characters)
    BY LenProperties, ElementOfSeq
  <2>2. \A i \in 1..Len(chunks) : Len(chunks) - i + 1 \in 1..Len(chunks)
    BY <2>1
  <2>3. Reverse(chunks) \in [1..Len(chunks) -> Seq(Characters)]
    BY <2>1, <2>2 DEF Reverse
  <2>4. PICK S : S = Seq(Characters)
    OBVIOUS
  <2>5. PICK r : r = Reverse(chunks)
    OBVIOUS
  <2>6. PICK n : n = Len(chunks)
    OBVIOUS
  <2>7. r \in [1..n -> S] /\ n \in Nat
    BY <2>1, <2>3, <2>4, <2>5, <2>6
  <2>8. r \in UNION {[1..m -> S] : m \in Nat}
    BY <2>7
  <2>9. r \in Seq(S)
    BY <2>8, SeqDef, Zenon
  <2> QED BY <2>4, <2>5, <2>9
<1> QED BY <1>1, <1>3, <1>4

\* Whatever is found are places of chunks, and none is found for a blank query.
LEMMA FoundPlaces ==
    ASSUME NEW q, NEW chunks \in Seq(Seq(Characters)), NEW found \in TextBasedSearch(q, chunks)
    PROVE  LET matches == {i \in 1..Len(chunks) : ~IsBlank(q) /\ Scores(q, chunks[i])}
           IN  found \subseteq matches /\ (found = matches \/ Cardinality(found) = MaxResults)
<1>1. DOMAIN chunks = 1..Len(chunks)
  BY LenProperties
<1> QED BY <1>1 DEF TextBasedSearch, kSubset

\* Every action keeps what is known of the search.
LEMMA SearchStep == SearchSound /\ [SearchNext]_searchVars => SearchSound'
<1> SUFFICES ASSUME SearchSound, [SearchNext]_searchVars PROVE SearchSound'
  OBVIOUS
<1>1. ASSUME NEW q \in TextsUpTo(MaxQuery), NEW chunks \in Seq(Seq(Characters)), SearchEffect(q, chunks)
      PROVE  SearchSound'
  BY <1>1 DEF SearchEffect, SearchSound
<1>2. view.query \in TextsUpTo(MaxQuery) /\ view.chunks \in Seq(Seq(Characters))
  BY DEF SearchSound
<1>3. ASSUME NEW q \in TextsUpTo(MaxQuery), TypeQuery(q)
      PROVE  SearchSound'
  BY <1>1, <1>2, <1>3 DEF TypeQuery
<1>4. ASSUME IndexChanges
      PROVE  SearchSound'
  <2>1. PICK chunks \in IF view.chunks = <<>> THEN FileChunks ELSE {<<>>, Reverse(view.chunks)} :
           SearchEffect(view.query, chunks)
    BY <1>4 DEF IndexChanges
  <2>2. chunks \in Seq(Seq(Characters))
    BY <1>2, ChunksTyped, EmptySeq
  <2> QED BY <1>1, <1>2, <2>1, <2>2
<1>5. CASE OpenFile
  BY <1>1, <1>2, <1>5, ChunksTyped DEF OpenFile
<1>6. ASSUME PerformSearch
      PROVE  SearchSound'
  <2>1. PICK found \in TextBasedSearch(view.query, view.chunks) :
           view' = [view EXCEPT !.timer = FALSE, !.results = found]
    BY <1>6 DEF PerformSearch
  <2>2. found \in SUBSET Nat
    <3>1. found \subseteq 1..Len(view.chunks) /\ Len(view.chunks) \in Nat
      BY <1>2, FoundPlaces, LenProperties
    <3> QED BY <3>1
  <2>3. ~IsBlank(view.query)
    BY <1>6 DEF PerformSearch, SearchSound
  <2> QED BY <2>1, <2>2, <2>3 DEF SearchSound
<1>7. CASE UNCHANGED searchVars
  BY <1>7 DEF searchVars, SearchSound
<1> QED BY <1>3, <1>4, <1>5, <1>6, <1>7 DEF SearchNext

\* The results on display are those of the query, unless a search is still due.
LEMMA SoundFinds == SearchSound => SearchFinds
<1> SUFFICES ASSUME SearchSound, ~view.timer PROVE SearchFinds
  BY DEF SearchFinds
<1>1. /\ view.query \in TextsUpTo(MaxQuery) /\ view.chunks \in Seq(Seq(Characters))
      /\ DOMAIN view.chunks = 1..Len(view.chunks)
  BY LenProperties DEF SearchSound
<1>2. ASSUME NEW i \in DOMAIN view.chunks
      PROVE  /\ SharedIdeograph(view.query, view.chunks[i])
                  \/ (CommonWord(view.query, view.chunks[i]) /\ ~ContainsCJK(view.query))
                => i \in view.results \/ Cardinality(view.results) = MaxResults
             /\ i \in view.results /\ ~ContainsCJK(view.query) => CommonWord(view.query, view.chunks[i])
  <2>1. view.chunks[i] \in Seq(Characters)
    BY <1>1, ElementOfSeq
  <2>2. /\ SharedIdeograph(view.query, view.chunks[i]) => Scores(view.query, view.chunks[i])
        /\ ~ContainsCJK(view.query)
             => (Scores(view.query, view.chunks[i]) <=> CommonWord(view.query, view.chunks[i]))
    BY <1>1, <2>1, ScoresMean
  <2>3. CASE IsBlank(view.query)
    <3>1. view.results = {}
      BY <2>3 DEF SearchSound
    <3>2. ~SharedIdeograph(view.query, view.chunks[i])
      <4>1. Blank \notin Ideographs
        BY SearchAssumption
      <4> QED BY <2>3, <4>1 DEF SharedIdeograph, IsBlank
    <3>3. ~CommonWord(view.query, view.chunks[i])
      <4> SUFFICES ASSUME NEW w \in Words, HasWord(view.query, w) PROVE FALSE
        BY DEF CommonWord
      <4>1. view.query \in Seq(Characters)
        BY <1>1, SearchAssumption, SeqDef DEF TextsUpTo, BoundedSeq, SeqOf
      <4>2. w \in Seq(Characters) /\ w # <<>> /\ Range(w) \cap {Mark, Blank} = {}
        BY SearchAssumption, SeqDef DEF Words, TextsUpTo, BoundedSeq, SeqOf
      <4>3. PICK a \in DOMAIN view.query :
                 a + Len(w) - 1 <= Len(view.query) /\ SubSeq(view.query, a, a + Len(w) - 1) = w
        BY <4>1 DEF HasWord
      <4>4. view.query[a] = Blank
        BY <2>3 DEF IsBlank, Range
      <4>5. w[1] = Blank
        <5>1. Len(w) \in Nat \ {0} /\ a \in 1..Len(view.query) /\ Len(view.query) \in Nat
          BY <4>1, <4>2, EmptySeq, LenProperties
        <5>2. /\ a \in Int /\ a + Len(w) - 1 \in Int /\ 1 \in 1..(a + Len(w) - 1) - a + 1
              /\ \A k \in a..a + Len(w) - 1 : k \in 1..Len(view.query)
          <6>1. PICK n : n = Len(w)
            OBVIOUS
          <6>2. PICK l : l = Len(view.query)
            OBVIOUS
          <6>3. n \in Nat \ {0} /\ a \in 1..l /\ l \in Nat /\ a + n - 1 <= l
            BY <4>3, <5>1, <6>1, <6>2
          <6>4. a \in Nat /\ a >= 1
            BY <6>3
          <6>5. a \in Int /\ a + n - 1 \in Int /\ 1 \in 1..(a + n - 1) - a + 1
            BY <6>3, <6>4
          <6>6. \A k \in a..a + n - 1 : k \in 1..l
            BY <6>3, <6>4
          <6> QED BY <6>1, <6>2, <6>5, <6>6
        <5>3. \A k \in a..a + Len(w) - 1 : view.query[k] \in Characters
          BY <4>1, <5>2, ElementOfSeq
        <5>4. SubSeq(view.query, a, a + Len(w) - 1)[1] = view.query[a + 1 - 1]
          BY <5>2, <5>3, SubSeqProperties
        <5>5. a + 1 - 1 = a
          BY <5>1
        <5> QED BY <4>3, <4>4, <5>4, <5>5
      <4>6. 1 \in DOMAIN w
        BY <4>2, EmptySeq, LenProperties
      <4> QED BY <4>2, <4>5, <4>6 DEF Range
    <3> QED BY <3>1, <3>2, <3>3
  <2>4. CASE ~IsBlank(view.query)
    <3>1. view.results \in TextBasedSearch(view.query, view.chunks)
      BY <2>4 DEF SearchSound
    <3>2. /\ i \in view.results => Scores(view.query, view.chunks[i])
          /\ Scores(view.query, view.chunks[i])
                => i \in view.results \/ Cardinality(view.results) = MaxResults
      BY <1>1, <2>4, <3>1, FoundPlaces
    <3> QED BY <2>2, <3>2
  <2> QED BY <2>3, <2>4
<1> QED BY <1>2 DEF SearchFinds, SharedIdeograph, CommonWord

\* Once the user has stopped typing, what a search shows is what a reader of the
\* file expects: every chunk with a word or an ideograph of the query, up to the
\* limit, and nothing without a word of it.
THEOREM SearchesFind == SearchSpec => []SearchFinds
<1>1. SearchInit => SearchSound
  <2> SUFFICES ASSUME SearchInit PROVE SearchSound
    OBVIOUS
  <2>1. Range(<<>>) = {}
    BY DEF Range
  <2>2. IsBlank(<<>>)
    BY <2>1 DEF IsBlank
  <2> QED BY <2>2, ChunksTyped, EmptySeq DEF SearchInit, SearchSound
<1> QED BY <1>1, SearchStep, SoundFinds, PTL DEF SearchSpec

-----------------------------------------------------------------------------
(* Induction and recursion over the numbers, for sets and functions.        *)

\* A set of numbers that has a number whenever it has all smaller ones has all.
LEMMA AllNumbers ==
    ASSUME NEW S, \A n \in Nat : (\A m \in Nat : m < n => m \in S) => n \in S
    PROVE  \A n \in Nat : n \in S
<1> DEFINE Bad == Nat \ S
           R == OpToRel(<, Nat)
<1>1. SUFFICES ASSUME Bad # {} PROVE FALSE
  BY <1>1
<1>2. IsWellFoundedOn(R, Nat)
  BY NatLessThanWellFounded
<1>3. \A x, y \in Nat : <<x, y>> \in R <=> x < y
  BY DEF OpToRel
<1> HIDE DEF R
<1>4. Bad \in SUBSET Nat
  OBVIOUS
<1> HIDE DEF Bad
<1>5. PICK n \in Bad : \A m \in Bad : ~(<<m, n>> \in R)
  BY <1>1, <1>2, <1>4, WFMin
<1>6. \A m \in Nat : m < n => m \in S
  BY <1>3, <1>4, <1>5 DEF Bad
<1> QED BY <1>5, <1>6 DEF Bad

\* f starts at a and goes on as the step functions of G say, up to n.
Walks(f, n, a, G) == f[0] = a /\ \A k \in 1..n : f[k] = G[k][f[k - 1]]

WalksOn(f, a, G) == f[0] = a /\ \A k \in Nat : k # 0 => f[k] = G[k][f[k - 1]]

\* There is a walk without end.
LEMMA WalkExists ==
    ASSUME NEW S, NEW a \in S, NEW G \in [Nat -> [S -> S]]
    PROVE  \E f \in [Nat -> S] : WalksOn(f, a, G)
<1> DEFINE Has == {n \in Nat : \E f \in [Nat -> S] : Walks(f, n, a, G)}
           One(n) == CHOOSE f \in [Nat -> S] : Walks(f, n, a, G)
           F == [n \in Nat |-> One(n)[n]]
<1>1. ASSUME NEW n \in Nat, \A m \in Nat : m < n => m \in Has
      PROVE  n \in Has
  <2>1. CASE n = 0
    <3> DEFINE f == [k \in Nat |-> a]
    <3>1. f \in [Nat -> S] /\ Walks(f, n, a, G)
      BY <2>1 DEF Walks
    <3> QED BY <3>1
  <2>2. CASE n # 0
    <3>1. n - 1 \in Nat /\ n - 1 < n
      BY <2>2
    <3>2. PICK g \in [Nat -> S] : Walks(g, n - 1, a, G)
      BY <1>1, <3>1
    <3> DEFINE f == [g EXCEPT ![n] = G[n][g[n - 1]]]
    <3>3. g[n - 1] \in S /\ G[n] \in [S -> S] /\ G[n][g[n - 1]] \in S
      BY <3>1
    <3>4. f \in [Nat -> S] /\ f[n] = G[n][g[n - 1]] /\ \A k \in Nat : k # n => f[k] = g[k]
      BY <3>3
    <3> HIDE DEF f
    <3>5. f[0] = a
      BY <2>2, <3>2, <3>4 DEF Walks
    <3>6. ASSUME NEW k \in 1..n
          PROVE  f[k] = G[k][f[k - 1]]
      <4>1. f[k - 1] = g[k - 1]
        BY <3>4
      <4>2. CASE k = n
        BY <3>4, <4>1, <4>2
      <4>3. CASE k # n
        <5>1. k \in 1..n - 1 /\ f[k] = g[k]
          BY <3>4, <4>3
        <5> QED BY <3>2, <4>1, <5>1 DEF Walks
      <4> QED BY <4>2, <4>3
    <3> QED BY <3>4, <3>5, <3>6 DEF Walks
  <2> QED BY <2>1, <2>2
<1>2. \A n \in Nat : n \in Has
  BY <1>1, AllNumbers
<1>3. \A n \in Nat : One(n) \in [Nat -> S] /\ Walks(One(n), n, a, G)
  BY <1>2
<1>4. ASSUME NEW f \in [Nat -> S], NEW g \in [Nat -> S], NEW n \in Nat, NEW m \in Nat,
             Walks(f, n, a, G), Walks(g, m, a, G), n <= m
      PROVE  f[n] = g[n]
  <2> DEFINE Same == {k \in Nat : k <= n => f[k] = g[k]}
  <2>1. ASSUME NEW k \in Nat, \A l \in Nat : l < k => l \in Same
        PROVE  k \in Same
    <3>1. CASE k = 0
      BY <1>4, <3>1 DEF Walks
    <3>2. CASE k # 0
      <4> SUFFICES ASSUME k <= n PROVE f[k] = g[k]
        OBVIOUS
      <4>1. k - 1 \in Nat /\ k - 1 < k /\ k - 1 <= n /\ k \in 1..n /\ k \in 1..m
        BY <1>4, <3>2
      <4>2. f[k - 1] = g[k - 1]
        BY <2>1, <4>1
      <4> QED BY <1>4, <4>1, <4>2 DEF Walks
    <3> QED BY <3>1, <3>2
  <2>2. n \in Same
    BY <2>1, AllNumbers
  <2> QED BY <2>2
<1> HIDE DEF One, Has
<1>5. F \in [Nat -> S]
  BY <1>3
<1>6. F[0] = a
  BY <1>3 DEF Walks
<1>7. ASSUME NEW k \in Nat, k # 0
      PROVE  F[k] = G[k][F[k - 1]]
  <2>1. k - 1 \in Nat /\ k - 1 <= k /\ k \in 1..k
    BY <1>7
  <2>2. One(k)[k] = G[k][One(k)[k - 1]]
    BY <1>3, <2>1 DEF Walks
  <2>3. One(k - 1)[k - 1] = One(k)[k - 1]
    BY <1>3, <1>4, <2>1
  <2> QED BY <2>1, <2>2, <2>3
<1> QED BY <1>5, <1>6, <1>7 DEF WalksOn

-----------------------------------------------------------------------------
(* Arrays of messages.                                                      *)

Message == [id : Nat, parent : Nat, role : {"user", "assistant", "tool"}, at : Nat]

\* No two of the messages have the same id.
Distinct(s) == \A i, j \in DOMAIN s : s[i].id = s[j].id => i = j

\* The message x comes before y.
Before(s, x, y) == \E i, j \in DOMAIN s : i < j /\ s[i] = x /\ s[j] = y

\* What an array of messages holds.
LEMMA ArrayIs ==
    ASSUME NEW s \in Seq(Message)
    PROVE  /\ Len(s) \in Nat /\ DOMAIN s = 1..Len(s)
           /\ \A i \in DOMAIN s : s[i] \in Message /\ s[i] \in Range(s) /\ s[i].id \in Ids(s)
           /\ \A m \in Range(s) : m \in Message /\ m.id \in Ids(s) /\ m.id \in Nat /\ m.parent \in Nat /\ m.at \in Nat
           /\ \A x \in Ids(s) : x \in Nat /\ \E m \in Range(s) : m.id = x
<1>1. Len(s) \in Nat /\ DOMAIN s = 1..Len(s)
  BY LenProperties
<1>2. \A i \in DOMAIN s : s[i] \in Message /\ s[i] \in Range(s) /\ s[i].id \in Ids(s)
  BY <1>1, ElementOfSeq DEF Range, Ids
<1>3. \A m \in Range(s) : \E i \in DOMAIN s : m = s[i]
  BY DEF Range
<1>4. \A x \in Ids(s) : \E i \in DOMAIN s : x = s[i].id
  BY DEF Ids
<1>5. \A m \in Message : m.id \in Nat /\ m.parent \in Nat /\ m.at \in Nat
  BY DEF Message
<1> QED BY <1>1, <1>2, <1>3, <1>4, <1>5

\* A message at the end of an array.
LEMMA AppendIs ==
    ASSUME NEW s \in Seq(Message), NEW m \in Message
    PROVE  /\ Append(s, m) \in Seq(Message) /\ Len(Append(s, m)) = Len(s) + 1
           /\ \A i \in DOMAIN s : Append(s, m)[i] = s[i]
           /\ Append(s, m)[Len(s) + 1] = m
           /\ Range(Append(s, m)) = Range(s) \cup {m}
           /\ Ids(Append(s, m)) = Ids(s) \cup {m.id}
           /\ Distinct(s) /\ m.id \notin Ids(s) => Distinct(Append(s, m))
           /\ \A x, y : Before(s, x, y) => Before(Append(s, m), x, y)
           /\ \A x \in Range(s) : Before(Append(s, m), x, m)
<1> DEFINE t == Append(s, m)
<1>1. /\ t \in Seq(Message) /\ Len(t) = Len(s) + 1
      /\ \A i \in 1..Len(s) : t[i] = s[i]
      /\ t[Len(s) + 1] = m
  BY AppendProperties
<1> HIDE DEF t
<1>2. /\ Len(s) \in Nat /\ DOMAIN s = 1..Len(s) /\ DOMAIN t = 1..Len(s) + 1
  BY <1>1, LenProperties
<1>3. \A i \in DOMAIN t : i = Len(s) + 1 \/ i \in DOMAIN s
  BY <1>2
<1>4. /\ \A i \in DOMAIN s : i \in DOMAIN t /\ i < Len(s) + 1 /\ t[i] = s[i]
      /\ Len(s) + 1 \in DOMAIN t /\ t[Len(s) + 1] = m
  BY <1>1, <1>2
<1>5. Range(t) = Range(s) \cup {m} /\ Ids(t) = Ids(s) \cup {m.id}
  BY <1>3, <1>4 DEF Range, Ids
<1>6. Distinct(s) /\ m.id \notin Ids(s) => Distinct(t)
  BY <1>3, <1>4 DEF Distinct, Ids
<1>7. \A x, y : Before(s, x, y) => Before(t, x, y)
  BY <1>4 DEF Before
<1>8. \A x \in Range(s) : Before(t, x, m)
  BY <1>4 DEF Before, Range
<1> QED BY <1>1, <1>2, <1>4, <1>5, <1>6, <1>7, <1>8 DEF t

\* The kept messages stay in their order.
LEMMA KeptIs ==
    ASSUME NEW s \in Seq(Message), NEW P \in SUBSET DOMAIN s
    PROVE  /\ KeptAt(s, P) \in Seq(Message)
           /\ Range(KeptAt(s, P)) = {s[i] : i \in P}
           /\ Ids(KeptAt(s, P)) = {s[i].id : i \in P}
           /\ Distinct(s) => /\ Distinct(KeptAt(s, P))
                             /\ \A x, y \in Range(KeptAt(s, P)) :
                                  Before(s, x, y) => Before(KeptAt(s, P), x, y)
<1> DEFINE t == KeptAt(s, P)
           n == Cardinality(P)
<1>1. Len(s) \in Nat /\ DOMAIN s = 1..Len(s)
  BY LenProperties
<1>2. /\ n \in Nat /\ t \in Seq(Message) /\ Len(t) = n
      /\ \E f \in [1..n -> P] :
           /\ \A i \in P : \E k \in 1..n : f[k] = i
           /\ \A j, k \in 1..n : f[j] < f[k] <=> j < k
           /\ \A k \in 1..n : t[k] = s[f[k]]
  BY <1>1, KeptLists
<1> HIDE DEF t, n
<1>3. PICK f \in [1..n -> P] :
           /\ \A i \in P : \E k \in 1..n : f[k] = i
           /\ \A j, k \in 1..n : f[j] < f[k] <=> j < k
           /\ \A k \in 1..n : t[k] = s[f[k]]
  BY <1>2
<1>4. DOMAIN t = 1..n
  BY <1>2, LenProperties
<1>5. Range(t) = {s[i] : i \in P} /\ Ids(t) = {s[i].id : i \in P}
  BY <1>3, <1>4 DEF Range, Ids
<1>6. ASSUME Distinct(s)
      PROVE  Distinct(t) /\ \A x, y \in Range(t) : Before(s, x, y) => Before(t, x, y)
  <2>1. ASSUME NEW j \in 1..n, NEW k \in 1..n, t[j].id = t[k].id
        PROVE  j = k
    <3>1. f[j] \in DOMAIN s /\ f[k] \in DOMAIN s /\ s[f[j]].id = s[f[k]].id
      BY <1>3, <2>1
    <3>2. f[j] = f[k]
      BY <1>6, <3>1 DEF Distinct
    <3>3. ~(f[j] < f[k]) /\ ~(f[k] < f[j])
      BY <1>1, <3>1, <3>2
    <3>4. ~(j < k) /\ ~(k < j)
      BY <1>3, <3>3
    <3> QED BY <1>2, <3>4
  <2>2. Distinct(t)
    BY <1>4, <2>1 DEF Distinct
  <2>3. ASSUME NEW x \in Range(t), NEW y \in Range(t), Before(s, x, y)
        PROVE  Before(t, x, y)
    <3>1. PICK i \in DOMAIN s, j \in DOMAIN s : i < j /\ s[i] = x /\ s[j] = y
      BY <2>3 DEF Before
    <3>2. PICK k \in 1..n, l \in 1..n : t[k] = x /\ t[l] = y
      BY <1>4 DEF Range
    <3>3. f[k] = i /\ f[l] = j
      <4>1. f[k] \in DOMAIN s /\ f[l] \in DOMAIN s /\ s[f[k]].id = s[i].id /\ s[f[l]].id = s[j].id
        BY <1>3, <3>1, <3>2
      <4> QED BY <1>6, <4>1 DEF Distinct
    <3>4. k < l
      BY <1>3, <3>1, <3>3
    <3> QED BY <1>4, <3>2, <3>4 DEF Before
  <2> QED BY <2>2, <2>3
<1> QED BY <1>2, <1>5, <1>6 DEF t

\* Sorted by time, the messages of one time stay in their order.
LEMMA ByTimeIs ==
    ASSUME NEW s \in Seq(Message)
    PROVE  /\ ByTime(s) \in Seq(Message) /\ Len(ByTime(s)) = Len(s)
           /\ Range(ByTime(s)) = Range(s) /\ Ids(ByTime(s)) = Ids(s)
           /\ Distinct(s) => /\ Distinct(ByTime(s))
                             /\ \A x, y \in Range(s) :
                                  Before(s, x, y) /\ x.at <= y.at => Before(ByTime(s), x, y)
<1> DEFINE t == ByTime(s)
           key == [i \in DOMAIN s |-> s[i].at]
           n == Len(s)
<1>1. n \in Nat /\ DOMAIN s = 1..n /\ \A i \in 1..n : s[i].at \in Nat /\ s[i] \in Message
  BY ArrayIs
<1>2. key \in [1..n -> Nat] /\ t = SortedBy(s, key)
  BY <1>1 DEF ByTime
<1> HIDE DEF t, key
<1>3. /\ t \in Seq(Message) /\ Len(t) = n
      /\ \E f : ListsByKey(f, n, key) /\ \A k \in 1..n : t[k] = s[f[k]]
  BY <1>2, SortedLists
<1> HIDE DEF n
<1>4. PICK f \in [1..n -> 1..n] :
           /\ \A i \in 1..n : \E k \in 1..n : f[k] = i
           /\ \A j, k \in 1..n :
                j < k <=> key[f[j]] < key[f[k]] \/ (key[f[j]] = key[f[k]] /\ f[j] < f[k])
           /\ \A k \in 1..n : t[k] = s[f[k]]
  BY <1>3 DEF ListsByKey
<1>5. DOMAIN t = 1..n
  BY <1>3, LenProperties
<1>6. Range(t) = Range(s) /\ Ids(t) = Ids(s)
  <2>1. /\ \A k \in DOMAIN t : \E i \in DOMAIN s : t[k] = s[i]
        /\ \A i \in DOMAIN s : \E k \in DOMAIN t : t[k] = s[i]
    <3>1. ASSUME NEW k \in 1..n
          PROVE  f[k] \in 1..n /\ t[k] = s[f[k]]
      BY <1>4
    <3>2. ASSUME NEW i \in 1..n
          PROVE  \E k \in 1..n : t[k] = s[i]
      <4>1. PICK k \in 1..n : f[k] = i
        BY <1>4
      <4> QED BY <3>1, <4>1
    <3> QED BY <1>1, <1>5, <3>1, <3>2
  <2> QED BY <2>1 DEF Range, Ids
<1>o. ASSUME NEW j \in 1..n, NEW k \in 1..n
      PROVE  j < k <=> key[f[j]] < key[f[k]] \/ (key[f[j]] = key[f[k]] /\ f[j] < f[k])
  BY <1>4
<1>7. ASSUME Distinct(s)
      PROVE  Distinct(t) /\ \A x, y \in Range(s) : Before(s, x, y) /\ x.at <= y.at => Before(t, x, y)
  <2>1. ASSUME NEW j \in 1..n, NEW k \in 1..n, t[j].id = t[k].id
        PROVE  j = k
    <3>1. f[j] \in 1..n /\ f[k] \in 1..n /\ s[f[j]].id = s[f[k]].id
      BY <1>4, <2>1
    <3>2. f[j] = f[k]
      BY <1>1, <1>7, <3>1 DEF Distinct
    <3>3. key[f[j]] \in Nat /\ key[f[j]] = key[f[k]] /\ f[j] \in Nat
      BY <1>1, <1>2, <3>1, <3>2
    <3>4. ~(j < k) /\ ~(k < j)
      BY <1>o, <3>2, <3>3
    <3> QED BY <1>1, <3>4
  <2>2. Distinct(t)
    BY <1>5, <2>1 DEF Distinct
  <2>3. ASSUME NEW x \in Range(s), NEW y \in Range(s), Before(s, x, y), x.at <= y.at
        PROVE  Before(t, x, y)
    <3>1. PICK i \in DOMAIN s, j \in DOMAIN s : i < j /\ s[i] = x /\ s[j] = y
      BY <2>3 DEF Before
    <3>2. PICK k \in 1..n, l \in 1..n : f[k] = i /\ f[l] = j
      BY <1>1, <1>4
    <3>3. t[k] = x /\ t[l] = y
      BY <1>4, <3>1, <3>2
    <3>4. key[i] = x.at /\ key[j] = y.at /\ key[i] \in Nat /\ key[j] \in Nat
      BY <1>1, <1>2, <3>1 DEF key
    <3>5. k < l
      BY <1>o, <2>3, <3>1, <3>2, <3>4
    <3> QED BY <1>5, <3>3, <3>5 DEF Before
  <2> QED BY <2>2, <2>3
<1> QED BY <1>3, <1>6, <1>7 DEF t, n
-----------------------------------------------------------------------------
(* Trees: the ids are different, and a parent has a smaller id and is older. *)

Tree(map) ==
    /\ map \in Seq(Message) /\ Distinct(map)
    /\ \A m \in Range(map) : m.parent < m.id
    /\ \A x, y \in Range(map) : x.id <= y.id => x.at <= y.at

\* An id of a tree names one message of it.
LEMMA GetIs ==
    ASSUME NEW map, Tree(map)
    PROVE  /\ \A m \in Range(map) : Get(map, m.id) = m
           /\ \A x \in Ids(map) : /\ Get(map, x) \in Range(map) /\ Get(map, x).id = x
                                  /\ Get(map, x) \in Message
                                  /\ Get(map, x).parent \in Nat /\ Get(map, x).parent < x
<1>0. map \in Seq(Message)
  BY DEF Tree
<1>1. ASSUME NEW i \in DOMAIN map
      PROVE  Get(map, map[i].id) = map[i]
  <2> DEFINE j == CHOOSE j \in DOMAIN map : map[j].id = map[i].id
  <2>1. j \in DOMAIN map /\ map[j].id = map[i].id
    OBVIOUS
  <2>2. j = i
    <3> HIDE DEF j
    <3> QED BY <2>1 DEF Tree, Distinct
  <2>3. Get(map, map[i].id) = map[j]
    BY DEF Get
  <2> QED BY <2>2, <2>3
<1>2. \A m \in Range(map) : Get(map, m.id) = m
  BY <1>1 DEF Range
<1>3. ASSUME NEW x \in Ids(map)
      PROVE  /\ Get(map, x) \in Range(map) /\ Get(map, x).id = x
             /\ Get(map, x) \in Message
             /\ Get(map, x).parent \in Nat /\ Get(map, x).parent < x
  <2>1. PICK m \in Range(map) : m.id = x
    BY <1>0, ArrayIs
  <2>2. Get(map, x) = m
    BY <1>2, <2>1
  <2>3. m \in Message /\ m.parent \in Nat /\ m.parent < m.id
    BY <1>0, ArrayIs DEF Tree
  <2> QED BY <2>1, <2>2, <2>3
<1> QED BY <1>2, <1>3

\* A tree has a greatest id.
LEMMA TreeIsBounded ==
    ASSUME NEW map, Tree(map)
    PROVE  \E n \in Nat : \A x \in Ids(map) : x <= n
<1> DEFINE Up == {k \in Nat : k <= Len(map) => \E n \in Nat : \A i \in 1..k : map[i].id <= n}
<1>1. Len(map) \in Nat /\ DOMAIN map = 1..Len(map) /\ \A i \in 1..Len(map) : map[i].id \in Nat
  BY ArrayIs DEF Tree, Message
<1>2. ASSUME NEW k \in Nat, \A l \in Nat : l < k => l \in Up
      PROVE  k \in Up
  <2>1. CASE k = 0
    BY <2>1
  <2>2. CASE k # 0
    <3> SUFFICES ASSUME k <= Len(map) PROVE \E n \in Nat : \A i \in 1..k : map[i].id <= n
      OBVIOUS
    <3>1. k - 1 \in Nat /\ k - 1 < k /\ k - 1 <= Len(map) /\ k \in 1..Len(map)
      BY <1>1, <2>2
    <3>2. PICK n \in Nat : \A i \in 1..k - 1 : map[i].id <= n
      BY <1>2, <3>1
    <3>3. map[k].id \in Nat /\ \A i \in 1..k : i \in 1..k - 1 \/ i = k
      BY <1>1, <3>1
    <3>4. \A i \in 1..k - 1 : map[i].id \in Nat /\ map[i].id <= n + map[k].id
      BY <1>1, <3>1, <3>2, <3>3
    <3>5. \A i \in 1..k : map[i].id <= n + map[k].id
      BY <3>3, <3>4
    <3>6. n + map[k].id \in Nat
      BY <3>3
    <3> QED BY <3>5, <3>6
  <2> QED BY <2>1, <2>2
<1>3. Len(map) \in Up
  BY <1>1, <1>2, AllNumbers
<1> QED BY <1>1, <1>3 DEF Ids

\* The id of the parent of a message.
ParentOf(map, x) == Get(map, x).parent

\* Chain satisfies its recursive equation.
LEMMA ChainStep ==
    ASSUME NEW map, Tree(map)
    PROVE  \A x \in Nat :
             /\ Chain(map, x) \in Seq(Message)
             /\ Chain(map, x) = IF x \in Ids(map)
                                THEN Append(Chain(map, ParentOf(map, x)), Get(map, x)) ELSE <<>>
<1> DEFINE Is(f) == f = [x \in Nat |-> IF x \in Ids(map)
                                      THEN Append(f[Get(map, x).parent], Get(map, x)) ELSE <<>>]
           C == CHOOSE f : Is(f)
           Fits(f, n) == \A x \in 0..n :
               f[x] = IF x \in Ids(map) THEN Append(f[ParentOf(map, x)], Get(map, x)) ELSE <<>>
           Has == {n \in Nat : \E f \in [Nat -> Seq(Message)] : Fits(f, n)}
<1>1. \A x \in Ids(map) : /\ x \in Nat /\ Get(map, x) \in Message
                          /\ ParentOf(map, x) \in Nat /\ ParentOf(map, x) < x
  BY GetIs, ArrayIs DEF Tree, ParentOf
<1>2. \A s \in Seq(Message) : \A m \in Message : Append(s, m) \in Seq(Message)
  BY AppendIs
<1>3. ASSUME NEW n \in Nat, \A m \in Nat : m < n => m \in Has
      PROVE  n \in Has
  <2>1. PICK g \in [Nat -> Seq(Message)] : n # 0 => Fits(g, n - 1)
    <3>1. CASE n = 0
      <4>1. [x \in Nat |-> <<>>] \in [Nat -> Seq(Message)]
        BY EmptySeq
      <4> QED BY <3>1, <4>1
    <3>2. CASE n # 0
      <4>1. n - 1 \in Nat /\ n - 1 < n
        BY <3>2
      <4> QED BY <1>3, <4>1
    <3> QED BY <3>1, <3>2
  <2> DEFINE v == IF n \in Ids(map) THEN Append(g[ParentOf(map, n)], Get(map, n)) ELSE <<>>
             f == [g EXCEPT ![n] = v]
  <2>2. v \in Seq(Message)
    <3>1. CASE n \in Ids(map)
      BY <1>1, <1>2, <3>1
    <3>2. CASE n \notin Ids(map)
      BY <3>2, EmptySeq
    <3> QED BY <3>1, <3>2
  <2>3. f \in [Nat -> Seq(Message)] /\ f[n] = v /\ \A k \in Nat : k # n => f[k] = g[k]
    BY <2>2
  <2> HIDE DEF f
  <2>4. ASSUME NEW x \in 0..n
        PROVE  f[x] = IF x \in Ids(map) THEN Append(f[ParentOf(map, x)], Get(map, x)) ELSE <<>>
    <3>1. x \in Ids(map) => f[ParentOf(map, x)] = g[ParentOf(map, x)]
      BY <1>1, <2>3
    <3>2. CASE x = n
      BY <2>3, <3>1, <3>2
    <3>3. CASE x # n
      <4>1. x \in 0..n - 1 /\ n # 0 /\ x \in Nat
        BY <3>3
      <4>2. f[x] = g[x]
        BY <2>3, <3>3, <4>1
      <4> QED BY <2>1, <3>1, <4>1, <4>2
    <3> QED BY <3>2, <3>3
  <2> QED BY <2>3, <2>4
<1>4. \A n \in Nat : n \in Has
  BY <1>3, AllNumbers
<1> HIDE DEF Has
<1>5. PICK n \in Nat : \A x \in Ids(map) : x <= n
  BY TreeIsBounded
<1>6. PICK g \in [Nat -> Seq(Message)] : Fits(g, n)
  BY <1>4 DEF Has
<1> DEFINE F == [x \in Nat |-> IF x \in Ids(map) THEN g[x] ELSE <<>>]
<1>7. F \in [Nat -> Seq(Message)]
  BY EmptySeq
<1>8. ASSUME NEW x \in Nat
      PROVE  F[x] = IF x \in Ids(map) THEN Append(F[ParentOf(map, x)], Get(map, x)) ELSE <<>>
  <2>1. CASE x \in Ids(map)
    <3>1. x \in 0..n /\ F[x] = g[x] /\ g[x] = Append(g[ParentOf(map, x)], Get(map, x))
      BY <1>5, <1>6, <2>1
    <3>2. ParentOf(map, x) \in 0..n
      BY <1>1, <1>5, <2>1
    <3>3. g[ParentOf(map, x)] = F[ParentOf(map, x)]
      BY <1>6, <3>2
    <3> QED BY <2>1, <3>1, <3>3
  <2>2. CASE x \notin Ids(map)
    BY <2>2
  <2> QED BY <2>1, <2>2
<1>9. F = [x \in Nat |-> F[x]]
  OBVIOUS
<1> HIDE DEF F
<1>10. Is(F)
  BY <1>8, <1>9 DEF ParentOf
<1> HIDE DEF Is
<1>11. Is(C)
  BY <1>10, Zenon
<1>12. \A x : Chain(map, x) = C[x]
  BY DEF Chain, Is
<1> HIDE DEF C
<1>13. /\ C = [x \in Nat |-> C[x]]
       /\ \A x \in Nat : C[x] = IF x \in Ids(map) THEN Append(C[ParentOf(map, x)], Get(map, x)) ELSE <<>>
  BY <1>11 DEF Is, ParentOf
<1> DEFINE Good == {x \in Nat : C[x] \in Seq(Message)}
<1>14. ASSUME NEW x \in Nat, \A y \in Nat : y < x => y \in Good
       PROVE  x \in Good
  <2>1. CASE x \in Ids(map)
    <3>1. ParentOf(map, x) \in Good
      BY <1>1, <1>14, <2>1
    <3>2. C[ParentOf(map, x)] \in Seq(Message) /\ Get(map, x) \in Message
      BY <1>1, <2>1, <3>1
    <3> QED BY <1>2, <1>13, <2>1, <3>2
  <2>2. CASE x \notin Ids(map)
    BY <1>13, <2>2, EmptySeq
  <2> QED BY <2>1, <2>2
<1>15. \A x \in Nat : x \in Good
  BY <1>14, AllNumbers
<1> QED BY <1>12, <1>13, <1>15

\* The ids on the chain of a message, its own included.
Line(map, x) == Ids(Chain(map, x))

\* The line of a message is that of its parent and the message.
LEMMA LineIs ==
    ASSUME NEW map, Tree(map)
    PROVE  /\ \A x \in Ids(map) : /\ Line(map, x) = Line(map, ParentOf(map, x)) \cup {x}
                                  /\ ParentOf(map, x) \in Nat /\ ParentOf(map, x) < x /\ x \in Nat
           /\ \A x \in Nat \ Ids(map) : Line(map, x) = {}
           /\ \A x \in Nat : \A y \in Line(map, x) : y \in Ids(map) /\ y <= x
<1>1. \A x \in Ids(map) : /\ ParentOf(map, x) \in Nat /\ ParentOf(map, x) < x /\ x \in Nat
                          /\ Get(map, x) \in Message /\ Get(map, x).id = x
  BY GetIs, ArrayIs DEF Tree, ParentOf
<1>2. ASSUME NEW x \in Ids(map)
      PROVE  Line(map, x) = Line(map, ParentOf(map, x)) \cup {x}
  <2>1. /\ Chain(map, x) = Append(Chain(map, ParentOf(map, x)), Get(map, x))
        /\ Chain(map, ParentOf(map, x)) \in Seq(Message)
    BY <1>1, ChainStep
  <2> QED BY <1>1, <2>1, AppendIs DEF Line
<1>3. \A x \in Nat \ Ids(map) : Line(map, x) = {}
  <2>1. Ids(<<>>) = {}
    BY DEF Ids
  <2> QED BY <2>1, ChainStep DEF Line
<1> DEFINE Good == {x \in Nat : \A y \in Line(map, x) : y \in Ids(map) /\ y <= x}
<1>4. ASSUME NEW x \in Nat, \A y \in Nat : y < x => y \in Good
      PROVE  x \in Good
  <2> SUFFICES ASSUME NEW y \in Line(map, x) PROVE y \in Ids(map) /\ y <= x
    BY <1>4
  <2>1. x \in Ids(map)
    BY <1>3
  <2>2. ParentOf(map, x) \in Good
    BY <1>1, <1>4, <2>1
  <2>3. y = x \/ (y \in Ids(map) /\ y <= ParentOf(map, x))
    BY <1>2, <2>1, <2>2
  <2>4. y \in Ids(map)
    BY <2>1, <2>3
  <2>5. y \in Nat /\ ParentOf(map, x) \in Nat /\ ParentOf(map, x) < x
    BY <1>1, <2>1, <2>4
  <2>6. y <= x
    BY <2>3, <2>5
  <2> QED BY <2>4, <2>6
<1>5. \A x \in Nat : x \in Good
  BY <1>4, AllNumbers
<1> QED BY <1>1, <1>2, <1>3, <1>5

\* The chain of a message goes on as the chain of each message on it.
LEMMA LineThrough ==
    ASSUME NEW map, Tree(map)
    PROVE  \A x \in Nat : \A y \in Line(map, x) : Line(map, y) \subseteq Line(map, x)
<1> DEFINE Good == {x \in Nat : \A y \in Line(map, x) : Line(map, y) \subseteq Line(map, x)}
<1>1. ASSUME NEW x \in Nat, \A y \in Nat : y < x => y \in Good
      PROVE  x \in Good
  <2> SUFFICES ASSUME NEW y \in Line(map, x) PROVE Line(map, y) \subseteq Line(map, x)
    BY <1>1
  <2>1. x \in Ids(map)
    BY LineIs
  <2>2. /\ Line(map, x) = Line(map, ParentOf(map, x)) \cup {x}
        /\ ParentOf(map, x) \in Nat /\ ParentOf(map, x) < x
    BY <2>1, LineIs
  <2>3. ParentOf(map, x) \in Good
    BY <1>1, <2>2
  <2> QED BY <2>2, <2>3
<1>2. \A x \in Nat : x \in Good
  BY <1>1, AllNumbers
<1> QED BY <1>2

\* No two messages of a chain have one parent.
LEMMA LineIsThin ==
    ASSUME NEW map, Tree(map)
    PROVE  \A x \in Nat : \A y, z \in Line(map, x) :
             ParentOf(map, y) = ParentOf(map, z) => y = z
<1> DEFINE Good == {x \in Nat : \A y, z \in Line(map, x) :
                                  ParentOf(map, y) = ParentOf(map, z) => y = z}
<1>1. ASSUME NEW x \in Nat, \A y \in Nat : y < x => y \in Good
      PROVE  x \in Good
  <2> SUFFICES ASSUME NEW y \in Line(map, x), NEW z \in Line(map, x),
                      ParentOf(map, y) = ParentOf(map, z)
               PROVE  y = z
    BY <1>1
  <2>1. x \in Ids(map)
    BY LineIs
  <2> DEFINE p == ParentOf(map, x)
  <2>2. Line(map, x) = Line(map, p) \cup {x} /\ p \in Nat /\ p < x
    BY <2>1, LineIs
  <2>3. p \in Good
    BY <1>1, <2>2
  <2>4. \A w \in Line(map, p) : w \in Nat /\ ParentOf(map, w) \in Nat /\ ParentOf(map, w) < w /\ w <= p
    BY <2>2, LineIs
  <2>5. \A w \in Line(map, p) : ParentOf(map, w) # p
    BY <2>2, <2>4
  <2> QED BY <2>2, <2>3, <2>5
<1>2. \A x \in Nat : x \in Good
  BY <1>1, AllNumbers
<1> QED BY <1>2

\* A chain holds each message on it once, in order, and ends with its own.
LEMMA ChainReads ==
    ASSUME NEW map, Tree(map)
    PROVE  \A x \in Nat :
             /\ Range(Chain(map, x)) = {Get(map, y) : y \in Line(map, x)}
             /\ Distinct(Chain(map, x))
             /\ \A m \in Range(Chain(map, x)) : m.parent \in Ids(map) =>
                  Before(Chain(map, x), Get(map, m.parent), m)
<1> DEFINE Reads(x) ==
             /\ Range(Chain(map, x)) = {Get(map, y) : y \in Line(map, x)}
             /\ Distinct(Chain(map, x))
             /\ \A m \in Range(Chain(map, x)) : m.parent \in Ids(map) =>
                  Before(Chain(map, x), Get(map, m.parent), m)
           Good == {x \in Nat : Reads(x)}
<1>1. ASSUME NEW x \in Nat, \A y \in Nat : y < x => y \in Good
      PROVE  Reads(x)
  <2>1. CASE x \in Ids(map)
    <3> DEFINE p == ParentOf(map, x)
               c == Chain(map, p)
               m == Get(map, x)
    <3>1. /\ Line(map, x) = Line(map, p) \cup {x} /\ p \in Nat /\ p < x
          /\ \A y \in Line(map, p) : y <= p
      BY <2>1, LineIs
    <3>2. c \in Seq(Message) /\ Chain(map, x) = Append(c, m)
      BY <2>1, <3>1, ChainStep
    <3>3. m \in Message /\ m.id = x /\ m.parent = p
      BY <2>1, GetIs DEF ParentOf
    <3>4. Reads(p)
      BY <1>1, <3>1
    <3>5. x \notin Ids(c)
      BY <3>1 DEF Line
    <3> HIDE DEF c, m, p
    <3>6. /\ Range(Append(c, m)) = Range(c) \cup {m}
          /\ \A u, v : Before(c, u, v) => Before(Append(c, m), u, v)
          /\ \A u \in Range(c) : Before(Append(c, m), u, m)
      BY <3>2, <3>3, AppendIs
    <3>7. Distinct(Append(c, m))
      BY <3>2, <3>3, <3>4, <3>5, AppendIs DEF c
    <3>8. Range(c) = {Get(map, y) : y \in Line(map, p)}
      BY <3>4 DEF c
    <3>9. Range(Append(c, m)) = {Get(map, y) : y \in Line(map, x)}
      BY <3>1, <3>6, <3>8 DEF m
    <3>10. ASSUME NEW n \in Range(Append(c, m)), n.parent \in Ids(map)
           PROVE  Before(Append(c, m), Get(map, n.parent), n)
      <4>1. CASE n \in Range(c)
        BY <3>4, <3>6, <3>10, <4>1 DEF c
      <4>2. CASE n = m
        <5>1. p \in Ids(map)
          BY <3>3, <3>10, <4>2
        <5>2. p \in Line(map, p)
          BY <5>1, LineIs
        <5>3. Get(map, p) \in Range(c)
          BY <3>8, <5>2
        <5> QED BY <3>3, <3>6, <4>2, <5>3
      <4> QED BY <3>6, <4>1, <4>2
    <3> QED BY <3>2, <3>7, <3>9, <3>10
  <2>2. CASE x \notin Ids(map)
    <3>1. Chain(map, x) = <<>> /\ Line(map, x) = {}
      BY <2>2, ChainStep, LineIs
    <3>2. Range(<<>>) = {} /\ Distinct(<<>>)
      BY DEF Range, Distinct
    <3> QED BY <3>1, <3>2
  <2> QED BY <2>1, <2>2
<1>2. \A x \in Nat : x \in Good
  <2> HIDE DEF Reads
  <2> QED BY <1>1, AllNumbers
<1> QED BY <1>2

\* The first message of a chain is the first one of the chains of all on it.
LEMMA RootIs ==
    ASSUME NEW map, Tree(map)
    PROVE  \A x \in Ids(map) : \A y \in Line(map, x) : Chain(map, x)[1].id \in Line(map, y)
<1> DEFINE Root(x) == Chain(map, x)[1].id
           Good == {x \in Nat : \A y \in Line(map, x) : Root(x) \in Line(map, y)}
<1>1. ASSUME NEW x \in Nat, \A y \in Nat : y < x => y \in Good
      PROVE  x \in Good
  <2> SUFFICES ASSUME NEW y \in Line(map, x) PROVE Root(x) \in Line(map, y)
    BY <1>1
  <2> DEFINE p == ParentOf(map, x)
             c == Chain(map, p)
             m == Get(map, x)
  <2>1. x \in Ids(map)
    BY LineIs
  <2>2. Line(map, x) = Line(map, p) \cup {x} /\ p \in Nat /\ p < x
    BY <2>1, LineIs
  <2>3. c \in Seq(Message) /\ Chain(map, x) = Append(c, m) /\ m \in Message /\ m.id = x
    BY <2>1, <2>2, ChainStep, GetIs
  <2>4. p \in Good
    BY <1>1, <2>2
  <2>5. CASE p \in Ids(map)
    <3>1. p \in Line(map, p)
      BY <2>5, LineIs
    <3>2. 1 \in DOMAIN c
      <4>1. c # <<>>
        BY <3>1 DEF Line, Ids
      <4> QED BY <2>3, <4>1, EmptySeq, LenProperties
    <3>3. Root(x) = Root(p)
      <4> HIDE DEF c, m
      <4>1. Append(c, m)[1] = c[1]
        BY <2>3, <3>2, AppendIs
      <4> QED BY <2>3, <4>1 DEF c
    <3>4. Root(p) \in Line(map, p)
      BY <2>4, <3>1
    <3> QED BY <2>2, <2>4, <3>3, <3>4
  <2>6. CASE p \notin Ids(map)
    <3>1. c = <<>> /\ Line(map, p) = {}
      BY <2>2, <2>6, ChainStep, LineIs
    <3>2. Chain(map, x)[1] = m
      BY <2>3, <3>1
    <3> QED BY <2>2, <2>3, <3>1, <3>2
  <2> QED BY <2>5, <2>6
<1>2. \A x \in Nat : x \in Good
  BY <1>1, AllNumbers
<1>3. \A x \in Ids(map) : x \in Nat
  BY LineIs
<1> QED BY <1>2, <1>3

\* The messages that answer another, each of them once.
LEMMA ChildrenAre ==
    ASSUME NEW map, Tree(map), NEW x
    PROVE  /\ Children(map, x) \in Seq(Message) /\ Distinct(Children(map, x))
           /\ Range(Children(map, x)) = {m \in Range(map) : m.parent = x}
<1> DEFINE P == {i \in DOMAIN map : map[i].parent = x}
           c == KeptAt(map, P)
<1>1. map \in Seq(Message) /\ Distinct(map) /\ P \in SUBSET DOMAIN map
  BY DEF Tree
<1>2. c \in Seq(Message) /\ Distinct(c) /\ Range(c) = {map[i] : i \in P}
  BY <1>1, KeptIs
<1>3. Children(map, x) = ByTime(c)
  BY DEF Children
<1>4. {map[i] : i \in P} = {m \in Range(map) : m.parent = x}
  BY DEF Range
<1> HIDE DEF c, P
<1> QED BY <1>2, <1>3, <1>4, ByTimeIs

-----------------------------------------------------------------------------
(* The subtree of a message.                                                *)

\* The ids that get into the queue q when the k-th of them is taken, and the queue.
NewIds(map, q, k) ==
    LET next == Children(map, q[k])
        new == {i \in DOMAIN next : \A j \in 1..k : q[j] # next[i].id}
        added == KeptAt(next, new)
    IN  [i \in DOMAIN added |-> added[i].id]

Goes(map, q, k) == IF k > Len(q) THEN q ELSE q \o NewIds(map, q, k)

\* What a queue holds.
Queued(q) == {q[i] : i \in 1..Len(q)}

\* The ids that a step adds to the queue are new, each of them once.
LEMMA NewIdsAre ==
    ASSUME NEW map, Tree(map), NEW q \in Seq(Nat), NEW k \in 1..Len(q)
    PROVE  /\ NewIds(map, q, k) \in Seq(Nat)
           /\ \A i, j \in 1..Len(NewIds(map, q, k)) :
                NewIds(map, q, k)[i] = NewIds(map, q, k)[j] => i = j
           /\ Queued(NewIds(map, q, k))
                = {x \in Ids(map) : ParentOf(map, x) = q[k] /\ \A j \in 1..k : q[j] # x}
<1> DEFINE next == Children(map, q[k])
           new == {i \in DOMAIN next : \A j \in 1..k : q[j] # next[i].id}
           added == KeptAt(next, new)
           n == NewIds(map, q, k)
           Old == {q[j] : j \in 1..k}
<1>1. /\ next \in Seq(Message) /\ Distinct(next)
      /\ Range(next) = {m \in Range(map) : m.parent = q[k]}
      /\ new \in SUBSET DOMAIN next
  BY ChildrenAre
<1>2. n = [i \in DOMAIN added |-> added[i].id]
  BY DEF NewIds
<1>3. new = {i \in DOMAIN next : next[i].id \notin Old}
  OBVIOUS
<1> HIDE DEF new, next, n, Old
<1>4. /\ added \in Seq(Message) /\ Distinct(added)
      /\ Range(added) = {next[i] : i \in new}
  BY <1>1, KeptIs
<1>5. Range(added) = {m \in Range(map) : m.parent = q[k] /\ m.id \notin Old}
  <2>1. {next[i] : i \in new} = {m \in Range(next) : m.id \notin Old}
    BY <1>3 DEF Range
  <2> QED BY <1>1, <1>4, <2>1
<1> HIDE DEF added
<1>6. /\ DOMAIN added = 1..Len(added) /\ Len(added) \in Nat
      /\ \A i \in 1..Len(added) : added[i].id \in Nat /\ added[i] \in Range(added)
      /\ \A m \in Range(added) : \E i \in 1..Len(added) : added[i] = m
  <2>1. \A m \in Range(added) : \E i \in DOMAIN added : added[i] = m
    BY DEF Range
  <2> QED BY <1>4, <2>1, ArrayIs DEF Message
<1>7. n \in [1..Len(added) -> Nat]
  BY <1>2, <1>6
<1>8. n \in Seq(Nat) /\ Len(n) = Len(added)
  <2>1. PICK l \in Nat : l = Len(added)
    BY <1>6
  <2>2. n \in Seq(Nat) /\ DOMAIN n = 1..l
    BY <1>7, <2>1
  <2>3. Len(n) \in Nat /\ DOMAIN n = 1..Len(n)
    BY <2>2, LenProperties
  <2>4. Len(n) = l
    BY <2>2, <2>3
  <2> QED BY <2>1, <2>2, <2>4
<1>9. \A i, j \in 1..Len(n) : n[i] = n[j] => i = j
  BY <1>2, <1>4, <1>6, <1>8 DEF Distinct
<1>10. ASSUME NEW x \in Queued(n)
       PROVE  x \in Ids(map) /\ ParentOf(map, x) = q[k] /\ x \notin Old
  <2>1. PICK i \in 1..Len(added) : x = added[i].id
    BY <1>2, <1>6, <1>8 DEF Queued
  <2>2. added[i] \in Range(map) /\ added[i].parent = q[k] /\ added[i].id \notin Old
    BY <1>5, <1>6
  <2>3. Get(map, x) = added[i]
    BY <2>1, <2>2, GetIs
  <2>4. x \in Ids(map)
    BY <2>1, <2>2, ArrayIs DEF Tree
  <2> QED BY <2>1, <2>2, <2>3, <2>4 DEF ParentOf
<1>11. ASSUME NEW x \in Ids(map), ParentOf(map, x) = q[k], x \notin Old
       PROVE  x \in Queued(n)
  <2>1. Get(map, x) \in Range(map) /\ Get(map, x).id = x /\ Get(map, x).parent = q[k]
    BY <1>11, GetIs DEF ParentOf
  <2>2. PICK i \in 1..Len(added) : added[i] = Get(map, x)
    BY <1>5, <1>6, <1>11, <2>1
  <2>3. i \in DOMAIN added
    BY <1>6
  <2>4. n[i] = x /\ i \in 1..Len(n)
    BY <1>2, <1>8, <2>1, <2>2, <2>3
  <2> QED BY <2>4 DEF Queued
<1>12. \A x : x \in Old <=> \E j \in 1..k : q[j] = x
  BY DEF Old
<1>13. Queued(n) = {x \in Ids(map) : ParentOf(map, x) = q[k] /\ \A j \in 1..k : q[j] # x}
  BY <1>10, <1>11, <1>12
<1> QED BY <1>8, <1>9, <1>13 DEF n

\* Visits satisfies its recursive equation.
LEMMA VisitsStep ==
    ASSUME NEW map, Tree(map), NEW id \in Nat
    PROVE  \E f \in [Nat -> Seq(Nat)] :
             /\ f[0] = <<id>> /\ \A k \in Nat : k # 0 => f[k] = Goes(map, f[k - 1], k)
             /\ Visits(map, id) = f[Len(map)]
<1> DEFINE Is(f) == f = [k \in Nat |-> IF k = 0 THEN <<id>> ELSE Goes(map, f[k - 1], k)]
           Q == CHOOSE f : Is(f)
           G == [k \in Nat |-> [q \in Seq(Nat) |-> IF k = 0 THEN q ELSE Goes(map, q, k)]]
<1>1. Visits(map, id) = Q[Len(map)]
  BY DEF Visits, Goes, NewIds
<1>2. ASSUME NEW k \in Nat, k # 0, NEW q \in Seq(Nat)
      PROVE  Goes(map, q, k) \in Seq(Nat)
  <2>1. CASE k > Len(q)
    BY <2>1 DEF Goes
  <2>2. CASE ~(k > Len(q))
    <3>1. k \in 1..Len(q)
      BY <1>2, <2>2, LenProperties
    <3>2. NewIds(map, q, k) \in Seq(Nat)
      BY <3>1, NewIdsAre
    <3> QED BY <2>2, <3>2, ConcatProperties DEF Goes
  <2> QED BY <2>1, <2>2
<1>3. G \in [Nat -> [Seq(Nat) -> Seq(Nat)]]
  BY <1>2
<1>4. <<id>> \in Seq(Nat)
  OBVIOUS
<1> HIDE DEF G
<1>5. PICK f \in [Nat -> Seq(Nat)] : f[0] = <<id>> /\ \A k \in Nat : k # 0 => f[k] = G[k][f[k - 1]]
  <2>1. PICK S : S = Seq(Nat)
    OBVIOUS
  <2>2. PICK a : a = <<id>>
    OBVIOUS
  <2>3. a \in S /\ G \in [Nat -> [S -> S]]
    BY <1>3, <1>4, <2>1, <2>2
  <2>4. PICK f \in [Nat -> S] : WalksOn(f, a, G)
    BY <2>3, WalkExists
  <2> QED BY <2>1, <2>2, <2>4 DEF WalksOn
<1>6. ASSUME NEW k \in Nat, k # 0
      PROVE  f[k] = Goes(map, f[k - 1], k)
  <2>1. f[k - 1] \in Seq(Nat)
    BY <1>6
  <2>2. G[k][f[k - 1]] = Goes(map, f[k - 1], k)
    BY <1>6, <2>1 DEF G
  <2> QED BY <1>5, <1>6, <2>2
<1>7. f = [k \in Nat |-> f[k]]
  OBVIOUS
<1>8. \A k \in Nat : f[k] = IF k = 0 THEN <<id>> ELSE Goes(map, f[k - 1], k)
  BY <1>5, <1>6
<1>9. Is(f)
  BY <1>7, <1>8
<1> HIDE DEF Is
<1>10. Is(Q)
  BY <1>9, Zenon
<1> HIDE DEF Q
<1>11. Q = [k \in Nat |-> IF k = 0 THEN <<id>> ELSE Goes(map, Q[k - 1], k)]
  BY <1>10 DEF Is
<1>12. Q[0] = <<id>> /\ \A k \in Nat : k # 0 => Q[k] = Goes(map, Q[k - 1], k)
  BY <1>11
<1> DEFINE Good == {k \in Nat : Q[k] \in Seq(Nat)}
<1>13. ASSUME NEW k \in Nat, \A l \in Nat : l < k => l \in Good
       PROVE  k \in Good
  <2>1. CASE k = 0
    BY <1>4, <1>12, <2>1
  <2>2. CASE k # 0
    <3>1. k - 1 \in Nat /\ k - 1 < k
      BY <2>2
    <3>2. Q[k - 1] \in Seq(Nat)
      BY <1>13, <3>1
    <3> QED BY <1>2, <1>12, <2>2, <3>2
  <2> QED BY <2>1, <2>2
<1>14. \A k \in Nat : k \in Good
  BY <1>13, AllNumbers
<1>15. Q \in [Nat -> Seq(Nat)]
  BY <1>11, <1>14
<1> QED BY <1>1, <1>12, <1>15

\* A queue of the search below id, when k of its ids were taken.
QueueSound(map, id, q, k) ==
    /\ q \in Seq(Nat) /\ Len(q) >= 1 /\ q[1] = id
    /\ \A i \in 1..Len(q) : q[i] \in Ids(map) /\ q[i] >= id
    /\ \A i, j \in 1..Len(q) : q[i] = q[j] => i = j
    /\ \A i \in 2..Len(q) : \E j \in 1..i - 1 : j <= k /\ q[j] = ParentOf(map, q[i])
    /\ \A x \in Ids(map), j \in 1..Len(q) : j <= k /\ q[j] = ParentOf(map, x) => x \in Queued(q)

\* A step of the queue takes one message and adds its children.
LEMMA QueueGoesOn ==
    ASSUME NEW map, Tree(map), NEW id \in Ids(map), NEW q, NEW k \in Nat, k # 0,
           QueueSound(map, id, q, k - 1)
    PROVE  QueueSound(map, id, Goes(map, q, k), k)
<1>1. /\ q \in Seq(Nat) /\ Len(q) \in Nat /\ Len(q) >= 1 /\ q[1] = id /\ id \in Nat
      /\ \A i \in 1..Len(q) : q[i] \in Ids(map) /\ q[i] >= id
      /\ \A i, j \in 1..Len(q) : q[i] = q[j] => i = j
      /\ \A i \in 2..Len(q) : \E j \in 1..i - 1 : j <= k - 1 /\ q[j] = ParentOf(map, q[i])
      /\ \A x \in Ids(map), j \in 1..Len(q) : j <= k - 1 /\ q[j] = ParentOf(map, x) => x \in Queued(q)
  BY LenProperties, LineIs DEF QueueSound
<1>2. \A x \in Ids(map) : ParentOf(map, x) \in Nat /\ ParentOf(map, x) < x /\ x \in Nat
  BY LineIs
<1>3. CASE k > Len(q)
  <2>1. Goes(map, q, k) = q
    BY <1>3 DEF Goes
  <2>2. \A i \in 2..Len(q) : \E j \in 1..i - 1 : j <= k /\ q[j] = ParentOf(map, q[i])
    <3> SUFFICES ASSUME NEW i \in 2..Len(q)
                 PROVE  \E j \in 1..i - 1 : j <= k /\ q[j] = ParentOf(map, q[i])
      OBVIOUS
    <3>1. PICK j \in 1..i - 1 : j <= k - 1 /\ q[j] = ParentOf(map, q[i])
      BY <1>1
    <3>2. j <= k
      BY <1>1, <3>1
    <3> QED BY <3>1, <3>2
  <2>3. \A j \in 1..Len(q) : j <= k => j <= k - 1
    BY <1>1, <1>3
  <2>4. \A x \in Ids(map), j \in 1..Len(q) : j <= k /\ q[j] = ParentOf(map, x) => x \in Queued(q)
    BY <1>1, <2>3
  <2> QED BY <1>1, <2>1, <2>2, <2>4 DEF QueueSound
<1>4. CASE ~(k > Len(q))
  <2>1. k \in 1..Len(q)
    BY <1>1, <1>4
  <2>2. PICK n : n = NewIds(map, q, k)
    OBVIOUS
  <2>3. PICK l \in Nat : l = Len(q)
    BY <1>1
  <2>4. PICK m \in Nat : m = Len(n)
    BY <2>1, <2>2, <1>1, NewIdsAre, LenProperties
  <2>5. /\ n \in Seq(Nat) /\ \A i, j \in 1..m : n[i] = n[j] => i = j
        /\ Queued(n) = {x \in Ids(map) : ParentOf(map, x) = q[k] /\ \A j \in 1..k : q[j] # x}
    <3>1. q \in Seq(Nat) /\ k \in 1..Len(q)
      BY <1>1, <2>1
    <3>2. n \in Seq(Nat)
      BY <2>2, <3>1, NewIdsAre
    <3>3. \A i, j \in 1..Len(n) : n[i] = n[j] => i = j
      BY <2>2, <3>1, NewIdsAre
    <3>4. Queued(n) = {x \in Ids(map) : ParentOf(map, x) = q[k] /\ \A j \in 1..k : q[j] # x}
      BY <2>2, <3>1, NewIdsAre
    <3> QED BY <2>4, <3>2, <3>3, <3>4
  <2>6. PICK r : r = q \o n
    OBVIOUS
  <2>7. /\ r \in Seq(Nat) /\ Len(r) = l + m
        /\ \A i \in 1..l + m : r[i] = IF i <= l THEN q[i] ELSE n[i - l]
    BY <1>1, <2>3, <2>4, <2>5, <2>6, ConcatProperties
  <2>8. /\ \A i \in 1..l : i \in 1..l + m /\ r[i] = q[i]
        /\ \A i \in l + 1..l + m : i - l \in 1..m /\ r[i] = n[i - l] /\ ~(i <= l)
        /\ \A i \in 1..m : i + l \in 1..l + m /\ r[i + l] = n[i]
        /\ \A i \in 1..l + m : i \in 1..l \/ i \in l + 1..l + m
    <3>1. \A i \in 1..l : i \in 1..l + m /\ i <= l
      OBVIOUS
    <3>2. \A i \in l + 1..l + m : i \in 1..l + m /\ i - l \in 1..m /\ ~(i <= l)
      OBVIOUS
    <3>3. \A i \in 1..m : i + l \in 1..l + m /\ ~(i + l <= l) /\ i + l - l = i
      OBVIOUS
    <3>4. \A i \in 1..l + m : i \in 1..l \/ i \in l + 1..l + m
      OBVIOUS
    <3> QED BY <2>7, <3>1, <3>2, <3>3, <3>4
  <2>9. Goes(map, q, k) = r
    BY <1>4, <2>2, <2>6 DEF Goes
  <2>10. ASSUME NEW x \in Ids(map), ParentOf(map, x) = q[k]
         PROVE  x \notin Queued(q)
    <3> SUFFICES ASSUME NEW i \in 1..l, q[i] = x PROVE FALSE
      BY <2>3 DEF Queued
    <3>1. CASE i = 1
      <4>1. x = id /\ q[k] >= id /\ q[k] \in Nat
        BY <1>1, <1>2, <2>1, <3>1
      <4> QED BY <1>2, <2>10, <4>1
    <3>2. CASE i # 1
      <4>1. PICK j \in 1..i - 1 : j <= k - 1 /\ q[j] = ParentOf(map, x)
        <5>1. i \in 2..Len(q)
          BY <2>3, <3>2
        <5> QED BY <1>1, <5>1
      <4>2. j \in 1..Len(q)
        BY <2>3, <4>1
      <4>3. j = k
        BY <1>1, <2>1, <2>10, <4>1, <4>2
      <4> QED BY <4>1, <4>3
    <3> QED BY <3>1, <3>2
  <2>11. /\ \A i \in 1..m : n[i] \in Ids(map) /\ ParentOf(map, n[i]) = q[k] /\ n[i] \notin Queued(q)
         /\ \A x \in Ids(map) : ParentOf(map, x) = q[k] => \E i \in 1..m : n[i] = x
    <3>1. \A x : x \in Queued(n) <=> \E i \in 1..m : n[i] = x
      BY <2>4 DEF Queued
    <3>2. \A j \in 1..k : q[j] \in Queued(q)
      <4>1. \A j \in 1..k : j \in 1..Len(q)
        BY <1>1, <2>1
      <4> QED BY <4>1 DEF Queued
    <3>3. \A x \in Ids(map) : ParentOf(map, x) = q[k] => \A j \in 1..k : q[j] # x
      BY <2>10, <3>2
    <3> QED BY <2>5, <2>10, <3>1, <3>3
  <2>12. \A i \in 1..l + m : r[i] \in Ids(map) /\ r[i] >= id
    <3>1. ASSUME NEW i \in l + 1..l + m
          PROVE  r[i] \in Ids(map) /\ r[i] >= id
      <4>1. r[i] \in Ids(map) /\ ParentOf(map, r[i]) = q[k]
        BY <2>8, <2>11
      <4>2. q[k] \in Nat /\ q[k] >= id
        BY <1>1, <1>2, <2>1
      <4>3. q[k] < r[i] /\ r[i] \in Nat
        BY <1>2, <4>1
      <4> QED BY <1>1, <4>1, <4>2, <4>3
    <3> QED BY <1>1, <2>3, <2>8, <3>1
  <2>13. \A i, j \in 1..l + m : r[i] = r[j] => i = j
    <3> SUFFICES ASSUME NEW i \in 1..l + m, NEW j \in 1..l + m, r[i] = r[j] PROVE i = j
      OBVIOUS
    <3>1. \A h \in 1..l : q[h] \in Queued(q)
      BY <2>3 DEF Queued
    <3>2. CASE i \in 1..l /\ j \in 1..l
      BY <1>1, <2>3, <2>8, <3>2
    <3>3. CASE i \in l + 1..l + m /\ j \in l + 1..l + m
      <4>1. i - l = j - l
        BY <2>5, <2>8, <3>3
      <4> QED BY <3>3, <4>1
    <3>4. CASE i \in 1..l /\ j \in l + 1..l + m
      BY <2>8, <2>11, <3>1, <3>4
    <3>5. CASE i \in l + 1..l + m /\ j \in 1..l
      BY <2>8, <2>11, <3>1, <3>5
    <3> QED BY <2>8, <3>2, <3>3, <3>4, <3>5
  <2>14. \A i \in 2..l + m : \E j \in 1..i - 1 : j <= k /\ r[j] = ParentOf(map, r[i])
    <3> SUFFICES ASSUME NEW i \in 2..l + m
                 PROVE  \E j \in 1..i - 1 : j <= k /\ r[j] = ParentOf(map, r[i])
      OBVIOUS
    <3>1. CASE i \in 2..l
      <4>1. PICK j \in 1..i - 1 : j <= k - 1 /\ q[j] = ParentOf(map, q[i])
        BY <1>1, <2>3, <3>1
      <4>2. j \in 1..l /\ i \in 1..l /\ j <= k
        BY <3>1, <4>1
      <4> QED BY <2>8, <4>1, <4>2
    <3>2. CASE i \in l + 1..l + m
      <4>1. ParentOf(map, r[i]) = q[k]
        BY <2>8, <2>11, <3>2
      <4>2. k \in 1..i - 1 /\ k <= k /\ k \in 1..l
        BY <2>1, <2>3, <3>2
      <4> QED BY <2>8, <4>1, <4>2
    <3>3. i \in 2..l \/ i \in l + 1..l + m
      OBVIOUS
    <3> QED BY <3>1, <3>2, <3>3
  <2>15. ASSUME NEW x \in Ids(map), NEW j \in 1..l + m, j <= k, r[j] = ParentOf(map, x)
         PROVE  x \in Queued(r)
    <3>1. j \in 1..l /\ q[j] = ParentOf(map, x)
      <4>1. j \in 1..l
        BY <2>1, <2>3, <2>15
      <4> QED BY <2>8, <2>15, <4>1
    <3>2. CASE j = k
      <4>1. PICK i \in 1..m : n[i] = x
        BY <2>11, <3>1, <3>2
      <4>2. i + l \in 1..Len(r) /\ r[i + l] = x
        BY <2>7, <2>8, <4>1
      <4> QED BY <4>2 DEF Queued
    <3>3. CASE j # k
      <4>1. j <= k - 1
        BY <2>15, <3>3
      <4>2. x \in Queued(q)
        BY <1>1, <2>3, <3>1, <4>1
      <4>3. PICK i \in 1..l : q[i] = x
        BY <2>3, <4>2 DEF Queued
      <4>4. i \in 1..Len(r) /\ r[i] = x
        BY <2>7, <2>8, <4>3
      <4> QED BY <4>4 DEF Queued
    <3> QED BY <3>2, <3>3
  <2>16. r[1] = id /\ Len(r) >= 1
    BY <1>1, <2>3, <2>7, <2>8
  <2> QED BY <2>7, <2>9, <2>12, <2>13, <2>14, <2>15, <2>16 DEF QueueSound
<1> QED BY <1>3, <1>4

\* The whole subtree gets into the queue, and nothing else.
LEMMA VisitsAre ==
    ASSUME NEW map, Tree(map), NEW id \in Ids(map)
    PROVE  /\ \E k \in Nat : QueueSound(map, id, Visits(map, id), k)
           /\ Queued(Visits(map, id)) = {x \in Ids(map) : id \in Line(map, x)}
<1> DEFINE v == Visits(map, id)
           n == Len(map)
<1>1. id \in Nat /\ n \in Nat /\ DOMAIN map = 1..n
  BY ArrayIs DEF Tree
<1>2. PICK f \in [Nat -> Seq(Nat)] :
         /\ f[0] = <<id>> /\ \A k \in Nat : k # 0 => f[k] = Goes(map, f[k - 1], k)
         /\ v = f[n]
  BY <1>1, VisitsStep
<1> HIDE DEF v, n
<1> DEFINE Good == {k \in Nat : QueueSound(map, id, f[k], k)}
<1>3. ASSUME NEW k \in Nat, \A l \in Nat : l < k => l \in Good
      PROVE  k \in Good
  <2>1. CASE k = 0
    <3>1. Len(<<id>>) = 1 /\ <<id>> \in Seq(Nat) /\ <<id>>[1] = id
      BY <1>1
    <3>2. \A i \in 1..1 : i = 1
      OBVIOUS
    <3>3. QueueSound(map, id, <<id>>, 0)
      BY <1>1, <3>1, <3>2 DEF QueueSound
    <3> QED BY <1>2, <2>1, <3>3
  <2>2. CASE k # 0
    <3>1. k - 1 \in Nat /\ k - 1 < k
      BY <2>2
    <3>2. QueueSound(map, id, f[k - 1], k - 1)
      BY <1>3, <3>1
    <3>3. QueueSound(map, id, Goes(map, f[k - 1], k), k)
      BY <2>2, <3>2, QueueGoesOn
    <3> QED BY <1>2, <2>2, <3>3
  <2> QED BY <2>1, <2>2
<1>4. \A k \in Nat : k \in Good
  <2> HIDE DEF Good
  <2> QED BY <1>3, AllNumbers
<1>5. QueueSound(map, id, v, n)
  BY <1>1, <1>2, <1>4
<1>6. /\ Len(v) \in Nat /\ Len(v) >= 1 /\ v[1] = id
      /\ \A i \in 1..Len(v) : v[i] \in Ids(map)
      /\ \A i, j \in 1..Len(v) : v[i] = v[j] => i = j
      /\ \A i \in 2..Len(v) : \E j \in 1..i - 1 : j <= n /\ v[j] = ParentOf(map, v[i])
      /\ \A x \in Ids(map), j \in 1..Len(v) : j <= n /\ v[j] = ParentOf(map, x) => x \in Queued(v)
  BY <1>5, LenProperties DEF QueueSound
<1>7. Len(v) <= n
  <2> SUFFICES ASSUME n < Len(v) PROVE FALSE
    BY <1>1, <1>6
  <2> DEFINE g == [i \in 1..Len(v) |-> CHOOSE p \in 1..n : map[p].id = v[i]]
  <2>1. \A i \in 1..Len(v) : g[i] \in 1..n /\ map[g[i]].id = v[i]
    <3>1. \A i \in 1..Len(v) : \E p \in 1..n : map[p].id = v[i]
      BY <1>1, <1>6 DEF Ids
    <3> QED BY <3>1
  <2>2. g \in [1..Len(v) -> 1..n]
    BY <2>1
  <2> HIDE DEF g
  <2>3. /\ IsFiniteSet(1..n) /\ Cardinality(1..n) = n
        /\ IsFiniteSet(1..Len(v)) /\ Cardinality(1..Len(v)) = Len(v)
    <3>1. \A k \in Nat : IsFiniteSet(1..k) /\ Cardinality(1..k) = k
      <4> SUFFICES ASSUME NEW k \in Nat PROVE IsFiniteSet(1..k) /\ Cardinality(1..k) = k
        OBVIOUS
      <4>1. 1 \in Int /\ k \in Int /\ (1 > k => k = 0) /\ k - 1 + 1 = k
        OBVIOUS
      <4> QED BY <4>1, FS_Interval
    <3> QED BY <1>1, <1>6, <3>1
  <2>4. PICK i \in 1..Len(v), j \in 1..Len(v) : i # j /\ g[i] = g[j]
    BY <2>2, <2>3, FS_PigeonHole
  <2> QED BY <1>6, <2>1, <2>4
<1>8. \A x \in Ids(map) : ParentOf(map, x) \in Queued(v) => x \in Queued(v)
  <2> SUFFICES ASSUME NEW x \in Ids(map), NEW j \in 1..Len(v), v[j] = ParentOf(map, x)
               PROVE  x \in Queued(v)
    BY DEF Queued
  <2>1. j <= n
    BY <1>1, <1>6, <1>7
  <2> QED BY <1>6, <2>1
<1>9. \A x \in Ids(map) : /\ Line(map, x) = Line(map, ParentOf(map, x)) \cup {x}
                          /\ ParentOf(map, x) \in Nat /\ ParentOf(map, x) < x /\ x \in Nat
  BY LineIs
<1>10. ASSUME NEW x \in Ids(map), id \in Line(map, x)
       PROVE  x \in Queued(v)
  <2> DEFINE In == {y \in Nat : id \in Line(map, y) => y \in Queued(v)}
  <2>1. ASSUME NEW y \in Nat, \A z \in Nat : z < y => z \in In
        PROVE  y \in In
    <3> SUFFICES ASSUME id \in Line(map, y) PROVE y \in Queued(v)
      OBVIOUS
    <3>1. y \in Ids(map)
      BY LineIs
    <3>2. CASE y = id
      <4>1. 1 \in 1..Len(v)
        BY <1>6
      <4> QED BY <1>6, <3>2, <4>1 DEF Queued
    <3>3. CASE y # id
      <4>1. id \in Line(map, ParentOf(map, y)) /\ ParentOf(map, y) \in In
        BY <1>9, <2>1, <3>1, <3>3
      <4> QED BY <1>8, <3>1, <4>1
    <3> QED BY <3>2, <3>3
  <2>2. x \in In
    <3> HIDE DEF In
    <3> QED BY <1>9, <2>1, AllNumbers
  <2> QED BY <1>10, <2>2
<1>11. ASSUME NEW i \in 1..Len(v)
       PROVE  id \in Line(map, v[i])
  <2> DEFINE In == {k \in Nat : k \in 1..Len(v) => id \in Line(map, v[k])}
  <2>1. ASSUME NEW k \in Nat, \A l \in Nat : l < k => l \in In
        PROVE  k \in In
    <3> SUFFICES ASSUME k \in 1..Len(v) PROVE id \in Line(map, v[k])
      OBVIOUS
    <3>1. v[k] \in Ids(map)
      BY <1>6
    <3>2. CASE k = 1
      BY <1>6, <1>9, <3>1, <3>2
    <3>3. CASE k # 1
      <4>1. k \in 2..Len(v)
        BY <3>3
      <4>2. PICK j \in 1..k - 1 : v[j] = ParentOf(map, v[k])
        BY <1>6, <4>1
      <4>3. j \in Nat /\ j < k /\ j \in 1..Len(v)
        BY <1>6, <4>1, <4>2
      <4>4. id \in Line(map, v[j])
        BY <2>1, <4>3
      <4> QED BY <1>9, <3>1, <4>2, <4>4
    <3> QED BY <3>2, <3>3
  <2>2. i \in In
    <3>1. i \in Nat
      BY <1>6
    <3> HIDE DEF In
    <3> QED BY <2>1, <3>1, AllNumbers
  <2> QED BY <2>2
<1>12. Queued(v) = {x \in Ids(map) : id \in Line(map, x)}
  <2>1. \A x : x \in Queued(v) <=> \E i \in 1..Len(v) : v[i] = x
    BY DEF Queued
  <2>2. \A x \in Queued(v) : x \in Ids(map) /\ id \in Line(map, x)
    BY <1>6, <1>11, <2>1
  <2>3. \A x \in Ids(map) : id \in Line(map, x) => x \in Queued(v)
    BY <1>10
  <2> QED BY <2>2, <2>3
<1> QED BY <1>1, <1>5, <1>12 DEF v

\* The subtree of a message holds what has it on its chain, parents first.
LEMMA SubtreeIs ==
    ASSUME NEW map, Tree(map), NEW id \in Ids(map)
    PROVE  /\ Subtree(map, id) \in Seq(Message) /\ Distinct(Subtree(map, id))
           /\ Range(Subtree(map, id)) = {Get(map, x) : x \in {x \in Ids(map) : id \in Line(map, x)}}
           /\ Ids(Subtree(map, id)) = {x \in Ids(map) : id \in Line(map, x)}
           /\ \A m \in Range(Subtree(map, id)) :
                m.id # id => Before(Subtree(map, id), Get(map, m.parent), m)
<1> DEFINE v == Visits(map, id)
           t == [i \in DOMAIN v |-> Get(map, v[i])]
           B == {x \in Ids(map) : id \in Line(map, x)}
<1>1. Subtree(map, id) = ByTime(t)
  BY DEF Subtree
<1>2. PICK k \in Nat : QueueSound(map, id, v, k)
  BY VisitsAre
<1>3. Queued(v) = B
  BY VisitsAre
<1> HIDE DEF v
<1>4. PICK n \in Nat : n = Len(v)
  BY <1>2, LenProperties DEF QueueSound
<1>5. /\ DOMAIN v = 1..n /\ v[1] = id
      /\ \A i \in 1..n : v[i] \in Ids(map)
      /\ \A i, j \in 1..n : v[i] = v[j] => i = j
      /\ \A i \in 2..n : \E j \in 1..i - 1 : v[j] = ParentOf(map, v[i])
  BY <1>2, <1>4, LenProperties DEF QueueSound
<1>6. /\ \A x \in Ids(map) : /\ Get(map, x) \in Range(map) /\ Get(map, x).id = x
                             /\ Get(map, x) \in Message
                             /\ Get(map, x).parent = ParentOf(map, x)
                             /\ x \in Nat /\ ParentOf(map, x) \in Nat /\ ParentOf(map, x) < x
      /\ map \in Seq(Message)
  BY GetIs, ArrayIs DEF ParentOf, Tree
<1>7. /\ DOMAIN t = 1..n
      /\ \A i \in 1..n : t[i] = Get(map, v[i]) /\ t[i] \in Message /\ t[i].id = v[i]
  BY <1>5, <1>6
<1> HIDE DEF t
<1>8. t \in Seq(Message) /\ Distinct(t)
  <2>1. t = [i \in 1..n |-> t[i]]
    BY <1>5 DEF t
  <2>2. t \in [1..n -> Message]
    BY <1>7, <2>1
  <2>3. t \in Seq(Message)
    BY <2>2, SeqDef
  <2>4. Distinct(t)
    BY <1>5, <1>7 DEF Distinct
  <2> QED BY <2>3, <2>4
<1>9. \A x : x \in B <=> \E i \in 1..n : v[i] = x
  BY <1>3, <1>4 DEF Queued
<1>10. Range(t) = {Get(map, x) : x \in B} /\ Ids(t) = B
  <2>1. Range(t) = {Get(map, x) : x \in B}
    <3>1. \A m : m \in Range(t) <=> \E i \in 1..n : m = t[i]
      BY <1>7 DEF Range
    <3>2. \A m \in Range(t) : \E x \in B : m = Get(map, x)
      BY <1>7, <1>9, <3>1
    <3>3. \A x \in B : Get(map, x) \in Range(t)
      BY <1>7, <1>9, <3>1
    <3> QED BY <3>2, <3>3
  <2>2. Ids(t) = B
    <3>1. \A x : x \in Ids(t) <=> \E i \in 1..n : x = t[i].id
      BY <1>7 DEF Ids
    <3> QED BY <1>7, <1>9, <3>1
  <2> QED BY <2>1, <2>2
<1> HIDE DEF B
<1>11. /\ ByTime(t) \in Seq(Message) /\ Distinct(ByTime(t))
       /\ Range(ByTime(t)) = Range(t) /\ Ids(ByTime(t)) = Ids(t)
       /\ \A x, y \in Range(t) : Before(t, x, y) /\ x.at <= y.at => Before(ByTime(t), x, y)
  BY <1>8, ByTimeIs
<1>12. ASSUME NEW m \in Range(t), m.id # id
       PROVE  Before(ByTime(t), Get(map, m.parent), m)
  <2>1. PICK i \in 1..n : m = t[i]
    BY <1>7 DEF Range
  <2>2. m.id = v[i] /\ m.parent = ParentOf(map, v[i]) /\ v[i] \in Ids(map) /\ m \in Range(map)
    BY <1>5, <1>6, <1>7, <2>1
  <2>3. i \in 2..n
    BY <1>5, <1>12, <2>2
  <2>4. PICK j \in 1..i - 1 : v[j] = m.parent
    BY <1>5, <2>2, <2>3
  <2>5. j \in 1..n /\ j < i
    BY <2>3, <2>4
  <2>6. t[j] = Get(map, m.parent) /\ v[j] \in Ids(map) /\ t[j] \in Range(t)
    BY <1>5, <1>7, <2>4, <2>5 DEF Range
  <2>7. Before(t, Get(map, m.parent), m)
    BY <1>7, <2>1, <2>5, <2>6 DEF Before
  <2>8. /\ Get(map, m.parent) \in Range(map) /\ Get(map, m.parent).id = m.parent
        /\ m.parent <= m.id
    BY <1>6, <2>2, <2>4, <2>6
  <2>9. Get(map, m.parent).at <= m.at
    BY <2>2, <2>8 DEF Tree
  <2> QED BY <1>11, <2>6, <2>7, <2>9
<1> QED BY <1>1, <1>10, <1>11, <1>12 DEF B

-----------------------------------------------------------------------------
(* What the page shows.                                                     *)

\* The branch of a leaf: its chain, with nothing twice and parents first, and
\* else only what has the leaf on its chain.
LEMMA ShownIs ==
    ASSUME NEW map, Tree(map), NEW id \in Ids(map)
    PROVE  /\ Shown(map, id) \in Seq(Message) /\ Distinct(Shown(map, id))
           /\ \A y \in Line(map, id) : Get(map, y) \in Range(Shown(map, id))
           /\ \A m \in Range(Shown(map, id)) :
                /\ m \in Range(map) /\ (m.id \in Line(map, id) \/ id \in Line(map, m.id))
                /\ m.parent \in Ids(map) => Before(Shown(map, id), Get(map, m.parent), m)
           /\ Children(map, id) = <<>> => Shown(map, id) = Chain(map, id)
<1>1. /\ map \in Seq(Message) /\ id \in Nat
      /\ \A x \in Ids(map) : /\ Get(map, x) \in Range(map) /\ Get(map, x).id = x
                             /\ Get(map, x).parent = ParentOf(map, x)
                             /\ x \in Nat /\ ParentOf(map, x) \in Nat /\ ParentOf(map, x) < x
                             /\ Line(map, x) = Line(map, ParentOf(map, x)) \cup {x}
      /\ \A m \in Range(map) : m.id \in Ids(map) /\ Get(map, m.id) = m
  BY GetIs, LineIs, ArrayIs DEF ParentOf, Tree
<1>2. \A x \in Line(map, id) : x \in Ids(map)
  BY <1>1, LineIs
<1>3. CASE Children(map, id) = <<>>
  <2>1. Shown(map, id) = Chain(map, id)
    BY <1>3 DEF Shown
  <2>2. Chain(map, id) \in Seq(Message)
    BY <1>1, ChainStep
  <2>3. /\ Range(Chain(map, id)) = {Get(map, y) : y \in Line(map, id)}
        /\ Distinct(Chain(map, id))
        /\ \A m \in Range(Chain(map, id)) : m.parent \in Ids(map) =>
             Before(Chain(map, id), Get(map, m.parent), m)
    BY <1>1, ChainReads
  <2>4. \A m \in Range(Chain(map, id)) : m \in Range(map) /\ m.id \in Line(map, id)
    BY <1>1, <1>2, <2>3
  <2> QED BY <2>1, <2>2, <2>3, <2>4
<1>4. CASE Children(map, id) # <<>>
  <2> DEFINE root == Chain(map, id)[1].id
             all == Subtree(map, root)
             branch == Line(map, id) \cup Ids(Subtree(map, id))
             P == {i \in DOMAIN all : all[i].id \in branch}
             kept == KeptAt(all, P)
             B == {x \in Ids(map) : x \in Line(map, id) \/ id \in Line(map, x)}
  <2>1. Shown(map, id) = ByTime(kept)
    BY <1>4 DEF Shown, Line
  <2>2. id \in Line(map, id) /\ root \in Line(map, id) /\ root \in Ids(map)
    <3>1. id \in Line(map, id)
      BY <1>1
    <3>2. root \in Line(map, id)
      BY <3>1, RootIs
    <3> QED BY <1>2, <3>1, <3>2
  <2>3. \A y \in Line(map, id) : root \in Line(map, y)
    BY RootIs
  <2> HIDE DEF root
  <2>4. /\ all \in Seq(Message) /\ Distinct(all)
        /\ Range(all) = {Get(map, x) : x \in {x \in Ids(map) : root \in Line(map, x)}}
        /\ \A m \in Range(all) : m.id # root => Before(all, Get(map, m.parent), m)
    BY <2>2, SubtreeIs
  <2>5. \A x : x \in branch <=> x \in B
    <3>1. Ids(Subtree(map, id)) = {x \in Ids(map) : id \in Line(map, x)}
      BY SubtreeIs
    <3> QED BY <1>2, <3>1
  <2>6. \A x \in B : x \in Ids(map) /\ root \in Line(map, x)
    <3>1. \A x \in Ids(map) : id \in Line(map, x) => Line(map, id) \subseteq Line(map, x)
      BY <1>1, LineThrough
    <3> QED BY <2>2, <2>3, <3>1
  <2> HIDE DEF all, branch, B
  <2>7. P \in SUBSET DOMAIN all
    OBVIOUS
  <2>8. {all[i] : i \in P} = {Get(map, x) : x \in B}
    <3>1. \A m : m \in Range(all) <=> \E i \in DOMAIN all : m = all[i]
      BY DEF Range
    <3>2. \A m : m \in Range(all) <=> \E x \in Ids(map) : root \in Line(map, x) /\ m = Get(map, x)
      BY <2>4
    <3>3. \A m : m \in {all[i] : i \in P} <=> m \in Range(all) /\ m.id \in B
      BY <2>5, <3>1
    <3>4. \A m : m \in Range(all) /\ m.id \in B <=> \E x \in B : m = Get(map, x)
      BY <1>1, <2>6, <3>2
    <3> QED BY <3>3, <3>4
  <2> HIDE DEF P
  <2>9. /\ kept \in Seq(Message) /\ Distinct(kept) /\ Range(kept) = {Get(map, x) : x \in B}
        /\ \A x, y \in Range(kept) : Before(all, x, y) => Before(kept, x, y)
    BY <2>4, <2>7, <2>8, KeptIs
  <2> HIDE DEF kept
  <2>10. /\ ByTime(kept) \in Seq(Message) /\ Distinct(ByTime(kept))
         /\ Range(ByTime(kept)) = Range(kept)
         /\ \A x, y \in Range(kept) : Before(kept, x, y) /\ x.at <= y.at => Before(ByTime(kept), x, y)
    BY <2>9, ByTimeIs
  <2>11. \A y \in Line(map, id) : Get(map, y) \in Range(kept)
    BY <1>2, <2>9 DEF B
  <2>12. ASSUME NEW m \in Range(kept)
         PROVE  /\ m \in Range(map) /\ (m.id \in Line(map, id) \/ id \in Line(map, m.id))
                /\ m.parent \in Ids(map) => Before(ByTime(kept), Get(map, m.parent), m)
    <3>1. PICK x \in B : m = Get(map, x)
      BY <2>9
    <3>2. /\ x \in Ids(map) /\ m \in Range(map) /\ m.id = x /\ m.parent = ParentOf(map, x)
          /\ (x \in Line(map, id) \/ id \in Line(map, x)) /\ x \in Nat
      BY <1>1, <3>1 DEF B
    <3>3. ASSUME m.parent \in Ids(map)
          PROVE  Before(ByTime(kept), Get(map, m.parent), m)
      <4> DEFINE p == m.parent
      <4>1. p \in Ids(map) /\ p \in Line(map, p) /\ p < x /\ Line(map, x) = Line(map, p) \cup {x}
        BY <1>1, <3>2, <3>3
      <4>2. p \in B
        <5>1. CASE x \in Line(map, id)
          <6>1. Line(map, x) \subseteq Line(map, id)
            BY <1>1, <5>1, LineThrough
          <6> QED BY <4>1, <6>1 DEF B
        <5>2. CASE id \in Line(map, x)
          <6>1. CASE x = id
            BY <4>1, <6>1 DEF B
          <6>2. CASE x # id
            BY <4>1, <5>2, <6>2 DEF B
          <6> QED BY <6>1, <6>2
        <5> QED BY <3>2, <5>1, <5>2
      <4>3. x # root
        <5>1. root \in Line(map, p) /\ p \in Nat
          BY <1>1, <2>6, <4>1, <4>2
        <5>2. root \in Nat /\ root <= p
          BY <1>1, <2>2, <5>1, LineIs
        <5> QED BY <1>1, <3>2, <4>1, <5>1, <5>2
      <4>4. Get(map, p) \in Range(kept) /\ Get(map, p) \in Range(map) /\ Get(map, p).id = p
        BY <1>1, <2>9, <4>1, <4>2
      <4>5. Before(all, Get(map, p), m)
        <5>1. m \in Range(all)
          BY <2>4, <2>6, <3>1
        <5> QED BY <2>4, <3>2, <4>3, <5>1
      <4>6. Before(kept, Get(map, p), m)
        BY <2>9, <4>4, <4>5
      <4>7. Get(map, p).at <= m.at
        <5>1. p <= x
          BY <1>1, <3>2, <4>1
        <5> QED BY <3>2, <4>4, <5>1 DEF Tree
      <4> QED BY <2>10, <4>4, <4>6, <4>7
    <3> QED BY <3>2, <3>3
  <2> QED BY <1>4, <2>1, <2>10, <2>11, <2>12
<1> QED BY <1>3, <1>4

\* There is a newest of some messages.
LEMMA NewestIs ==
    ASSUME NEW s \in Seq(Message), s # <<>>
    PROVE  LastNewest(s) \in Range(s)
<1> DEFINE Newest(i, k) == \A j \in 1..k : s[j].at < s[i].at \/ (s[j].at = s[i].at /\ j <= i)
           Good == {k \in Nat : k \in 1..Len(s) => \E i \in 1..k : Newest(i, k)}
<1>1. Len(s) \in Nat /\ Len(s) # 0 /\ DOMAIN s = 1..Len(s) /\ \A i \in 1..Len(s) : s[i].at \in Nat
  BY ArrayIs, EmptySeq DEF Message
<1>2. ASSUME NEW k \in Nat, \A l \in Nat : l < k => l \in Good
      PROVE  k \in Good
  <2> SUFFICES ASSUME k \in 1..Len(s) PROVE \E i \in 1..k : Newest(i, k)
    OBVIOUS
  <2>1. CASE k = 1
    <3>1. 1 \in 1..k /\ \A j \in 1..k : j = 1
      BY <2>1
    <3>2. Newest(1, k)
      BY <3>1
    <3> QED BY <3>1, <3>2
  <2>2. CASE k # 1
    <3>1. k - 1 \in 1..Len(s) /\ k - 1 \in Nat /\ k - 1 < k
      BY <1>1, <2>2
    <3>2. PICK i \in 1..k - 1 : Newest(i, k - 1)
      BY <1>2, <3>1
    <3>3. s[k].at \in Nat /\ s[i].at \in Nat /\ i \in Nat /\ \A j \in 1..k : s[j].at \in Nat
      BY <1>1, <3>1, <3>2
    <3>4. \A j \in 1..k : j \in 1..k - 1 \/ j = k
      OBVIOUS
    <3>5. CASE s[k].at >= s[i].at
      <4>1. \A j \in 1..k - 1 : s[j].at <= s[k].at /\ j <= k
        BY <3>2, <3>3, <3>4, <3>5
      <4>2. Newest(k, k)
        BY <3>3, <3>4, <4>1
      <4> QED BY <4>2
    <3>6. CASE ~(s[k].at >= s[i].at)
      <4>1. s[k].at < s[i].at
        BY <3>3, <3>6
      <4>2. Newest(i, k) /\ i \in 1..k
        BY <3>2, <3>4, <4>1
      <4> QED BY <4>2
    <3> QED BY <3>5, <3>6
  <2> QED BY <2>1, <2>2
<1>3. Len(s) \in Good
  <2> HIDE DEF Good
  <2> QED BY <1>1, <1>2, AllNumbers
<1>4. \E i \in DOMAIN s : \A j \in DOMAIN s : s[j].at < s[i].at \/ (s[j].at = s[i].at /\ j <= i)
  <2>1. Len(s) \in 1..Len(s)
    BY <1>1
  <2>2. \E i \in 1..Len(s) : Newest(i, Len(s))
    BY <1>3, <2>1
  <2> QED BY <1>1, <2>2
<1> DEFINE c == CHOOSE i \in DOMAIN s : \A j \in DOMAIN s :
                    s[j].at < s[i].at \/ (s[j].at = s[i].at /\ j <= i)
<1>5. c \in DOMAIN s
  BY <1>4
<1>6. LastNewest(s) = s[c]
  BY DEF LastNewest
<1> HIDE DEF c
<1> QED BY <1>5, <1>6 DEF Range

\* Whatever findNewestLeaf visits has the message it starts from on its chain.
LEMMA BelowIs ==
    ASSUME NEW map, Tree(map), NEW id \in Ids(map)
    PROVE  \A x \in Below(map, id) : x \in Ids(map) /\ id \in Line(map, x)
<1> DEFINE Step(r) == r \cup {m.id : m \in UNION {TalkChildren(map, x) : x \in r}}
           Is(f) == f = [k \in Nat |-> IF k = 0 THEN {id} ELSE Step(f[k - 1])]
           Q == CHOOSE f : Is(f)
           G == [k \in Nat |-> [r \in SUBSET Nat |-> Step(r)]]
           B == {x \in Ids(map) : id \in Line(map, x)}
<1>1. Below(map, id) = Q[Len(map)] /\ Len(map) \in Nat
  BY LenProperties DEF Below, Tree
<1>2. /\ map \in Seq(Message) /\ id \in Nat
      /\ \A m \in Range(map) : m.id \in Ids(map) /\ m.id \in Nat /\ ParentOf(map, m.id) = m.parent
  BY ArrayIs, GetIs DEF Tree, ParentOf
<1>3. \A x : \A m \in TalkChildren(map, x) : m \in Range(map) /\ m.parent = x
  BY DEF TalkChildren
<1>4. \A r \in SUBSET Nat : Step(r) \in SUBSET Nat
  <2> SUFFICES ASSUME NEW r \in SUBSET Nat PROVE Step(r) \in SUBSET Nat
    OBVIOUS
  <2>1. \A x : \A m \in TalkChildren(map, x) : m.id \in Nat
    BY <1>2, <1>3
  <2>2. \A n \in Step(r) : n \in r \/ \E x \in r : \E m \in TalkChildren(map, x) : n = m.id
    OBVIOUS
  <2>3. \A n \in Step(r) : n \in Nat
    BY <2>1, <2>2
  <2> QED BY <2>3
<1>5. ASSUME NEW r \in SUBSET B
      PROVE  Step(r) \in SUBSET B
  <2> SUFFICES ASSUME NEW x \in r, NEW m \in TalkChildren(map, x) PROVE m.id \in B
    OBVIOUS
  <2>1. m.id \in Ids(map) /\ ParentOf(map, m.id) = x /\ id \in Line(map, x)
    BY <1>2, <1>3
  <2> QED BY <2>1, LineIs
<1>6. id \in B
  BY LineIs
<1> HIDE DEF Step, B
<1>7. G \in [Nat -> [SUBSET Nat -> SUBSET Nat]]
  BY <1>4
<1> HIDE DEF G
<1>8. PICK f : f \in [Nat -> SUBSET Nat] /\ WalksOn(f, {id}, G)
  BY <1>2, <1>7, WalkExists
<1>9. ASSUME NEW k \in Nat
      PROVE  f[k] = IF k = 0 THEN {id} ELSE Step(f[k - 1])
  <2>1. CASE k = 0
    BY <1>8, <2>1 DEF WalksOn
  <2>2. CASE k # 0
    <3>1. f[k - 1] \in SUBSET Nat
      BY <1>8, <2>2
    <3>2. G[k][f[k - 1]] = Step(f[k - 1])
      BY <3>1 DEF G
    <3> QED BY <1>8, <2>2, <3>2 DEF WalksOn
  <2> QED BY <2>1, <2>2
<1>10. f = [k \in Nat |-> f[k]]
  BY <1>8
<1>11. Is(f)
  BY <1>9, <1>10
<1> HIDE DEF Is
<1>12. Is(Q)
  BY <1>11, Zenon
<1> HIDE DEF Q
<1>13. \A k \in Nat : Q[k] = IF k = 0 THEN {id} ELSE Step(Q[k - 1])
  BY <1>12 DEF Is
<1> DEFINE Good == {k \in Nat : Q[k] \in SUBSET B}
<1>14. ASSUME NEW k \in Nat, \A l \in Nat : l < k => l \in Good
       PROVE  k \in Good
  <2>1. CASE k = 0
    BY <1>6, <1>13, <2>1
  <2>2. CASE k # 0
    <3>1. k - 1 \in Nat /\ k - 1 < k
      BY <2>2
    <3>2. Q[k - 1] \in SUBSET B
      BY <1>14, <3>1
    <3> QED BY <1>5, <1>13, <2>2, <3>2
  <2> QED BY <2>1, <2>2
<1>15. \A k \in Nat : k \in Good
  BY <1>14, AllNumbers
<1> QED BY <1>1, <1>15 DEF B

\* The leaf that findNewestLeaf names is the message or has it on its chain.
LEMMA NewestLeafIs ==
    ASSUME NEW map, Tree(map), NEW id \in Ids(map)
    PROVE  FindNewestLeaf(map, id) \in Ids(map) /\ id \in Line(map, FindNewestLeaf(map, id))
<1> DEFINE P == {i \in DOMAIN map :
                    /\ map[i].id \in Below(map, id) /\ TalkChildren(map, map[i].id) = {}
                    /\ map[i].role # "tool" /\ map[i].at >= Get(map, id).at}
           ends == KeptAt(map, P)
<1>1. FindNewestLeaf(map, id) = IF ends = <<>> THEN id ELSE LastNewest(ends).id
  BY DEF FindNewestLeaf
<1>2. P \in SUBSET DOMAIN map /\ \A i \in P : map[i].id \in Below(map, id)
  OBVIOUS
<1> HIDE DEF P
<1>3. ends \in Seq(Message) /\ Range(ends) = {map[i] : i \in P}
  BY <1>2, KeptIs DEF Tree
<1> HIDE DEF ends
<1>4. CASE ends = <<>>
  BY <1>1, <1>4, LineIs
<1>5. CASE ends # <<>>
  <2>1. LastNewest(ends) \in Range(ends)
    BY <1>3, <1>5, NewestIs
  <2>2. LastNewest(ends).id \in Below(map, id)
    BY <1>2, <1>3, <2>1
  <2> QED BY <1>1, <1>5, <2>2, BelowIs
<1> QED BY <1>4, <1>5

\* Between versions of a message the page changes as a whole.
LEMMA SoundReaches ==
    ASSUME Tree(here), leaf \in Ids(here)
    PROVE  SiblingsAreReached
<1> SUFFICES ASSUME NEW m \in Range(Visible(Shown(here, leaf))), NEW s \in Alternatives(m)
             PROVE  /\ s \in Range(Shown(here, FindNewestLeaf(here, s.id)))
                    /\ m \notin Range(Shown(here, FindNewestLeaf(here, s.id)))
  BY DEF SiblingsAreReached
<1>1. m \in Range(here) /\ m.role # "tool"
  <2> DEFINE w == Shown(here, leaf)
             P == {i \in DOMAIN w : w[i].role # "tool"}
  <2>1. w \in Seq(Message) /\ P \in SUBSET DOMAIN w /\ \A n \in Range(w) : n \in Range(here)
    BY ShownIs
  <2>2. Range(Visible(w)) = {w[i] : i \in P}
    BY <2>1, KeptIs DEF Visible
  <2>3. \A i \in P : w[i] \in Range(w) /\ w[i].role # "tool"
    BY DEF Range
  <2> QED BY <2>1, <2>2, <2>3
<1>2. s \in Range(here) /\ s.parent = m.parent /\ s.id # m.id
  <2> DEFINE P == {i \in DOMAIN here : here[i].role # "tool" /\ here[i].parent = m.parent}
             k == KeptAt(here, P)
             g == GetSiblings(here, m.parent)
             c == CHOOSE n \in DOMAIN g : g[n] = m
  <2>1. here \in Seq(Message) /\ Distinct(here) /\ P \in SUBSET DOMAIN here
    BY DEF Tree
  <2>2. k \in Seq(Message) /\ Distinct(k) /\ Range(k) = {here[i] : i \in P}
    BY <2>1, KeptIs
  <2>3. g = ByTime(k)
    BY DEF GetSiblings
  <2>4. {here[i] : i \in P} = {n \in Range(here) : n.role # "tool" /\ n.parent = m.parent}
    BY DEF Range
  <2>5. s \in {g[j] : j \in {c - 1, c + 1} \cap DOMAIN g}
    BY DEF Alternatives
  <2> HIDE DEF g, k, P
  <2>6. /\ g \in Seq(Message) /\ Distinct(g)
        /\ Range(g) = {n \in Range(here) : n.role # "tool" /\ n.parent = m.parent}
    BY <2>2, <2>3, <2>4, ByTimeIs
  <2>7. m \in Range(g)
    BY <1>1, <2>6
  <2>8. c \in DOMAIN g /\ g[c] = m
    BY <2>7 DEF Range
  <2> HIDE DEF c
  <2>9. PICK j \in DOMAIN g : (j = c - 1 \/ j = c + 1) /\ s = g[j]
    BY <2>5
  <2>10. j # c
    <3>1. DOMAIN g = 1..Len(g) /\ Len(g) \in Nat
      BY <2>6, LenProperties
    <3> QED BY <2>8, <2>9, <3>1
  <2>11. s.id # m.id
    BY <2>6, <2>8, <2>9, <2>10 DEF Distinct
  <2>12. s \in Range(g)
    BY <2>9 DEF Range
  <2> QED BY <2>6, <2>11, <2>12
<1> DEFINE l == FindNewestLeaf(here, s.id)
<1>3. /\ \A n \in Range(here) : n.id \in Ids(here) /\ n.id \in Nat /\ Get(here, n.id) = n
      /\ \A x \in Ids(here) : x \in Nat /\ x \in Line(here, x)
  BY GetIs, ArrayIs, LineIs DEF Tree
<1>4. l \in Ids(here) /\ s.id \in Line(here, l)
  BY <1>2, <1>3, NewestLeafIs
<1> HIDE DEF l
<1>5. s \in Range(Shown(here, l))
  BY <1>2, <1>3, <1>4, ShownIs
<1>6. ASSUME m \in Range(Shown(here, l))
      PROVE  FALSE
  <2>1. m.id \in Line(here, l) \/ l \in Line(here, m.id)
    BY <1>4, <1>6, ShownIs
  <2>2. PICK x \in Ids(here) : m.id \in Line(here, x) /\ s.id \in Line(here, x)
    <3>1. CASE m.id \in Line(here, l)
      BY <1>4, <3>1
    <3>2. CASE l \in Line(here, m.id)
      <4>1. Line(here, l) \subseteq Line(here, m.id)
        BY <1>1, <1>3, <3>2, LineThrough
      <4> QED BY <1>1, <1>3, <1>4, <4>1
    <3> QED BY <2>1, <3>1, <3>2
  <2>3. ParentOf(here, m.id) = ParentOf(here, s.id)
    BY <1>1, <1>2, <1>3 DEF ParentOf
  <2> QED BY <1>2, <1>3, <2>2, <2>3, LineIsThin
<1> QED BY <1>5, <1>6 DEF l

\* What the page shows reads from the top.
LEMMA SoundReads ==
    ASSUME Tree(here), leaf \in Ids(here)
    PROVE  BranchReads
<1> DEFINE s == Shown(here, leaf)
           ids == [i \in DOMAIN s |-> s[i].id]
<1>1. /\ s \in Seq(Message) /\ Distinct(s)
      /\ \A y \in Line(here, leaf) : Get(here, y) \in Range(s)
      /\ \A m \in Range(s) :
           /\ m \in Range(here) /\ (m.id \in Line(here, leaf) \/ leaf \in Line(here, m.id))
           /\ m.parent \in Ids(here) => Before(s, Get(here, m.parent), m)
  BY ShownIs
<1>2. /\ \A n \in Range(here) : n.id \in Ids(here) /\ n.id \in Nat /\ Get(here, n.id) = n
      /\ \A x \in Ids(here) : x \in Nat /\ x \in Line(here, x) /\ Get(here, x).id = x
  BY GetIs, ArrayIs, LineIs DEF Tree
<1>3. DOMAIN s = 1..Len(s) /\ Len(s) \in Nat /\ \A i \in DOMAIN s : s[i] \in Range(s)
  BY <1>1, ArrayIs
<1>p. BranchReads <=>
        (leaf # NoId =>
           /\ leaf \in Range(ids) /\ IsInjective(ids)
           /\ \A i \in DOMAIN s : s[i].parent \in Ids(here) => \E j \in 1..(i - 1) : ids[j] = s[i].parent
           /\ \A i, j \in DOMAIN s :
                i # j /\ s[i].parent = s[j].parent /\ s[i].parent # NoId => leaf \in Line(here, ids[i]))
  BY DEF BranchReads, Line
<1> HIDE DEF s
<1>4. leaf \in Range(ids)
  <2>1. PICK i \in DOMAIN s : s[i] = Get(here, leaf)
    BY <1>1, <1>2 DEF Range
  <2>2. ids[i] = leaf /\ i \in DOMAIN ids
    BY <1>2, <2>1
  <2> QED BY <2>2 DEF Range
<1>5. IsInjective(ids)
  BY <1>1 DEF IsInjective, Distinct
<1>6. ASSUME NEW i \in DOMAIN s, s[i].parent \in Ids(here)
      PROVE  \E j \in 1..(i - 1) : ids[j] = s[i].parent
  <2>1. Before(s, Get(here, s[i].parent), s[i])
    BY <1>1, <1>3, <1>6
  <2>2. PICK a \in DOMAIN s, b \in DOMAIN s : a < b /\ s[a] = Get(here, s[i].parent) /\ s[b] = s[i]
    BY <2>1 DEF Before
  <2>3. b = i
    BY <1>1, <2>2 DEF Distinct
  <2>4. a \in 1..(i - 1) /\ ids[a] = s[i].parent
    BY <1>2, <1>3, <1>6, <2>2, <2>3
  <2> QED BY <2>4
<1>7. ASSUME NEW i \in DOMAIN s, NEW j \in DOMAIN s, i # j, s[i].parent = s[j].parent,
             leaf \notin Line(here, ids[i])
      PROVE  FALSE
  <2>1. /\ ids[i] \in Ids(here) /\ ids[j] \in Ids(here) /\ ids[i] # ids[j]
        /\ ParentOf(here, ids[i]) = ParentOf(here, ids[j])
    BY <1>1, <1>2, <1>3, <1>7 DEF ParentOf, Distinct
  <2>2. ids[i] \in Line(here, leaf)
    BY <1>1, <1>3, <1>7
  <2>3. PICK x \in Ids(here) : ids[i] \in Line(here, x) /\ ids[j] \in Line(here, x)
    <3>1. ids[j] \in Line(here, leaf) \/ leaf \in Line(here, ids[j])
      BY <1>1, <1>3
    <3>2. CASE ids[j] \in Line(here, leaf)
      BY <2>2, <3>2
    <3>3. CASE leaf \in Line(here, ids[j])
      <4>1. Line(here, leaf) \subseteq Line(here, ids[j])
        BY <1>2, <2>1, <3>3, LineThrough
      <4> QED BY <1>2, <2>1, <2>2, <4>1
    <3> QED BY <3>1, <3>2, <3>3
  <2> QED BY <1>2, <2>1, <2>3, LineIsThin
<1> QED BY <1>p, <1>4, <1>5, <1>6, <1>7

-----------------------------------------------------------------------------
(* The canister's messages T and the client's messages H.                   *)

\* The message x of the canister hangs where the client has y: below the same
\* parent, or below a tool message in between.
HangsAlike(T, H, x, y) ==
    \/ x.parent = y.parent /\ \A t \in T : t.id = x.parent /\ t.role = "tool" => t \in H
    \/ \E t \in T : t.id = x.parent /\ t.role = "tool" /\ t.parent = y.parent

\* Ids name messages, grow with time and are not above last; the client has all
\* but some tool messages of the canister, in the same places, no other tool
\* message, and a tool message answers an assistant's.
TreesMatch(T, H, last, turn) ==
    /\ \A m \in T \cup H : m \in Message /\ m.parent < m.id /\ m.id <= last /\ m.at <= turn
    /\ \A m, o \in T \cup H : m.id <= o.id => m.at <= o.at
    /\ \A m, o \in T : m.id = o.id => m = o
    /\ \A m, o \in H : m.id = o.id => m = o
    /\ \A m \in T, o \in H : m.id = o.id => m.role = o.role
    /\ \A m \in T : m.role # "tool" => \E o \in H : o.id = m.id /\ HangsAlike(T, H, m, o)
    /\ \A o \in H : o.role = "tool" => o \in T
    /\ \A t \in T : t.role = "tool" => \E m \in T : m.id = t.parent /\ m.role = "assistant"

\* A new message of the canister and of the client.
LEMMA MatchBoth ==
    ASSUME NEW T, NEW H, NEW last \in Nat, NEW turn \in Nat, TreesMatch(T, H, last, turn),
           NEW x \in Message, NEW y \in Message, NEW now \in Nat, turn <= now,
           x.id = last + 1, y.id = last + 1, x.role = y.role, x.role # "tool",
           x.at = now, y.at = now, x.parent <= last, y.parent <= last, HangsAlike(T, H, x, y)
    PROVE  TreesMatch(T \cup {x}, H \cup {y}, last + 1, now)
<1> DEFINE T2 == T \cup {x}
           H2 == H \cup {y}
<1>1. \A m \in Message : m.id \in Nat /\ m.parent \in Nat /\ m.at \in Nat
  BY DEF Message
<1>2. \A m \in T \cup H : m \in Message /\ m.parent < m.id /\ m.id <= last /\ m.at <= turn
  BY DEF TreesMatch
<1>3. /\ \A m \in T \cup H : m.id # last + 1 /\ m.parent # last + 1 /\ m.at <= now /\ m.id <= last + 1
      /\ \A m \in T \cup H : ~(last + 1 <= m.id)
  <2> SUFFICES ASSUME NEW m \in T \cup H
               PROVE  /\ m.id # last + 1 /\ m.parent # last + 1 /\ m.at <= now /\ m.id <= last + 1
                      /\ ~(last + 1 <= m.id)
    OBVIOUS
  <2>1. m.id \in Nat /\ m.parent \in Nat /\ m.at \in Nat /\ m.parent < m.id /\ m.id <= last /\ m.at <= turn
    BY <1>1, <1>2
  <2> QED BY <2>1
<1>4. x.parent < x.id /\ y.parent < y.id
  BY <1>1
<1>5. \A m \in T2 \cup H2 : m \in Message /\ m.parent < m.id /\ m.id <= last + 1 /\ m.at <= now
  BY <1>2, <1>3, <1>4
<1>6. \A m, o \in T2 \cup H2 : m.id <= o.id => m.at <= o.at
  <2> SUFFICES ASSUME NEW m \in T2 \cup H2, NEW o \in T2 \cup H2, m.id <= o.id PROVE m.at <= o.at
    OBVIOUS
  <2>1. CASE o \in {x, y}
    BY <1>5, <2>1
  <2>2. CASE o \notin {x, y}
    <3>1. o \in T \cup H
      BY <2>2
    <3>2. m \in T \cup H
      BY <1>3, <3>1
    <3> QED BY <3>1, <3>2 DEF TreesMatch
  <2> QED BY <2>1, <2>2
<1>7. \A m, o \in T2 : m.id = o.id => m = o
  BY <1>3 DEF TreesMatch
<1>8. \A m, o \in H2 : m.id = o.id => m = o
  BY <1>3 DEF TreesMatch
<1>9. \A m \in T2, o \in H2 : m.id = o.id => m.role = o.role
  BY <1>3 DEF TreesMatch
<1>10. ASSUME NEW m \in T2, m.role # "tool"
       PROVE  \E o \in H2 : o.id = m.id /\ HangsAlike(T2, H2, m, o)
  <2>1. CASE m = x
    <3>1. HangsAlike(T2, H2, x, y)
      BY DEF HangsAlike
    <3> QED BY <2>1, <3>1
  <2>2. CASE m \in T
    <3>1. PICK o \in H : o.id = m.id /\ HangsAlike(T, H, m, o)
      BY <1>10, <2>2 DEF TreesMatch
    <3>2. HangsAlike(T2, H2, m, o)
      BY <3>1 DEF HangsAlike
    <3> QED BY <3>1, <3>2
  <2> QED BY <2>1, <2>2
<1>11. \A o \in H2 : o.role = "tool" => o \in T2
  BY DEF TreesMatch
<1>12. \A t \in T2 : t.role = "tool" => \E m \in T2 : m.id = t.parent /\ m.role = "assistant"
  BY DEF TreesMatch
<1> HIDE DEF T2, H2
<1>13. TreesMatch(T2, H2, last + 1, now)
  BY <1>5, <1>6, <1>7, <1>8, <1>9, <1>10, <1>11, <1>12 DEF TreesMatch
<1> QED BY <1>13 DEF T2, H2

\* A new tool message, which the client does not add.
LEMMA MatchTool ==
    ASSUME NEW T, NEW H, NEW last \in Nat, NEW turn \in Nat, TreesMatch(T, H, last, turn),
           NEW x \in Message, NEW now \in Nat, turn <= now,
           x.id = last + 1, x.role = "tool", x.at = now, x.parent <= last,
           \E m \in T : m.id = x.parent /\ m.role = "assistant"
    PROVE  TreesMatch(T \cup {x}, H, last + 1, now)
<1> DEFINE T2 == T \cup {x}
<1>1. \A m \in Message : m.id \in Nat /\ m.parent \in Nat /\ m.at \in Nat
  BY DEF Message
<1>2. \A m \in T \cup H : m \in Message /\ m.parent < m.id /\ m.id <= last /\ m.at <= turn
  BY DEF TreesMatch
<1>3. /\ \A m \in T \cup H : m.id # last + 1 /\ m.parent # last + 1 /\ m.at <= now /\ m.id <= last + 1
      /\ \A m \in T \cup H : ~(last + 1 <= m.id)
  <2> SUFFICES ASSUME NEW m \in T \cup H
               PROVE  /\ m.id # last + 1 /\ m.parent # last + 1 /\ m.at <= now /\ m.id <= last + 1
                      /\ ~(last + 1 <= m.id)
    OBVIOUS
  <2>1. m.id \in Nat /\ m.parent \in Nat /\ m.at \in Nat /\ m.parent < m.id /\ m.id <= last /\ m.at <= turn
    BY <1>1, <1>2
  <2> QED BY <2>1
<1>4. x.parent < x.id
  BY <1>1
<1>5. \A m \in T2 \cup H : m \in Message /\ m.parent < m.id /\ m.id <= last + 1 /\ m.at <= now
  BY <1>2, <1>3, <1>4
<1>6. \A m, o \in T2 \cup H : m.id <= o.id => m.at <= o.at
  <2> SUFFICES ASSUME NEW m \in T2 \cup H, NEW o \in T2 \cup H, m.id <= o.id PROVE m.at <= o.at
    OBVIOUS
  <2>1. CASE o = x
    BY <1>5, <2>1
  <2>2. CASE o # x
    <3>1. o \in T \cup H
      BY <2>2
    <3>2. m \in T \cup H
      BY <1>3, <3>1
    <3> QED BY <3>1, <3>2 DEF TreesMatch
  <2> QED BY <2>1, <2>2
<1>7. \A m, o \in T2 : m.id = o.id => m = o
  BY <1>3 DEF TreesMatch
<1>8. \A m, o \in H : m.id = o.id => m = o
  BY DEF TreesMatch
<1>9. \A m \in T2, o \in H : m.id = o.id => m.role = o.role
  BY <1>3 DEF TreesMatch
<1>10. ASSUME NEW m \in T2, m.role # "tool"
       PROVE  \E o \in H : o.id = m.id /\ HangsAlike(T2, H, m, o)
  <2>1. m \in T
    BY <1>10
  <2>2. PICK o \in H : o.id = m.id /\ HangsAlike(T, H, m, o)
    BY <1>10, <2>1 DEF TreesMatch
  <2>3. HangsAlike(T2, H, m, o)
    BY <1>3, <2>1, <2>2 DEF HangsAlike
  <2> QED BY <2>2, <2>3
<1>11. \A o \in H : o.role = "tool" => o \in T2
  BY DEF TreesMatch
<1>12. \A t \in T2 : t.role = "tool" => \E m \in T2 : m.id = t.parent /\ m.role = "assistant"
  BY DEF TreesMatch
<1> HIDE DEF T2
<1>13. TreesMatch(T2, H, last + 1, now)
  BY <1>5, <1>6, <1>7, <1>8, <1>9, <1>10, <1>11, <1>12 DEF TreesMatch
<1> QED BY <1>13 DEF T2

\* The canister drops a user's message.
LEMMA MatchDrop ==
    ASSUME NEW T, NEW H, NEW last, NEW turn, TreesMatch(T, H, last, turn),
           NEW u \in T, u.role = "user"
    PROVE  TreesMatch(T \ {u}, H, last, turn)
<1> DEFINE T2 == T \ {u}
<1>1. \A m \in T2 : m \in T
  OBVIOUS
<1>2. \A t \in T : t.role # "user" => t \in T2
  OBVIOUS
<1> HIDE DEF T2
<1>3. ASSUME NEW m \in T2, m.role # "tool"
      PROVE  \E o \in H : o.id = m.id /\ HangsAlike(T2, H, m, o)
  <2>1. PICK o \in H : o.id = m.id /\ HangsAlike(T, H, m, o)
    BY <1>1, <1>3 DEF TreesMatch
  <2>2. HangsAlike(T2, H, m, o)
    BY <1>1, <1>2, <2>1 DEF HangsAlike
  <2> QED BY <2>1, <2>2
<1>4. \A o \in H : o.role = "tool" => o \in T2
  BY <1>2 DEF TreesMatch
<1>5. \A t \in T2 : t.role = "tool" => \E m \in T2 : m.id = t.parent /\ m.role = "assistant"
  <2> SUFFICES ASSUME NEW t \in T2, t.role = "tool"
               PROVE  \E m \in T2 : m.id = t.parent /\ m.role = "assistant"
    OBVIOUS
  <2>1. PICK m \in T : m.id = t.parent /\ m.role = "assistant"
    BY <1>1 DEF TreesMatch
  <2> QED BY <1>2, <2>1
<1>6. /\ \A m \in T2 \cup H : m \in Message /\ m.parent < m.id /\ m.id <= last /\ m.at <= turn
      /\ \A m, o \in T2 \cup H : m.id <= o.id => m.at <= o.at
  BY <1>1 DEF TreesMatch
<1>7. /\ \A m, o \in T2 : m.id = o.id => m = o
      /\ \A m, o \in H : m.id = o.id => m = o
      /\ \A m \in T2, o \in H : m.id = o.id => m.role = o.role
  BY <1>1 DEF TreesMatch
<1>8. TreesMatch(T2, H, last, turn)
  BY <1>3, <1>4, <1>5, <1>6, <1>7 DEF TreesMatch
<1> QED BY <1>8 DEF T2

\* The client takes what the canister has, and what else it has or nothing.
LEMMA MatchMerge ==
    ASSUME NEW T, NEW H, NEW last, NEW turn, TreesMatch(T, H, last, turn),
           NEW K, K \subseteq {o \in H : \A m \in T : m.id # o.id}
    PROVE  TreesMatch(T, T \cup K, last, turn)
<1> DEFINE H2 == T \cup K
<1>1. /\ \A m \in K : m \in H /\ \A o \in T : o.id # m.id
      /\ \A m : m \in H2 <=> m \in T \/ m \in K
      /\ \A m \in T : m \in H2
  OBVIOUS
<1> HIDE DEF H2
<1>2. \A m \in T \cup H2 : m \in T \cup H
  BY <1>1
<1>3. /\ \A m \in T \cup H2 : m \in Message /\ m.parent < m.id /\ m.id <= last /\ m.at <= turn
      /\ \A m, o \in T \cup H2 : m.id <= o.id => m.at <= o.at
  BY <1>2 DEF TreesMatch
<1>4. /\ \A m, o \in T : m.id = o.id => m = o
      /\ \A m, o \in H2 : m.id = o.id => m = o
  BY <1>1 DEF TreesMatch
<1>5. \A m \in T, o \in H2 : m.id = o.id => m.role = o.role
  BY <1>1, <1>4
<1>6. \A m \in T : HangsAlike(T, H2, m, m)
  BY <1>1 DEF HangsAlike
<1>7. \A o \in H2 : o.role = "tool" => o \in T
  BY <1>1 DEF TreesMatch
<1>8. \A t \in T : t.role = "tool" => \E m \in T : m.id = t.parent /\ m.role = "assistant"
  BY DEF TreesMatch
<1>9. \A m \in T : m.role # "tool" => \E o \in H2 : o.id = m.id /\ HangsAlike(T, H2, m, o)
  BY <1>1, <1>6
<1>10. TreesMatch(T, H2, last, turn)
  BY <1>3, <1>4, <1>5, <1>7, <1>8, <1>9 DEF TreesMatch
<1> QED BY <1>10 DEF H2

\* Messages of two arrays, one after the other.
LEMMA ConcatIs ==
    ASSUME NEW s \in Seq(Message), NEW t \in Seq(Message)
    PROVE  /\ s \o t \in Seq(Message) /\ Range(s \o t) = Range(s) \cup Range(t)
           /\ Distinct(s) /\ Distinct(t) /\ Ids(s) \cap Ids(t) = {} => Distinct(s \o t)
<1>1. PICK n \in Nat : n = Len(s)
  BY LenProperties
<1>2. PICK m \in Nat : m = Len(t)
  BY LenProperties
<1>3. PICK r : r = s \o t
  OBVIOUS
<1>4. /\ r \in Seq(Message) /\ Len(r) = n + m
      /\ \A i \in 1..n + m : r[i] = IF i <= n THEN s[i] ELSE t[i - n]
  BY <1>1, <1>2, <1>3, ConcatProperties
<1>5. DOMAIN s = 1..n /\ DOMAIN t = 1..m /\ DOMAIN r = 1..n + m
  BY <1>1, <1>2, <1>4, LenProperties
<1>6. /\ \A i \in 1..n : i \in 1..n + m /\ r[i] = s[i]
      /\ \A i \in n + 1..n + m : i - n \in 1..m /\ r[i] = t[i - n]
      /\ \A i \in 1..m : i + n \in 1..n + m /\ r[i + n] = t[i]
      /\ \A i \in 1..n + m : i \in 1..n \/ i \in n + 1..n + m
  <2>1. \A i \in 1..n : i \in 1..n + m /\ i <= n
    OBVIOUS
  <2>2. \A i \in n + 1..n + m : i \in 1..n + m /\ i - n \in 1..m /\ ~(i <= n)
    OBVIOUS
  <2>3. \A i \in 1..m : i + n \in 1..n + m /\ ~(i + n <= n) /\ i + n - n = i
    OBVIOUS
  <2>4. \A i \in 1..n + m : i \in 1..n \/ i \in n + 1..n + m
    OBVIOUS
  <2> QED BY <1>4, <2>1, <2>2, <2>3, <2>4
<1>7. Range(r) = Range(s) \cup Range(t)
  <2>1. \A x : x \in Range(r) <=> \E i \in 1..n + m : x = r[i]
    BY <1>5 DEF Range
  <2>2. \A x : x \in Range(s) <=> \E i \in 1..n : x = s[i]
    BY <1>5 DEF Range
  <2>3. \A x : x \in Range(t) <=> \E i \in 1..m : x = t[i]
    BY <1>5 DEF Range
  <2>4. \A x \in Range(r) : x \in Range(s) \/ x \in Range(t)
    BY <1>6, <2>1, <2>2, <2>3
  <2>5. \A x \in Range(s) : x \in Range(r)
    <3> SUFFICES ASSUME NEW i \in 1..n PROVE s[i] \in Range(r)
      BY <2>2
    <3> QED BY <1>6, <2>1
  <2>6. \A x \in Range(t) : x \in Range(r)
    <3> SUFFICES ASSUME NEW i \in 1..m PROVE t[i] \in Range(r)
      BY <2>3
    <3> QED BY <1>6, <2>1
  <2> QED BY <2>4, <2>5, <2>6
<1>8. ASSUME Distinct(s), Distinct(t), Ids(s) \cap Ids(t) = {}
      PROVE  Distinct(r)
  <2> SUFFICES ASSUME NEW i \in 1..n + m, NEW j \in 1..n + m, r[i].id = r[j].id PROVE i = j
    BY <1>5 DEF Distinct
  <2>1. /\ \A k \in 1..n : s[k].id \in Ids(s)
        /\ \A k \in 1..m : t[k].id \in Ids(t)
    BY <1>5 DEF Ids
  <2>2. CASE i \in 1..n /\ j \in 1..n
    BY <1>5, <1>6, <1>8, <2>2 DEF Distinct
  <2>3. CASE i \in n + 1..n + m /\ j \in n + 1..n + m
    <3>0. \A k, l \in 1..m : t[k].id = t[l].id => k = l
      BY <1>5, <1>8 DEF Distinct
    <3>1. i - n \in 1..m /\ j - n \in 1..m /\ t[i - n].id = t[j - n].id
      BY <1>6, <2>3
    <3>2. i - n = j - n
      BY <3>0, <3>1
    <3> QED BY <2>3, <3>2
  <2>4. CASE i \in 1..n /\ j \in n + 1..n + m
    BY <1>6, <1>8, <2>1, <2>4
  <2>5. CASE i \in n + 1..n + m /\ j \in 1..n
    BY <1>6, <1>8, <2>1, <2>5
  <2> QED BY <1>6, <2>2, <2>3, <2>4, <2>5
<1> QED BY <1>3, <1>4, <1>7, <1>8

\* Two messages more at the end of an array.
LEMMA PairIs ==
    ASSUME NEW s \in Seq(Message), Distinct(s), NEW x \in Message, NEW y \in Message,
           x.id # y.id, x.id \notin Ids(s), y.id \notin Ids(s)
    PROVE  /\ s \o <<x, y>> \in Seq(Message) /\ Distinct(s \o <<x, y>>)
           /\ Range(s \o <<x, y>>) = Range(s) \cup {x, y}
<1> DEFINE p == <<x, y>>
<1>1. p \in Seq(Message) /\ Len(p) = 2 /\ p[1] = x /\ p[2] = y
  OBVIOUS
<1>2. DOMAIN p = 1..2 /\ \A i \in 1..2 : i = 1 \/ i = 2
  BY <1>1, LenProperties
<1> HIDE DEF p
<1>3. Range(p) = {x, y} /\ Ids(p) = {x.id, y.id}
  BY <1>1, <1>2 DEF Range, Ids
<1>4. Distinct(p)
  BY <1>1, <1>2 DEF Distinct
<1>5. Ids(s) \cap Ids(p) = {}
  BY <1>3
<1>6. /\ s \o p \in Seq(Message) /\ Distinct(s \o p)
      /\ Range(s \o p) = Range(s) \cup Range(p)
  BY <1>1, <1>4, <1>5, ConcatIs
<1> QED BY <1>3, <1>6 DEF p

\* Map.set of a new message puts it at the end.
LEMMA PutIs ==
    ASSUME NEW s \in Seq(Message), Distinct(s), NEW x \in Message, x.id \notin Ids(s)
    PROVE  /\ Put(s, x) \in Seq(Message) /\ Distinct(Put(s, x))
           /\ Range(Put(s, x)) = Range(s) \cup {x} /\ Ids(Put(s, x)) = Ids(s) \cup {x.id}
<1>1. Put(s, x) = Append(s, x)
  BY DEF Put
<1> QED BY <1>1, AppendIs

\* A message and the answer to it, put into the Map.
LEMMA PutBoth ==
    ASSUME NEW s \in Seq(Message), Distinct(s), NEW x \in Message, NEW y \in Message,
           x.id # y.id, x.id \notin Ids(s), y.id \notin Ids(s)
    PROVE  /\ Put(Put(s, x), y) \in Seq(Message) /\ Distinct(Put(Put(s, x), y))
           /\ Range(Put(Put(s, x), y)) = Range(s) \cup {x, y}
<1>1. PICK p : p = Put(s, x)
  OBVIOUS
<1>2. /\ p \in Seq(Message) /\ Distinct(p) /\ Range(p) = Range(s) \cup {x}
      /\ Ids(p) = Ids(s) \cup {x.id}
  BY <1>1, PutIs
<1>3. y.id \notin Ids(p)
  BY <1>2
<1>4. /\ Put(p, y) \in Seq(Message) /\ Distinct(Put(p, y))
      /\ Range(Put(p, y)) = Range(p) \cup {y}
  BY <1>2, <1>3, PutIs
<1> QED BY <1>1, <1>2, <1>4

-----------------------------------------------------------------------------
(* The trees in every state.                                                *)

TreesSound ==
    /\ there \in Seq(Message) /\ Distinct(there)
    /\ here \in Seq(Message) /\ Distinct(here)
    /\ newest.last \in Nat /\ newest.turn \in Nat /\ newest.job = newest.last
    /\ TreesMatch(Range(there), Range(here), newest.last, newest.turn)
    /\ \E m \in Range(there) : m.id = newest.job /\ m.role = "assistant"
    /\ leaf \in Ids(here)

\* The first page of a new chat.
LEMMA InitTrees == BranchInit => TreesSound
<1> SUFFICES ASSUME BranchInit PROVE TreesSound
  OBVIOUS
<1> DEFINE u == Entry(1, NoId, "user", 0)
           a == Entry(2, 1, "assistant", 0)
<1>1. /\ u \in Message /\ u.id = 1 /\ u.parent = 0 /\ u.role = "user" /\ u.at = 0
      /\ a \in Message /\ a.id = 2 /\ a.parent = 1 /\ a.role = "assistant" /\ a.at = 0
  BY DEF Entry, Message, NoId
<1>2. /\ there = <<u, a>> /\ here = <<u, a>> /\ leaf = 2
      /\ newest.last = 2 /\ newest.turn = 0 /\ newest.job = 2
  BY DEF BranchInit
<1> HIDE DEF u, a
<1>3. Len(<<u, a>>) = 2 /\ <<u, a>> \in Seq(Message) /\ <<u, a>>[1] = u /\ <<u, a>>[2] = a
  BY <1>1
<1>4. DOMAIN <<u, a>> = 1..2 /\ \A i \in 1..2 : i = 1 \/ i = 2
  BY <1>3, LenProperties
<1>5. Range(<<u, a>>) = {u, a} /\ Ids(<<u, a>>) = {1, 2}
  BY <1>1, <1>3, <1>4 DEF Range, Ids
<1>6. Distinct(<<u, a>>)
  BY <1>1, <1>3, <1>4 DEF Distinct
<1>7. TreesMatch({u, a}, {u, a}, 2, 0)
  <2>1. \A m \in {u, a} : HangsAlike({u, a}, {u, a}, m, m)
    BY DEF HangsAlike
  <2>2. \A m \in {u, a} : m \in Message /\ m.parent < m.id /\ m.id <= 2 /\ m.at <= 0 /\ m.role # "tool"
    BY <1>1
  <2>3. \A m, o \in {u, a} : m.at <= o.at /\ (m.id = o.id => m = o)
    BY <1>1
  <2> QED BY <2>1, <2>2, <2>3 DEF TreesMatch
<1> QED BY <1>1, <1>2, <1>3, <1>5, <1>6, <1>7 DEF TreesSound

\* What the proofs use of the trees.
LEMMA TreesAre ==
    ASSUME TreesSound
    PROVE  /\ Tree(there) /\ Tree(here)
           /\ \A m \in Range(there) \cup Range(here) :
                m \in Message /\ m.id \in Nat /\ m.parent \in Nat /\ m.parent < m.id /\ m.id <= newest.last
           /\ \A x \in Ids(there) \cup Ids(here) : x \in Nat /\ x <= newest.last
           /\ \A x : x \in Ids(there) <=> \E m \in Range(there) : m.id = x
           /\ \A x : x \in Ids(here) <=> \E m \in Range(here) : m.id = x
<1>1. \A m \in Range(there) \cup Range(here) : m \in Message /\ m.parent < m.id /\ m.id <= newest.last
  BY DEF TreesSound, TreesMatch
<1>2. \A m \in Message : m.id \in Nat /\ m.parent \in Nat
  BY DEF Message
<1>3. /\ \A x : x \in Ids(there) <=> \E m \in Range(there) : m.id = x
      /\ \A x : x \in Ids(here) <=> \E m \in Range(here) : m.id = x
  BY DEF Ids, Range
<1>4. Tree(there) /\ Tree(here)
  BY <1>1 DEF Tree, TreesSound, TreesMatch
<1> QED BY <1>1, <1>2, <1>3, <1>4

\* Two messages more, on both sides, make the trees of the next state.
LEMMA AddsSound ==
    ASSUME NEW remote, NEW local, NEW n \in Nat, Adds(remote, local, n),
           newest.last \in Nat, newest.turn \in Nat,
           remote \in Seq(Message), Distinct(remote), local \in Seq(Message), Distinct(local),
           TreesMatch(Range(remote), Range(local), newest.last + n, newest.turn + 1),
           \E m \in Range(remote) : m.id = newest.last + n /\ m.role = "assistant"
    PROVE  TreesSound'
<1>1. /\ there' = remote /\ here' = local /\ leaf' = newest.last + n
      /\ newest'.last = newest.last + n /\ newest'.turn = newest.turn + 1
      /\ newest'.job = newest.last + n
  BY DEF Adds
<1>2. newest.last + n \in Nat /\ newest.turn + 1 \in Nat
  OBVIOUS
<1>3. PICK m \in Range(remote) : m.id = newest.last + n /\ m.role = "assistant"
  OBVIOUS
<1>4. PICK o \in Range(local) : o.id = newest.last + n
  BY <1>3 DEF TreesMatch
<1>5. newest.last + n \in Ids(local)
  BY <1>4, ArrayIs
<1> QED BY <1>1, <1>2, <1>3, <1>5 DEF TreesSound

\* A user's message and its answer on both sides.
LEMMA TalkAdded ==
    ASSUME NEW kept \in Seq(Message), Distinct(kept), NEW map \in Seq(Message), Distinct(map),
           NEW last \in Nat, NEW turn \in Nat, TreesMatch(Range(kept), Range(map), last, turn),
           NEW x \in Message, NEW y \in Message, NEW a \in Message,
           x.id = last + 1, x.role = "user", x.at = turn + 1, x.parent <= last,
           y.id = last + 1, y.role = "user", y.at = turn + 1, y.parent <= last,
           HangsAlike(Range(kept), Range(map), x, y),
           a.id = last + 2, a.parent = last + 1, a.role = "assistant", a.at = turn + 1
    PROVE  /\ kept \o <<x, a>> \in Seq(Message) /\ Distinct(kept \o <<x, a>>)
           /\ Put(Put(map, y), a) \in Seq(Message) /\ Distinct(Put(Put(map, y), a))
           /\ TreesMatch(Range(kept \o <<x, a>>), Range(Put(Put(map, y), a)), last + 2, turn + 1)
           /\ a \in Range(kept \o <<x, a>>)
<1> DEFINE T == Range(kept)
           H == Range(map)
<1>1. \A m \in T \cup H : m.id \in Nat /\ m.id <= last
  BY DEF TreesMatch, Message
<1>2. \A m \in T \cup H : m.id # last + 1 /\ m.id # last + 2
  BY <1>1
<1>3. /\ x.id \notin Ids(kept) /\ a.id \notin Ids(kept) /\ x.id # a.id
      /\ y.id \notin Ids(map) /\ a.id \notin Ids(map) /\ y.id # a.id
  <2>1. \A z \in Ids(kept) : \E m \in T : m.id = z
    BY ArrayIs
  <2>2. \A z \in Ids(map) : \E m \in H : m.id = z
    BY ArrayIs
  <2>3. last + 1 # last + 2
    OBVIOUS
  <2> QED BY <1>2, <2>1, <2>2, <2>3
<1>4. /\ kept \o <<x, a>> \in Seq(Message) /\ Distinct(kept \o <<x, a>>)
      /\ Range(kept \o <<x, a>>) = T \cup {x, a}
  BY <1>3, PairIs
<1>5. /\ Put(Put(map, y), a) \in Seq(Message) /\ Distinct(Put(Put(map, y), a))
      /\ Range(Put(Put(map, y), a)) = H \cup {y, a}
  BY <1>3, PutBoth
<1> HIDE DEF T, H
<1>6. TreesMatch(T \cup {x}, H \cup {y}, last + 1, turn + 1)
  <2>1. turn + 1 \in Nat /\ turn <= turn + 1
    OBVIOUS
  <2> QED BY <2>1, MatchBoth DEF T, H
<1>7. HangsAlike(T \cup {x}, H \cup {y}, a, a)
  <2>1. \A t \in T \cup {x} : t.id = a.parent => t.role # "tool"
    BY <1>2
  <2> QED BY <2>1 DEF HangsAlike
<1>8. TreesMatch((T \cup {x}) \cup {a}, (H \cup {y}) \cup {a}, last + 2, turn + 1)
  <2>1. /\ last + 1 \in Nat /\ turn + 1 \in Nat /\ turn + 1 <= turn + 1
        /\ last + 1 + 1 = last + 2 /\ a.parent <= last + 1
    OBVIOUS
  <2> DEFINE l == last + 1
             c == turn + 1
  <2>2. l \in Nat /\ c \in Nat /\ c <= c /\ l + 1 = last + 2 /\ a.parent <= l /\ a.id = l + 1 /\ a.at = c
    BY <2>1
  <2> HIDE DEF l, c
  <2>3. TreesMatch(T \cup {x}, H \cup {y}, l, c)
    BY <1>6 DEF l, c
  <2>4. TreesMatch((T \cup {x}) \cup {a}, (H \cup {y}) \cup {a}, l + 1, c)
    BY <1>7, <2>2, <2>3, MatchBoth
  <2> QED BY <2>2, <2>4 DEF c
<1>9. (T \cup {x}) \cup {a} = T \cup {x, a} /\ (H \cup {y}) \cup {a} = H \cup {y, a}
  OBVIOUS
<1>10. a \in Range(kept \o <<x, a>>)
  BY <1>4
<1> QED BY <1>4, <1>5, <1>8, <1>9, <1>10

\* addMessageAndSend keeps the trees sound.
LEMMA AddSound == TreesSound /\ AddMessage => TreesSound'
<1> SUFFICES ASSUME TreesSound, AddMessage PROVE TreesSound'
  OBVIOUS
<1> DEFINE last == newest.last
           turn == newest.turn
           x == Entry(last + 1, leaf, "user", turn + 1)
           a == Entry(last + 2, x.id, "assistant", turn + 1)
           remote == there \o <<x, a>>
           local == Put(Put(here, x), a)
<1>1. /\ leaf \in Ids(there) /\ leaf \in Ids(here) /\ leaf \in Nat /\ leaf <= last
      /\ last \in Nat /\ turn \in Nat
  BY TreesAre DEF AddMessage, TreesSound
<1>2. Adds(remote, local, 2)
  BY DEF AddMessage
<1>3. /\ x \in Message /\ x.id = last + 1 /\ x.parent = leaf /\ x.role = "user" /\ x.at = turn + 1
  BY <1>1 DEF Entry, Message
<1> HIDE DEF x
<1>4. /\ a \in Message /\ a.id = last + 2 /\ a.parent = last + 1 /\ a.role = "assistant" /\ a.at = turn + 1
  BY <1>1, <1>3 DEF Entry, Message
<1> HIDE DEF a
<1>5. HangsAlike(Range(there), Range(here), x, x)
  <2> SUFFICES ASSUME NEW t \in Range(there), t.id = leaf, t.role = "tool" PROVE t \in Range(here)
    BY <1>3 DEF HangsAlike
  <2>1. PICK o \in Range(here) : o.id = leaf
    BY <1>1, TreesAre
  <2>2. o.role = "tool"
    BY <2>1 DEF TreesSound, TreesMatch
  <2>3. o \in Range(there)
    BY <2>2 DEF TreesSound, TreesMatch
  <2>4. o = t
    BY <2>1, <2>3 DEF TreesSound, TreesMatch
  <2> QED BY <2>4
<1>6. /\ remote \in Seq(Message) /\ Distinct(remote) /\ local \in Seq(Message) /\ Distinct(local)
      /\ TreesMatch(Range(remote), Range(local), last + 2, turn + 1)
      /\ a \in Range(remote)
  <2>1. /\ there \in Seq(Message) /\ Distinct(there) /\ here \in Seq(Message) /\ Distinct(here)
        /\ TreesMatch(Range(there), Range(here), last, turn)
    BY DEF TreesSound
  <2>2. x.parent <= last
    BY <1>1, <1>3
  <2> HIDE DEF last, turn
  <2> QED BY <1>1, <1>3, <1>4, <1>5, <2>1, <2>2, TalkAdded
<1> HIDE DEF remote, local
<1> QED BY <1>1, <1>2, <1>4, <1>6, AddsSound

\* editUserMessage removes a message of the canister and adds two.
LEMMA EditSound ==
    ASSUME TreesSound, NEW m \in Range(here), EditMessage(m)
    PROVE  TreesSound'
<1> DEFINE last == newest.last
           turn == newest.turn
           old == {z \in Range(there) : z.id = m.id}
           w == CHOOSE z \in old : TRUE
           y == Entry(last + 1, m.parent, "user", turn + 1)
           x == [y EXCEPT !.parent = w.parent]
           a == Entry(last + 2, y.id, "assistant", turn + 1)
           P == {i \in DOMAIN there : there[i].id # m.id}
           kept == KeptAt(there, P)
           remote == kept \o <<x, a>>
           local == Put(Put(here, y), a)
<1>1. m.role = "user" /\ old # {} /\ Adds(remote, local, 2)
  BY DEF EditMessage
<1>2. last \in Nat /\ turn \in Nat
  BY DEF TreesSound
<1>3. w \in Range(there) /\ w.id = m.id
  BY <1>1
<1> HIDE DEF w
<1>4. /\ m.parent \in Nat /\ m.parent <= last /\ w.parent \in Nat /\ w.parent <= last
      /\ w.role = "user"
  <2>1. /\ m.parent \in Nat /\ w.parent \in Nat /\ m.parent < m.id /\ w.parent < w.id
        /\ m.id \in Nat /\ m.id <= last /\ last \in Nat
    BY <1>2, <1>3, TreesAre
  <2>2. w.role = "user"
    BY <1>1, <1>3 DEF TreesSound, TreesMatch
  <2> QED BY <1>3, <2>1, <2>2
<1>5. /\ y \in Message /\ y.id = last + 1 /\ y.parent = m.parent /\ y.role = "user" /\ y.at = turn + 1
  BY <1>2, <1>4 DEF Entry, Message
<1>6. /\ x \in Message /\ x.id = last + 1 /\ x.parent = w.parent /\ x.role = "user" /\ x.at = turn + 1
  <2> HIDE DEF y
  <2> QED BY <1>4, <1>5 DEF Message
<1> HIDE DEF y, x
<1>7. /\ a \in Message /\ a.id = last + 2 /\ a.parent = last + 1 /\ a.role = "assistant" /\ a.at = turn + 1
  BY <1>2, <1>5 DEF Entry, Message
<1> HIDE DEF a
<1>8. kept \in Seq(Message) /\ Distinct(kept) /\ Range(kept) = Range(there) \ {w}
  <2>1. P \in SUBSET DOMAIN there
    OBVIOUS
  <2>2. kept \in Seq(Message) /\ Distinct(kept) /\ Range(kept) = {there[i] : i \in P}
    BY <2>1, KeptIs DEF TreesSound
  <2>3. {there[i] : i \in P} = {z \in Range(there) : z.id # m.id}
    BY DEF Range
  <2>4. \A z \in Range(there) : z.id = m.id <=> z = w
    BY <1>3 DEF TreesSound, TreesMatch
  <2> QED BY <2>2, <2>3, <2>4
<1> HIDE DEF kept, P
<1>9. TreesMatch(Range(kept), Range(here), last, turn)
  BY <1>3, <1>4, <1>8, MatchDrop DEF TreesSound
<1>10. HangsAlike(Range(kept), Range(here), x, y)
  <2>1. w.role # "tool"
    BY <1>4
  <2>2. PICK o \in Range(here) : o.id = w.id /\ HangsAlike(Range(there), Range(here), w, o)
    BY <1>3, <2>1 DEF TreesSound, TreesMatch
  <2>3. o = m
    BY <1>3, <2>2 DEF TreesSound, TreesMatch
  <2>4. \A t \in Range(there) : t.role = "tool" => t \in Range(kept)
    BY <1>8, <2>1
  <2>5. \A t \in Range(kept) : t \in Range(there)
    BY <1>8
  <2> QED BY <1>5, <1>6, <2>2, <2>3, <2>4, <2>5 DEF HangsAlike
<1>11. /\ remote \in Seq(Message) /\ Distinct(remote) /\ local \in Seq(Message) /\ Distinct(local)
       /\ TreesMatch(Range(remote), Range(local), last + 2, turn + 1)
       /\ a \in Range(remote)
  <2>1. here \in Seq(Message) /\ Distinct(here)
    BY DEF TreesSound
  <2>2. x.parent <= last /\ y.parent <= last
    BY <1>4, <1>5, <1>6
  <2> HIDE DEF last, turn
  <2> QED BY <1>2, <1>5, <1>6, <1>7, <1>8, <1>9, <1>10, <2>1, <2>2, TalkAdded
<1> HIDE DEF remote, local
<1> QED BY <1>1, <1>2, <1>7, <1>11, AddsSound

\* retryAiMessage adds an answer below the same message.
LEMMA RetrySound ==
    ASSUME TreesSound, NEW m \in Range(here), RetryMessage(m)
    PROVE  TreesSound'
<1> DEFINE last == newest.last
           turn == newest.turn
           a == Entry(last + 1, m.parent, "assistant", turn + 1)
           remote == Append(there, a)
           local == Put(here, a)
<1>1. PICK u \in Range(there) : u.id = m.parent /\ u.role = "user"
  BY DEF RetryMessage
<1>2. Adds(remote, local, 1)
  BY DEF RetryMessage
<1>3. /\ last \in Nat /\ turn \in Nat /\ m.parent \in Nat /\ m.parent <= last
      /\ there \in Seq(Message) /\ Distinct(there) /\ here \in Seq(Message) /\ Distinct(here)
      /\ TreesMatch(Range(there), Range(here), last, turn)
  BY <1>1, TreesAre DEF TreesSound
<1>4. /\ a \in Message /\ a.id = last + 1 /\ a.parent = m.parent /\ a.role = "assistant" /\ a.at = turn + 1
  <2> HIDE DEF last, turn
  <2> QED BY <1>3 DEF Entry, Message
<1> HIDE DEF a
<1>5. a.id \notin Ids(there) /\ a.id \notin Ids(here)
  <2>1. \A x \in Ids(there) \cup Ids(here) : x \in Nat /\ x <= last
    BY TreesAre
  <2> QED BY <1>3, <1>4, <2>1
<1>6. /\ remote \in Seq(Message) /\ Distinct(remote) /\ Range(remote) = Range(there) \cup {a}
  BY <1>3, <1>4, <1>5, AppendIs
<1>7. /\ local \in Seq(Message) /\ Distinct(local) /\ Range(local) = Range(here) \cup {a}
  BY <1>3, <1>4, <1>5, PutIs
<1>8. HangsAlike(Range(there), Range(here), a, a)
  <2>1. \A t \in Range(there) : t.id = a.parent => t = u
    BY <1>1, <1>3, <1>4 DEF TreesMatch
  <2> QED BY <1>1, <2>1 DEF HangsAlike
<1>9. TreesMatch(Range(there) \cup {a}, Range(here) \cup {a}, last + 1, turn + 1)
  <2>1. turn + 1 \in Nat /\ turn <= turn + 1
    BY <1>3
  <2> QED BY <1>3, <1>4, <1>8, <2>1, MatchBoth
<1>10. \E n \in Range(remote) : n.id = last + 1 /\ n.role = "assistant"
  BY <1>4, <1>6
<1> HIDE DEF remote, local
<1> QED BY <1>2, <1>3, <1>6, <1>7, <1>9, <1>10, AddsSound

\* A continuation hangs below the tool's message on the canister only.
LEMMA ContinueSound == TreesSound /\ ContinueMessage => TreesSound'
<1> SUFFICES ASSUME TreesSound, ContinueMessage PROVE TreesSound'
  OBVIOUS
<1> DEFINE last == newest.last
           turn == newest.turn
           r == Entry(last + 1, newest.job, "tool", turn + 1)
           x == Entry(last + 2, r.id, "assistant", turn + 1)
           y == [x EXCEPT !.parent = newest.job]
           remote == there \o <<r, x>>
           local == Put(here, y)
           T == Range(there)
           H == Range(here)
<1>1. Adds(remote, local, 2)
  BY DEF ContinueMessage
<1>2. /\ last \in Nat /\ turn \in Nat /\ newest.job = last
      /\ there \in Seq(Message) /\ Distinct(there) /\ here \in Seq(Message) /\ Distinct(here)
      /\ TreesMatch(T, H, last, turn)
      /\ \E m \in T : m.id = last /\ m.role = "assistant"
  BY DEF TreesSound
<1>3. /\ r \in Message /\ r.id = last + 1 /\ r.parent = last /\ r.role = "tool" /\ r.at = turn + 1
  BY <1>2 DEF Entry, Message
<1> HIDE DEF r
<1>4. /\ x \in Message /\ x.id = last + 2 /\ x.parent = last + 1 /\ x.role = "assistant" /\ x.at = turn + 1
  BY <1>2, <1>3 DEF Entry, Message
<1>5. /\ y \in Message /\ y.id = last + 2 /\ y.parent = last /\ y.role = "assistant" /\ y.at = turn + 1
  <2> HIDE DEF x
  <2> QED BY <1>2, <1>4 DEF Message
<1> HIDE DEF x, y
<1>6. /\ r.id \notin Ids(there) /\ x.id \notin Ids(there) /\ r.id # x.id /\ y.id \notin Ids(here)
  <2>1. \A z \in Ids(there) \cup Ids(here) : z \in Nat /\ z <= last
    BY TreesAre
  <2> QED BY <1>2, <1>3, <1>4, <1>5, <2>1
<1>7. remote \in Seq(Message) /\ Distinct(remote) /\ Range(remote) = T \cup {r, x}
  BY <1>2, <1>3, <1>4, <1>6, PairIs
<1>8. local \in Seq(Message) /\ Distinct(local) /\ Range(local) = H \cup {y}
  BY <1>2, <1>5, <1>6, PutIs
<1> HIDE DEF remote, local, T, H
<1> DEFINE l == last + 1
           c == turn + 1
<1>9. /\ l \in Nat /\ c \in Nat /\ turn <= c /\ c <= c /\ l + 1 = last + 2 /\ last <= last /\ last <= l /\ l <= l
  BY <1>2
<1>10. TreesMatch(T \cup {r}, H, l, c)
  <2>1. \E m \in T : m.id = r.parent /\ m.role = "assistant"
    BY <1>2, <1>3
  <2>2. r.parent <= last /\ r.at = c
    BY <1>3, <1>9
  <2> HIDE DEF l, c, last, turn
  <2>3. TreesMatch(T \cup {r}, H, last + 1, c)
    BY <1>2, <1>3, <1>9, <2>1, <2>2, MatchTool
  <2> QED BY <2>3 DEF l
<1>11. HangsAlike(T \cup {r}, H, x, y)
  BY <1>3, <1>4, <1>5 DEF HangsAlike
<1>12. TreesMatch((T \cup {r}) \cup {x}, H \cup {y}, last + 2, c)
  <2>1. /\ x.id = l + 1 /\ y.id = l + 1 /\ x.role = y.role /\ x.role # "tool" /\ x.at = c /\ y.at = c
        /\ x.parent <= l /\ y.parent <= l
    BY <1>4, <1>5, <1>9
  <2> HIDE DEF l, c
  <2>2. TreesMatch((T \cup {r}) \cup {x}, H \cup {y}, l + 1, c)
    BY <1>4, <1>5, <1>9, <1>10, <1>11, <2>1, MatchBoth
  <2> QED BY <1>9, <2>2
<1>13. (T \cup {r}) \cup {x} = T \cup {r, x}
  OBVIOUS
<1>14. \E n \in Range(remote) : n.id = last + 2 /\ n.role = "assistant"
  BY <1>4, <1>7
<1> QED BY <1>1, <1>2, <1>7, <1>8, <1>12, <1>13, <1>14, AddsSound

\* A fetch puts the canister's messages over those of the Map.
LEMMA RefetchSound == TreesSound /\ Refetch => TreesSound'
<1> SUFFICES ASSUME TreesSound, Refetch PROVE TreesSound'
  OBVIOUS
<1> DEFINE P == {i \in DOMAIN here : here[i].id \notin Ids(there)}
           kept == KeptAt(here, P)
           K == {o \in Range(here) : o.id \notin Ids(there)}
<1>1. here' = there \o kept /\ there' = there /\ leaf' = leaf /\ newest' = newest
  BY DEF Refetch, MergedMap
<1>2. /\ there \in Seq(Message) /\ Distinct(there) /\ here \in Seq(Message) /\ Distinct(here)
      /\ TreesMatch(Range(there), Range(here), newest.last, newest.turn)
  BY DEF TreesSound
<1>3. kept \in Seq(Message) /\ Distinct(kept) /\ Range(kept) = K /\ Ids(kept) \cap Ids(there) = {}
  <2>1. P \in SUBSET DOMAIN here
    OBVIOUS
  <2>2. /\ kept \in Seq(Message) /\ Distinct(kept) /\ Range(kept) = {here[i] : i \in P}
        /\ Ids(kept) = {here[i].id : i \in P}
    BY <1>2, <2>1, KeptIs
  <2>3. {here[i] : i \in P} = K
    BY DEF Range
  <2> QED BY <2>2, <2>3
<1> HIDE DEF kept, P
<1>4. /\ here' \in Seq(Message) /\ Distinct(here') /\ Range(here') = Range(there) \cup K
  BY <1>1, <1>2, <1>3, ConcatIs
<1>5. \A o \in K : o \in Range(here) /\ \A m \in Range(there) : m.id # o.id
  BY TreesAre
<1> HIDE DEF K
<1>6. TreesMatch(Range(there), Range(there) \cup K, newest.last, newest.turn)
  BY <1>2, <1>5, MatchMerge
<1>7. leaf \in Ids(here')
  <2>1. PICK o \in Range(here) : o.id = leaf
    BY TreesAre DEF TreesSound
  <2>2. o \in K \/ leaf \in Ids(there)
    BY <2>1 DEF K
  <2>3. \E m \in Range(here') : m.id = leaf
    BY <1>4, <2>1, <2>2, TreesAre
  <2> QED BY <1>4, <2>3, ArrayIs
<1> QED BY <1>1, <1>2, <1>4, <1>6, <1>7 DEF TreesSound

\* After a reload the Map is what the canister has.
LEMMA ReloadSound == TreesSound /\ ReloadChat => TreesSound'
<1> SUFFICES ASSUME TreesSound, ReloadChat PROVE TreesSound'
  OBVIOUS
<1>1. /\ here' = there /\ there' = there /\ newest' = newest
      /\ leaf' = DefaultLeaf(there, LastNewest(there).id)
  BY DEF ReloadChat
<1>2. /\ there \in Seq(Message) /\ Distinct(there)
      /\ TreesMatch(Range(there), Range(here), newest.last, newest.turn)
      /\ Range(there) # {}
  BY DEF TreesSound
<1>3. TreesMatch(Range(there), Range(there) \cup {}, newest.last, newest.turn)
  BY <1>2, MatchMerge
<1>4. Range(there) \cup {} = Range(there)
  OBVIOUS
<1>5. LastNewest(there).id \in Ids(there)
  <2>1. there # <<>>
    BY <1>2 DEF Range
  <2> QED BY <1>2, <2>1, NewestIs, ArrayIs
<1>6. leaf' \in Ids(there)
  BY <1>1, <1>5 DEF DefaultLeaf
<1> QED BY <1>1, <1>2, <1>3, <1>4, <1>6 DEF TreesSound

\* The arrows of a message move the leaf and nothing else.
LEMMA SiblingSound ==
    ASSUME TreesSound, NEW s \in Range(here), ToSibling(s)
    PROVE  TreesSound'
<1>1. /\ here' = here /\ there' = there /\ newest' = newest
      /\ leaf' = FindNewestLeaf(here, s.id)
  BY DEF ToSibling
<1>2. s.id \in Ids(here) /\ Tree(here)
  BY TreesAre
<1>3. leaf' \in Ids(here)
  BY <1>1, <1>2, NewestLeafIs
<1> QED BY <1>1, <1>3 DEF TreesSound

\* Every action keeps the trees sound.
LEMMA TreesStep == TreesSound /\ [BranchNext]_branchVars => TreesSound'
<1> SUFFICES ASSUME TreesSound, [BranchNext]_branchVars PROVE TreesSound'
  OBVIOUS
<1>1. CASE UNCHANGED branchVars
  BY <1>1 DEF branchVars, TreesSound
<1>2. CASE AddMessage
  BY <1>2, AddSound
<1>3. CASE ContinueMessage
  BY <1>3, ContinueSound
<1>4. CASE Refetch
  BY <1>4, RefetchSound
<1>5. CASE ReloadChat
  BY <1>5, ReloadSound
<1>6. CASE \E m \in Range(here) : EditMessage(m) \/ RetryMessage(m) \/ ToSibling(m)
  BY <1>6, EditSound, RetrySound, SiblingSound
<1> QED BY <1>1, <1>2, <1>3, <1>4, <1>5, <1>6 DEF BranchNext

\* In every state of the canister's and of the client's messages, both are trees
\* and hold the same messages in the same places, but for tool messages.
THEOREM TreesAlwaysSound == BranchSpec => []TreesSound
<1>1. BranchInit => TreesSound
  BY InitTrees
<1>2. TreesSound /\ [BranchNext]_branchVars => TreesSound'
  BY TreesStep
<1> QED BY <1>1, <1>2, PTL DEF BranchSpec

\* Whatever was edited, retried, continued, fetched again or navigated to, the
\* page shows the leaf, each message once, parents first, and never two versions
\* of a message side by side unless both are below the leaf.
THEOREM BranchAlwaysReads == BranchSpec => []BranchReads
<1>1. TreesSound => Tree(here) /\ leaf \in Ids(here)
  BY TreesAre DEF TreesSound
<1>2. TreesSound => BranchReads
  BY <1>1, SoundReads
<1> QED BY <1>2, TreesAlwaysSound, PTL

\* The arrows always lead to the version they name, and away from the other.
THEOREM SiblingsAlwaysReached == BranchSpec => []SiblingsAreReached
<1>1. TreesSound => Tree(here) /\ leaf \in Ids(here)
  BY TreesAre DEF TreesSound
<1>2. TreesSound => SiblingsAreReached
  BY <1>1, SoundReaches
<1> QED BY <1>2, TreesAlwaysSound, PTL

-----------------------------------------------------------------------------
(* The context of a generation.                                             *)

\* f lists the places P, of which there are n, in their order.
ListsPlaces(f, n, P) ==
    /\ f \in [1..n -> P]
    /\ \A i \in P : \E k \in 1..n : f[k] = i
    /\ \A j, k \in 1..n : f[j] < f[k] <=> j < k

\* There is one way to list numbers in their order.
LEMMA OneListing ==
    ASSUME NEW n \in Nat, NEW P, \A i \in P : i \in Nat, NEW f, NEW g,
           ListsPlaces(f, n, P), ListsPlaces(g, n, P)
    PROVE  \A k \in 1..n : f[k] = g[k]
<1> DEFINE Good == {k \in Nat : k \in 1..n => f[k] = g[k]}
<1>1. /\ \A k \in 1..n : f[k] \in P /\ g[k] \in P /\ f[k] \in Nat /\ g[k] \in Nat
      /\ \A i \in P : (\E k \in 1..n : f[k] = i) /\ (\E k \in 1..n : g[k] = i)
      /\ \A j, k \in 1..n : (f[j] < f[k] <=> j < k) /\ (g[j] < g[k] <=> j < k)
  BY DEF ListsPlaces
<1>2. ASSUME NEW k \in Nat, \A l \in Nat : l < k => l \in Good
      PROVE  k \in Good
  <2> SUFFICES ASSUME k \in 1..n PROVE f[k] = g[k]
    OBVIOUS
  <2>1. \A l \in 1..n : l < k => f[l] = g[l]
    BY <1>2
  <2>2. ~(f[k] < g[k])
    <3> SUFFICES ASSUME f[k] < g[k] PROVE FALSE
      OBVIOUS
    <3>1. PICK j \in 1..n : g[j] = f[k]
      BY <1>1
    <3>2. j < k
      BY <1>1, <3>1
    <3>3. f[j] = f[k]
      BY <2>1, <3>1, <3>2
    <3>4. f[j] < f[k] /\ f[j] \in Nat
      BY <1>1, <3>2
    <3> QED BY <3>3, <3>4
  <2>3. ~(g[k] < f[k])
    <3> SUFFICES ASSUME g[k] < f[k] PROVE FALSE
      OBVIOUS
    <3>1. PICK j \in 1..n : f[j] = g[k]
      BY <1>1
    <3>2. j < k
      BY <1>1, <3>1
    <3>3. g[j] = g[k]
      BY <2>1, <3>1, <3>2
    <3>4. g[j] < g[k] /\ g[j] \in Nat
      BY <1>1, <3>2
    <3> QED BY <3>3, <3>4
  <2>4. f[k] \in Nat /\ g[k] \in Nat
    BY <1>1
  <2> QED BY <2>2, <2>3, <2>4
<1>3. \A k \in Nat : k \in Good
  <2> HIDE DEF Good
  <2> QED BY <1>2, AllNumbers
<1> QED BY <1>3

\* Array.filter and a place more, at the end.
LEMMA KeptAppend ==
    ASSUME NEW s \in Seq(Message), NEW m \in Message, NEW P \in SUBSET DOMAIN s
    PROVE  /\ KeptAt(Append(s, m), P) = KeptAt(s, P)
           /\ KeptAt(Append(s, m), P \cup {Len(s) + 1}) = Append(KeptAt(s, P), m)
<1>1. PICK l \in Nat : l = Len(s)
  BY LenProperties
<1>2. PICK t : t = Append(s, m)
  OBVIOUS
<1>3. DOMAIN s = 1..l
  BY <1>1, LenProperties
<1>4. t \in Seq(Message) /\ Len(t) = l + 1 /\ t[l + 1] = m /\ \A i \in 1..l : t[i] = s[i]
  BY <1>1, <1>2, <1>3, AppendIs
<1>5. DOMAIN t = 1..l + 1
  BY <1>4, LenProperties
<1> DEFINE Q == P \cup {l + 1}
           n == Cardinality(P)
<1>6. /\ P \in SUBSET (1..l) /\ P \in SUBSET (1..l + 1) /\ Q \in SUBSET (1..l + 1)
      /\ (\A i \in P : i \in Nat) /\ (\A i \in Q : i \in Nat) /\ l + 1 \notin P
  BY <1>3
<1>7. n \in Nat /\ Cardinality(Q) = n + 1
  <2>1. IsFiniteSet(1..l)
    <3>1. 1 \in Int /\ l \in Int
      OBVIOUS
    <3> QED BY <3>1, FS_Interval
  <2>2. IsFiniteSet(P)
    BY <1>6, <2>1, FS_Subset
  <2> QED BY <1>6, <2>2, FS_AddElement, FS_CardinalityType
<1> HIDE DEF n, Q
<1>8. ASSUME NEW u \in Seq(Message), NEW R \in SUBSET (1..Len(u))
      PROVE  /\ KeptAt(u, R) \in Seq(Message) /\ Len(KeptAt(u, R)) = Cardinality(R)
             /\ \E f : /\ ListsPlaces(f, Cardinality(R), R)
                       /\ \A k \in 1..Cardinality(R) : KeptAt(u, R)[k] = u[f[k]]
  <2>1. /\ KeptAt(u, R) \in Seq(Message) /\ Len(KeptAt(u, R)) = Cardinality(R)
        /\ \E f \in [1..Cardinality(R) -> R] :
             /\ \A i \in R : \E k \in 1..Cardinality(R) : f[k] = i
             /\ \A j, k \in 1..Cardinality(R) : f[j] < f[k] <=> j < k
             /\ \A k \in 1..Cardinality(R) : KeptAt(u, R)[k] = u[f[k]]
    BY KeptLists, ZenonT(60)
  <2> QED BY <2>1 DEF ListsPlaces
<1>9. PICK f : ListsPlaces(f, n, P) /\ \A k \in 1..n : KeptAt(s, P)[k] = s[f[k]]
  BY <1>1, <1>6, <1>8 DEF n
<1>10. KeptAt(s, P) \in Seq(Message) /\ Len(KeptAt(s, P)) = n
  BY <1>1, <1>6, <1>8 DEF n
<1>11. \A k \in 1..n : f[k] \in P /\ f[k] \in 1..l
  BY <1>6, <1>9 DEF ListsPlaces
<1>12. KeptAt(t, P) = KeptAt(s, P)
  <2>1. PICK g : ListsPlaces(g, n, P) /\ \A k \in 1..n : KeptAt(t, P)[k] = t[g[k]]
    BY <1>4, <1>6, <1>8 DEF n
  <2>2. KeptAt(t, P) \in Seq(Message) /\ Len(KeptAt(t, P)) = n
    BY <1>4, <1>6, <1>8 DEF n
  <2>3. \A k \in 1..n : f[k] = g[k]
    <3>1. ListsPlaces(f, n, P) /\ ListsPlaces(g, n, P)
      BY <1>9, <2>1
    <3> QED BY <1>6, <1>7, <3>1, OneListing
  <2>4. \A k \in 1..n : KeptAt(t, P)[k] = KeptAt(s, P)[k]
    BY <1>4, <1>9, <1>11, <2>1, <2>3
  <2> QED BY <1>10, <2>2, <2>4, SeqEqual
<1>13. KeptAt(t, Q) = Append(KeptAt(s, P), m)
  <2>1. PICK g : ListsPlaces(g, n + 1, Q) /\ \A k \in 1..n + 1 : KeptAt(t, Q)[k] = t[g[k]]
    <3>1. Q \in SUBSET (1..Len(t))
      BY <1>4, <1>6
    <3>2. PICK g : /\ ListsPlaces(g, Cardinality(Q), Q)
                   /\ \A k \in 1..Cardinality(Q) : KeptAt(t, Q)[k] = t[g[k]]
      BY <1>4, <1>8, <3>1
    <3> QED BY <1>7, <3>2
  <2>2. KeptAt(t, Q) \in Seq(Message) /\ Len(KeptAt(t, Q)) = n + 1
    BY <1>4, <1>6, <1>7, <1>8
  <2> DEFINE h == [k \in 1..n + 1 |-> IF k = n + 1 THEN l + 1 ELSE f[k]]
  <2>3. /\ \A k \in 1..n : k \in 1..n + 1 /\ h[k] = f[k]
        /\ n + 1 \in 1..n + 1 /\ h[n + 1] = l + 1
        /\ \A k \in 1..n + 1 : k \in 1..n \/ k = n + 1
    BY <1>7
  <2>4. ListsPlaces(h, n + 1, Q)
    <3>1. \A k \in 1..n + 1 : h[k] \in Q
      BY <1>11, <2>3 DEF Q
    <3>2. h \in [1..n + 1 -> Q]
      <4>1. h = [k \in 1..n + 1 |-> h[k]]
        OBVIOUS
      <4> HIDE DEF h
      <4> QED BY <3>1, <4>1
    <3> HIDE DEF h
    <3>3. \A i \in Q : \E k \in 1..n + 1 : h[k] = i
      <4> SUFFICES ASSUME NEW i \in Q PROVE \E k \in 1..n + 1 : h[k] = i
        OBVIOUS
      <4>1. CASE i = l + 1
        BY <2>3, <4>1
      <4>2. CASE i \in P
        <5>1. PICK k \in 1..n : f[k] = i
          BY <1>9, <4>2 DEF ListsPlaces
        <5> QED BY <2>3, <5>1
      <4> QED BY <4>1, <4>2 DEF Q
    <3>4. ASSUME NEW j \in 1..n + 1, NEW k \in 1..n + 1
          PROVE  h[j] < h[k] <=> j < k
      <4>1. CASE j \in 1..n /\ k \in 1..n
        <5>1. f[j] < f[k] <=> j < k
          BY <1>9, <4>1 DEF ListsPlaces
        <5> QED BY <2>3, <4>1, <5>1
      <4>2. CASE j \in 1..n /\ k = n + 1
        <5>1. h[j] = f[j] /\ f[j] \in 1..l /\ h[k] = l + 1
          BY <1>11, <2>3, <4>2
        <5> QED BY <1>7, <4>2, <5>1
      <4>3. CASE j = n + 1 /\ k \in 1..n
        <5>1. h[k] = f[k] /\ f[k] \in 1..l /\ h[j] = l + 1
          BY <1>11, <2>3, <4>3
        <5> QED BY <1>7, <4>3, <5>1
      <4>4. CASE j = n + 1 /\ k = n + 1
        BY <1>7, <2>3, <4>4
      <4> QED BY <2>3, <4>1, <4>2, <4>3, <4>4
    <3> QED BY <3>2, <3>3, <3>4 DEF ListsPlaces
  <2> HIDE DEF h
  <2>5. \A k \in 1..n + 1 : h[k] = g[k]
    <3>1. n + 1 \in Nat
      BY <1>7
    <3>2. ListsPlaces(h, n + 1, Q) /\ ListsPlaces(g, n + 1, Q) /\ \A i \in Q : i \in Nat
      BY <1>6, <2>1, <2>4
    <3>3. PICK c : c = n + 1
      OBVIOUS
    <3>4. c \in Nat /\ ListsPlaces(h, c, Q) /\ ListsPlaces(g, c, Q)
      BY <3>1, <3>2, <3>3
    <3>5. \A k \in 1..c : h[k] = g[k]
      BY <3>2, <3>4, OneListing
    <3> QED BY <3>3, <3>5
  <2>6. PICK a : a = Append(KeptAt(s, P), m)
    OBVIOUS
  <2>7. /\ a \in Seq(Message) /\ Len(a) = n + 1 /\ a[n + 1] = m
        /\ \A k \in 1..n : a[k] = KeptAt(s, P)[k]
    BY <1>10, <2>6, AppendProperties
  <2>8. \A k \in 1..n + 1 : KeptAt(t, Q)[k] = a[k]
    <3> SUFFICES ASSUME NEW k \in 1..n + 1 PROVE KeptAt(t, Q)[k] = a[k]
      OBVIOUS
    <3>1. KeptAt(t, Q)[k] = t[h[k]]
      BY <2>1, <2>5
    <3>2. CASE k \in 1..n
      <4>1. h[k] = f[k] /\ t[f[k]] = s[f[k]] /\ KeptAt(s, P)[k] = s[f[k]]
        BY <1>4, <1>9, <1>11, <2>3, <3>2
      <4> QED BY <2>7, <3>1, <3>2, <4>1
    <3>3. CASE k = n + 1
      BY <1>4, <2>3, <2>7, <3>1, <3>3
    <3> QED BY <2>3, <3>2, <3>3
  <2> QED BY <2>2, <2>6, <2>7, <2>8, SeqEqual
<1> QED BY <1>1, <1>2, <1>12, <1>13 DEF Q

\* What is visible of an array with a message more.
LEMMA VisibleAppend ==
    ASSUME NEW s \in Seq(Message), NEW m \in Message
    PROVE  Visible(Append(s, m)) = IF m.role = "tool" THEN Visible(s) ELSE Append(Visible(s), m)
<1> DEFINE P == {i \in DOMAIN s : s[i].role # "tool"}
<1>1. PICK t : t = Append(s, m)
  OBVIOUS
<1>2. PICK l \in Nat : l = Len(s)
  BY LenProperties
<1>3. /\ DOMAIN s = 1..l /\ t \in Seq(Message) /\ Len(t) = l + 1
      /\ t[l + 1] = m /\ \A i \in 1..l : t[i] = s[i]
  BY <1>1, <1>2, AppendIs, LenProperties
<1>4. DOMAIN t = 1..l + 1
  BY <1>3, LenProperties
<1> DEFINE Q == {i \in DOMAIN t : t[i].role # "tool"}
<1>5. Q = IF m.role = "tool" THEN P ELSE P \cup {l + 1}
  <2>1. \A i : i \in 1..l + 1 <=> i \in 1..l \/ i = l + 1
    BY <1>2
  <2>2. l + 1 \notin 1..l
    BY <1>2
  <2>3. \A i : i \in Q <=> (i \in P \/ (i = l + 1 /\ m.role # "tool"))
    BY <1>3, <1>4, <2>1, <2>2
  <2> HIDE DEF P, Q
  <2> QED BY <2>3
<1>6. Visible(s) = KeptAt(s, P) /\ Visible(t) = KeptAt(t, Q)
  BY DEF Visible
<1>7. P \in SUBSET DOMAIN s
  OBVIOUS
<1> HIDE DEF P, Q
<1>8. KeptAt(t, P) = KeptAt(s, P) /\ KeptAt(t, P \cup {l + 1}) = Append(KeptAt(s, P), m)
  BY <1>1, <1>2, <1>7, KeptAppend
<1> QED BY <1>1, <1>5, <1>6, <1>8

\* The ids of an array of messages.
IdsOf(s) == [i \in DOMAIN s |-> s[i].id]

\* The ids of an array, and of one with a message more.
LEMMA IdsOfIs ==
    /\ IdsOf(<<>>) = <<>>
    /\ \A s \in Seq(Message) : IdsOf(s) \in Seq(Nat)
    /\ \A s \in Seq(Message), m \in Message : IdsOf(Append(s, m)) = Append(IdsOf(s), m.id)
<1>1. \A m \in Message : m.id \in Nat
  BY DEF Message
<1>2. ASSUME NEW s \in Seq(Message)
      PROVE  /\ IdsOf(s) \in Seq(Nat) /\ Len(IdsOf(s)) = Len(s)
             /\ \A i \in 1..Len(s) : IdsOf(s)[i] = s[i].id
  <2>1. Len(s) \in Nat /\ DOMAIN s = 1..Len(s) /\ \A i \in 1..Len(s) : s[i].id \in Nat
    BY <1>1, LenProperties, ElementOfSeq
  <2>2. IdsOf(s) \in [1..Len(s) -> Nat]
    BY <2>1 DEF IdsOf
  <2>3. IdsOf(s) \in Seq(Nat)
    BY <2>1, <2>2
  <2>4. \A i \in 1..Len(s) : IdsOf(s)[i] = s[i].id
    BY <2>1 DEF IdsOf
  <2>5. DOMAIN IdsOf(s) = 1..Len(s)
    BY <2>1 DEF IdsOf
  <2>6. Len(IdsOf(s)) = Len(s)
    <3>1. PICK c : c = IdsOf(s)
      OBVIOUS
    <3>2. PICK l \in Nat : l = Len(s)
      BY <2>1
    <3>3. c \in Seq(Nat) /\ DOMAIN c = 1..l
      BY <2>3, <2>5, <3>1, <3>2
    <3>4. Len(c) \in Nat /\ DOMAIN c = 1..Len(c)
      BY <3>3, LenProperties
    <3>5. Len(c) = l
      BY <3>3, <3>4
    <3> QED BY <3>1, <3>2, <3>5
  <2> QED BY <2>3, <2>4, <2>6
<1>3. ASSUME NEW s \in Seq(Message), NEW m \in Message
      PROVE  IdsOf(Append(s, m)) = Append(IdsOf(s), m.id)
  <2>1. PICK t : t = Append(s, m)
    OBVIOUS
  <2>2. PICK l \in Nat : l = Len(s)
    BY LenProperties
  <2>3. /\ DOMAIN s = 1..l /\ t \in Seq(Message) /\ Len(t) = l + 1
        /\ t[l + 1] = m /\ \A i \in 1..l : t[i] = s[i]
    BY <2>1, <2>2, AppendIs, LenProperties
  <2>4. PICK a : a = Append(IdsOf(s), m.id)
    OBVIOUS
  <2>5. /\ IdsOf(s) \in Seq(Nat) /\ Len(IdsOf(s)) = l /\ m.id \in Nat
        /\ \A i \in 1..l : IdsOf(s)[i] = s[i].id
    BY <1>1, <1>2, <2>2
  <2>6. /\ a \in Seq(Nat) /\ Len(a) = l + 1 /\ a[l + 1] = m.id
        /\ \A i \in 1..l : a[i] = s[i].id
    BY <2>4, <2>5, AppendProperties
  <2>7. /\ IdsOf(t) \in Seq(Nat) /\ Len(IdsOf(t)) = l + 1
        /\ \A i \in 1..l + 1 : IdsOf(t)[i] = t[i].id
    BY <1>2, <2>3
  <2>8. \A i \in 1..l + 1 : i \in 1..l \/ i = l + 1
    BY <2>2
  <2>9. \A i \in 1..l + 1 : IdsOf(t)[i] = a[i]
    BY <2>3, <2>6, <2>7, <2>8
  <2> QED BY <2>1, <2>4, <2>6, <2>7, <2>9, SeqEqual
<1>4. IdsOf(<<>>) = <<>>
  <2>1. IdsOf(<<>>) \in Seq(Nat) /\ Len(IdsOf(<<>>)) = 0
    BY <1>2, EmptySeq
  <2> QED BY <2>1, EmptySeq
<1> QED BY <1>2, <1>3, <1>4

\* What is visible of the chain of a message, as ids.
Talk(map, x) == IdsOf(Visible(Chain(map, x)))

\* Talk goes down the chain and leaves tool messages out.
LEMMA TalkIs ==
    ASSUME NEW map, Tree(map)
    PROVE  \A x \in Nat :
             /\ Talk(map, x) \in Seq(Nat)
             /\ x \notin Ids(map) => Talk(map, x) = <<>>
             /\ x \in Ids(map) =>
                  Talk(map, x) = IF Get(map, x).role = "tool" THEN Talk(map, ParentOf(map, x))
                                 ELSE Append(Talk(map, ParentOf(map, x)), x)
<1> SUFFICES ASSUME NEW x \in Nat
             PROVE  /\ Talk(map, x) \in Seq(Nat)
                    /\ x \notin Ids(map) => Talk(map, x) = <<>>
                    /\ x \in Ids(map) =>
                         Talk(map, x) = IF Get(map, x).role = "tool" THEN Talk(map, ParentOf(map, x))
                                        ELSE Append(Talk(map, ParentOf(map, x)), x)
  OBVIOUS
<1>1. \A s \in Seq(Message) : Visible(s) \in Seq(Message)
  <2> SUFFICES ASSUME NEW s \in Seq(Message) PROVE Visible(s) \in Seq(Message)
    OBVIOUS
  <2> DEFINE P == {i \in DOMAIN s : s[i].role # "tool"}
  <2>1. P \in SUBSET DOMAIN s /\ Visible(s) = KeptAt(s, P)
    BY DEF Visible
  <2> HIDE DEF P
  <2> QED BY <2>1, KeptIs
<1>2. Talk(map, x) \in Seq(Nat)
  BY <1>1, ChainStep, IdsOfIs DEF Talk
<1>3. ASSUME x \notin Ids(map) PROVE Talk(map, x) = <<>>
  <2>1. Chain(map, x) = <<>>
    BY <1>3, ChainStep
  <2>2. Visible(<<>>) = <<>>
    <3>1. <<>> \in Seq(Message) /\ DOMAIN <<>> = {}
      BY EmptySeq
    <3>2. Visible(<<>>) = KeptAt(<<>>, {})
      BY <3>1 DEF Visible
    <3>3. Len(<<>>) = 0 /\ {} \in SUBSET (1..Len(<<>>))
      BY EmptySeq
    <3>4. KeptAt(<<>>, {}) \in Seq(Message) /\ Len(KeptAt(<<>>, {})) = Cardinality({})
      BY <3>1, <3>3, KeptLists
    <3>5. Cardinality({}) = 0
      BY FS_EmptySet
    <3> QED BY <3>2, <3>4, <3>5, EmptySeq
  <2> QED BY <2>1, <2>2, IdsOfIs DEF Talk
<1>4. ASSUME x \in Ids(map)
      PROVE  Talk(map, x) = IF Get(map, x).role = "tool" THEN Talk(map, ParentOf(map, x))
                            ELSE Append(Talk(map, ParentOf(map, x)), x)
  <2>1. /\ Get(map, x) \in Message /\ Get(map, x).id = x /\ ParentOf(map, x) \in Nat
    BY <1>4, GetIs DEF ParentOf
  <2>2. PICK c : c = Chain(map, ParentOf(map, x))
    OBVIOUS
  <2>3. c \in Seq(Message) /\ Chain(map, x) = Append(c, Get(map, x))
    BY <1>4, <2>1, <2>2, ChainStep
  <2>4. Visible(Chain(map, x)) = IF Get(map, x).role = "tool" THEN Visible(c)
                                 ELSE Append(Visible(c), Get(map, x))
    BY <2>1, <2>3, VisibleAppend
  <2>5. IdsOf(Append(Visible(c), Get(map, x))) = Append(IdsOf(Visible(c)), x)
    BY <1>1, <2>1, <2>3, IdsOfIs
  <2> QED BY <2>2, <2>4, <2>5 DEF Talk
<1> QED BY <1>2, <1>3, <1>4

-----------------------------------------------------------------------------
(* A sequence at the end of another.                                        *)

Ends(s, t) ==
    /\ Len(s) <= Len(t)
    /\ \A i \in 1..Len(s) : s[i] = t[Len(t) - Len(s) + i]

\* An end stays one when both sequences get the same element.
LEMMA EndsIs ==
    /\ \A t \in Seq(Nat) : Ends(<<>>, t) /\ Ends(t, t)
    /\ \A s, t \in Seq(Nat), a \in Nat : Ends(s, t) => Ends(Append(s, a), Append(t, a))
<1>1. ASSUME NEW t \in Seq(Nat) PROVE Ends(<<>>, t) /\ Ends(t, t)
  <2>1. Len(t) \in Nat /\ Len(<<>>) = 0
    BY LenProperties, EmptySeq
  <2> QED BY <2>1 DEF Ends
<1>2. ASSUME NEW s \in Seq(Nat), NEW t \in Seq(Nat), NEW a \in Nat, Ends(s, t)
      PROVE  Ends(Append(s, a), Append(t, a))
  <2>1. PICK n \in Nat, m \in Nat : n = Len(s) /\ m = Len(t)
    BY LenProperties
  <2>2. n <= m /\ \A i \in 1..n : s[i] = t[m - n + i]
    BY <1>2, <2>1 DEF Ends
  <2>3. PICK u, v : u = Append(s, a) /\ v = Append(t, a)
    OBVIOUS
  <2>4. /\ Len(u) = n + 1 /\ u[n + 1] = a /\ \A i \in 1..n : u[i] = s[i]
        /\ Len(v) = m + 1 /\ v[m + 1] = a /\ \A i \in 1..m : v[i] = t[i]
    BY <2>1, <2>3, AppendProperties
  <2>5. \A i \in 1..n + 1 : u[i] = v[(m + 1) - (n + 1) + i]
    <3> SUFFICES ASSUME NEW i \in 1..n + 1 PROVE u[i] = v[(m + 1) - (n + 1) + i]
      OBVIOUS
    <3>1. CASE i = n + 1
      <4>1. (m + 1) - (n + 1) + i = m + 1
        BY <2>1, <3>1
      <4> QED BY <2>4, <3>1, <4>1
    <3>2. CASE i # n + 1
      <4>1. i \in 1..n /\ (m + 1) - (n + 1) + i = m - n + i /\ m - n + i \in 1..m
        BY <2>1, <2>2, <3>2
      <4> QED BY <2>2, <2>4, <4>1
    <3> QED BY <3>1, <3>2
  <2>6. n + 1 <= m + 1
    BY <2>1, <2>2
  <2> QED BY <2>3, <2>4, <2>5, <2>6 DEF Ends
<1> QED BY <1>1, <1>2

\* An end is a suffix.
LEMMA EndsSuffix ==
    ASSUME NEW s \in Seq(Nat), NEW t \in Seq(Nat), Ends(s, t)
    PROVE  IsSuffix(s, t)
<1>1. PICK n \in Nat, m \in Nat : n = Len(s) /\ m = Len(t)
  BY LenProperties
<1>2. n <= m /\ \A i \in 1..n : s[i] = t[m - n + i]
  BY <1>1 DEF Ends
<1>3. PICK u, v : u = Reverse(s) /\ v = Reverse(t)
  OBVIOUS
<1>4. u = [i \in 1..n |-> s[n - i + 1]] /\ v = [i \in 1..m |-> t[m - i + 1]]
  BY <1>1, <1>3 DEF Reverse
<1>5. (\A i \in 1..n : s[i] \in Nat) /\ (\A i \in 1..m : t[i] \in Nat)
  BY <1>1, ElementOfSeq
<1>6. u \in Seq(Nat) /\ v \in Seq(Nat)
  <2>1. (\A i \in 1..n : s[n - i + 1] \in Nat) /\ (\A i \in 1..m : t[m - i + 1] \in Nat)
    <3>1. (\A i \in 1..n : n - i + 1 \in 1..n) /\ (\A i \in 1..m : m - i + 1 \in 1..m)
      BY <1>1
    <3> QED BY <1>5, <3>1
  <2>2. u \in [1..n -> Nat] /\ v \in [1..m -> Nat]
    BY <1>4, <2>1
  <2>3. \A k \in Nat : \A f \in [1..k -> Nat] : f \in Seq(Nat)
    OBVIOUS
  <2> QED BY <2>2, <2>3
<1>7. /\ Len(u) = n /\ \A i \in 1..n : u[i] = s[n - i + 1]
      /\ Len(v) = m /\ \A i \in 1..m : v[i] = t[m - i + 1]
  <2>1. /\ DOMAIN u = 1..n /\ DOMAIN v = 1..m
        /\ Len(u) \in Nat /\ DOMAIN u = 1..Len(u) /\ Len(v) \in Nat /\ DOMAIN v = 1..Len(v)
    BY <1>4, <1>6, LenProperties
  <2>2. Len(u) = n /\ Len(v) = m
    BY <2>1
  <2>3. (\A i \in 1..n : u[i] = s[n - i + 1]) /\ (\A i \in 1..m : v[i] = t[m - i + 1])
    BY <1>4
  <2> QED BY <2>2, <2>3
<1>8. \A i \in 1..n : u[i] = v[i]
  <2> SUFFICES ASSUME NEW i \in 1..n PROVE u[i] = v[i]
    OBVIOUS
  <2>1. i \in 1..m /\ n - i + 1 \in 1..n /\ m - n + (n - i + 1) = m - i + 1
    BY <1>1, <1>2
  <2>2. u[i] = s[n - i + 1] /\ v[i] = t[m - i + 1]
    BY <1>7, <2>1
  <2>3. s[n - i + 1] = t[m - n + (n - i + 1)]
    BY <1>2, <2>1
  <2> QED BY <2>1, <2>2, <2>3
<1>9. SubSeq(u, 1, n) = SubSeq(v, 1, n)
  <2>1. SubSeq(u, 1, n) = [i \in 1..n |-> u[i]] /\ SubSeq(v, 1, n) = [i \in 1..n |-> v[i]]
    BY <1>1, <1>2, <1>6, <1>7
  <2>2. [i \in 1..n |-> u[i]] = [i \in 1..n |-> v[i]]
    BY <1>8
  <2> QED BY <2>1, <2>2
<1>10. IsPrefix(u, v)
  BY <1>2, <1>7, <1>9 DEF IsPrefix
<1> QED BY <1>3, <1>10 DEF IsSuffix

\* The elements of a sequence with one more.
LEMMA RangeAppend ==
    ASSUME NEW t \in Seq(Nat), NEW a \in Nat
    PROVE  Range(Append(t, a)) = Range(t) \cup {a}
<1>1. PICK n \in Nat : n = Len(t)
  BY LenProperties
<1>2. PICK u : u = Append(t, a)
  OBVIOUS
<1>3. u \in Seq(Nat) /\ Len(u) = n + 1 /\ u[n + 1] = a /\ \A i \in 1..n : u[i] = t[i]
  BY <1>1, <1>2, AppendProperties
<1>4. DOMAIN u = 1..n + 1 /\ DOMAIN t = 1..n
  BY <1>1, <1>3, LenProperties
<1>5. \A i : i \in 1..n + 1 <=> i \in 1..n \/ i = n + 1
  BY <1>1
<1>6. Range(u) = Range(t) \cup {a}
  BY <1>3, <1>4, <1>5 DEF Range
<1> QED BY <1>2, <1>6

-----------------------------------------------------------------------------
(* The context and the page.                                                *)

\* What is visible of the chain of x on the canister ends what is visible of it
\* on the client, and is the same if the canister still has all of that.
EndsAlike(x) ==
    /\ Ends(Talk(there, x), Talk(here, x))
    /\ Range(Talk(here, x)) \subseteq Ids(there) => Talk(there, x) = Talk(here, x)

\* A message put on two such chains.
LEMMA AlikeGoesOn ==
    ASSUME Tree(there), Tree(here), NEW x \in Nat, NEW a \in Nat, NEW b \in Nat,
           Talk(there, x) = Append(Talk(there, a), x), Talk(here, x) = Append(Talk(here, b), x),
           Ends(Talk(there, a), Talk(here, b)),
           Range(Talk(here, b)) \subseteq Ids(there) => Talk(there, a) = Talk(here, b)
    PROVE  EndsAlike(x)
<1>1. Talk(there, a) \in Seq(Nat) /\ Talk(here, b) \in Seq(Nat)
  BY TalkIs
<1>2. Ends(Talk(there, x), Talk(here, x))
  BY <1>1, EndsIs
<1>3. Range(Talk(here, x)) = Range(Talk(here, b)) \cup {x}
  BY <1>1, RangeAppend
<1> QED BY <1>2, <1>3 DEF EndsAlike

\* By induction over ids: a tool message that only the canister has, and a message
\* that only the client has, make the only differences between two chains.
LEMMA TalkEnds ==
    ASSUME TreesSound
    PROVE  \A x \in Ids(there) \cap Ids(here) : EndsAlike(x)
<1>1. /\ Tree(there) /\ Tree(here)
      /\ \A x \in Ids(there) \cup Ids(here) : x \in Nat
      /\ \A m \in Range(there) \cup Range(here) : m \in Message /\ m.id \in Nat /\ m.parent \in Nat /\ m.parent < m.id
      /\ \A x : x \in Ids(there) <=> \E m \in Range(there) : m.id = x
      /\ \A x : x \in Ids(here) <=> \E m \in Range(here) : m.id = x
  BY TreesAre
<1>2. /\ \A x \in Ids(there) : Get(there, x) \in Range(there) /\ Get(there, x).id = x
                               /\ ParentOf(there, x) = Get(there, x).parent
      /\ \A x \in Ids(here) : Get(here, x) \in Range(here) /\ Get(here, x).id = x
                               /\ ParentOf(here, x) = Get(here, x).parent
      /\ \A m \in Range(there) : Get(there, m.id) = m
      /\ \A m \in Range(here) : Get(here, m.id) = m
  BY <1>1, GetIs DEF ParentOf
<1>3. /\ \A m \in Range(there), o \in Range(here) : m.id = o.id => m.role = o.role
      /\ \A m \in Range(there) : m.role # "tool" =>
           \E o \in Range(here) : o.id = m.id /\ HangsAlike(Range(there), Range(here), m, o)
      /\ \A o \in Range(here) : o.role = "tool" => o \in Range(there)
      /\ \A t \in Range(there) : t.role = "tool" =>
           \E m \in Range(there) : m.id = t.parent /\ m.role = "assistant"
  BY DEF TreesSound, TreesMatch
<1>4. /\ \A x \in Nat : Talk(there, x) \in Seq(Nat) /\ Talk(here, x) \in Seq(Nat)
      /\ \A x \in Nat : x \notin Ids(there) => Talk(there, x) = <<>>
      /\ \A x \in Ids(there) : Talk(there, x) =
            IF Get(there, x).role = "tool" THEN Talk(there, ParentOf(there, x))
            ELSE Append(Talk(there, ParentOf(there, x)), x)
      /\ \A x \in Nat : x \notin Ids(here) => Talk(here, x) = <<>>
      /\ \A x \in Ids(here) : Talk(here, x) =
            IF Get(here, x).role = "tool" THEN Talk(here, ParentOf(here, x))
            ELSE Append(Talk(here, ParentOf(here, x)), x)
  BY <1>1, TalkIs
\* A message of the canister that is not a tool's is in the Map.
<1>5. \A m \in Range(there) : m.role # "tool" => m.id \in Ids(here)
  BY <1>1, <1>3
<1> DEFINE Good == {x \in Nat : x \in Ids(there) \cap Ids(here) => EndsAlike(x)}
<1>6. ASSUME NEW x \in Nat, \A y \in Nat : y < x => y \in Good
      PROVE  x \in Good
  <2> SUFFICES ASSUME x \in Ids(there), x \in Ids(here) PROVE EndsAlike(x)
    OBVIOUS
  <2>1. PICK m, o : m = Get(there, x) /\ o = Get(here, x)
    OBVIOUS
  <2>2. /\ m \in Range(there) /\ m.id = x /\ ParentOf(there, x) = m.parent
        /\ o \in Range(here) /\ o.id = x /\ ParentOf(here, x) = o.parent
        /\ m.role = o.role
        /\ m.parent \in Nat /\ m.parent < x /\ o.parent \in Nat /\ o.parent < x
    BY <1>1, <1>2, <1>3, <2>1
  <2>3. /\ Talk(there, x) = IF m.role = "tool" THEN Talk(there, m.parent)
                            ELSE Append(Talk(there, m.parent), x)
        /\ Talk(here, x) = IF m.role = "tool" THEN Talk(here, o.parent)
                           ELSE Append(Talk(here, o.parent), x)
    BY <1>4, <2>1, <2>2
  <2>4. \A y \in Nat : y < x /\ y \in Ids(there) /\ y \in Ids(here) =>
          /\ Ends(Talk(there, y), Talk(here, y))
          /\ Range(Talk(here, y)) \subseteq Ids(there) => Talk(there, y) = Talk(here, y)
    BY <1>6 DEF EndsAlike
  <2>5. CASE m.role = "tool"
    <3>1. m = o
      BY <1>2, <1>3, <2>2, <2>5
    <3>2. m.parent \in Ids(there) /\ m.parent \in Ids(here)
      BY <1>1, <1>3, <1>5, <2>2, <2>5
    <3>3. EndsAlike(m.parent)
      BY <2>2, <2>4, <3>2 DEF EndsAlike
    <3> QED BY <2>3, <2>5, <3>1, <3>3 DEF EndsAlike
  <2>6. CASE m.role # "tool"
    <3>1. HangsAlike(Range(there), Range(here), m, o)
      <4>1. PICK n \in Range(here) : n.id = m.id /\ HangsAlike(Range(there), Range(here), m, n)
        BY <1>3, <2>2, <2>6
      <4>2. n = o
        BY <1>2, <2>1, <2>2, <4>1
      <4> QED BY <4>1, <4>2
    <3>2. CASE /\ m.parent = o.parent
               /\ \A t \in Range(there) : t.id = m.parent /\ t.role = "tool" => t \in Range(here)
      <4>1. PICK p \in Nat : p = m.parent /\ p = o.parent /\ p < x
        BY <2>2, <3>2
      <4>2. Talk(there, x) = Append(Talk(there, p), x) /\ Talk(here, x) = Append(Talk(here, p), x)
        BY <2>3, <2>6, <4>1
      <4>3. CASE p \in Ids(there)
        <5>1. p \in Ids(here)
          <6>1. PICK t \in Range(there) : t.id = p
            BY <1>1, <4>3
          <6>2. CASE t.role = "tool"
            BY <1>1, <3>2, <4>1, <6>1, <6>2
          <6>3. CASE t.role # "tool"
            BY <1>5, <6>1, <6>3
          <6> QED BY <6>2, <6>3
        <5>2. /\ Ends(Talk(there, p), Talk(here, p))
              /\ Range(Talk(here, p)) \subseteq Ids(there) => Talk(there, p) = Talk(here, p)
          BY <2>4, <4>1, <4>3, <5>1
        <5> QED BY <1>1, <4>2, <5>2, AlikeGoesOn
      <4>4. CASE p \notin Ids(there)
        <5>1. Talk(there, p) = <<>> /\ Ends(<<>>, Talk(here, p))
          BY <1>4, <4>4, EndsIs
        <5>2. Range(Talk(here, p)) \subseteq Ids(there) => Talk(here, p) = <<>>
          <6>1. CASE p \notin Ids(here)
            BY <1>4, <6>1
          <6>2. CASE p \in Ids(here)
            <7>1. Get(here, p) \in Range(here) /\ Get(here, p).id = p
              BY <1>2, <6>2
            <7>2. Get(here, p).role # "tool"
              BY <1>1, <1>3, <4>4, <7>1
            <7>3. Talk(here, p) = Append(Talk(here, ParentOf(here, p)), p)
              BY <1>4, <6>2, <7>2
            <7>4. ParentOf(here, p) \in Nat
              BY <1>1, <1>2, <6>2
            <7>5. Talk(here, ParentOf(here, p)) \in Seq(Nat)
              BY <1>4, <7>4
            <7>6. p \in Range(Talk(here, p))
              BY <7>3, <7>5, RangeAppend
            <7> QED BY <4>4, <7>6
          <6> QED BY <6>1, <6>2
        <5>3. Ends(Talk(there, p), Talk(here, p))
          BY <5>1
        <5>4. Range(Talk(here, p)) \subseteq Ids(there) => Talk(there, p) = Talk(here, p)
          BY <5>1, <5>2
        <5> QED BY <1>1, <4>2, <5>3, <5>4, AlikeGoesOn
      <4> QED BY <4>3, <4>4
    <3>3. CASE \E t \in Range(there) : t.id = m.parent /\ t.role = "tool" /\ t.parent = o.parent
      <4>1. PICK t \in Range(there) : t.id = m.parent /\ t.role = "tool" /\ t.parent = o.parent
        BY <3>3
      <4>2. PICK p \in Nat, a \in Nat : p = m.parent /\ a = o.parent /\ a < x
        BY <2>2
      <4>3. p \in Ids(there) /\ Get(there, p) = t /\ ParentOf(there, p) = a
        BY <1>1, <1>2, <4>1, <4>2
      <4>4. Talk(there, p) = Talk(there, a)
        BY <1>4, <4>1, <4>3
      <4>5. a \in Ids(there) /\ a \in Ids(here)
        BY <1>1, <1>3, <1>5, <4>1, <4>2
      <4>6. Talk(there, x) = Append(Talk(there, a), x) /\ Talk(here, x) = Append(Talk(here, a), x)
        BY <2>3, <2>6, <4>2, <4>4
      <4>7. /\ Ends(Talk(there, a), Talk(here, a))
            /\ Range(Talk(here, a)) \subseteq Ids(there) => Talk(there, a) = Talk(here, a)
        BY <2>4, <4>2, <4>5
      <4> QED BY <1>1, <4>6, <4>7, AlikeGoesOn
    <3> QED BY <3>1, <3>2, <3>3 DEF HangsAlike
  <2> QED BY <2>5, <2>6
<1>7. \A x \in Nat : x \in Good
  <2> HIDE DEF Good
  <2> QED BY <1>6, AllNumbers
<1> QED BY <1>1, <1>7

\* The newest placeholder has no children, so the page shows its chain.
LEMMA SoundShows == TreesSound => ContextIsShown
<1> SUFFICES ASSUME TreesSound, leaf = newest.job PROVE ContextIsShown
  BY DEF ContextIsShown
<1>1. Tree(there) /\ Tree(here) /\ leaf \in Ids(here) /\ leaf \in Nat /\ leaf = newest.last
  BY TreesAre DEF TreesSound
<1>2. leaf \in Ids(there)
  BY TreesAre DEF TreesSound
<1>3. Children(here, leaf) = <<>>
  <2>1. \A m \in Range(here) : m.parent # leaf
    <3>1. \A m \in Range(here) : m.id \in Nat /\ m.parent \in Nat /\ m.parent < m.id /\ m.id <= newest.last
      BY TreesAre
    <3>2. newest.last \in Nat
      BY DEF TreesSound
    <3> QED BY <1>1, <3>1, <3>2
  <2>2. PICK c : c = Children(here, leaf)
    OBVIOUS
  <2>3. c \in Seq(Message) /\ Range(c) = {}
    BY <1>1, <2>1, <2>2, ChildrenAre
  <2>4. Len(c) \in Nat /\ DOMAIN c = 1..Len(c) /\ \A i \in DOMAIN c : c[i] \in Range(c)
    BY <2>3, ArrayIs
  <2>5. Len(c) = 0
    <3>1. PICK n \in Nat : n = Len(c)
      BY <2>4
    <3>2. \A i \in 1..n : FALSE
      BY <2>3, <2>4, <3>1
    <3>3. n = 0
      BY <3>2
    <3> QED BY <3>1, <3>3
  <2> QED BY <2>2, <2>3, <2>5, EmptySeq
<1>4. Shown(here, leaf) = Chain(here, leaf)
  BY <1>1, <1>3, ShownIs
<1>5. EndsAlike(leaf)
  BY <1>1, <1>2, TalkEnds
<1>6. Talk(there, leaf) \in Seq(Nat) /\ Talk(here, leaf) \in Seq(Nat)
  BY <1>1, TalkIs
<1>7. /\ IsSuffix(Talk(there, leaf), Talk(here, leaf))
      /\ Range(Talk(here, leaf)) \subseteq Ids(there) => Talk(there, leaf) = Talk(here, leaf)
  BY <1>5, <1>6, EndsSuffix DEF EndsAlike
<1> QED BY <1>4, <1>7 DEF ContextIsShown, Talk, IdsOf

\* While the newest generation runs, the chain that claim_job hands to a node is
\* the end of the branch on the page, and all of it unless an edit replaced a
\* message of that branch.
THEOREM ContextAlwaysShown == BranchSpec => []ContextIsShown
<1>1. TreesSound => ContextIsShown
  BY SoundShows
<1> QED BY <1>1, TreesAlwaysSound, PTL
=============================================================================
