--------------------------- MODULE SequenceLemmas ---------------------------
(***************************************************************************)
(* Lemmas about numbers and lists that the proofs of several components    *)
(* use.  The library's induction theorems take an operator, which the      *)
(* provers cannot instantiate; here what holds is a set (of numbers, of    *)
(* sequences), and a set that has the first and with each the next has     *)
(* them all (FromBelow, EverySeq).  A recursive function is one of the     *)
(* functions that satisfy its equation, when there is one (WalkThere).     *)
(***************************************************************************)
EXTENDS Lists, FiniteSetTheorems, SequenceTheorems, WellFoundedInduction, TLAPS

-----------------------------------------------------------------------------
(* The least number of a set, and functions given step by step.            *)

LEMMA LeastOf ==
    ASSUME NEW S \in SUBSET Nat, S # {}
    PROVE  \E x \in S : \A y \in S : x <= y
  <1>1. PICK x \in S : \A y \in S : ~ (<<y, x>> \in OpToRel(<, Nat))
    BY NatLessThanWellFounded, WFMin
  <1>2. \A y \in S : ~(y < x)
    BY <1>1 DEF OpToRel
  <1>3. x \in Nat /\ \A y \in S : y \in Nat
    BY <1>1
  <1>4. \A y \in S : x <= y
    BY <1>2, <1>3
  <1>. QED
    BY <1>4

LEMMA LeastOfMany ==
    ASSUME NEW S \in SUBSET Nat, S # {}
    PROVE  (CHOOSE i \in S : \A j \in S : i <= j) \in S
  BY LeastOf

\* A value for each number from the one before it: the function there is.
Walked(C, f, first, step, n) ==
    /\ f = [m \in 0..n |-> f[m]] /\ f[0] = first
    /\ \A m \in 0..n : f[m] \in C
    /\ \A m \in 1..n : f[m] = step[m][f[m - 1]]

Extended(f, n, v) == [m \in 0..n |-> IF m = n THEN v ELSE f[m]]

LEMMA WalkThere ==
    ASSUME NEW C, NEW last \in Nat, NEW first \in C, NEW step \in [1..last -> [C -> C]]
    PROVE  \E f : Walked(C, f, first, step, last)
  <1> DEFINE S == {n \in 0..last : ~\E f : Walked(C, f, first, step, n)}
  <1>1. SUFFICES ASSUME ~\E f : Walked(C, f, first, step, last) PROVE FALSE
    OBVIOUS
  <1>2. S # {}
    <2>1. last \in 0..last
      OBVIOUS
    <2>. QED
      BY <1>1, <2>1
  <1>3. PICK n \in S : \A m \in S : n <= m
    <2>1. S \in SUBSET Nat
      OBVIOUS
    <2> HIDE DEF S
    <2>. QED
      BY <1>2, <2>1, LeastOf
  <1>4. CASE n = 0
    <2>1. PICK f : f = [m \in 0..0 |-> first]
      OBVIOUS
    <2>2. Walked(C, f, first, step, 0)
      BY <2>1 DEF Walked
    <2>. QED
      BY <1>3, <1>4, <2>2
  <1>5. CASE n # 0
    <2>1. n \in 1..last /\ n - 1 \in 0..last /\ n - 1 \notin S
      BY <1>3, <1>5
    <2>2. PICK f : Walked(C, f, first, step, n - 1)
      BY <2>1
    <2>3. PICK v : v = step[n][f[n - 1]]
      OBVIOUS
    <2>4. PICK g : g = Extended(f, n, v)
      OBVIOUS
    <2>5. g = [m \in 0..n |-> g[m]] /\ g[n] = v /\ \A m \in 0..n - 1 : g[m] = f[m]
      BY <2>1, <2>4 DEF Extended
    <2>0. /\ n \in Nat /\ n >= 1 /\ 0 \in 0..n - 1 /\ \A m \in 0..n : m = n \/ m \in 0..n - 1
          /\ \A m \in 1..n : m - 1 \in 0..n - 1 /\ (m = n \/ m \in 1..n - 1) /\ (m # n => m \in 0..n - 1)
      <3> HIDE DEF S
      <3>1. n \in Nat /\ n >= 1 /\ 0 \in 0..n - 1
        BY <2>1
      <3>2. \A m \in 0..n : m = n \/ m \in 0..n - 1
        BY <3>1
      <3>3. \A m \in 1..n : m - 1 \in 0..n - 1 /\ (m = n \/ m \in 1..n - 1)
        BY <3>1
      <3>4. \A m \in 1..n : m # n => m \in 0..n - 1
        BY <3>1
      <3>. QED
        BY <3>1, <3>2, <3>3, <3>4
    <2>6. f[n - 1] \in C /\ v \in C
      BY <2>1, <2>2, <2>3 DEF Walked
    <2>7. g[0] = first /\ \A m \in 0..n : g[m] \in C
      BY <2>0, <2>1, <2>2, <2>5, <2>6 DEF Walked
    <2>8. ASSUME NEW m \in 1..n
          PROVE  g[m] = step[m][g[m - 1]]
      <3>1. g[m - 1] = f[m - 1]
        BY <2>0, <2>5
      <3>2. CASE m = n
        BY <2>3, <2>5, <3>1, <3>2
      <3>3. CASE m # n
        <4>1. m \in 1..n - 1 /\ m \in 0..n - 1
          BY <2>0, <3>3
        <4>2. g[m] = f[m] /\ f[m] = step[m][f[m - 1]]
          BY <2>1, <2>2, <2>5, <4>1 DEF Walked
        <4>. QED
          BY <3>1, <4>2
      <3>. QED
        BY <3>2, <3>3
    <2>9. Walked(C, g, first, step, n)
      BY <2>5, <2>7, <2>8 DEF Walked
    <2>. QED
      BY <1>3, <2>9
  <1>. QED
    BY <1>4, <1>5

-----------------------------------------------------------------------------
(* What Only keeps of a list.                                              *)

\* Whatever holds at 0, and at n + 1 when it holds at n, holds up to `last`:
\* the numbers where it does not have no least.
LEMMA FromBelow ==
    ASSUME NEW last \in Nat, NEW Good \in SUBSET (0..last), 0 \in Good,
           \A n \in 1..last : n - 1 \in Good => n \in Good
    PROVE  Good = 0..last
  <1>1. SUFFICES ASSUME (0..last) \ Good # {} PROVE FALSE
    OBVIOUS
  <1>2. PICK n \in (0..last) \ Good : \A m \in (0..last) \ Good : n <= m
    <2>1. (0..last) \ Good \in SUBSET Nat
      OBVIOUS
    <2>. QED
      BY <1>1, <2>1, LeastOf
  <1>3. n \in 1..last /\ n - 1 \in 0..last /\ ~(n <= n - 1)
    BY <1>2
  <1>. QED
    BY <1>2, <1>3

\* Whether an element is kept, and what is then kept of a list.
Keeps(S, kept, x) == IF x \in S THEN Append(kept, x) ELSE kept

LEMMA OnlyIs ==
    ASSUME NEW T, NEW list \in Seq(T), NEW S
    PROVE  \E f : /\ Only(list, S) = f[Len(list)] /\ f[0] = <<>>
                  /\ \A n \in 1..Len(list) : f[n] = Keeps(S, f[n - 1], list[n])
  <1> DEFINE N == Len(list)
             step == [n \in 1..N |-> [c \in Seq(T) |-> Keeps(S, c, list[n])]]
             Rec(g) == [n \in 0..N |-> IF n = 0 THEN <<>>
                                       ELSE IF list[n] \in S THEN Append(g[n - 1], list[n]) ELSE g[n - 1]]
  <1>1. N \in Nat /\ <<>> \in Seq(T) /\ \A n \in 1..N : list[n] \in T
    BY ElementOfSeq
  <1>2. \A n \in 1..N, c \in Seq(T) : step[n][c] = Keeps(S, c, list[n]) /\ Keeps(S, c, list[n]) \in Seq(T)
    BY <1>1 DEF Keeps
  <1>3. step \in [1..N -> [Seq(T) -> Seq(T)]]
    BY <1>2
  <1>4. PICK f : Walked(Seq(T), f, <<>>, step, N)
    <2> HIDE DEF step, N
    <2>. QED
      BY <1>1, <1>3, WalkThere
  <1>5. f = Rec(f)
    <2>1. ASSUME NEW n \in 0..N
          PROVE  f[n] = Rec(f)[n]
      <3>1. CASE n = 0
        BY <1>1, <1>4, <3>1 DEF Walked
      <3>2. CASE n # 0
        <4>1. n \in 1..N /\ n - 1 \in 0..N
          BY <1>1, <3>2
        <4>2. f[n] = step[n][f[n - 1]] /\ f[n - 1] \in Seq(T)
          BY <1>4, <4>1 DEF Walked
        <4>. QED
          BY <1>1, <1>2, <3>2, <4>1, <4>2 DEF Keeps
      <3>. QED
        BY <3>1, <3>2
    <2>2. f = [n \in 0..N |-> f[n]]
      BY <1>4 DEF Walked
    <2>. QED
      BY <2>1, <2>2
  <1>6. PICK g : g = CHOOSE p : p = Rec(p)
    OBVIOUS
  <1>7. Only(list, S) = g[N]
    BY <1>6 DEF Only
  <1>8. g = Rec(g)
    <2> HIDE DEF Rec
    <2>. QED
      BY <1>5, <1>6, Zenon
  <1>9. \A n \in 0..N : g[n] = IF n = 0 THEN <<>> ELSE IF list[n] \in S THEN Append(g[n - 1], list[n]) ELSE g[n - 1]
    <2>1. \A n \in 0..N : g[n] = Rec(g)[n]
      <3> HIDE DEF Rec
      <3>. QED
        BY <1>8, Zenon
    <2>. QED
      BY <2>1
  <1> HIDE DEF Rec
  <1>. QED
    BY <1>1, <1>7, <1>9 DEF Keeps

\* A set that has the empty sequence, and with a sequence each that is one
\* element longer, has them all.
LEMMA EverySeq ==
    ASSUME NEW T, NEW Good, <<>> \in Good,
           \A s \in Seq(T), e \in T : s \in Good => Append(s, e) \in Good
    PROVE  \A s \in Seq(T) : s \in Good
  <1> SUFFICES ASSUME NEW s \in Seq(T) PROVE s \in Good
    OBVIOUS
  <1> DEFINE G == {n \in 0..Len(s) : SubSeq(s, 1, n) \in Good}
  <1>1. Len(s) \in Nat /\ SubSeq(s, 1, Len(s)) = s
    BY SubSeqFull
  <1>2. 0 \in G
    <2>1. 0 \in 0..Len(s) /\ SubSeq(s, 1, 0) = <<>>
      BY <1>1, SubSeqEmpty
    <2>. QED
      BY <2>1, Zenon
  <1>3. ASSUME NEW n \in 1..Len(s), n - 1 \in G PROVE n \in G
    <2>1. SubSeq(s, 1, n - 1) \in Seq(T) /\ s[n] \in T
      BY <1>3, ElementOfSeq
    <2>2. SubSeq(s, 1, n) = Append(SubSeq(s, 1, n - 1), s[n])
      OBVIOUS
    <2>3. n \in 0..Len(s)
      BY <1>1
    <2>4. SubSeq(s, 1, n - 1) \in Good
      BY <1>3
    <2>. QED
      BY <2>1, <2>2, <2>3, <2>4, Zenon
  <1>4. G = 0..Len(s)
    <2>1. G \in SUBSET (0..Len(s))
      OBVIOUS
    <2> HIDE DEF G
    <2>. QED
      BY <1>1, <1>2, <1>3, <2>1, FromBelow
  <1>5. Len(s) \in G
    <2>1. Len(s) \in 0..Len(s)
      BY <1>1
    <2> HIDE DEF G
    <2>. QED
      BY <1>4, <2>1
  <1>. QED
    BY <1>1, <1>5, Zenon

LEMMA OnlyNothing == \A S : Only(<<>>, S) = <<>>
  <1> SUFFICES ASSUME NEW S PROVE Only(<<>>, S) = <<>>
    OBVIOUS
  <1>1. <<>> \in Seq({}) /\ Len(<<>>) = 0
    OBVIOUS
  <1>. QED
    BY <1>1, OnlyIs

LEMMA OnlyOneMore ==
    ASSUME NEW T, NEW list \in Seq(T), NEW x \in T, NEW S
    PROVE  Only(Append(list, x), S) = Keeps(S, Only(list, S), x)
  <1> DEFINE N == Len(list)
             more == Append(list, x)
  <1>1. /\ N \in Nat /\ more \in Seq(T) /\ Len(more) = N + 1 /\ more[N + 1] = x
        /\ \A n \in 1..N : more[n] = list[n]
    OBVIOUS
  <1>2. PICK f : /\ Only(list, S) = f[N] /\ f[0] = <<>>
                 /\ \A n \in 1..N : f[n] = Keeps(S, f[n - 1], list[n])
    BY OnlyIs
  <1>3. PICK g : /\ Only(more, S) = g[N + 1] /\ g[0] = <<>>
                 /\ \A n \in 1..N + 1 : g[n] = Keeps(S, g[n - 1], more[n])
    <2> HIDE DEF more
    <2>. QED
      BY <1>1, OnlyIs
  <1> HIDE DEF more, N
  <1>4. {n \in 0..N : f[n] = g[n]} = 0..N
    <2> DEFINE G == {n \in 0..N : f[n] = g[n]}
    <2>1. 0 \in G /\ G \in SUBSET (0..N)
      BY <1>1, <1>2, <1>3
    <2>2. ASSUME NEW n \in 1..N, n - 1 \in G PROVE n \in G
      <3>1. n \in 1..N + 1 /\ n \in 0..N /\ f[n - 1] = g[n - 1]
        BY <1>1, <2>2
      <3>. QED
        BY <1>1, <1>2, <1>3, <3>1
    <2> HIDE DEF G
    <2>3. G = 0..N
      BY <1>1, <2>1, <2>2, FromBelow
    <2>. QED
      BY <2>3 DEF G
  <1>5. f[N] = g[N] /\ N + 1 \in 1..N + 1 /\ (N + 1) - 1 = N
    <2>1. N \in 0..N
      BY <1>1
    <2>. QED
      BY <1>1, <1>4, <2>1
  <1>. QED
    BY <1>1, <1>2, <1>3, <1>5 DEF more

\* What is kept is of the list and of the set, and no longer than the list.
LEMMA OnlyType ==
    ASSUME NEW T, NEW list \in Seq(T), NEW S
    PROVE  Only(list, S) \in Seq(T \cap S) /\ Only(list, S) \in Seq(T) /\ Len(Only(list, S)) <= Len(list)
  <1> DEFINE G == {s \in Seq(T) : Only(s, S) \in Seq(T \cap S) /\ Len(Only(s, S)) <= Len(s)}
  <1>1. <<>> \in G
    <2>1. /\ <<>> \in Seq(T) /\ <<>> \in Seq(T \cap S) /\ Len(<<>>) <= Len(<<>>)
          /\ Only(<<>>, S) = <<>>
      BY OnlyNothing
    <2>. QED
      BY <2>1, Zenon
  <1>2. ASSUME NEW s \in Seq(T), NEW e \in T, s \in G PROVE Append(s, e) \in G
    <2>1. Append(s, e) \in Seq(T) /\ Len(Append(s, e)) = Len(s) + 1 /\ Len(s) \in Nat
      OBVIOUS
    <2>2. PICK k : k = Only(s, S)
      OBVIOUS
    <2>3. k \in Seq(T \cap S) /\ Len(k) <= Len(s) /\ Len(k) \in Nat
      BY <1>2, <2>2
    <2>4. Keeps(S, k, e) \in Seq(T \cap S) /\ Len(Keeps(S, k, e)) <= Len(s) + 1
      BY <2>1, <2>3 DEF Keeps
    <2>. QED
      BY <2>1, <2>2, <2>4, OnlyOneMore
  <1>3. list \in G
    <2> HIDE DEF G
    <2>. QED
      BY <1>1, <1>2, EverySeq
  <1>4. Seq(T \cap S) \subseteq Seq(T)
    BY SeqMonotonic
  <1>. QED
    BY <1>3, <1>4

\* Nothing of the set that is in the list is lost.
LEMMA OnlyHas ==
    ASSUME NEW T, NEW list \in Seq(T), NEW S, NEW n \in 1..Len(list), list[n] \in S
    PROVE  \E k \in 1..Len(Only(list, S)) : Only(list, S)[k] = list[n]
  <1> DEFINE Has(s, x) == \E k \in 1..Len(Only(s, S)) : Only(s, S)[k] = x
             G == {s \in Seq(T) : \A i \in 1..Len(s) : s[i] \in S => Has(s, s[i])}
  <1>1. <<>> \in G
    OBVIOUS
  <1>2. ASSUME NEW s \in Seq(T), NEW e \in T, s \in G PROVE Append(s, e) \in G
    <2>1. /\ Append(s, e) \in Seq(T) /\ Len(Append(s, e)) = Len(s) + 1 /\ Len(s) \in Nat
          /\ Append(s, e)[Len(s) + 1] = e /\ \A i \in 1..Len(s) : Append(s, e)[i] = s[i]
      OBVIOUS
    <2>2. PICK k : k = Only(s, S)
      OBVIOUS
    <2>3. k \in Seq(T) /\ Len(k) \in Nat
      <3>1. k \in Seq(T)
        BY <2>2, OnlyType, Zenon
      <3>. QED
        BY <3>1
    <2>4. Only(Append(s, e), S) = Keeps(S, k, e)
      BY <2>2, OnlyOneMore
    <2>5. \A x : (\E j \in 1..Len(k) : k[j] = x) => \E j \in 1..Len(Keeps(S, k, e)) : Keeps(S, k, e)[j] = x
      <3>1. CASE e \notin S
        BY <3>1 DEF Keeps
      <3>2. CASE e \in S
        <4>1. Keeps(S, k, e) = Append(k, e)
          BY <3>2 DEF Keeps
        <4>2. Len(Append(k, e)) = Len(k) + 1 /\ \A j \in 1..Len(k) : Append(k, e)[j] = k[j] /\ j \in 1..Len(k) + 1
          BY <2>3
        <4>. QED
          BY <4>1, <4>2
      <3>. QED
        BY <3>1, <3>2
    <2>6. e \in S => \E j \in 1..Len(Keeps(S, k, e)) : Keeps(S, k, e)[j] = e
      <3> SUFFICES ASSUME e \in S PROVE \E j \in 1..Len(Append(k, e)) : Append(k, e)[j] = e
        BY DEF Keeps
      <3>1. Len(Append(k, e)) = Len(k) + 1 /\ Append(k, e)[Len(k) + 1] = e /\ Len(k) + 1 \in 1..Len(k) + 1
        BY <2>3
      <3>. QED
        BY <3>1
    <2>7. ASSUME NEW i \in 1..Len(Append(s, e)), Append(s, e)[i] \in S
          PROVE  Has(Append(s, e), Append(s, e)[i])
      <3>1. CASE i = Len(s) + 1
        BY <2>1, <2>4, <2>6, <2>7, <3>1
      <3>2. CASE i # Len(s) + 1
        <4>1. i \in 1..Len(s) /\ Append(s, e)[i] = s[i]
          BY <2>1, <3>2
        <4>2. \E j \in 1..Len(k) : k[j] = s[i]
          BY <1>2, <2>2, <2>7, <4>1
        <4>. QED
          BY <2>4, <2>5, <4>1, <4>2
      <3>. QED
        BY <3>1, <3>2
    <2>. QED
      BY <2>1, <2>7
  <1>3. list \in G
    <2> HIDE DEF G
    <2>. QED
      BY <1>1, <1>2, EverySeq
  <1>. QED
    BY <1>3

\* Nothing is kept of a list that has nothing of the set.
LEMMA OnlyNone ==
    ASSUME NEW T, NEW list \in Seq(T), NEW S, \A n \in 1..Len(list) : list[n] \notin S
    PROVE  Only(list, S) = <<>>
  <1>1. list \in Seq(T \ S)
    <2>1. \A n \in 1..Len(list) : list[n] \in T \ S
      BY ElementOfSeq
    <2>. QED
      BY <2>1, LenProperties
  <1>2. Only(list, S) \in Seq((T \ S) \cap S) /\ (T \ S) \cap S = {}
    BY <1>1, OnlyType
  <1>. QED
    BY <1>2

LEMMA OnlyOfBoth ==
    ASSUME NEW T, NEW s \in Seq(T), NEW t \in Seq(T), NEW S
    PROVE  Only(s \o t, S) = Only(s, S) \o Only(t, S)
  <1> DEFINE G == {u \in Seq(T) : Only(s \o u, S) = Only(s, S) \o Only(u, S)}
  <1>1. <<>> \in G
    <2>1. s \o <<>> = s /\ Only(s, S) \o <<>> = Only(s, S) /\ <<>> \in Seq(T) /\ Only(<<>>, S) = <<>>
      BY OnlyType, OnlyNothing, ConcatEmptySeq
    <2>. QED
      BY <2>1, Zenon
  <1>2. ASSUME NEW u \in Seq(T), NEW e \in T, u \in G PROVE Append(u, e) \in G
    <2>1. s \o u \in Seq(T) /\ s \o Append(u, e) = Append(s \o u, e) /\ Append(u, e) \in Seq(T)
      OBVIOUS
    <2>2. PICK j, k : j = Only(s, S) /\ k = Only(u, S)
      OBVIOUS
    <2>3. j \in Seq(T) /\ k \in Seq(T) /\ Only(s \o u, S) = j \o k
      BY <1>2, <2>2, OnlyType
    <2>4. Keeps(S, j \o k, e) = j \o Keeps(S, k, e)
      <3>1. Append(j \o k, e) = j \o Append(k, e)
        <4>1. ASSUME NEW x \in Seq(T), NEW y \in Seq(T)
              PROVE  x \o y \in Seq(T) /\ x \o Append(y, e) = Append(x \o y, e)
          OBVIOUS
        <4>. QED
          BY <2>3, <4>1, Zenon
      <3>. QED
        BY <3>1, Zenon DEF Keeps
    <2>5. Only(Append(u, e), S) = Keeps(S, k, e) /\ Only(Append(s \o u, e), S) = Keeps(S, j \o k, e)
      <3>1. Only(Append(u, e), S) = Keeps(S, Only(u, S), e)
        BY OnlyOneMore
      <3>2. Only(Append(s \o u, e), S) = Keeps(S, Only(s \o u, S), e)
        BY <2>1, OnlyOneMore
      <3>. QED
        BY <2>2, <2>3, <3>1, <3>2, Zenon
    <2>6. Only(s \o Append(u, e), S) = Only(s, S) \o Only(Append(u, e), S)
      BY <2>1, <2>2, <2>4, <2>5, Zenon
    <2>. QED
      BY <2>1, <2>6
  <1> HIDE DEF G
  <1>3. t \in G
    BY <1>1, <1>2, EverySeq
  <1>. QED
    BY <1>3 DEF G

\* What is kept of what a larger set keeps is what is kept of the list.
LEMMA OnlyOfKept ==
    ASSUME NEW T, NEW list \in Seq(T), NEW S, NEW U, T \cap U \subseteq S
    PROVE  Only(Only(list, S), U) = Only(list, U)
  <1> DEFINE G == {s \in Seq(T) : Only(Only(s, S), U) = Only(s, U)}
  <1>1. <<>> \in G
    BY OnlyNothing
  <1>2. ASSUME NEW s \in Seq(T), NEW e \in T, s \in G PROVE Append(s, e) \in G
    <2>1. Append(s, e) \in Seq(T)
      OBVIOUS
    <2>2. PICK k : k = Only(s, S)
      OBVIOUS
    <2>3. k \in Seq(T) /\ Only(k, U) = Only(s, U)
      BY <1>2, <2>2, OnlyType
    <2>4. Only(Keeps(S, k, e), U) = Keeps(U, Only(k, U), e)
      BY <2>3, OnlyOneMore DEF Keeps
    <2>. QED
      BY <2>1, <2>2, <2>3, <2>4, OnlyOneMore
  <1> HIDE DEF G
  <1>3. list \in G
    BY <1>1, <1>2, EverySeq
  <1>. QED
    BY <1>3 DEF G

=============================================================================
