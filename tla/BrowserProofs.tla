----------------------------- MODULE BrowserProofs -----------------------------
(***************************************************************************)
(* Theorems about parts of the browser SDK and about their composition     *)
(* (BrowserParts): spans have the decision of their session, listeners     *)
(* know the attributes, instrumented WebSockets have the listeners of      *)
(* plain ones and emitters of socket.io those that were meant, resources   *)
(* belong to the context that added them, and errors are reported once.    *)
(***************************************************************************)
EXTENDS BrowserParts, ContextManagerProofs, FiniteSetTheorems

\* One more element at the end of a sequence.
LEMMA OneMore ==
  ASSUME NEW S, NEW s \in Seq(S), NEW x \in S
  PROVE  /\ s \o <<x>> \in Seq(S) /\ Len(s \o <<x>>) = Len(s) + 1
         /\ \A i \in DOMAIN (s \o <<x>>) :
              (s \o <<x>>)[i] = IF i \in DOMAIN s THEN s[i] ELSE x
         /\ DOMAIN s \subseteq DOMAIN (s \o <<x>>) /\ Len(s) + 1 \in DOMAIN (s \o <<x>>)
         /\ Len(s) + 1 \notin DOMAIN s
<1>1. s \o <<x>> = Append(s, x)
  BY AppendIsConcat
<1>. QED  BY <1>1, AppendProperties

-----------------------------------------------------------------------------
(* Induction, recursion and counting.                                       *)

\* A set of naturals has a least element.
LEMMA Least ==
  ASSUME NEW T \in SUBSET Nat, T # {}
  PROVE  \E n \in T : \A m \in T : n <= m
<1>. DEFINE R == OpToRel(<, Nat)
<1>1. IsWellFoundedOn(R, Nat)
  BY NatLessThanWellFounded
<1>2. \A x, y \in Nat : y < x => <<y, x>> \in R
  BY DEF OpToRel
<1>. HIDE DEF R
<1>3. PICK x \in T : \A y \in T : ~ (<<y, x>> \in R)
  BY <1>1, WFMin
<1>4. \A y \in T : ~(y < x)
  BY <1>2, <1>3
<1>5. x \in Nat /\ \A y \in T : y \in Nat
  OBVIOUS
<1>6. \A y \in T : x <= y
  BY <1>4, <1>5
<1>. QED  BY <1>6

LEMMA Induction ==
  ASSUME NEW T, 0 \in T, \A n \in Nat : n \in T => n + 1 \in T
  PROVE  \A n \in Nat : n \in T
<1>. SUFFICES ASSUME Nat \ T # {} PROVE FALSE
  OBVIOUS
<1>1. PICK n \in Nat \ T : \A m \in Nat \ T : n <= m
  BY Least
<1>2. n # 0 /\ n - 1 \in Nat /\ (n - 1) + 1 = n
  OBVIOUS
<1>3. n - 1 \in T
  BY <1>1, <1>2
<1>. QED  BY <1>2, <1>3

\* The first values of a sequence in which each follows from the one before.
Runs(S, init, step, n) ==
  {g \in [0..n -> S] : /\ g[0] = init
                       /\ \A m \in 0..n : m # n => g[m + 1] = step[<<m, g[m]>>]}

\* The sequences of which that is so.
Recursive(S, init, step) ==
  {f \in [Nat -> S] : f[0] = init /\ \A n \in Nat : f[n + 1] = step[<<n, f[n]>>]}

LEMMA Recursion ==
  ASSUME NEW S, NEW init \in S, NEW step \in [Nat \X S -> S]
  PROVE  Recursive(S, init, step) # {}
<1>. DEFINE T == {n \in Nat : Runs(S, init, step, n) # {}}
            G(n) == CHOOSE g \in Runs(S, init, step, n) : TRUE
            f == [n \in Nat |-> G(n)[n]]
<1>0. \A n \in Nat, x \in S : step[<<n, x>>] \in S
  OBVIOUS
<1>1. \A n \in Nat : n \in T
  <2>1. 0 \in T
    <3>1. [m \in 0..0 |-> init] \in Runs(S, init, step, 0)
      BY DEF Runs
    <3>. QED  BY <3>1
  <2>2. ASSUME NEW n \in Nat, n \in T PROVE n + 1 \in T
    <3>1. PICK g : g \in Runs(S, init, step, n)
      BY <2>2
    <3>2. /\ g \in [0..n -> S] /\ g[0] = init /\ g[n] \in S
          /\ \A m \in 0..n : m # n => g[m + 1] = step[<<m, g[m]>>]
      BY <3>1 DEF Runs
    <3>. DEFINE h == [m \in 0..(n + 1) |-> IF m = n + 1 THEN step[<<n, g[n]>>] ELSE g[m]]
    <3>3. h \in [0..(n + 1) -> S] /\ h[0] = init
      BY <1>0, <3>2
    <3>4. ASSUME NEW m \in 0..(n + 1), m # n + 1 PROVE h[m + 1] = step[<<m, h[m]>>]
      <4>1. m \in 0..n /\ h[m] = g[m] /\ m + 1 \in 0..(n + 1)
        BY <3>4
      <4>2. CASE m = n
        BY <4>1, <4>2
      <4>3. CASE m # n
        <5>1. h[m + 1] = g[m + 1]
          BY <4>1, <4>3
        <5>. QED  BY <3>2, <4>1, <4>3, <5>1
      <4>. QED  BY <4>2, <4>3
    <3>. HIDE DEF h
    <3>5. h \in Runs(S, init, step, n + 1)
      BY <3>3, <3>4 DEF Runs
    <3>. QED  BY <3>5
  <2>. HIDE DEF T
  <2>. QED  BY <2>1, <2>2, Induction
<1>2. \A n \in Nat : G(n) \in Runs(S, init, step, n)
  BY <1>1
<1>. HIDE DEF G
<1>3. ASSUME NEW n \in Nat PROVE G(n + 1)[n] = G(n)[n]
  <2>. DEFINE U == {m \in Nat : m <= n => G(n + 1)[m] = G(n)[m]}
  <2>1. /\ G(n)[0] = init /\ G(n + 1)[0] = init
        /\ \A m \in 0..n : m # n => G(n)[m + 1] = step[<<m, G(n)[m]>>]
        /\ \A m \in 0..(n + 1) : m # n + 1 => G(n + 1)[m + 1] = step[<<m, G(n + 1)[m]>>]
    <3>1. G(n) \in Runs(S, init, step, n) /\ G(n + 1) \in Runs(S, init, step, n + 1)
      BY <1>2
    <3>. QED  BY <3>1 DEF Runs
  <2>2. 0 \in U
    BY <2>1
  <2>3. ASSUME NEW m \in Nat, m \in U PROVE m + 1 \in U
    <3>1. CASE m + 1 <= n
      <4>1. m \in 0..n /\ m # n /\ m \in 0..(n + 1) /\ m # n + 1 /\ G(n + 1)[m] = G(n)[m]
        BY <2>3, <3>1
      <4>2. G(n)[m + 1] = step[<<m, G(n)[m]>>] /\ G(n + 1)[m + 1] = step[<<m, G(n + 1)[m]>>]
        BY <2>1, <4>1
      <4>. QED  BY <4>1, <4>2
    <3>. QED  BY <3>1
  <2>4. \A m \in Nat : m \in U
    <3>. HIDE DEF U
    <3>. QED  BY <2>2, <2>3, Induction
  <2>. QED  BY <2>4
<1>4. \A n \in Nat : G(n)[n] \in S
  BY <1>2 DEF Runs
<1>5. G(0)[0] = init
  BY <1>2 DEF Runs
<1>6. ASSUME NEW n \in Nat PROVE G(n + 1)[n + 1] = step[<<n, G(n)[n]>>]
  <2>1. G(n + 1) \in Runs(S, init, step, n + 1)
    BY <1>2
  <2>2. G(n + 1)[n + 1] = step[<<n, G(n + 1)[n]>>]
    BY <2>1 DEF Runs
  <2>. QED  BY <1>3, <2>2
<1>7. f \in [Nat -> S] /\ f[0] = init /\ \A n \in Nat : f[n + 1] = step[<<n, f[n]>>]
  BY <1>4, <1>5, <1>6
<1>. QED  BY <1>7 DEF Recursive

\* How many elements of a list are in a set.
Where(s, T) == {i \in DOMAIN s : s[i] \in T}
Count(s, T) == Cardinality(Where(s, T))

LEMMA CountOf ==
  ASSUME NEW S, NEW s \in Seq(S), NEW T
  PROVE  /\ IsFiniteSet(Where(s, T)) /\ Count(s, T) \in Nat
         /\ Count(s, T) = 0 <=> \A i \in DOMAIN s : s[i] \notin T
<1>1. DOMAIN s = 1..Len(s) /\ Len(s) \in Nat
  OBVIOUS
<1>2. IsFiniteSet(DOMAIN s)
  BY <1>1, FS_Interval
<1>3. Where(s, T) \in SUBSET DOMAIN s
  BY DEF Where
<1>4. IsFiniteSet(Where(s, T))
  BY <1>2, <1>3, FS_Subset
<1>5. Count(s, T) \in Nat
  BY <1>4, FS_CardinalityType DEF Count
<1>6. Count(s, T) = 0 <=> Where(s, T) = {}
  BY <1>4, FS_EmptySet DEF Count
<1>. QED  BY <1>4, <1>5, <1>6 DEF Where

LEMMA CountOfEmpty == ASSUME NEW T PROVE Count(<<>>, T) = 0
<1>1. Where(<<>>, T) = {}
  BY DEF Where
<1>. QED  BY <1>1, FS_EmptySet DEF Count

LEMMA CountOfAppend ==
  ASSUME NEW S, NEW s \in Seq(S), NEW x \in S, NEW T
  PROVE  Count(Append(s, x), T) = Count(s, T) + (IF x \in T THEN 1 ELSE 0)
<1>. DEFINE n == Len(s) + 1
            r == Append(s, x)
<1>1. /\ n \notin DOMAIN s /\ DOMAIN r = DOMAIN s \cup {n}
      /\ r[n] = x /\ \A i \in DOMAIN s : r[i] = s[i]
  BY AppendProperties
<1>2. IsFiniteSet(Where(s, T)) /\ n \notin Where(s, T) /\ Count(s, T) \in Nat
  BY <1>1, CountOf DEF Where
<1>. HIDE DEF n, r
<1>3. CASE x \in T
  <2>1. Where(r, T) = Where(s, T) \cup {n}
    BY <1>1, <1>3 DEF Where
  <2>. QED  BY <1>2, <1>3, <2>1, FS_AddElement DEF Count, r
<1>4. CASE x \notin T
  <2>1. Where(r, T) = Where(s, T)
    BY <1>1, <1>4 DEF Where
  <2>. QED  BY <1>2, <1>4, <2>1 DEF Count, r
<1>. QED  BY <1>3, <1>4

LEMMA CountOfRemoveAt ==
  ASSUME NEW S, NEW s \in Seq(S), NEW k \in DOMAIN s, NEW T
  PROVE  Count(RemoveAt(s, k), T) = Count(s, T) - (IF s[k] \in T THEN 1 ELSE 0)
<1>. DEFINE r == RemoveAt(s, k)
            A == Where(r, T)
            B == Where(s, T) \ {k}
            f == [i \in A |-> IF i < k THEN i ELSE i + 1]
<1>1. /\ DOMAIN s = 1..Len(s) /\ Len(s) \in Nat /\ k \in 1..Len(s)
      /\ DOMAIN r = 1..Len(s) - 1
      /\ \A i \in 1..Len(s) - 1 : r[i] = IF i < k THEN s[i] ELSE s[i + 1]
  <2>1. /\ DOMAIN s = 1..Len(s) /\ Len(s) \in Nat /\ k \in 1..Len(s)
    OBVIOUS
  <2>2. /\ r \in Seq(S) /\ Len(r) = Len(s) - 1
        /\ \A i \in 1..Len(s) - 1 : r[i] = IF i < k THEN s[i] ELSE s[i + 1]
    BY RemoveAtFacts
  <2>. QED  BY <2>1, <2>2
<1>. HIDE DEF r
<1>2. IsFiniteSet(Where(s, T)) /\ Count(s, T) \in Nat
  BY CountOf
<1>3. /\ IsFiniteSet(B)
      /\ Cardinality(B) = IF s[k] \in T THEN Count(s, T) - 1 ELSE Count(s, T)
  <2>1. k \in Where(s, T) <=> s[k] \in T
    BY DEF Where
  <2>. QED  BY <1>2, <2>1, FS_RemoveElement DEF Count
<1>4. f \in Bijection(A, B)
  <2>1. \A i \in A : i \in 1..Len(s) - 1 /\ r[i] \in T
    BY <1>1 DEF Where
  <2>2. \A i \in A : f[i] \in B
    <3>. SUFFICES ASSUME NEW i \in A PROVE f[i] \in 1..Len(s) /\ s[f[i]] \in T /\ f[i] # k
      BY <1>1 DEF Where
    <3>1. i \in 1..Len(s) - 1 /\ r[i] \in T
      BY <2>1
    <3>. QED  BY <1>1, <3>1
  <2>3. \A i, j \in A : f[i] = f[j] => i = j
    BY <1>1, <2>1
  <2>4. ASSUME NEW j \in B PROVE \E i \in A : f[i] = j
    <3>1. j \in 1..Len(s) /\ s[j] \in T /\ j # k
      BY <1>1 DEF Where
    <3>2. CASE j < k
      <4>1. j \in 1..Len(s) - 1 /\ r[j] \in T
        BY <1>1, <3>1, <3>2
      <4>2. j \in A
        BY <1>1, <4>1 DEF Where
      <4>. QED  BY <3>2, <4>2
    <3>3. CASE j > k
      <4>1. /\ j - 1 \in 1..Len(s) - 1 /\ ~(j - 1 < k) /\ (j - 1) + 1 = j
        BY <1>1, <3>1, <3>3
      <4>2. r[j - 1] = s[j]
        BY <1>1, <4>1
      <4>3. j - 1 \in A
        BY <1>1, <3>1, <4>1, <4>2 DEF Where
      <4>. QED  BY <4>1, <4>3
    <3>. QED  BY <1>1, <3>1, <3>2, <3>3
  <2>5. f \in [A -> B]
    BY <2>2
  <2>. HIDE DEF f, A, B
  <2>6. f \in Injection(A, B)
    BY <2>3, <2>5 DEF Injection, IsInjective
  <2>7. f \in Surjection(A, B)
    BY <2>4, <2>5 DEF Surjection
  <2>. QED  BY <2>6, <2>7 DEF Bijection
<1>5. IsFiniteSet(A) /\ Cardinality(A) = Cardinality(B)
  <2>. HIDE DEF f, A, B
  <2>1. f \in Injection(A, B) /\ f \in Surjection(A, B)
    BY <1>4 DEF Bijection
  <2>2. IsFiniteSet(B)
    BY <1>3 DEF B
  <2>. QED  BY <2>1, <2>2, FS_Injection
<1>. QED  BY <1>2, <1>3, <1>5 DEF Count, r

LEMMA KeptIsTheSame ==
  ASSUME NEW s, NEW at
  PROVE  IO!Kept(s, at) = Kept(s, at) /\ BR!Kept(s, at) = Kept(s, at)
BY DEF IO!Kept, BR!Kept, Kept

\* What is kept of a list: a list of the same type, with the elements at the indices.
LEMMA KeptFacts ==
  ASSUME NEW S, NEW s \in Seq(S), NEW at
  PROVE  /\ Kept(s, at) \in Seq(S)
         /\ \A T : Count(Kept(s, at), T)
                     = Cardinality({i \in DOMAIN s : i \in at /\ s[i] \in T})
<1>. DEFINE P(b) == b = [n \in 0..Len(s) |->
              IF n = 0 THEN <<>>
              ELSE IF n \in at THEN Append(b[n - 1], s[n]) ELSE b[n - 1]]
            kept == CHOOSE b : P(b)
            step == [p \in Nat \X Seq(S) |->
                       IF p[1] + 1 \in DOMAIN s /\ p[1] + 1 \in at
                       THEN Append(p[2], s[p[1] + 1]) ELSE p[2]]
<1>1. Kept(s, at) = kept[Len(s)]
  BY DEF Kept
<1>2. Len(s) \in Nat /\ DOMAIN s = 1..Len(s) /\ \A n \in 1..Len(s) : s[n] \in S
  <2>1. Len(s) \in Nat /\ DOMAIN s = 1..Len(s)
    OBVIOUS
  <2>2. \A n \in 1..Len(s) : s[n] \in S
    OBVIOUS
  <2>. QED  BY <2>1, <2>2
<1>3. P(kept)
  <2>1. step \in [Nat \X Seq(S) -> Seq(S)]
    BY <1>2, AppendProperties
  <2>2. \A n \in Nat, r \in Seq(S) : n + 1 \in 1..Len(s) =>
          step[<<n, r>>] = IF n + 1 \in at THEN Append(r, s[n + 1]) ELSE r
    BY <1>2
  <2>. HIDE DEF step
  <2>3. PICK f \in [Nat -> Seq(S)] :
               f[0] = <<>> /\ \A n \in Nat : f[n + 1] = step[<<n, f[n]>>]
    <3>1. <<>> \in Seq(S)
      OBVIOUS
    <3>2. Recursive(Seq(S), <<>>, step) # {}
      BY <2>1, <3>1, Recursion
    <3>. QED  BY <3>2 DEF Recursive
  <2>. DEFINE g == [n \in 0..Len(s) |-> f[n]]
  <2>4. ASSUME NEW n \in 0..Len(s), n # 0
        PROVE  g[n] = IF n \in at THEN Append(g[n - 1], s[n]) ELSE g[n - 1]
    <3>1. n - 1 \in Nat /\ n - 1 \in 0..Len(s) /\ (n - 1) + 1 = n /\ n \in 1..Len(s)
      BY <1>2, <2>4
    <3>2. f[n] = step[<<n - 1, f[n - 1]>>] /\ f[n - 1] \in Seq(S)
      BY <2>3, <3>1
    <3>. QED  BY <2>2, <3>1, <3>2
  <2>5. g[0] = <<>>
    BY <1>2, <2>3
  <2>6. P(g)
    BY <2>4, <2>5
  <2>. QED  BY <2>6
<1>. HIDE DEF kept
<1>. DEFINE I(n) == {i \in 1..n : i \in at}
            Ok(n) == /\ kept[n] \in Seq(S)
                        /\ \A T : Count(kept[n], T) = Cardinality({i \in I(n) : s[i] \in T})
            U == {n \in Nat : n <= Len(s) => Ok(n)}
<1>4. 0 \in U
  <2>1. kept[0] = <<>>
    BY <1>2, <1>3
  <2>2. I(0) = {}
    OBVIOUS
  <2>3. \A T : {i \in I(0) : s[i] \in T} = {}
    BY <2>2
  <2>4. \A T : Count(kept[0], T) = Cardinality({i \in I(0) : s[i] \in T})
    <3>1. \A T : Count(kept[0], T) = 0
      BY <2>1, CountOfEmpty
    <3>. HIDE DEF I
    <3>. QED  BY <2>3, <3>1, FS_EmptySet
  <2>5. kept[0] \in Seq(S)
    BY <2>1
  <2>6. Ok(0)
    BY <2>4, <2>5
  <2>. HIDE DEF Ok
  <2>. QED  BY <2>6
<1>5. ASSUME NEW n \in Nat, n \in U PROVE n + 1 \in U
  <2>. SUFFICES ASSUME n + 1 <= Len(s) PROVE Ok(n + 1)
    OBVIOUS
  <2>1. n + 1 \in 0..Len(s) /\ n + 1 \in 1..Len(s) /\ n + 1 # 0 /\ (n + 1) - 1 = n /\ n <= Len(s)
    BY <1>2
  <2>2. kept[n + 1] = IF n + 1 \in at THEN Append(kept[n], s[n + 1]) ELSE kept[n]
    BY <1>3, <2>1
  <2>3. Ok(n)
    BY <1>5, <2>1
  <2>4. \A T : IsFiniteSet({i \in I(n) : s[i] \in T})
    <3>1. IsFiniteSet(1..n)
      BY FS_Interval
    <3>2. \A T : {i \in I(n) : s[i] \in T} \in SUBSET (1..n)
      OBVIOUS
    <3>. QED  BY <3>1, <3>2, FS_Subset
  <2>5. CASE n + 1 \in at
    <3>1. I(n + 1) = I(n) \cup {n + 1} /\ n + 1 \notin I(n)
      BY <2>5
    <3>2. kept[n + 1] \in Seq(S)
      BY <1>2, <2>1, <2>2, <2>3, <2>5, AppendProperties
    <3>. HIDE DEF I
    <3>3. ASSUME NEW T
          PROVE  Count(kept[n + 1], T) = Cardinality({i \in I(n + 1) : s[i] \in T})
      <4>1. Count(kept[n + 1], T) = Count(kept[n], T) + (IF s[n + 1] \in T THEN 1 ELSE 0)
        BY <1>2, <2>1, <2>2, <2>3, <2>5, CountOfAppend
      <4>. DEFINE A == {i \in I(n) : s[i] \in T}
                  B == {i \in I(n + 1) : s[i] \in T}
      <4>2. /\ s[n + 1] \in T => B = A \cup {n + 1} /\ n + 1 \notin A
            /\ s[n + 1] \notin T => B = A
        BY <3>1
      <4>3. IsFiniteSet(A) /\ Count(kept[n], T) = Cardinality(A)
        BY <2>3, <2>4
      <4>. HIDE DEF A, B
      <4>4. Cardinality(A) \in Nat
        BY <4>3, FS_CardinalityType
      <4>5. Cardinality(B) = Cardinality(A) + (IF s[n + 1] \in T THEN 1 ELSE 0)
        <5>1. CASE s[n + 1] \in T
          <6>1. Cardinality(A \cup {n + 1}) = Cardinality(A) + 1
            BY <4>2, <4>3, <5>1, FS_AddElement
          <6>. QED  BY <4>2, <5>1, <6>1
        <5>2. CASE s[n + 1] \notin T
          BY <4>2, <4>4, <5>2
        <5>. QED  BY <5>1, <5>2
      <4>. QED  BY <4>1, <4>3, <4>5 DEF B
    <3>. QED  BY <3>2, <3>3
  <2>6. CASE n + 1 \notin at
    <3>1. I(n + 1) = I(n)
      BY <2>6
    <3>. QED  BY <2>2, <2>3, <2>6, <3>1
  <2>. QED  BY <2>5, <2>6
<1>6. Ok(Len(s))
  <2>1. \A n \in Nat : n \in U
    <3>. HIDE DEF U
    <3>. QED  BY <1>4, <1>5, Induction
  <2>2. Len(s) \in U
    BY <1>2, <2>1
  <2>. HIDE DEF Ok
  <2>. QED  BY <1>2, <2>2
<1>7. \A T : {i \in I(Len(s)) : s[i] \in T} = {i \in DOMAIN s : i \in at /\ s[i] \in T}
  BY <1>2
<1>. QED  BY <1>1, <1>6, <1>7

\* An element of what is kept is one of the list.
LEMMA KeptIsOfList ==
  ASSUME NEW S, NEW s \in Seq(S), NEW at, NEW i \in DOMAIN Kept(s, at)
  PROVE  \E j \in DOMAIN s : Kept(s, at)[i] = s[j]
<1>. DEFINE r == Kept(s, at)
            A == {j \in DOMAIN s : j \in at /\ s[j] \in {r[i]}}
<1>1. r \in Seq(S) /\ Count(r, {r[i]}) = Cardinality(A)
  BY KeptFacts
<1>2. i \in DOMAIN r /\ r[i] \in {r[i]}
  OBVIOUS
<1>. HIDE DEF r
<1>3. Cardinality(A) # 0
  BY <1>1, <1>2, CountOf
<1>4. A # {}
  <2>. HIDE DEF A
  <2>. QED  BY <1>3, FS_EmptySet
<1>. QED  BY <1>4 DEF r

\* A list has one element less, which was at one of the indices.
OneLess(s, at, r) ==
  \E k \in at : \A T : Count(r, T) = Count(s, T) - (IF s[k] \in T THEN 1 ELSE 0)

\* A list without the first of some elements has one of them less.
LEMMA WithoutFirstFacts ==
  ASSUME NEW S, NEW s \in Seq(S), NEW at \in SUBSET DOMAIN s,
         NEW r, r = IO!WithoutFirst(s, at)
  PROVE  /\ r \in Seq(S)
         /\ \A i \in DOMAIN r : \E j \in DOMAIN s : r[i] = s[j]
         /\ at = {} => r = s
         /\ at # {} => OneLess(s, at, r)
<1>1. CASE at = {}
  BY <1>1 DEF IO!WithoutFirst
<1>2. CASE at # {}
  <2>. DEFINE k == IO!Min(at)
  <2>1. k \in at
    <3>1. at \in SUBSET Nat
      OBVIOUS
    <3>2. \E n \in at : \A m \in at : n <= m
      BY <1>2, <3>1, Least
    <3>. QED  BY <3>2 DEF IO!Min
  <2>2. r = RemoveAt(s, k)
    BY <1>2 DEF IO!WithoutFirst, IO!RemoveAt, RemoveAt
  <2>. HIDE DEF k
  <2>3. /\ r \in Seq(S) /\ Len(r) = Len(s) - 1
        /\ \A i \in 1..Len(s) - 1 : r[i] = IF i < k THEN s[i] ELSE s[i + 1]
    BY <2>1, <2>2, RemoveAtFacts
  <2>4. \A T : Count(r, T) = Count(s, T) - (IF s[k] \in T THEN 1 ELSE 0)
    BY <2>1, <2>2, CountOfRemoveAt
  <2>5. \A i \in DOMAIN r : \E j \in DOMAIN s : r[i] = s[j]
    <3>. TAKE i \in DOMAIN r
    <3>1. i \in 1..Len(s) - 1 /\ i \in DOMAIN s /\ i + 1 \in DOMAIN s
      BY <2>3
    <3>. QED  BY <2>3, <3>1
  <2>6. OneLess(s, at, r)
    BY <2>1, <2>4 DEF OneLess
  <2>. QED  BY <1>2, <2>3, <2>5, <2>6
<1>. QED  BY <1>1, <1>2

-----------------------------------------------------------------------------
(* RumLifecycle.                                                           *)

\* The API has the provider of the SDK while it is inited and none otherwise, and what
\* is shut down, or waits to be, is a provider of an earlier init.
ProviderInv ==
  /\ inited => provider \in 1..initCalls /\ registered = provider /\ provider \notin shut
  /\ ~inited => registered = 0
  /\ shut \subseteq 1..initCalls
  /\ \A i \in DOMAIN tasks : tasks[i].on = "shutdown" =>
       tasks[i].of \in 1..initCalls /\ (inited => tasks[i].of # provider)

Right(d) == d.session # NoSession => d.sampled = (d.session \in InRatio)

\* Every sampler has the decision of the session it knows.
DecisionInv == Right(span) /\ \A n \in RL!Calls : Right(decision[n])

\* A listener that knows old attributes will be told.
HeardInv ==
  /\ hearers \subseteq 1..initCalls
  /\ target \in hearers /\ attributer # 0 /\ told.of = attributer
       /\ told.value # attributes[attributer]
       => \E i \in DOMAIN tasks : tasks[i].on = "attributes" /\ tasks[i].of = attributer

RlInv == RL!RlTypeOK /\ ProviderInv /\ DecisionInv /\ HeardInv

LEMMA RlInitial == RL!Init => RlInv
<1>. SUFFICES ASSUME RL!Init PROVE RlInv
  OBVIOUS
<1>1. RL!RlTypeOK
  <2>. USE RumAssumption DEF RL!Init, RL!InitWith
  <2>1. /\ initCalls \in 0..MaxRumInits /\ inited \in BOOLEAN
        /\ {target, sessionTarget, tracking, attributer, provider, registered}
             \subseteq 0..initCalls
        /\ hearers \subseteq RL!Calls /\ intervals \subseteq RL!Calls
        /\ shut \subseteq RL!Calls /\ cookieId \in Sessions /\ rumSessionId \in RL!Ids
    <3>1. /\ initCalls = 0 /\ target = 0 /\ sessionTarget = 0 /\ tracking = 0
          /\ attributer = 0 /\ provider = 0 /\ registered = 0
      OBVIOUS
    <3>2. /\ hearers = {} /\ intervals = {} /\ shut = {} /\ inited = FALSE
          /\ cookieId \in Sessions /\ rumSessionId = NoSession
      OBVIOUS
    <3>3. {target, sessionTarget, tracking, attributer, provider, registered}
            \subseteq 0..initCalls
      BY <3>1
    <3>4. initCalls \in 0..MaxRumInits
      BY <3>1
    <3>. QED  BY <3>2, <3>3, <3>4 DEF RL!Ids
  <2>2. attributes \in [RL!Calls -> RL!Values]
    BY DEF RL!Values
  <2>3. decision \in [RL!Calls -> [session : RL!Ids, sampled : BOOLEAN]]
    BY DEF RL!Ids
  <2>4. tasks \in Seq(RL!Task) /\ Len(tasks) <= MaxTasks
    OBVIOUS
  <2>5. told \in [of : 0..MaxRumInits, value : RL!Values]
    BY DEF RL!Values, RL!Nothing
  <2>6. span \in [session : RL!Ids, sampled : BOOLEAN]
    BY DEF RL!Ids, RL!NoSpan
  <2>. QED  BY <2>1, <2>2, <2>3, <2>4, <2>5, <2>6 DEF RL!RlTypeOK
<1>2. ProviderInv /\ HeardInv
  BY DEF RL!Init, RL!InitWith, ProviderInv, HeardInv
<1>3. DecisionInv
  BY DEF RL!Init, RL!InitWith, DecisionInv, Right, RL!NoSpan
<1>. QED  BY <1>1, <1>2, <1>3 DEF RlInv

LEMMA AddEventListenerKeeps == RlInv /\ RL!AddEventListener => RlInv'
<1>. SUFFICES ASSUME RlInv, RL!AddEventListener PROVE RlInv'
  OBVIOUS
<1>1. target \in 1..initCalls
  BY RumAssumption DEF RL!AddEventListener, RlInv, RL!RlTypeOK
<1>2. RL!RlTypeOK'
  BY <1>1, RumAssumption
     DEF RL!AddEventListener, RlInv, RL!RlTypeOK, RL!Calls, RL!Nothing, RL!Values
<1>3. ProviderInv' /\ DecisionInv'
  BY DEF RL!AddEventListener, RlInv, ProviderInv, DecisionInv
<1>4. HeardInv'
  BY <1>1 DEF RL!AddEventListener, RlInv, HeardInv, RL!Nothing
<1>. QED  BY <1>2, <1>3, <1>4 DEF RlInv

LEMMA RunTaskKeeps == RlInv /\ RL!RunTask => RlInv'
<1>. SUFFICES ASSUME RlInv, RL!RunTask PROVE RlInv'
  OBVIOUS
<1>. DEFINE t == Head(tasks)
<1>1. /\ tasks \in Seq(RL!Task) /\ tasks # <<>> /\ tasks' = Tail(tasks)
      /\ initCalls \in 0..MaxRumInits
  BY DEF RL!RunTask, RlInv, RL!RlTypeOK
<1>2. /\ t \in RL!Task /\ t = tasks[1] /\ 1 \in DOMAIN tasks
      /\ tasks' \in Seq(RL!Task) /\ Len(tasks') <= Len(tasks)
      /\ \A i \in DOMAIN tasks' : i + 1 \in DOMAIN tasks /\ tasks'[i] = tasks[i + 1]
      /\ \A i \in DOMAIN tasks : i # 1 => i - 1 \in DOMAIN tasks' /\ tasks'[i - 1] = tasks[i]
  BY <1>1, HeadTailProperties
<1>3. /\ told' = IF t.on # "attributes" THEN told
                 ELSE [of |-> t.of, value |-> IF t.of = 0 THEN 0 ELSE attributes[t.of]]
      /\ shut' = IF t.on = "shutdown" THEN shut \cup {t.of} ELSE shut
      /\ registered' = registered
      /\ UNCHANGED <<initCalls, inited, target, sessionTarget, hearers, intervals, tracking,
                     cookieId, rumSessionId, attributes, attributer, provider, decision, span>>
  BY DEF RL!RunTask, RL!RegisteredAfter
<1>. HIDE DEF t
<1>4. /\ t.on = "attributes" => t.of \in 0..MaxRumInits
      /\ t.on = "shutdown" => t.of \in 1..initCalls /\ (inited => t.of # provider)
  BY <1>2 DEF RL!Task, RL!Calls, RlInv, ProviderInv
<1>5. told' \in [of : 0..MaxRumInits, value : RL!Values]
  <2>1. CASE t.on # "attributes"
    BY <1>3, <2>1 DEF RlInv, RL!RlTypeOK
  <2>2. CASE t.on = "attributes"
    <3>1. t.of \in 0..MaxRumInits /\ attributes \in [RL!Calls -> RL!Values]
      BY <1>4, <2>2 DEF RlInv, RL!RlTypeOK
    <3>2. (IF t.of = 0 THEN 0 ELSE attributes[t.of]) \in RL!Values
      BY <3>1, RumAssumption DEF RL!Calls, RL!Values
    <3>. QED  BY <1>3, <2>2, <3>1, <3>2
  <2>. QED  BY <2>1, <2>2
<1>6. RL!RlTypeOK'
  <2>1. shut' \subseteq RL!Calls
    <3>1. t.on = "shutdown" => t.of \in RL!Calls
      BY <1>1, <1>4, RumAssumption DEF RL!Calls
    <3>. QED  BY <1>3, <3>1 DEF RlInv, RL!RlTypeOK
  <2>2. Len(tasks') <= MaxTasks
    BY <1>1, <1>2, RumAssumption DEF RlInv, RL!RlTypeOK
  <2>. QED  BY <1>2, <1>3, <1>5, <2>1, <2>2 DEF RlInv, RL!RlTypeOK
<1>7. ProviderInv'
  BY <1>2, <1>3, <1>4 DEF RlInv, ProviderInv
<1>8. DecisionInv'
  BY <1>3 DEF RlInv, DecisionInv
<1>9. HeardInv'
  <2>1. CASE t.on = "attributes"
    BY <1>3, <2>1 DEF RlInv, HeardInv
  <2>2. CASE t.on # "attributes"
    BY <1>2, <1>3, <2>2 DEF RlInv, HeardInv
  <2>. QED  BY <2>1, <2>2
<1>. QED  BY <1>6, <1>7, <1>8, <1>9 DEF RlInv

LEMMA UpdateSessionStatusKeeps == RlInv /\ RL!UpdateSessionStatus => RlInv'
<1>. SUFFICES ASSUME RlInv, RL!UpdateSessionStatus PROVE RlInv'
  OBVIOUS
<1>. DEFINE t == [on |-> "session"]
<1>1. tasks \in Seq(RL!Task) /\ t \in RL!Task /\ t.on = "session" /\ Len(tasks) < MaxTasks
  BY DEF RL!UpdateSessionStatus, RlInv, RL!RlTypeOK, RL!Task
<1>2. tasks' = tasks \/ tasks' = tasks \o <<t>>
  BY DEF RL!UpdateSessionStatus, RL!Emitted
<1>. HIDE DEF t
<1>3. /\ tasks' \in Seq(RL!Task) /\ Len(tasks') <= MaxTasks
      /\ \A i \in DOMAIN tasks' : tasks'[i] = IF i \in DOMAIN tasks THEN tasks[i] ELSE t
      /\ DOMAIN tasks \subseteq DOMAIN tasks'
  <2>1. CASE tasks' = tasks
    BY <1>1, <2>1, RumAssumption
  <2>2. CASE tasks' = tasks \o <<t>>
    BY <1>1, <2>2, OneMore, RumAssumption
  <2>. QED  BY <1>2, <2>1, <2>2
<1>4. RL!RlTypeOK'
  BY <1>3 DEF RL!UpdateSessionStatus, RlInv, RL!RlTypeOK, RL!Ids
<1>5. ProviderInv'
  BY <1>1, <1>3 DEF RL!UpdateSessionStatus, RlInv, ProviderInv
<1>6. DecisionInv'
  BY DEF RL!UpdateSessionStatus, RlInv, DecisionInv
<1>7. HeardInv'
  BY <1>3 DEF RL!UpdateSessionStatus, RlInv, HeardInv
<1>. QED  BY <1>4, <1>5, <1>6, <1>7 DEF RlInv

LEMMA RumInitKeeps ==
  ASSUME RlInv, NEW outcome \in {"inited", "refused", "failed"}, RL!RumInit(outcome)
  PROVE  RlInv'
<1>. DEFINE n == initCalls + 1
<1>1. /\ n \in RL!Calls /\ initCalls' = n /\ target' = n
      /\ inited => outcome = "refused"
      /\ \/ /\ outcome = "refused"
            /\ UNCHANGED <<sessionTarget, intervals, tracking, rumSessionId, attributer>>
         \/ /\ outcome # "refused"
            /\ sessionTarget' = n /\ intervals' = intervals \cup {n} /\ tracking' = n
            /\ rumSessionId' = cookieId /\ attributer' = n
      /\ \/ /\ outcome = "inited" /\ provider' = n
            /\ registered' = IF registered = 0 THEN n ELSE registered
         \/ outcome # "inited" /\ UNCHANGED <<provider, registered>>
      /\ inited' = (inited \/ outcome = "inited")
      /\ UNCHANGED <<hearers, cookieId, attributes, shut, decision, tasks, told, span>>
  BY DEF RL!RumInit
<1>2. initCalls \in 0..MaxRumInits /\ MaxRumInits \in Nat
  BY RumAssumption DEF RlInv, RL!RlTypeOK
<1>3. n \in 1..n /\ 0..initCalls \subseteq 0..n /\ 1..initCalls \subseteq 1..n /\ n \notin 1..initCalls
      /\ n \in 0..MaxRumInits
  BY <1>1, <1>2 DEF RL!Calls
<1>. HIDE DEF n
<1>4. RL!RlTypeOK'
  <2>1. initCalls' \in 0..MaxRumInits /\ inited' \in BOOLEAN
    BY <1>1, <1>3 DEF RlInv, RL!RlTypeOK
  <2>2. ({target, sessionTarget, tracking, attributer, provider, registered}
           \subseteq 0..initCalls)'
    <3>1. n \in 0..n
      BY <1>3
    <3>2. sessionTarget \in 0..n /\ tracking \in 0..n /\ attributer \in 0..n
          /\ provider \in 0..n /\ registered \in 0..n
      BY <1>3 DEF RlInv, RL!RlTypeOK
    <3>3. target' \in 0..n /\ sessionTarget' \in 0..n /\ tracking' \in 0..n
          /\ attributer' \in 0..n /\ provider' \in 0..n /\ registered' \in 0..n
      BY <1>1, <3>1, <3>2
    <3>. QED  BY <1>1, <3>3
  <2>3. (hearers \subseteq RL!Calls /\ intervals \subseteq RL!Calls /\ shut \subseteq RL!Calls)'
    BY <1>1 DEF RlInv, RL!RlTypeOK, RL!Calls
  <2>4. (cookieId \in Sessions /\ rumSessionId \in RL!Ids)'
    BY <1>1 DEF RlInv, RL!RlTypeOK, RL!Ids
  <2>. QED  BY <1>1, <2>1, <2>2, <2>3, <2>4 DEF RlInv, RL!RlTypeOK, RL!Calls
<1>5. ProviderInv'
  <2>1. inited => UNCHANGED <<inited, provider, registered>>
    BY <1>1
  <2>2. ~inited => /\ registered = 0
                   /\ inited' => provider' = n /\ registered' = n
                   /\ ~inited' => registered' = 0
    BY <1>1 DEF RlInv, ProviderInv
  <2>3. inited \in BOOLEAN
    BY DEF RlInv, RL!RlTypeOK
  <2>. QED  BY <1>1, <1>3, <2>1, <2>2, <2>3 DEF RlInv, ProviderInv
<1>6. DecisionInv'
  BY <1>1 DEF RlInv, DecisionInv
<1>7. HeardInv'
  BY <1>1, <1>3 DEF RlInv, HeardInv
<1>. QED  BY <1>4, <1>5, <1>6, <1>7 DEF RlInv

LEMMA DeinitKeeps == RlInv /\ RL!Deinit => RlInv'
<1>. SUFFICES ASSUME RlInv, RL!Deinit PROVE RlInv'
  OBVIOUS
<1>. DEFINE t == [on |-> "shutdown", of |-> provider]
<1>1. /\ inited /\ Len(tasks) < MaxTasks
      /\ intervals' = intervals \ {tracking} /\ tracking' = 0
      /\ rumSessionId' = NoSession /\ sessionTarget' = 0
      /\ registered' = 0 /\ tasks' = tasks \o <<t>>
      /\ provider' = 0 /\ target' = 0 /\ inited' = FALSE
      /\ UNCHANGED <<initCalls, hearers, cookieId, attributes, attributer, shut, decision,
                     told, span>>
  BY DEF RL!Deinit
<1>2. provider \in 1..initCalls /\ initCalls \in 0..MaxRumInits /\ MaxRumInits \in Nat
  BY <1>1, RumAssumption DEF RlInv, RL!RlTypeOK, ProviderInv
<1>3. tasks \in Seq(RL!Task) /\ t \in RL!Task /\ t.on = "shutdown" /\ t.of = provider
  BY <1>2 DEF RL!Task, RL!Calls, RlInv, RL!RlTypeOK
<1>. HIDE DEF t
<1>4. /\ tasks' \in Seq(RL!Task) /\ Len(tasks') <= MaxTasks
      /\ \A i \in DOMAIN tasks' : tasks'[i] = IF i \in DOMAIN tasks THEN tasks[i] ELSE t
      /\ DOMAIN tasks \subseteq DOMAIN tasks'
  BY <1>1, <1>3, OneMore, RumAssumption
<1>5. RL!RlTypeOK'
  <2>1. 0 \in 0..initCalls /\ attributer \in 0..initCalls
    BY <1>2 DEF RlInv, RL!RlTypeOK
  <2>2. ({target, sessionTarget, tracking, attributer, provider, registered}
           \subseteq 0..initCalls)'
    BY <1>1, <2>1
  <2>. QED  BY <1>1, <1>4, <2>2 DEF RlInv, RL!RlTypeOK, RL!Ids, RL!Calls
<1>6. ProviderInv'
  BY <1>1, <1>2, <1>3, <1>4 DEF RlInv, ProviderInv
<1>7. DecisionInv'
  BY <1>1 DEF RlInv, DecisionInv
<1>8. HeardInv'
  <2>1. 0 \notin hearers
    BY <1>2 DEF RlInv, HeardInv
  <2>. QED  BY <1>1, <2>1 DEF RlInv, HeardInv
<1>. QED  BY <1>5, <1>6, <1>7, <1>8 DEF RlInv

LEMMA SetGlobalAttributesKeeps ==
  ASSUME RlInv, NEW v \in RL!Values, RL!SetGlobalAttributes(v)
  PROVE  RlInv'
<1>. DEFINE t == [on |-> "attributes", of |-> attributer]
<1>1. /\ Len(tasks) < MaxTasks
      /\ attributes' = IF attributer = 0 THEN attributes
                       ELSE [attributes EXCEPT ![attributer] = v]
      /\ tasks' = IF target \in hearers THEN tasks \o <<t>> ELSE tasks
      /\ UNCHANGED <<initCalls, inited, target, sessionTarget, hearers, intervals, tracking,
                     cookieId, rumSessionId, attributer, provider, registered, shut,
                     decision, told, span>>
  BY DEF RL!SetGlobalAttributes, RL!Emitted
<1>2. initCalls \in 0..MaxRumInits /\ MaxRumInits \in Nat /\ attributer \in 0..initCalls
  BY RumAssumption DEF RlInv, RL!RlTypeOK
<1>3. tasks \in Seq(RL!Task) /\ t \in RL!Task /\ t.on = "attributes" /\ t.of = attributer
  BY <1>2 DEF RL!Task, RlInv, RL!RlTypeOK
<1>. HIDE DEF t
<1>4. /\ tasks' \in Seq(RL!Task) /\ Len(tasks') <= MaxTasks
      /\ \A i \in DOMAIN tasks' : tasks'[i] = IF i \in DOMAIN tasks THEN tasks[i] ELSE t
      /\ DOMAIN tasks \subseteq DOMAIN tasks'
      /\ target \in hearers => \E i \in DOMAIN tasks' : tasks'[i] = t
  <2>1. CASE target \in hearers
    BY <1>1, <1>3, <2>1, OneMore, RumAssumption
  <2>2. CASE target \notin hearers
    BY <1>1, <1>3, <2>2, RumAssumption
  <2>. QED  BY <2>1, <2>2
<1>5. RL!RlTypeOK'
  <2>1. attributes' \in [RL!Calls -> RL!Values]
    BY <1>1 DEF RlInv, RL!RlTypeOK
  <2>. QED  BY <1>1, <1>4, <2>1 DEF RlInv, RL!RlTypeOK, RL!Calls
<1>6. ProviderInv'
  BY <1>1, <1>3, <1>4 DEF RlInv, ProviderInv
<1>7. DecisionInv'
  BY <1>1 DEF RlInv, DecisionInv
<1>8. HeardInv'
  BY <1>1, <1>3, <1>4 DEF RlInv, HeardInv
<1>. QED  BY <1>5, <1>6, <1>7, <1>8 DEF RlInv

LEMMA StartSpanKeeps ==
  ASSUME RlInv, NEW n \in RL!Calls, RL!StartSpan(n)
  PROVE  RlInv'
<1>. DEFINE d == RL!Decided(decision[n])
<1>1. /\ UNCHANGED <<initCalls, inited, target, sessionTarget, hearers, intervals, tracking,
                     cookieId, rumSessionId, attributes, attributer, provider, registered,
                     shut, tasks, told>>
      /\ \/ span' = RL!NoSpan /\ decision' = decision
         \/ /\ rumSessionId # NoSession \/ decision[n].session = NoSession
            /\ decision' = [decision EXCEPT ![n] = d]
            /\ span' = [session |-> rumSessionId, sampled |-> d.sampled]
  BY DEF RL!StartSpan
<1>2. /\ decision \in [RL!Calls -> [session : RL!Ids, sampled : BOOLEAN]]
      /\ rumSessionId \in RL!Ids /\ Right(decision[n])
  BY DEF RlInv, RL!RlTypeOK, DecisionInv
<1>3. d \in [session : RL!Ids, sampled : BOOLEAN] /\ Right(d) /\ d.session = rumSessionId
  <2>1. CASE decision[n].session = rumSessionId
    BY <1>2, <2>1 DEF RL!Decided
  <2>2. CASE decision[n].session # rumSessionId
    BY <1>2, <2>2 DEF RL!Decided, Right
  <2>. QED  BY <2>1, <2>2
<1>. HIDE DEF d
<1>4. RL!NoSpan \in [session : RL!Ids, sampled : BOOLEAN] /\ Right(RL!NoSpan)
  BY DEF RL!NoSpan, RL!Ids, Right
<1>5. /\ span' \in [session : RL!Ids, sampled : BOOLEAN] /\ Right(span)'
      /\ decision' \in [RL!Calls -> [session : RL!Ids, sampled : BOOLEAN]]
      /\ \A m \in RL!Calls : Right(decision[m])'
  <2>1. \A m \in RL!Calls : Right(decision[m])
    BY DEF RlInv, DecisionInv
  <2>2. CASE span' = RL!NoSpan /\ decision' = decision
    BY <1>2, <1>4, <2>1, <2>2 DEF Right
  <2>3. CASE /\ decision' = [decision EXCEPT ![n] = d]
             /\ span' = [session |-> rumSessionId, sampled |-> d.sampled]
    BY <1>2, <1>3, <2>1, <2>3 DEF Right
  <2>. QED  BY <1>1, <2>2, <2>3
<1>6. RL!RlTypeOK'
  BY <1>1, <1>5 DEF RlInv, RL!RlTypeOK, RL!Calls, RL!Ids
<1>7. ProviderInv' /\ HeardInv'
  BY <1>1 DEF RlInv, ProviderInv, HeardInv
<1>8. DecisionInv'
  BY <1>5 DEF DecisionInv, RL!Calls
<1>. QED  BY <1>6, <1>7, <1>8 DEF RlInv

LEMMA RlStep == RlInv /\ [RL!Next]_RL!rlVars => RlInv'
<1>. SUFFICES ASSUME RlInv, [RL!Next]_RL!rlVars PROVE RlInv'
  OBVIOUS
<1>1. CASE RL!AddEventListener
  BY <1>1, AddEventListenerKeeps
<1>2. CASE RL!RunTask
  BY <1>2, RunTaskKeeps
<1>3. CASE RL!UpdateSessionStatus
  BY <1>3, UpdateSessionStatusKeeps
<1>4. CASE \E outcome \in {"inited", "refused", "failed"} : RL!RumInit(outcome)
  BY <1>4, RumInitKeeps
<1>5. CASE RL!Deinit
  BY <1>5, DeinitKeeps
<1>6. CASE \E v \in RL!Values : RL!SetGlobalAttributes(v)
  BY <1>6, SetGlobalAttributesKeeps
<1>7. CASE RL!AddAction \/ RL!TraceByApi \/ RL!TraceByOldTracer
  <2>. SUFFICES \E n \in RL!Calls : RL!StartSpan(n)
    BY StartSpanKeeps
  <2>1. CASE RL!AddAction
    <3>1. provider \in RL!Calls
      BY <2>1, RumAssumption DEF RL!AddAction, RlInv, ProviderInv, RL!RlTypeOK, RL!Calls
    <3>. QED  BY <2>1, <3>1 DEF RL!AddAction
  <2>2. CASE RL!TraceByApi
    <3>1. registered \in RL!Calls
      BY <2>2, RumAssumption DEF RL!TraceByApi, RlInv, RL!RlTypeOK, RL!Calls
    <3>. QED  BY <2>2, <3>1 DEF RL!TraceByApi
  <2>3. CASE RL!TraceByOldTracer
    BY <2>3 DEF RL!TraceByOldTracer, RlInv, RL!RlTypeOK
  <2>. QED  BY <1>7, <2>1, <2>2, <2>3
<1>8. CASE RL!RemoveEventListener \/ RL!SessionExpires \/ UNCHANGED RL!rlVars
  <2>1. /\ UNCHANGED <<initCalls, inited, target, sessionTarget, intervals, tracking,
                       rumSessionId, attributes, attributer, provider, registered, shut,
                       decision, tasks, told, span>>
        /\ hearers' \subseteq hearers /\ cookieId' \in Sessions
    BY <1>8 DEF RL!RemoveEventListener, RL!SessionExpires, RL!rlVars, RlInv, RL!RlTypeOK
  <2>2. RL!RlTypeOK'
    BY <2>1 DEF RlInv, RL!RlTypeOK
  <2>3. ProviderInv' /\ DecisionInv'
    BY <2>1 DEF RlInv, ProviderInv, DecisionInv
  <2>4. HeardInv'
    BY <2>1 DEF RlInv, HeardInv
  <2>. QED  BY <2>2, <2>3, <2>4 DEF RlInv
<1>. QED  BY <1>1, <1>2, <1>3, <1>4, <1>5, <1>6, <1>7, <1>8 DEF RL!Next

\* The variables of the life cycle keep their types (index.ts).
THEOREM RumTypes == RL!Spec => []RL!RlTypeOK
<1>1. RL!Init => RlInv
  BY RlInitial
<1>2. RlInv /\ [RL!Next]_RL!rlVars => RlInv'
  BY RlStep
<1>3. RlInv => RL!RlTypeOK
  BY DEF RlInv
<1>. QED  BY <1>1, <1>2, <1>3, PTL DEF RL!Spec

\* While the SDK is inited the OpenTelemetry API has its provider, and it is not shut
\* down; the last span has the decision of its session
\* (index.ts:648-677, SplunkWebTracerProvider.ts:28-37, SessionBasedSampler.ts:72-102).
THEOREM SpansKeepTheDecision == RL!Spec => []SpansOfTheSession
<1>1. RL!Init => RlInv
  BY RlInitial
<1>2. RlInv /\ [RL!Next]_RL!rlVars => RlInv'
  BY RlStep
<1>3. RlInv => SpansOfTheSession
  BY DEF RlInv, ProviderInv, DecisionInv, Right, SpansOfTheSession, RL!SpansOfTheSession
<1>. QED  BY <1>1, <1>2, <1>3, PTL DEF RL!Spec

\* Once no microtask waits, a listener that was told of the attributes knows them as
\* they are (index.ts:696-701, EventTarget.ts:37-76).
THEOREM ListenersHear == RL!Spec => []AttributesHeard
<1>1. RL!Init => RlInv
  BY RlInitial
<1>2. RlInv /\ [RL!Next]_RL!rlVars => RlInv'
  BY RlStep
<1>3. RlInv => AttributesHeard
  BY DEF RlInv, HeardInv, AttributesHeard, RL!AttributesHeard
<1>. QED  BY <1>1, <1>2, <1>3, PTL DEF RL!Spec

-----------------------------------------------------------------------------
(* WebSocketSpans.                                                         *)

\* The lists nat, of the browser, and pl, of a plain socket, have the same listeners.
Alike(nat, pl) ==
  /\ nat \in Seq(WS!Native) /\ pl \in Seq(WS!Added) /\ Len(nat) = Len(pl)
  /\ \A i \in DOMAIN nat :
       pl[i] = [fn |-> nat[i].fn, once |-> nat[i].once, capture |-> nat[i].capture]

\* With one value of capture, no listener is in a list twice.
Distinct(nat) == \A i, j \in DOMAIN nat : nat[i].fn = nat[j].fn => i = j

Has(nat, fn) == \E i \in DOMAIN nat : nat[i].fn = fn

LEMMA AddedToBoth ==
  ASSUME NEW nat, NEW pl, Alike(nat, pl), Distinct(nat), NEW e \in WS!Native, NEW a,
         a = [fn |-> e.fn, once |-> e.once, capture |-> e.capture], ~Has(nat, e.fn),
         \A i \in DOMAIN nat : nat[i].patched = e.patched
  PROVE  /\ WS!NativeAdd(nat, e) = Append(nat, e)
         /\ WS!NativeAdd(pl, a) = Append(pl, a)
         /\ Alike(Append(nat, e), Append(pl, a)) /\ Distinct(Append(nat, e))
         /\ \A i \in DOMAIN Append(nat, e) : Append(nat, e)[i].patched = e.patched
         /\ \A fn : Has(Append(nat, e), fn) <=> Has(nat, fn) \/ fn = e.fn
<1>. DEFINE n == Append(nat, e)
            p == Append(pl, a)
<1>1. a \in WS!Added /\ a.fn = e.fn
  BY DEF WS!Added, WS!Native
<1>2. /\ nat \in Seq(WS!Native) /\ pl \in Seq(WS!Added) /\ Len(nat) = Len(pl)
      /\ \A i \in DOMAIN nat : nat[i] \in WS!Native /\ nat[i].fn # e.fn
      /\ \A i \in DOMAIN pl : pl[i].fn # a.fn
      /\ DOMAIN nat = DOMAIN pl
  <2>1. nat \in Seq(WS!Native) /\ pl \in Seq(WS!Added) /\ Len(nat) = Len(pl)
    BY DEF Alike
  <2>2. \A i \in DOMAIN nat : nat[i] \in WS!Native /\ nat[i].fn # e.fn
    BY <2>1 DEF Has
  <2>3. DOMAIN nat = DOMAIN pl
    BY <2>1
  <2>. QED  BY <1>1, <2>1, <2>2, <2>3 DEF Alike
<1>3. WS!NativeAdd(nat, e) = n
  <2>1. \A i \in DOMAIN nat : [nat[i] EXCEPT !.once = e.once] # e
    <3>. SUFFICES ASSUME NEW i \in DOMAIN nat PROVE [nat[i] EXCEPT !.once = e.once].fn # e.fn
      OBVIOUS
    <3>1. nat[i] \in WS!Native /\ nat[i].fn # e.fn
      BY <1>2
    <3>. QED  BY <3>1 DEF WS!Native
  <2>. QED  BY <2>1 DEF WS!NativeAdd
<1>4. WS!NativeAdd(pl, a) = p
  <2>1. \A i \in DOMAIN pl : [pl[i] EXCEPT !.once = a.once] # a
    <3>. SUFFICES ASSUME NEW i \in DOMAIN pl PROVE [pl[i] EXCEPT !.once = a.once].fn # a.fn
      OBVIOUS
    <3>1. pl[i] \in WS!Added /\ pl[i].fn # a.fn
      BY <1>2
    <3>. QED  BY <3>1 DEF WS!Added
  <2>. QED  BY <2>1 DEF WS!NativeAdd
<1>5. /\ n \in Seq(WS!Native) /\ p \in Seq(WS!Added)
      /\ Len(n) = Len(nat) + 1 /\ Len(p) = Len(n)
      /\ \A i \in DOMAIN n : i \in DOMAIN nat \/ i = Len(nat) + 1
      /\ \A i \in DOMAIN nat : n[i] = nat[i] /\ p[i] = pl[i] /\ i \in DOMAIN n /\ i # Len(nat) + 1
      /\ n[Len(nat) + 1] = e /\ p[Len(nat) + 1] = a /\ Len(nat) + 1 \in DOMAIN n
  BY <1>1, <1>2, AppendProperties
<1>. HIDE DEF n, p
<1>6. Alike(n, p)
  <2>1. \A i \in DOMAIN n :
          p[i] = [fn |-> n[i].fn, once |-> n[i].once, capture |-> n[i].capture]
    BY <1>5 DEF Alike
  <2>. QED  BY <1>5, <2>1 DEF Alike
<1>7. Distinct(n)
  BY <1>2, <1>5 DEF Distinct
<1>8. \A fn : Has(n, fn) <=> Has(nat, fn) \/ fn = e.fn
  BY <1>5 DEF Has
<1>9. \A i \in DOMAIN n : n[i].patched = e.patched
  BY <1>5
<1>. QED  BY <1>3, <1>4, <1>6, <1>7, <1>8, <1>9 DEF n, p

LEMMA PresentInBoth ==
  ASSUME NEW nat, NEW pl, Alike(nat, pl), NEW e \in WS!Native, NEW a,
         a = [fn |-> e.fn, once |-> e.once, capture |-> e.capture], Has(nat, e.fn),
         \A i \in DOMAIN nat : nat[i].patched = e.patched
  PROVE  WS!NativeAdd(nat, e) = nat /\ WS!NativeAdd(pl, a) = pl
<1>1. PICK i \in DOMAIN nat : nat[i].fn = e.fn
  BY DEF Has
<1>2. nat[i] \in WS!Native /\ nat[i].patched = e.patched /\ i \in DOMAIN pl
      /\ pl[i] = [fn |-> nat[i].fn, once |-> nat[i].once, capture |-> nat[i].capture]
  BY DEF Alike
<1>3. nat[i].capture = e.capture
  BY <1>2, CaptureAssumption DEF WS!Native
<1>4. [nat[i] EXCEPT !.once = e.once] = e
  BY <1>1, <1>2, <1>3 DEF WS!Native
<1>5. [pl[i] EXCEPT !.once = a.once] = a
  BY <1>1, <1>2, <1>3
<1>. QED  BY <1>2, <1>4, <1>5 DEF WS!NativeAdd

LEMMA RemovedFromBoth ==
  ASSUME NEW nat, NEW pl, Alike(nat, pl), Distinct(nat), NEW fn, NEW capture \in Captures,
         NEW b, \A i \in DOMAIN nat : nat[i].patched = b,
         NEW n, n = WS!NativeRemove(nat, fn, capture),
         NEW p, p = WS!NativeRemove(pl, fn, capture)
  PROVE  /\ Alike(n, p) /\ Distinct(n)
         /\ \A g : Has(n, g) <=> Has(nat, g) /\ g # fn
         /\ \A i \in DOMAIN n : n[i].patched = b
         /\ nat = <<>> => n = <<>>
<1>. DEFINE at == {i \in DOMAIN nat : nat[i].fn = fn /\ nat[i].capture = capture}
<1>1. /\ nat \in Seq(WS!Native) /\ pl \in Seq(WS!Added) /\ Len(nat) = Len(pl)
      /\ DOMAIN nat = DOMAIN pl
      /\ \A i \in DOMAIN nat :
           pl[i] = [fn |-> nat[i].fn, once |-> nat[i].once, capture |-> nat[i].capture]
  <2>1. nat \in Seq(WS!Native) /\ pl \in Seq(WS!Added) /\ Len(nat) = Len(pl)
    BY DEF Alike
  <2>. QED  BY <2>1 DEF Alike
<1>2. \A i \in DOMAIN nat : i \in at <=> nat[i].fn = fn
  <2>1. \A i \in DOMAIN nat : nat[i].capture \in Captures
    <3>1. \A i \in DOMAIN nat : nat[i] \in WS!Native
      BY <1>1
    <3>. QED  BY <3>1 DEF WS!Native
  <2>. QED  BY <2>1, CaptureAssumption
<1>3. at = {i \in DOMAIN pl : pl[i].fn = fn /\ pl[i].capture = capture}
  BY <1>1
<1>4. n = WS!TakenOff(nat, at) /\ p = WS!TakenOff(pl, at)
  BY <1>3 DEF WS!NativeRemove
<1>5. CASE at = {}
  <2>1. n = nat /\ p = pl
    BY <1>4, <1>5 DEF WS!TakenOff
  <2>2. \A g : Has(nat, g) => g # fn
    BY <1>2, <1>5 DEF Has
  <2>. HIDE DEF at
  <2>. QED  BY <2>1, <2>2
<1>6. CASE at # {}
  <2>. DEFINE k == CHOOSE i \in at : TRUE
  <2>1. k \in at /\ k \in DOMAIN nat /\ nat[k].fn = fn
    <3>1. k \in at
      BY <1>6
    <3>2. at \subseteq DOMAIN nat
      OBVIOUS
    <3>. HIDE DEF at, k
    <3>. QED  BY <1>2, <3>1, <3>2
  <2>2. n = RemoveAt(nat, k) /\ p = RemoveAt(pl, k)
    BY <1>4, <1>6 DEF WS!TakenOff, WS!RemoveAt, RemoveAt
  <2>. HIDE DEF at, k
  <2>3. /\ n \in Seq(WS!Native) /\ p \in Seq(WS!Added)
        /\ Len(n) = Len(nat) - 1 /\ Len(p) = Len(nat) - 1 /\ Len(nat) \in Nat
        /\ \A i \in 1..Len(nat) - 1 : /\ n[i] = IF i < k THEN nat[i] ELSE nat[i + 1]
                                      /\ p[i] = IF i < k THEN pl[i] ELSE pl[i + 1]
    <3>1. k \in DOMAIN pl /\ Len(nat) \in Nat
      <4>1. Len(nat) \in Nat /\ DOMAIN nat = 1..Len(nat) /\ DOMAIN pl = 1..Len(pl)
        BY <1>1
      <4>. QED  BY <1>1, <2>1, <4>1
    <3>2. /\ RemoveAt(nat, k) \in Seq(WS!Native) /\ Len(RemoveAt(nat, k)) = Len(nat) - 1
          /\ \A i \in 1..Len(nat) - 1 :
               RemoveAt(nat, k)[i] = IF i < k THEN nat[i] ELSE nat[i + 1]
      BY <1>1, <2>1, RemoveAtFacts
    <3>3. /\ RemoveAt(pl, k) \in Seq(WS!Added) /\ Len(RemoveAt(pl, k)) = Len(pl) - 1
          /\ \A i \in 1..Len(pl) - 1 :
               RemoveAt(pl, k)[i] = IF i < k THEN pl[i] ELSE pl[i + 1]
      BY <1>1, <3>1, RemoveAtFacts
    <3>. QED  BY <1>1, <2>2, <3>1, <3>2, <3>3
  <2>4. DOMAIN n = 1..Len(nat) - 1 /\ DOMAIN nat = 1..Len(nat)
    BY <1>1, <2>3
  <2>. DEFINE From(i) == IF i < k THEN i ELSE i + 1
  <2>5. \A i \in DOMAIN n : /\ From(i) \in DOMAIN nat /\ From(i) # k
                            /\ n[i] = nat[From(i)] /\ p[i] = pl[From(i)]
    BY <2>1, <2>3, <2>4
  <2>6. \A j \in DOMAIN nat : j # k => \E i \in DOMAIN n : From(i) = j
    <3>. SUFFICES ASSUME NEW j \in DOMAIN nat, j # k PROVE \E i \in DOMAIN n : From(i) = j
      OBVIOUS
    <3>1. CASE j < k
      <4>1. j \in DOMAIN n
        BY <2>1, <2>3, <2>4, <3>1
      <4>. QED  BY <3>1, <4>1
    <3>2. CASE j > k
      <4>1. j - 1 \in DOMAIN n /\ ~(j - 1 < k) /\ (j - 1) + 1 = j
        BY <2>1, <2>3, <2>4, <3>2
      <4>. QED  BY <4>1
    <3>. QED  BY <2>1, <2>4, <3>1, <3>2
  <2>7. \A i, j \in DOMAIN n : From(i) = From(j) => i = j
    BY <2>1, <2>3, <2>4
  <2>. HIDE DEF From
  <2>8. Alike(n, p)
    BY <1>1, <2>3, <2>5 DEF Alike
  <2>9. Distinct(n)
    BY <2>5, <2>7 DEF Distinct
  <2>10. \A g : Has(n, g) <=> Has(nat, g) /\ g # fn
    <3>1. \A j \in DOMAIN nat : nat[j].fn = fn <=> j = k
      BY <2>1 DEF Distinct
    <3>. QED  BY <2>5, <2>6, <3>1 DEF Has
  <2>11. \A i \in DOMAIN n : n[i].patched = b
    BY <2>5
  <2>12. nat # <<>>
    BY <2>1
  <2>. QED  BY <2>8, <2>9, <2>10, <2>11, <2>12
<1>. QED  BY <1>5, <1>6


Inst(soc) == soc \notin {"none", "plain"}
InTable(table, fn, s) == \E k \in table : k.fn = fn /\ k.ws = s
Table == [fn : Fns, ws : WebSockets, capture : Captures]

\* What a socket's lists and the table say of each other.
Fits(s, soc, nat, pl, table) ==
  /\ Alike(nat, pl) /\ Distinct(nat)
  /\ \A i \in DOMAIN nat : nat[i].patched = Inst(soc)
  /\ \A fn \in Fns : InTable(table, fn, s) <=> Inst(soc) /\ Has(nat, fn)
  /\ soc = "none" => nat = <<>>

SocketsFit ==
  \A s \in WebSockets : Fits(s, socket[s], native[s], plain[s], listener2ws2patched)

WsInv ==
  /\ WS!WsTypeOK /\ SocketsFit
  /\ delivery.left # <<>> => delivery.ws \in WebSockets

LEMMA KnownInTable ==
  ASSUME NEW fn, NEW s
  PROVE  /\ WS!Known(fn, s) # {} <=> InTable(listener2ws2patched, fn, s)
         /\ \A p \in WS!Known(fn, s) :
              p \in listener2ws2patched /\ p.fn = fn /\ p.ws = s
BY DEF WS!Known, InTable

\* A step that changes the lists of one socket, and what the table has of it.
LEMMA OneSocket ==
  ASSUME WsInv, NEW s \in WebSockets, NEW nat, NEW pl, UNCHANGED socket,
         native' = [native EXCEPT ![s] = nat], plain' = [plain EXCEPT ![s] = pl],
         listener2ws2patched' \subseteq Table,
         \A t \in WebSockets \ {s} : \A fn \in Fns :
           InTable(listener2ws2patched', fn, t) <=> InTable(listener2ws2patched, fn, t),
         Fits(s, socket[s], nat, pl, listener2ws2patched')
  PROVE  /\ native' \in [WebSockets -> Seq(WS!Native)]
         /\ plain' \in [WebSockets -> Seq(WS!Added)]
         /\ SocketsFit'
<1>1. /\ native \in [WebSockets -> Seq(WS!Native)] /\ plain \in [WebSockets -> Seq(WS!Added)]
      /\ nat \in Seq(WS!Native) /\ pl \in Seq(WS!Added)
  BY DEF WsInv, WS!WsTypeOK, Fits, Alike
<1>2. \A t \in WebSockets : Fits(t, socket'[t], native'[t], plain'[t], listener2ws2patched')
  <2>. SUFFICES ASSUME NEW t \in WebSockets
                PROVE  Fits(t, socket[t], native'[t], plain'[t], listener2ws2patched')
    OBVIOUS
  <2>1. CASE t = s
    BY <1>1, <2>1
  <2>2. CASE t # s
    <3>1. native'[t] = native[t] /\ plain'[t] = plain[t]
      BY <1>1, <2>2
    <3>2. Fits(t, socket[t], native[t], plain[t], listener2ws2patched)
      BY DEF WsInv, SocketsFit
    <3>. QED  BY <2>2, <3>1, <3>2 DEF Fits
  <2>. QED  BY <2>1, <2>2
<1>. QED  BY <1>1, <1>2 DEF SocketsFit

LEMMA WsInitial == WS!Init => WsInv
<1>. SUFFICES ASSUME WS!Init PROVE WsInv
  OBVIOUS
<1>1. WS!WsTypeOK
  <2>1. delivery \in [ws : WebSockets \cup {"none"}, left : Seq(WS!Native)]
    BY DEF WS!Init, WS!Quiet
  <2>2. native \in [WebSockets -> Seq(WS!Native)] /\ plain \in [WebSockets -> Seq(WS!Added)]
    BY DEF WS!Init
  <2>3. socket \in [WebSockets -> {"none", "plain", "open", "ended", "failed"}]
    BY DEF WS!Init
  <2>. QED  BY <2>1, <2>2, <2>3 DEF WS!Init, WS!WsTypeOK
<1>2. Alike(<<>>, <<>>) /\ Distinct(<<>>) /\ \A fn : ~Has(<<>>, fn)
  BY DEF Alike, Distinct, Has
<1>3. SocketsFit
  BY <1>2 DEF WS!Init, SocketsFit, Fits, InTable
<1>4. delivery.left = <<>>
  BY DEF WS!Init, WS!Quiet
<1>. QED  BY <1>1, <1>3, <1>4 DEF WsInv

LEMMA NewWebSocketKeeps ==
  ASSUME WsInv, NEW s \in WebSockets, NEW ignored \in BOOLEAN, WS!NewWebSocket(s, ignored)
  PROVE  WsInv'
<1>. DEFINE soc == IF wrapped /\ ~ignored THEN "open" ELSE "plain"
<1>1. /\ socket[s] = "none" /\ socket' = [socket EXCEPT ![s] = soc]
      /\ UNCHANGED <<wrapped, native, listener2ws2patched, plain, delivery, inListener>>
      /\ soc # "none"
      /\ soc \in {"none", "plain", "open", "ended", "failed"}
  BY DEF WS!NewWebSocket
<1>. HIDE DEF soc
<1>2. WS!WsTypeOK'
  BY <1>1 DEF WsInv, WS!WsTypeOK
<1>3. SocketsFit'
  <2>. SUFFICES ASSUME NEW t \in WebSockets
                PROVE  Fits(t, socket'[t], native[t], plain[t], listener2ws2patched)
    BY <1>1 DEF SocketsFit
  <2>1. Fits(t, socket[t], native[t], plain[t], listener2ws2patched)
    BY DEF WsInv, SocketsFit
  <2>2. CASE t # s
    BY <1>1, <2>1, <2>2 DEF WsInv, WS!WsTypeOK
  <2>3. CASE t = s
    <3>1. socket'[s] = soc /\ native[s] = <<>>
      BY <1>1, <2>1, <2>3 DEF WsInv, WS!WsTypeOK, Fits
    <3>2. \A fn : ~Has(native[s], fn)
      BY <3>1 DEF Has
    <3>. QED  BY <1>1, <2>1, <2>3, <3>1, <3>2 DEF Fits, Inst
  <2>. QED  BY <2>2, <2>3
<1>. QED  BY <1>1, <1>2, <1>3 DEF WsInv

LEMMA ConnectedKeeps ==
  ASSUME WsInv, NEW s \in WebSockets, NEW result \in {"ended", "failed"},
         WS!Connected(s, result)
  PROVE  WsInv'
<1>1. /\ socket[s] = "open" /\ socket' = [socket EXCEPT ![s] = result]
      /\ UNCHANGED <<wrapped, native, listener2ws2patched, plain, delivery, inListener>>
  BY DEF WS!Connected
<1>2. WS!WsTypeOK'
  BY <1>1 DEF WsInv, WS!WsTypeOK
<1>3. SocketsFit'
  <2>1. \A t \in WebSockets : /\ Inst(socket'[t]) = Inst(socket[t])
                              /\ socket'[t] = "none" <=> socket[t] = "none"
    BY <1>1 DEF WsInv, WS!WsTypeOK, Inst
  <2>. SUFFICES ASSUME NEW t \in WebSockets
                PROVE  Fits(t, socket'[t], native[t], plain[t], listener2ws2patched)
    BY <1>1 DEF SocketsFit
  <2>2. Fits(t, socket[t], native[t], plain[t], listener2ws2patched)
    BY DEF WsInv, SocketsFit
  <2>. QED  BY <2>1, <2>2 DEF Fits
<1>. QED  BY <1>1, <1>2, <1>3 DEF WsInv

LEMMA AddMessageListenerKeeps ==
  ASSUME WsInv, NEW s \in WebSockets, NEW fn \in Fns, NEW once \in BOOLEAN,
         NEW capture \in Captures, WS!AddMessageListener(s, fn, once, capture)
  PROVE  WsInv'
<1>. DEFINE T == listener2ws2patched
            a == [fn |-> fn, once |-> once, capture |-> capture]
            e == [fn |-> fn, patched |-> Inst(socket[s]), once |-> once, capture |-> capture]
            k == [fn |-> fn, ws |-> s, capture |-> capture]
            n == WS!NativeAdd(native[s], e)
            p == WS!NativeAdd(plain[s], a)
<1>1. /\ plain' = [plain EXCEPT ![s] = p] /\ socket[s] # "none"
      /\ UNCHANGED <<wrapped, socket, delivery, inListener>>
  BY DEF WS!AddMessageListener
<1>2. \/ /\ Inst(socket[s]) /\ WS!Known(fn, s) = {} /\ T' = T \cup {k}
         /\ native' = [native EXCEPT ![s] = n]
      \/ Inst(socket[s]) /\ WS!Known(fn, s) # {} /\ T' = T /\ native' = native
      \/ ~Inst(socket[s]) /\ T' = T /\ native' = [native EXCEPT ![s] = n]
  <2>1. WS!Instrumented(s) <=> Inst(socket[s])
    BY DEF WS!Instrumented, Inst
  <2>2. CASE Inst(socket[s])
    <3>1. e = [fn |-> fn, patched |-> TRUE, once |-> once, capture |-> capture]
      BY <2>2 DEF Inst
    <3>. QED  BY <2>1, <2>2, <3>1 DEF WS!AddMessageListener
  <2>3. CASE ~Inst(socket[s])
    <3>1. e = [fn |-> fn, patched |-> FALSE, once |-> once, capture |-> capture]
      BY <2>3 DEF Inst
    <3>. QED  BY <2>1, <2>3, <3>1 DEF WS!AddMessageListener
  <2>. QED  BY <2>2, <2>3
<1>3. Fits(s, socket[s], native[s], plain[s], T) /\ T \subseteq Table
  BY DEF WsInv, SocketsFit, WS!WsTypeOK, Table
<1>4. Inst(socket[s]) \in BOOLEAN
  BY DEF Inst
<1>5. /\ k \in Table /\ k.fn = fn /\ k.ws = s
      /\ e \in WS!Native /\ e.fn = fn /\ e.patched = Inst(socket[s])
      /\ a = [fn |-> e.fn, once |-> e.once, capture |-> e.capture]
  BY <1>4 DEF Table, WS!Native
<1>6. \A i \in DOMAIN native[s] : native[s][i].patched = e.patched
  BY <1>3, <1>5 DEF Fits
<1>7. Alike(native[s], plain[s]) /\ Distinct(native[s])
  BY <1>3 DEF Fits
<1>. HIDE DEF a, e, k, n, p
<1>8. /\ native' \in [WebSockets -> Seq(WS!Native)] /\ plain' \in [WebSockets -> Seq(WS!Added)]
      /\ T' \subseteq Table /\ SocketsFit'
  <2>1. CASE Has(native[s], fn)
    <3>1. n = native[s] /\ p = plain[s]
      BY <1>5, <1>6, <1>7, <2>1, PresentInBoth DEF n, p
    <3>2. Inst(socket[s]) => WS!Known(fn, s) # {}
      BY <1>3, <2>1, KnownInTable DEF Fits
    <3>3. native' = [native EXCEPT ![s] = n] /\ T' = T
      BY <1>2, <3>1, <3>2 DEF WsInv, WS!WsTypeOK
    <3>4. Fits(s, socket[s], n, p, T')
      BY <1>3, <3>1, <3>3
    <3>. QED  BY <1>1, <1>3, <3>3, <3>4, OneSocket
  <2>2. CASE ~Has(native[s], fn)
    <3>1. /\ n = Append(native[s], e) /\ p = Append(plain[s], a)
          /\ Alike(Append(native[s], e), Append(plain[s], a)) /\ Distinct(Append(native[s], e))
          /\ \A i \in DOMAIN Append(native[s], e) : Append(native[s], e)[i].patched = e.patched
          /\ \A g : Has(Append(native[s], e), g) <=> Has(native[s], g) \/ g = e.fn
      BY <1>5, <1>6, <1>7, <2>2, AddedToBoth DEF n, p
    <3>2. /\ Alike(n, p) /\ Distinct(n) /\ \A i \in DOMAIN n : n[i].patched = Inst(socket[s])
          /\ \A g : Has(n, g) <=> Has(native[s], g) \/ g = fn
      BY <1>5, <3>1
    <3>3. Inst(socket[s]) => WS!Known(fn, s) = {}
      BY <1>3, <2>2, KnownInTable DEF Fits
    <3>4. native' = [native EXCEPT ![s] = n] /\ T' = IF Inst(socket[s]) THEN T \cup {k} ELSE T
      BY <1>2, <3>3
    <3>5. \A t, g : InTable(T', g, t) <=>
                      InTable(T, g, t) \/ (Inst(socket[s]) /\ g = fn /\ t = s)
      BY <1>5, <3>4 DEF InTable
    <3>6. Fits(s, socket[s], n, p, T')
      BY <1>1, <1>3, <3>2, <3>5 DEF Fits
    <3>7. T' \subseteq Table
      BY <1>3, <1>5, <3>4
    <3>. HIDE DEF T
    <3>8. \A t \in WebSockets \ {s} : \A g \in Fns : InTable(T', g, t) <=> InTable(T, g, t)
      BY <3>5
    <3>. QED  BY <1>1, <3>4, <3>6, <3>7, <3>8, OneSocket DEF T
  <2>. QED  BY <2>1, <2>2
<1>9. WS!WsTypeOK'
  BY <1>1, <1>8 DEF WsInv, WS!WsTypeOK, Table, WS!Native, WS!Added
<1>. QED  BY <1>1, <1>8, <1>9 DEF WsInv

\* A listener is taken off a socket, and off the table if the socket is instrumented.
LEMMA OneListenerLess ==
  ASSUME WsInv, NEW s \in WebSockets, NEW fn \in Fns, NEW capture \in Captures,
         UNCHANGED socket,
         native' = [native EXCEPT ![s] = WS!NativeRemove(native[s], fn, capture)],
         plain' = [plain EXCEPT ![s] = WS!NativeRemove(plain[s], fn, capture)],
         listener2ws2patched' = IF Inst(socket[s]) THEN WS!Forgotten(fn, s)
                                ELSE listener2ws2patched
  PROVE  /\ native' \in [WebSockets -> Seq(WS!Native)]
         /\ plain' \in [WebSockets -> Seq(WS!Added)]
         /\ listener2ws2patched' \subseteq Table /\ SocketsFit'
<1>. DEFINE T == listener2ws2patched
            n == WS!NativeRemove(native[s], fn, capture)
            p == WS!NativeRemove(plain[s], fn, capture)
<1>1. Fits(s, socket[s], native[s], plain[s], T) /\ T \subseteq Table
  BY DEF WsInv, SocketsFit, WS!WsTypeOK, Table
<1>2. /\ Alike(native[s], plain[s]) /\ Distinct(native[s])
      /\ \A i \in DOMAIN native[s] : native[s][i].patched = Inst(socket[s])
  BY <1>1 DEF Fits
<1>3. /\ Alike(n, p) /\ Distinct(n)
      /\ \A g : Has(n, g) <=> Has(native[s], g) /\ g # fn
      /\ \A i \in DOMAIN n : n[i].patched = Inst(socket[s])
      /\ native[s] = <<>> => n = <<>>
  <2>1. n = WS!NativeRemove(native[s], fn, capture) /\ p = WS!NativeRemove(plain[s], fn, capture)
    OBVIOUS
  <2>. HIDE DEF n, p
  <2>. DEFINE nat == native[s]
              pl == plain[s]
              b == Inst(socket[s])
  <2>2. /\ Alike(nat, pl) /\ Distinct(nat) /\ \A i \in DOMAIN nat : nat[i].patched = b
        /\ n = WS!NativeRemove(nat, fn, capture) /\ p = WS!NativeRemove(pl, fn, capture)
    BY <1>2, <2>1
  <2>. HIDE DEF nat, pl, b
  <2>3. /\ Alike(n, p) /\ Distinct(n)
        /\ \A g : Has(n, g) <=> Has(nat, g) /\ g # fn
        /\ \A i \in DOMAIN n : n[i].patched = b
        /\ nat = <<>> => n = <<>>
    BY <2>2, RemovedFromBoth
  <2>. QED  BY <2>3 DEF nat, b
<1>. HIDE DEF n, p
<1>4. T' \subseteq T
      /\ \A t, g : InTable(T', g, t) <=> InTable(T, g, t) /\ ~(Inst(socket[s]) /\ g = fn /\ t = s)
  <2>1. CASE Inst(socket[s])
    BY <2>1 DEF WS!Forgotten, WS!Known, InTable
  <2>2. CASE ~Inst(socket[s])
    BY <2>2
  <2>. QED  BY <2>1, <2>2
<1>5. Fits(s, socket[s], n, p, T')
  BY <1>1, <1>3, <1>4 DEF Fits
<1>. HIDE DEF T
<1>6. \A t \in WebSockets \ {s} : \A g \in Fns : InTable(T', g, t) <=> InTable(T, g, t)
  BY <1>4
<1>. QED  BY <1>1, <1>4, <1>5, <1>6, OneSocket DEF T, n, p

LEMMA RemoveMessageListenerKeeps ==
  ASSUME WsInv, NEW s \in WebSockets, NEW fn \in Fns, NEW capture \in Captures,
         WS!RemoveMessageListener(s, fn, capture)
  PROVE  WsInv'
<1>. DEFINE n == WS!NativeRemove(native[s], fn, capture)
<1>1. /\ plain' = [plain EXCEPT ![s] = WS!NativeRemove(plain[s], fn, capture)]
      /\ UNCHANGED <<wrapped, socket, delivery, inListener>>
  BY DEF WS!RemoveMessageListener
<1>2. /\ native' = [native EXCEPT ![s] = n]
      /\ listener2ws2patched' = IF Inst(socket[s]) THEN WS!Forgotten(fn, s)
                                ELSE listener2ws2patched
  <2>1. CASE ~Inst(socket[s])
    BY <2>1 DEF WS!RemoveMessageListener, WS!Instrumented, Inst
  <2>2. CASE Inst(socket[s])
    <3>1. /\ listener2ws2patched' = WS!Forgotten(fn, s)
          /\ native' = [native EXCEPT ![s] =
               IF \E q \in WS!Known(fn, s) : q.capture = capture THEN n ELSE native[s]]
      BY <2>2 DEF WS!RemoveMessageListener, WS!Instrumented, Inst
    <3>2. CASE \E q \in WS!Known(fn, s) : q.capture = capture
      BY <2>2, <3>1, <3>2
    <3>3. CASE ~ \E q \in WS!Known(fn, s) : q.capture = capture
      <4>1. WS!Known(fn, s) = {}
        <5>1. \A q \in WS!Known(fn, s) : q.capture \in Captures
          BY DEF WS!Known, WsInv, WS!WsTypeOK
        <5>. QED  BY <3>3, <5>1, CaptureAssumption
      <4>2. ~Has(native[s], fn)
        BY <2>2, <4>1, KnownInTable DEF WsInv, SocketsFit, Fits
      <4>3. {i \in DOMAIN native[s] : native[s][i].fn = fn /\ native[s][i].capture = capture} = {}
        BY <4>2 DEF Has
      <4>4. n = native[s]
        BY <4>3 DEF WS!NativeRemove, WS!TakenOff
      <4>. QED  BY <2>2, <3>1, <3>3, <4>4
    <3>. QED  BY <3>2, <3>3
  <2>. QED  BY <2>1, <2>2
<1>3. /\ native' \in [WebSockets -> Seq(WS!Native)] /\ plain' \in [WebSockets -> Seq(WS!Added)]
      /\ listener2ws2patched' \subseteq Table /\ SocketsFit'
  BY <1>1, <1>2, OneListenerLess
<1>. HIDE DEF n
<1>4. WS!WsTypeOK'
  BY <1>1, <1>3 DEF WsInv, WS!WsTypeOK, Table, WS!Native, WS!Added
<1>. QED  BY <1>1, <1>3, <1>4 DEF WsInv

LEMMA CallListenerKeeps == WsInv /\ WS!CallListener => WsInv'
<1>. SUFFICES ASSUME WsInv, WS!CallListener PROVE WsInv'
  OBVIOUS
<1>. DEFINE e == Head(delivery.left)
            s == delivery.ws
            there == WS!Contains(native[s], e)
<1>1. /\ delivery.left # <<>> /\ UNCHANGED <<wrapped, socket>>
      /\ delivery' = IF Len(delivery.left) = 1 /\ ~there THEN WS!Quiet
                     ELSE [delivery EXCEPT !.left = Tail(@)]
      /\ inListener' = IF ~there THEN "no" ELSE IF e.patched THEN "span" ELSE "plain"
      /\ \/ /\ there /\ e.once
            /\ native' = [native EXCEPT ![s] =
                 WS!TakenOff(native[s], {i \in DOMAIN native[s] : native[s][i] = e})]
            /\ plain' = [plain EXCEPT ![s] = WS!NativeRemove(plain[s], e.fn, e.capture)]
            /\ listener2ws2patched' =
                 IF e.patched THEN WS!Forgotten(e.fn, s) ELSE listener2ws2patched
         \/ UNCHANGED <<native, plain, listener2ws2patched>>
  BY DEF WS!CallListener
<1>2. s \in WebSockets /\ delivery \in [ws : WebSockets \cup {"none"}, left : Seq(WS!Native)]
  BY <1>1 DEF WsInv, WS!WsTypeOK
<1>3. e \in WS!Native /\ Tail(delivery.left) \in Seq(WS!Native)
  BY <1>1, <1>2, HeadTailProperties
<1>4. /\ e.fn \in Fns /\ e.capture \in Captures
      /\ there => \E i \in DOMAIN native[s] : native[s][i] = e
  <2>1. native[s] \in Seq(WS!Native)
    BY <1>2 DEF WsInv, WS!WsTypeOK
  <2>. QED  BY <1>3, <2>1 DEF WS!Native, WS!Contains
<1>. HIDE DEF e, s, there
<1>5. delivery' \in [ws : WebSockets \cup {"none"}, left : Seq(WS!Native)]
      /\ (delivery'.left # <<>> => delivery'.ws \in WebSockets)
  <2>1. CASE delivery' = WS!Quiet
    BY <2>1 DEF WS!Quiet
  <2>2. CASE delivery' = [delivery EXCEPT !.left = Tail(@)]
    <3>1. delivery'.ws = s /\ delivery'.left = Tail(delivery.left)
          /\ delivery' \in [ws : WebSockets \cup {"none"}, left : Seq(WS!Native)]
      BY <1>2, <1>3, <2>2 DEF s
    <3>. QED  BY <1>2, <3>1
  <2>. QED  BY <1>1, <2>1, <2>2
<1>6. /\ native' \in [WebSockets -> Seq(WS!Native)] /\ plain' \in [WebSockets -> Seq(WS!Added)]
      /\ listener2ws2patched' \subseteq Table /\ SocketsFit'
  <2>1. CASE UNCHANGED <<native, plain, listener2ws2patched>>
    BY <1>1, <2>1 DEF WsInv, SocketsFit, WS!WsTypeOK, Table
  <2>2. CASE /\ there /\ e.once
             /\ native' = [native EXCEPT ![s] =
                  WS!TakenOff(native[s], {i \in DOMAIN native[s] : native[s][i] = e})]
             /\ plain' = [plain EXCEPT ![s] = WS!NativeRemove(plain[s], e.fn, e.capture)]
             /\ listener2ws2patched' =
                  IF e.patched THEN WS!Forgotten(e.fn, s) ELSE listener2ws2patched
    <3>1. PICK i \in DOMAIN native[s] : native[s][i] = e
      BY <1>4, <2>2
    <3>2. Fits(s, socket[s], native[s], plain[s], listener2ws2patched)
      BY <1>2 DEF WsInv, SocketsFit
    <3>3. e.patched = Inst(socket[s])
      BY <3>1, <3>2 DEF Fits
    <3>4. \A j \in DOMAIN native[s] :
            native[s][j] = e <=> native[s][j].fn = e.fn /\ native[s][j].capture = e.capture
      BY <3>1, <3>2 DEF Fits, Distinct
    <3>5. WS!TakenOff(native[s], {j \in DOMAIN native[s] : native[s][j] = e})
            = WS!NativeRemove(native[s], e.fn, e.capture)
      <4>1. {j \in DOMAIN native[s] : native[s][j] = e}
              = {j \in DOMAIN native[s] : native[s][j].fn = e.fn
                                          /\ native[s][j].capture = e.capture}
        BY <3>4
      <4>. QED  BY <4>1 DEF WS!NativeRemove
    <3>. QED  BY <1>1, <1>2, <1>4, <2>2, <3>3, <3>5, OneListenerLess
  <2>. QED  BY <1>1, <2>1, <2>2
<1>7. inListener' \in {"no", "plain", "span"}
  BY <1>1
<1>8. WS!WsTypeOK'
  BY <1>1, <1>5, <1>6, <1>7 DEF WsInv, WS!WsTypeOK, Table, WS!Native, WS!Added
<1>. QED  BY <1>5, <1>6, <1>8 DEF WsInv

LEMMA WsStep == WsInv /\ [WS!Next]_WS!wsVars => WsInv'
<1>. SUFFICES ASSUME WsInv, [WS!Next]_WS!wsVars PROVE WsInv'
  OBVIOUS
<1>1. CASE WS!Enable \/ UNCHANGED WS!wsVars
  BY <1>1 DEF WS!Enable, WS!wsVars, WsInv, WS!WsTypeOK, SocketsFit, WS!Native, WS!Added
<1>2. CASE \E s \in WebSockets, ignored \in BOOLEAN : WS!NewWebSocket(s, ignored)
  BY <1>2, NewWebSocketKeeps
<1>3. CASE \E s \in WebSockets, result \in {"ended", "failed"} : WS!Connected(s, result)
  BY <1>3, ConnectedKeeps
<1>4. CASE \E s \in WebSockets, fn \in Fns, once \in BOOLEAN, capture \in Captures :
             WS!AddMessageListener(s, fn, once, capture)
  BY <1>4, AddMessageListenerKeeps
<1>5. CASE \E s \in WebSockets, fn \in Fns, capture \in Captures :
             WS!RemoveMessageListener(s, fn, capture)
  BY <1>5, RemoveMessageListenerKeeps
<1>6. CASE \E s \in WebSockets : WS!Message(s)
  <2>1. PICK s \in WebSockets : WS!Message(s)
    BY <1>6
  <2>2. delivery' \in [ws : WebSockets \cup {"none"}, left : Seq(WS!Native)]
        /\ delivery'.ws \in WebSockets
    BY <2>1 DEF WS!Message, WsInv, WS!WsTypeOK
  <2>3. WS!WsTypeOK' /\ SocketsFit'
    BY <2>1, <2>2 DEF WS!Message, WsInv, WS!WsTypeOK, SocketsFit
  <2>. QED  BY <2>2, <2>3 DEF WsInv
<1>7. CASE WS!CallListener
  BY <1>7, CallListenerKeeps
<1>8. CASE WS!ListenerEnds
  <2>1. delivery' \in [ws : WebSockets \cup {"none"}, left : Seq(WS!Native)]
        /\ (delivery'.left # <<>> => delivery' = delivery)
    BY <1>8 DEF WS!ListenerEnds, WsInv, WS!WsTypeOK, WS!Quiet
  <2>2. WS!WsTypeOK' /\ SocketsFit'
    BY <1>8, <2>1 DEF WS!ListenerEnds, WsInv, WS!WsTypeOK, SocketsFit
  <2>. QED  BY <2>1, <2>2 DEF WsInv
<1>. QED  BY <1>1, <1>2, <1>3, <1>4, <1>5, <1>6, <1>7, <1>8 DEF WS!Next

\* The variables of the instrumentation keep their types
\* (SplunkWebSocketInstrumentation.ts).
THEOREM SocketTypes == WS!Spec => []WS!WsTypeOK
<1>1. WS!Init => WsInv
  BY WsInitial
<1>2. WsInv /\ [WS!Next]_WS!wsVars => WsInv'
  BY WsStep
<1>3. WsInv => WS!WsTypeOK
  BY DEF WsInv
<1>. QED  BY <1>1, <1>2, <1>3, PTL DEF WS!Spec

\* An instrumented socket has the message listeners of a plain one, in the same order,
\* whatever listeners that run add or remove (SplunkWebSocketInstrumentation.ts:149-257).
THEOREM InstrumentedAsPlain == WS!Spec => []ListenersAsPlain
<1>1. WS!Init => WsInv
  BY WsInitial
<1>2. WsInv /\ [WS!Next]_WS!wsVars => WsInv'
  BY WsStep
<1>3. WsInv => ListenersAsPlain
  <2>. SUFFICES ASSUME WsInv, NEW s \in WebSockets
                PROVE  [i \in DOMAIN native[s] |->
                          [fn |-> native[s][i].fn, once |-> native[s][i].once,
                           capture |-> native[s][i].capture]] = plain[s]
    BY DEF ListenersAsPlain, WS!ListenersAsPlain
  <2>1. Alike(native[s], plain[s])
    BY DEF WsInv, SocketsFit, Fits
  <2>2. plain[s] \in Seq(WS!Added) /\ DOMAIN native[s] = DOMAIN plain[s]
    BY <2>1 DEF Alike
  <2>3. plain[s] = [i \in DOMAIN plain[s] |-> plain[s][i]]
    BY <2>2
  <2>. QED  BY <2>1, <2>2, <2>3 DEF Alike
<1>. QED  BY <1>1, <1>2, <1>3, PTL DEF WS!Spec

-----------------------------------------------------------------------------
(* PageResources.                                                          *)

\* A record that waits belongs to the active context, if it is one with a span; of any
\* other URL the table has the context.
RecordsInv ==
  \A u \in Urls \ left :
    IF u \in records /\ PR!Active # NoTrace THEN added[u] = PR!Active
    ELSE contextOf[u] = added[u]

PrInv == PR!PrTypeOK /\ RecordsInv

LEMMA ActiveInTraces == PR!PrTypeOK => PR!Active \in Traces \cup {NoTrace}
BY DEF PR!PrTypeOK, PR!Active, PR!Last

LEMMA PrInitial == PR!Init => PrInv
<1>. SUFFICES ASSUME PR!Init PROVE PrInv
  OBVIOUS
<1>1. {contextOf, added} \subseteq [Urls -> Traces \cup {NoTrace}]
  BY DEF PR!Init
<1>2. PR!PrTypeOK
  <2>1. fetched \in {<<>>} \cup Urls \X (Traces \cup {NoTrace})
    BY DEF PR!Init
  <2>2. nest \in Seq(Traces \cup {NoTrace}) /\ Len(nest) <= MaxNest
    BY NestAssumption DEF PR!Init
  <2>. QED  BY <1>1, <2>1, <2>2 DEF PR!Init, PR!PrTypeOK
<1>3. RecordsInv
  BY DEF PR!Init, RecordsInv
<1>. QED  BY <1>2, <1>3 DEF PrInv

LEMMA NestFront ==
  ASSUME PR!PrTypeOK, nest # <<>>
  PROVE  PR!Front(nest) \in Seq(Traces \cup {NoTrace}) /\ Len(PR!Front(nest)) <= MaxNest
<1>1. nest \in Seq(Traces \cup {NoTrace}) /\ Len(nest) \in Nat \ {0} /\ Len(nest) <= MaxNest
  BY DEF PR!PrTypeOK
<1>2. Front(nest) \in Seq(Traces \cup {NoTrace}) /\ Len(Front(nest)) = Len(nest) - 1
  BY <1>1, FrontFacts
<1>. QED  BY <1>1, <1>2, NestAssumption DEF PR!Front, Front

\* The records are taken with the context that is active.
LEMMA RecordsTaken ==
  ASSUME PrInv, PR!OnBeforeContextChange, UNCHANGED <<added, left>>
  PROVE  /\ contextOf' \in [Urls -> Traces \cup {NoTrace}] /\ RecordsInv'
<1>1. PR!Active \in Traces \cup {NoTrace} /\ contextOf \in [Urls -> Traces \cup {NoTrace}]
  BY ActiveInTraces DEF PrInv, PR!PrTypeOK
<1>2. /\ records' = {}
      /\ contextOf' = IF PR!Active = NoTrace THEN contextOf
                      ELSE [u \in Urls |-> IF u \in records THEN PR!Active ELSE contextOf[u]]
  BY DEF PR!OnBeforeContextChange, PR!ProcessRecords
<1>3. contextOf' \in [Urls -> Traces \cup {NoTrace}]
  BY <1>1, <1>2
<1>4. \A u \in Urls \ left : contextOf'[u] = added[u]
  BY <1>1, <1>2 DEF PrInv, RecordsInv
<1>5. RecordsInv'
  BY <1>2, <1>4 DEF RecordsInv
<1>. QED  BY <1>3, <1>5

LEMMA PrStep == PrInv /\ [PR!Next]_PR!prVars => PrInv'
<1>. SUFFICES ASSUME PrInv, [PR!Next]_PR!prVars PROVE PrInv'
  OBVIOUS
<1>. USE NestAssumption
<1>1. CASE PR!Enable \/ PR!PageLoads \/ UNCHANGED PR!prVars
  <2>1. UNCHANGED <<nest, records, contextOf, fetched, added, left>>
    BY <1>1 DEF PR!Enable, PR!PageLoads, PR!prVars
  <2>2. PR!PrTypeOK'
    BY <1>1, <2>1 DEF PrInv, PR!PrTypeOK, PR!Enable, PR!PageLoads, PR!prVars
  <2>3. RecordsInv'
    BY <2>1 DEF PrInv, RecordsInv, PR!Active
  <2>. QED  BY <2>2, <2>3 DEF PrInv
<1>2. CASE PR!Disable
  <2>1. PR!PrTypeOK'
    BY <1>2 DEF PrInv, PR!PrTypeOK, PR!Disable
  <2>2. RecordsInv'
    BY <1>2 DEF PrInv, RecordsInv, PR!Active, PR!Disable
  <2>. QED  BY <2>1, <2>2 DEF PrInv
<1>3. CASE \E c \in Traces \cup {NoTrace} : PR!With(c)
  <2>1. PICK c \in Traces \cup {NoTrace} : PR!With(c)
    BY <1>3
  <2>2. /\ PR!OnBeforeContextChange /\ Len(nest) < MaxNest /\ nest' = Append(nest, c)
        /\ UNCHANGED <<observer, loaded, performing, fetched, added, left>>
    BY <2>1 DEF PR!With
  <2>3. contextOf' \in [Urls -> Traces \cup {NoTrace}] /\ RecordsInv'
    BY <2>2, RecordsTaken
  <2>4. nest' \in Seq(Traces \cup {NoTrace}) /\ Len(nest') <= MaxNest
    BY <2>2 DEF PrInv, PR!PrTypeOK
  <2>5. PR!PrTypeOK'
    BY <2>2, <2>3, <2>4 DEF PrInv, PR!PrTypeOK, PR!OnBeforeContextChange
  <2>. QED  BY <2>3, <2>5 DEF PrInv
<1>4. CASE PR!EndWith
  <2>1. contextOf' \in [Urls -> Traces \cup {NoTrace}] /\ RecordsInv'
    BY <1>4, RecordsTaken DEF PR!EndWith
  <2>2. nest' \in Seq(Traces \cup {NoTrace}) /\ Len(nest') <= MaxNest
    BY <1>4, NestFront DEF PrInv, PR!EndWith
  <2>3. PR!PrTypeOK'
    BY <1>4, <2>1, <2>2 DEF PrInv, PR!PrTypeOK, PR!EndWith, PR!OnBeforeContextChange
  <2>. QED  BY <2>1, <2>3 DEF PrInv
<1>5. CASE PR!ThrowFromWith
  <2>1. nest' \in Seq(Traces \cup {NoTrace}) /\ Len(nest') <= MaxNest
    BY <1>5, NestFront DEF PrInv, PR!ThrowFromWith
  <2>2. PR!PrTypeOK'
    BY <1>5, <2>1 DEF PrInv, PR!PrTypeOK, PR!ThrowFromWith
  <2>3. RecordsInv'
    BY <1>5 DEF PrInv, RecordsInv, PR!ThrowFromWith
  <2>. QED  BY <2>2, <2>3 DEF PrInv
<1>6. CASE \E u \in Urls : PR!AddNode(u)
  <2>1. PICK u \in Urls : PR!AddNode(u)
    BY <1>6
  <2>2. PR!Active \in Traces \cup {NoTrace} /\ PR!Active' = PR!Active
    BY <2>1, ActiveInTraces DEF PrInv, PR!AddNode, PR!Active
  <2>3. /\ records' = records \cup {u}
        /\ UNCHANGED <<observer, loaded, performing, nest, contextOf, fetched>>
        /\ \/ PR!Active = NoTrace /\ UNCHANGED <<added, left>>
           \/ /\ PR!Active # NoTrace
              /\ added' = [added EXCEPT ![u] = PR!Active] /\ left' = left \ {u}
    BY <2>1 DEF PR!AddNode
  <2>4. added' \in [Urls -> Traces \cup {NoTrace}]
    BY <2>2, <2>3 DEF PrInv, PR!PrTypeOK
  <2>5. PR!PrTypeOK'
    BY <2>3, <2>4 DEF PrInv, PR!PrTypeOK
  <2>6. RecordsInv'
    BY <2>2, <2>3 DEF PrInv, RecordsInv, PR!PrTypeOK
  <2>. QED  BY <2>5, <2>6 DEF PrInv
<1>7. CASE \E u \in Urls : PR!Resource(u)
  <2>1. /\ UNCHANGED <<observer, loaded, performing, nest, records, contextOf, added, left>>
        /\ fetched' \in {<<>>} \cup Urls \X (Traces \cup {NoTrace})
    BY <1>7 DEF PrInv, PR!PrTypeOK, PR!Resource
  <2>2. PR!PrTypeOK' /\ RecordsInv'
    BY <2>1 DEF PrInv, PR!PrTypeOK, RecordsInv, PR!Active
  <2>. QED  BY <2>2 DEF PrInv
<1>8. CASE PR!HeadMutated
  <2>1. contextOf' \in [Urls -> Traces \cup {NoTrace}] /\ RecordsInv'
    BY <1>8, RecordsTaken DEF PR!HeadMutated
  <2>2. PR!PrTypeOK'
    BY <1>8, <2>1 DEF PrInv, PR!PrTypeOK, PR!HeadMutated, PR!OnBeforeContextChange
  <2>. QED  BY <2>1, <2>2 DEF PrInv
<1>. QED  BY <1>1, <1>2, <1>3, <1>4, <1>5, <1>6, <1>7, <1>8 DEF PR!Next

\* The variables of the instrumentation of resources keep their types
\* (SplunkPostDocLoadResourceInstrumentation.ts).
THEOREM ResourceTypes == PR!Spec => []PR!PrTypeOK
<1>1. PR!Init => PrInv
  BY PrInitial
<1>2. PrInv /\ [PR!Next]_PR!prVars => PrInv'
  BY PrStep
<1>3. PrInv => PR!PrTypeOK
  BY DEF PrInv
<1>. QED  BY <1>1, <1>2, <1>3, PTL DEF PR!Spec

\* The load of a resource belongs to the context with a span that added it last
\* (SplunkPostDocLoadResourceInstrumentation.ts:119-158).
THEOREM LoadsInContext == PR!Spec => []ResourcesInContext
<1>1. PR!Init => PrInv
  BY PrInitial
<1>2. PrInv /\ [PR!Next]_PR!prVars => PrInv'
  BY PrStep
<1>3. PrInv => ResourcesInContext
  BY DEF PrInv, RecordsInv, ResourcesInContext, PR!ResourcesInContext
<1>. QED  BY <1>1, <1>2, <1>3, PTL DEF PR!Spec

-----------------------------------------------------------------------------
(* SocketIoSpans.                                                          *)

\* If the tables know the listener under every patch, off finds it under all of them.
LEMMA FoundUnderAll ==
  ASSUME NEW fn, NEW e, NEW by \in Seq(IO!Instances), by = IO!Through(e),
         \A n \in 1..Len(by) : [fn |-> fn, by |-> SubSeq(by, 1, n)] \in tables
  PROVE  IO!Found(fn, e) = by
<1>. DEFINE P(b) == b = [n \in 0..Len(by) |->
              IF n = 0 THEN <<>>
              ELSE LET one == Append(b[n - 1], by[n])
                   IN  IF [fn |-> fn, by |-> one] \in tables THEN one ELSE b[n - 1]]
            found == CHOOSE b : P(b)
            g == [n \in 0..Len(by) |-> SubSeq(by, 1, n)]
<1>1. IO!Found(fn, e) = found[Len(by)]
  BY DEF IO!Found
<1>2. \A n \in 1..Len(by) : SubSeq(by, 1, n) = Append(SubSeq(by, 1, n - 1), by[n])
  <2>. TAKE n \in 1..Len(by)
  <2>. QED  BY SubSeqProperties, AppendProperties
<1>3. SubSeq(by, 1, 0) = <<>>
  OBVIOUS
<1>4. P(g)
  <2>1. ASSUME NEW n \in 0..Len(by), n # 0
        PROVE  g[n] = LET one == Append(g[n - 1], by[n])
                      IN  IF [fn |-> fn, by |-> one] \in tables THEN one ELSE g[n - 1]
    <3>1. n \in 1..Len(by) /\ n - 1 \in 0..Len(by)
      BY <2>1
    <3>2. g[n] = Append(g[n - 1], by[n]) /\ g[n] = SubSeq(by, 1, n)
      BY <1>2, <3>1
    <3>3. [fn |-> fn, by |-> g[n]] \in tables
      BY <3>1, <3>2
    <3>. HIDE DEF g
    <3>. QED  BY <3>2, <3>3
  <2>2. g[0] = <<>>
    BY <1>3
  <2>. QED  BY <2>1, <2>2
<1>5. P(found)
  BY <1>4
<1>. HIDE DEF found
<1>. DEFINE U == {n \in Nat : n <= Len(by) => found[n] = SubSeq(by, 1, n)}
<1>6. 0 \in U
  BY <1>3, <1>5
<1>7. ASSUME NEW n \in Nat, n \in U PROVE n + 1 \in U
  <2>. SUFFICES ASSUME n + 1 <= Len(by) PROVE found[n + 1] = SubSeq(by, 1, n + 1)
    OBVIOUS
  <2>1. n + 1 \in 1..Len(by) /\ (n + 1) - 1 = n /\ found[n] = SubSeq(by, 1, n)
    BY <1>7
  <2>2. Append(found[n], by[n + 1]) = SubSeq(by, 1, n + 1)
    BY <1>2, <2>1
  <2>3. [fn |-> fn, by |-> SubSeq(by, 1, n + 1)] \in tables
    BY <2>1
  <2>4. n + 1 \in 0..Len(by) /\ n + 1 # 0
    BY <2>1
  <2>5. found[n + 1] = LET one == Append(found[(n + 1) - 1], by[n + 1])
                       IN  IF [fn |-> fn, by |-> one] \in tables THEN one ELSE found[(n + 1) - 1]
    BY <1>5, <2>4
  <2>. QED  BY <2>1, <2>2, <2>3, <2>5
<1>8. \A n \in Nat : n \in U
  <2>. HIDE DEF U
  <2>. QED  BY <1>6, <1>7, Induction
<1>. QED  BY <1>1, <1>8

IoEntry == [fn : Callbacks, by : Seq(IO!Instances), once : BOOLEAN]
Meaning == [fn : Callbacks, once : BOOLEAN]
Entries(fn, once) == {r \in IoEntry : r.fn = fn /\ r.once = once}
Meanings(fn, once) == {m \in Meaning : m.fn = fn /\ m.once = once}

PatchesInv ==
  /\ waiting => enabledOne # 0
  /\ onDisable = "unpatch" => patches # <<>>

\* The tables know a listener that on has wrapped, under every patch.
TablesInv ==
  \A e \in Events : \A i \in DOMAIN listening[e] : LET r == listening[e][i] IN
    ~r.once => \A n \in 1..Len(r.by) : [fn |-> r.fn, by |-> SubSeq(r.by, 1, n)] \in tables

\* As many were added with on, and as many with once, as without patches.
CountsInv ==
  \A e \in Events, fn \in Callbacks \ excused, once \in BOOLEAN :
    Count(listening[e], Entries(fn, once)) = Count(meant[e], Meanings(fn, once))

IoInv == IO!IoTypeOK /\ PatchesInv /\ TablesInv /\ CountsInv

LEMMA IoInitial == IO!Init => IoInv
<1>. SUFFICES ASSUME IO!Init PROVE IoInv
  OBVIOUS
<1>1. IO!IoTypeOK
  <2>. USE EnablesAssumption DEF IO!Init, IO!InitWith
  <2>1. /\ global \in BOOLEAN /\ waiting \in BOOLEAN
        /\ onDisable \in {"none", "stop", "nothing", "unpatch"}
        /\ tables \subseteq IO!Wrapper /\ excused \subseteq Callbacks
    OBVIOUS
  <2>4. enabledOne \in 0..MaxEnables /\ made \in 0..MaxEnables
    <3>1. enabledOne = 0 /\ made = 0
      OBVIOUS
    <3>. QED  BY ONLY <3>1, EnablesAssumption
  <2>2. patches \in Seq(IO!Instances)
    OBVIOUS
  <2>3. /\ listening \in [Events -> Seq([fn : Callbacks, by : Seq(IO!Instances), once : BOOLEAN])]
        /\ meant \in [Events -> Seq([fn : Callbacks, once : BOOLEAN])]
    OBVIOUS
  <2>. QED  BY <2>1, <2>2, <2>3, <2>4 DEF IO!IoTypeOK
<1>2. PatchesInv /\ TablesInv
  BY DEF IO!Init, IO!InitWith, PatchesInv, TablesInv
<1>3. CountsInv
  BY CountOfEmpty DEF IO!Init, IO!InitWith, CountsInv
<1>. QED  BY <1>1, <1>2, <1>3 DEF IoInv

\* Patching does not touch the lists.
LEMMA PatchingKeeps ==
  IoInv /\ (IO!Enable \/ IO!GlobalAppears \/ IO!Disable) => IoInv'
<1>. SUFFICES ASSUME IoInv, IO!Enable \/ IO!GlobalAppears \/ IO!Disable PROVE IoInv'
  OBVIOUS
<1>1. UNCHANGED <<tables, listening, meant, excused>>
  BY DEF IO!Enable, IO!GlobalAppears, IO!Disable
<1>2. TablesInv' /\ CountsInv'
  BY <1>1 DEF IoInv, TablesInv, CountsInv
<1>3. /\ global \in BOOLEAN /\ waiting \in BOOLEAN
      /\ enabledOne \in 0..MaxEnables /\ made \in 0..MaxEnables
      /\ patches \in Seq(IO!Instances)
      /\ waiting => enabledOne \in IO!Instances
      /\ onDisable \in {"none", "stop", "nothing", "unpatch"}
      /\ onDisable = "unpatch" => patches # <<>>
  BY EnablesAssumption DEF IoInv, IO!IoTypeOK, PatchesInv, IO!Instances
<1>. DEFINE New(i) == <<i>> \o patches
<1>4. /\ \A i \in IO!Instances : New(i) \in Seq(IO!Instances) /\ New(i) # <<>>
      /\ patches # <<>> => Tail(patches) \in Seq(IO!Instances)
  BY <1>3
<1>. HIDE DEF New
<1>5. /\ global' \in BOOLEAN /\ waiting' \in BOOLEAN
      /\ enabledOne' \in 0..MaxEnables /\ made' \in 0..MaxEnables
      /\ patches' \in Seq(IO!Instances)
      /\ onDisable' \in {"none", "stop", "nothing", "unpatch"}
      /\ (onDisable' = "unpatch" => patches' # <<>>)
      /\ (waiting' => enabledOne' # 0)
  <2>1. CASE IO!Enable
    <3>1. made' \in IO!Instances /\ enabledOne' = made' /\ made' \in 0..MaxEnables /\ made' # 0
      BY <1>3, <2>1, EnablesAssumption DEF IO!Enable, IO!Instances
    <3>2. CASE global
      <4>1. patches' = New(made') /\ onDisable' = "nothing" /\ waiting' = waiting /\ global' = global
        BY <2>1, <3>2 DEF IO!Enable, New
      <4>. QED  BY <1>3, <1>4, <3>1, <4>1
    <3>3. CASE ~global
      <4>1. patches' = patches /\ onDisable' = "stop" /\ waiting' = TRUE /\ global' = global
        BY <2>1, <3>3 DEF IO!Enable
      <4>. QED  BY <1>3, <3>1, <4>1
    <3>. QED  BY <3>2, <3>3
  <2>2. CASE IO!GlobalAppears
    <3>1. /\ global' = TRUE /\ waiting' = FALSE /\ enabledOne' = enabledOne /\ made' = made
          /\ waiting => patches' = New(enabledOne) /\ onDisable' = "unpatch"
          /\ ~waiting => UNCHANGED <<patches, onDisable>>
      BY <2>2 DEF IO!GlobalAppears, New
    <3>. QED  BY <1>3, <1>4, <3>1
  <2>3. CASE IO!Disable
    <3>1. /\ global' = global /\ waiting' = FALSE /\ enabledOne' = 0 /\ made' = made
          /\ onDisable' = "none"
          /\ patches' = IF onDisable = "unpatch" THEN Tail(patches) ELSE patches
      BY <2>3 DEF IO!Disable
    <3>2. patches' \in Seq(IO!Instances)
      BY <1>3, <1>4, <3>1
    <3>3. 0 \in 0..MaxEnables
      BY EnablesAssumption
    <3>. QED  BY <1>3, <3>1, <3>2, <3>3
  <2>. QED  BY <2>1, <2>2, <2>3
<1>6. IO!IoTypeOK' /\ PatchesInv'
  <2>1. /\ tables' \subseteq IO!Wrapper /\ excused' \subseteq Callbacks
        /\ listening' \in [Events -> Seq([fn : Callbacks, by : Seq(IO!Instances), once : BOOLEAN])]
        /\ meant' \in [Events -> Seq([fn : Callbacks, once : BOOLEAN])]
    BY <1>1 DEF IoInv, IO!IoTypeOK
  <2>. QED  BY <1>5, <2>1 DEF IO!IoTypeOK, PatchesInv
<1>. QED  BY <1>2, <1>6 DEF IoInv

\* Two lists with equally many of some elements have them still when one is added to each.
LEMMA OnKeeps ==
  ASSUME IoInv, NEW fn \in Callbacks, NEW e \in Events, NEW once \in BOOLEAN,
         IO!On(fn, e, once)
  PROVE  IoInv'
<1>. DEFINE by == IO!Through(e)
            r == [fn |-> fn, by |-> by, once |-> once]
            m == [fn |-> fn, once |-> once]
<1>1. /\ listening \in [Events -> Seq(IoEntry)] /\ meant \in [Events -> Seq(Meaning)]
      /\ tables \subseteq IO!Wrapper /\ patches \in Seq(IO!Instances)
  BY DEF IoInv, IO!IoTypeOK, IoEntry, Meaning
<1>2. by \in Seq(IO!Instances) /\ \A n \in 1..Len(by) : SubSeq(by, 1, n) \in Seq(IO!Instances)
  <2>1. by \in Seq(IO!Instances)
    BY <1>1 DEF IO!Through
  <2>. HIDE DEF by
  <2>2. \A n \in 1..Len(by) : SubSeq(by, 1, n) \in Seq(IO!Instances)
    BY <2>1, SubSeqProperties
  <2>. QED  BY <2>1, <2>2
<1>3. r \in IoEntry /\ m \in Meaning /\ r.fn = fn /\ r.by = by /\ r.once = once
  BY <1>2 DEF IoEntry, Meaning
<1>4. /\ UNCHANGED <<global, waiting, enabledOne, made, onDisable, patches, excused>>
      /\ listening' = [listening EXCEPT ![e] = Append(listening[e], r)]
      /\ meant' = [meant EXCEPT ![e] = Append(meant[e], m)]
      /\ tables' = IF once THEN tables
                   ELSE tables \cup {[fn |-> fn, by |-> SubSeq(by, 1, n)] : n \in 1..Len(by)}
  BY DEF IO!On
<1>. HIDE DEF by, r, m
<1>5. tables \subseteq tables' /\ tables' \subseteq IO!Wrapper
      /\ (~once => \A n \in 1..Len(by) : [fn |-> fn, by |-> SubSeq(by, 1, n)] \in tables')
  <2>. DEFINE wrapped1 == {[fn |-> fn, by |-> SubSeq(by, 1, n)] : n \in 1..Len(by)}
  <2>1. wrapped1 \subseteq IO!Wrapper
    BY <1>2 DEF IO!Wrapper
  <2>2. \A n \in 1..Len(by) : [fn |-> fn, by |-> SubSeq(by, 1, n)] \in wrapped1
    OBVIOUS
  <2>3. tables' = IF once THEN tables ELSE tables \cup wrapped1
    BY <1>4
  <2>. HIDE DEF wrapped1
  <2>. QED  BY <1>1, <2>1, <2>2, <2>3
<1>6. listening[e] \in Seq(IoEntry) /\ meant[e] \in Seq(Meaning)
  BY <1>1
<1>7. listening' \in [Events -> Seq(IoEntry)] /\ meant' \in [Events -> Seq(Meaning)]
  <2>1. Append(listening[e], r) \in Seq(IoEntry) /\ Append(meant[e], m) \in Seq(Meaning)
    BY <1>3, <1>6, AppendProperties
  <2>. QED  BY <1>1, <1>4, <2>1
<1>8. IO!IoTypeOK' /\ PatchesInv'
  BY <1>4, <1>5, <1>7 DEF IoInv, IO!IoTypeOK, PatchesInv, IoEntry, Meaning
<1>9. TablesInv'
  <2>. SUFFICES ASSUME NEW d \in Events, NEW i \in DOMAIN listening'[d],
                       ~listening'[d][i].once, NEW n \in 1..Len(listening'[d][i].by)
                PROVE  [fn |-> listening'[d][i].fn, by |-> SubSeq(listening'[d][i].by, 1, n)]
                         \in tables'
    BY DEF TablesInv
  <2>1. CASE i \in DOMAIN listening[d] /\ listening'[d][i] = listening[d][i]
    BY <1>5, <2>1 DEF IoInv, TablesInv
  <2>2. CASE d # e
    BY <1>1, <1>4, <2>1, <2>2
  <2>3. CASE d = e
    <3>1. listening'[d] = Append(listening[e], r)
      BY <1>1, <1>4, <2>3
    <3>2. \/ i \in DOMAIN listening[d] /\ listening'[d][i] = listening[d][i]
          \/ listening'[d][i] = r
      BY <1>3, <1>6, <2>3, <3>1, AppendProperties
    <3>. QED  BY <1>3, <1>5, <2>1, <3>2
  <2>. QED  BY <2>2, <2>3
<1>10. CountsInv'
  <2>. SUFFICES ASSUME NEW d \in Events, NEW g \in Callbacks \ excused', NEW o \in BOOLEAN
                PROVE  Count(listening'[d], Entries(g, o)) = Count(meant'[d], Meanings(g, o))
    BY DEF CountsInv
  <2>1. Count(listening[d], Entries(g, o)) = Count(meant[d], Meanings(g, o))
    BY <1>4 DEF IoInv, CountsInv
  <2>2. CASE d # e
    BY <1>1, <1>4, <2>1, <2>2
  <2>3. CASE d = e
    <3>1. listening'[d] = Append(listening[e], r) /\ meant'[d] = Append(meant[e], m)
      BY <1>1, <1>4, <2>3
    <3>2. r \in Entries(g, o) <=> m \in Meanings(g, o)
      BY <1>3 DEF Entries, Meanings, m
    <3>3. /\ Count(listening'[d], Entries(g, o))
               = Count(listening[e], Entries(g, o)) + (IF r \in Entries(g, o) THEN 1 ELSE 0)
          /\ Count(meant'[d], Meanings(g, o))
               = Count(meant[e], Meanings(g, o)) + (IF m \in Meanings(g, o) THEN 1 ELSE 0)
      BY <1>3, <1>6, <3>1, CountOfAppend
    <3>. QED  BY <2>1, <2>3, <3>2, <3>3
  <2>. QED  BY <2>2, <2>3
<1>. QED  BY <1>8, <1>9, <1>10 DEF IoInv

\* The invariant holds of lists that became shorter alike.
LEMMA ShorterKeeps ==
  ASSUME IoInv, NEW e \in Events, NEW l \in Seq(IoEntry), NEW m \in Seq(Meaning),
         \A i \in DOMAIN l : \E j \in DOMAIN listening[e] : l[i] = listening[e][j],
         listening' = [listening EXCEPT ![e] = l], meant' = [meant EXCEPT ![e] = m],
         excused \subseteq excused', excused' \subseteq Callbacks,
         UNCHANGED <<global, waiting, enabledOne, made, onDisable, patches, tables>>,
         \A g \in Callbacks \ excused', o \in BOOLEAN :
           Count(l, Entries(g, o)) = Count(m, Meanings(g, o))
  PROVE  IoInv'
<1>1. listening \in [Events -> Seq(IoEntry)] /\ meant \in [Events -> Seq(Meaning)]
  BY DEF IoInv, IO!IoTypeOK, IoEntry, Meaning
<1>2. /\ listening' \in [Events -> Seq(IoEntry)] /\ meant' \in [Events -> Seq(Meaning)]
      /\ listening'[e] = l /\ meant'[e] = m
      /\ \A d \in Events : d # e => listening'[d] = listening[d] /\ meant'[d] = meant[d]
  BY <1>1
<1>3. IO!IoTypeOK' /\ PatchesInv'
  BY <1>2 DEF IoInv, IO!IoTypeOK, PatchesInv, IoEntry, Meaning
<1>4. TablesInv'
  <2>. SUFFICES ASSUME NEW d \in Events, NEW i \in DOMAIN listening'[d],
                       ~listening'[d][i].once, NEW n \in 1..Len(listening'[d][i].by)
                PROVE  [fn |-> listening'[d][i].fn, by |-> SubSeq(listening'[d][i].by, 1, n)]
                         \in tables'
    BY DEF TablesInv
  <2>1. \E j \in DOMAIN listening[d] : listening'[d][i] = listening[d][j]
    BY <1>2
  <2>2. [fn |-> listening'[d][i].fn, by |-> SubSeq(listening'[d][i].by, 1, n)] \in tables
    BY <2>1 DEF IoInv, TablesInv
  <2>. QED  BY <2>2
<1>5. CountsInv'
  <2>. SUFFICES ASSUME NEW d \in Events, NEW g \in Callbacks \ excused', NEW o \in BOOLEAN
                PROVE  Count(listening'[d], Entries(g, o)) = Count(meant'[d], Meanings(g, o))
    BY DEF CountsInv
  <2>1. CASE d = e
    BY <1>2, <2>1
  <2>2. CASE d # e
    BY <1>2, <2>2 DEF IoInv, CountsInv
  <2>. QED  BY <2>1, <2>2
<1>. QED  BY <1>3, <1>4, <1>5 DEF IoInv

LEMMA EntryCounts ==
  /\ \A r \in IoEntry, g \in Callbacks, o \in BOOLEAN :
       r \in Entries(g, o) <=> r.fn = g /\ r.once = o
  /\ \A m \in Meaning, g \in Callbacks, o \in BOOLEAN :
       m \in Meanings(g, o) <=> m.fn = g /\ m.once = o
  /\ \A r \in IoEntry : r.once \in BOOLEAN /\ r.by \in Seq(IO!Instances)
  /\ \A m \in Meaning : m.once \in BOOLEAN
BY DEF IoEntry, Meaning, Entries, Meanings

LEMMA OffKeeps ==
  ASSUME IoInv, NEW fn \in Callbacks, NEW e \in Events, IO!Off(fn, e)
  PROVE  IoInv'
<1>. DEFINE old == listening[e]
            was == meant[e]
            by == IO!Found(fn, e)
            at == {i \in IO!At(old, fn) : old[i].by = by /\ (old[i].once => by = <<>>)}
            l == IO!WithoutFirst(old, at)
            m == IO!WithoutFirst(was, IO!At(was, fn))
<1>1. /\ listening \in [Events -> Seq(IoEntry)] /\ meant \in [Events -> Seq(Meaning)]
      /\ old \in Seq(IoEntry) /\ was \in Seq(Meaning)
      /\ excused \subseteq Callbacks /\ patches \in Seq(IO!Instances)
  BY DEF IoInv, IO!IoTypeOK, IoEntry, Meaning
<1>2. /\ listening' = [listening EXCEPT ![e] = l] /\ meant' = [meant EXCEPT ![e] = m]
      /\ UNCHANGED <<global, waiting, enabledOne, made, onDisable, patches, tables>>
      /\ excused' = excused \cup
           (IF IO!OtherPatches(fn, e) \/ \E i \in IO!At(old, fn) : old[i].once
            THEN {fn} ELSE {})
  BY DEF IO!Off
<1>3. /\ \A i \in DOMAIN old : old[i] \in IoEntry /\ (i \in IO!At(old, fn) <=> old[i].fn = fn)
      /\ \A i \in DOMAIN was : was[i] \in Meaning /\ (i \in IO!At(was, fn) <=> was[i].fn = fn)
      /\ IO!At(old, fn) \in SUBSET DOMAIN old /\ IO!At(was, fn) \in SUBSET DOMAIN was
      /\ at \in SUBSET IO!At(old, fn)
  BY <1>1 DEF IO!At
<1>4. \A g \in Callbacks \ excused, o \in BOOLEAN :
        Count(old, Entries(g, o)) = Count(was, Meanings(g, o))
  BY DEF IoInv, CountsInv
<1>5. ASSUME fn \notin excused'
      PROVE  /\ \A i \in IO!At(old, fn) : ~old[i].once /\ old[i].by = IO!Through(e)
             /\ at = IO!At(old, fn)
  <2>1. \A i \in IO!At(old, fn) : ~old[i].once /\ old[i].by = IO!Through(e)
    BY <1>2, <1>5 DEF IO!OtherPatches
  <2>2. ASSUME NEW i \in IO!At(old, fn) PROVE i \in at
    <3>1. IO!Through(e) \in Seq(IO!Instances)
      BY <1>1 DEF IO!Through
    <3>2. \A n \in 1..Len(IO!Through(e)) :
            [fn |-> fn, by |-> SubSeq(IO!Through(e), 1, n)] \in tables
      <4>1. i \in DOMAIN old /\ old[i].fn = fn /\ ~old[i].once /\ old[i].by = IO!Through(e)
        BY <1>3, <2>1
      <4>. QED  BY <4>1 DEF IoInv, TablesInv
    <3>3. by = IO!Through(e)
      BY <3>1, <3>2, FoundUnderAll
    <3>. QED  BY <2>1, <3>3
  <2>. QED  BY <1>3, <2>1, <2>2
<1>. HIDE DEF old, was, at, by
<1>6. /\ l \in Seq(IoEntry)
      /\ \A i \in DOMAIN l : \E j \in DOMAIN old : l[i] = old[j]
      /\ at = {} => l = old
      /\ at # {} => OneLess(old, at, l)
  <2>1. at \in SUBSET DOMAIN old
    BY <1>3
  <2>. QED  BY <1>1, <2>1, WithoutFirstFacts
<1>7. /\ m \in Seq(Meaning)
      /\ IO!At(was, fn) = {} => m = was
      /\ IO!At(was, fn) # {} => OneLess(was, IO!At(was, fn), m)
  BY <1>1, <1>3, WithoutFirstFacts
<1>. HIDE DEF l, m
<1>8. ASSUME NEW g \in Callbacks, NEW o \in BOOLEAN, g # fn
      PROVE  /\ Count(l, Entries(g, o)) = Count(old, Entries(g, o))
             /\ Count(m, Meanings(g, o)) = Count(was, Meanings(g, o))
  <2>1. \A k \in at : old[k] \notin Entries(g, o)
    BY <1>3, <1>8 DEF Entries
  <2>2. \A k \in IO!At(was, fn) : was[k] \notin Meanings(g, o)
    BY <1>3, <1>8 DEF Meanings
  <2>3. Count(old, Entries(g, o)) \in Nat /\ Count(was, Meanings(g, o)) \in Nat
    BY <1>1, CountOf
  <2>4. Count(l, Entries(g, o)) = Count(old, Entries(g, o))
    BY <1>6, <2>1, <2>3 DEF OneLess
  <2>5. Count(m, Meanings(g, o)) = Count(was, Meanings(g, o))
    BY <1>7, <2>2, <2>3 DEF OneLess
  <2>. QED  BY <2>4, <2>5
<1>9. ASSUME fn \notin excused', NEW o \in BOOLEAN
      PROVE  Count(l, Entries(fn, o)) = Count(m, Meanings(fn, o))
  <2>1. fn \notin excused
    BY <1>2, <1>9
  <2>2. \A q \in BOOLEAN : Count(old, Entries(fn, q)) = Count(was, Meanings(fn, q))
    BY <1>4, <2>1
  <2>3. at = IO!At(old, fn) /\ \A i \in at : ~old[i].once
    BY <1>5, <1>9
  <2>4. \A q \in BOOLEAN :
          Count(old, Entries(fn, q)) = 0 <=> \A i \in DOMAIN old : old[i] \notin Entries(fn, q)
    BY <1>1, CountOf
  <2>5. \A q \in BOOLEAN :
          Count(was, Meanings(fn, q)) = 0 <=> \A i \in DOMAIN was : was[i] \notin Meanings(fn, q)
    BY <1>1, CountOf
  <2>6. /\ \A i \in DOMAIN old, q \in BOOLEAN :
             old[i] \in Entries(fn, q) <=> old[i].fn = fn /\ old[i].once = q
        /\ \A i \in DOMAIN was, q \in BOOLEAN :
             was[i] \in Meanings(fn, q) <=> was[i].fn = fn /\ was[i].once = q
        /\ \A i \in DOMAIN old : old[i].once \in BOOLEAN
        /\ \A i \in DOMAIN was : was[i].once \in BOOLEAN
    BY <1>3, EntryCounts
  <2>7. \A i \in DOMAIN old : old[i].fn = fn => ~old[i].once
    BY <1>3, <2>3
  <2>8. \A i \in DOMAIN was : was[i].fn = fn => ~was[i].once
    <3>1. Count(old, Entries(fn, TRUE)) = 0
      BY <2>4, <2>6, <2>7
    <3>. QED  BY <2>2, <2>5, <2>6, <3>1
  <2>9. at = {} <=> IO!At(was, fn) = {}
    <3>1. at = {} <=> Count(old, Entries(fn, FALSE)) = 0
      BY <1>3, <2>3, <2>4, <2>6, <2>7
    <3>2. IO!At(was, fn) = {} <=> Count(was, Meanings(fn, FALSE)) = 0
      BY <1>3, <2>5, <2>6, <2>8
    <3>. QED  BY <2>2, <3>1, <3>2
  <2>10. CASE at = {}
    BY <1>6, <1>7, <2>2, <2>9, <2>10
  <2>11. CASE at # {}
    <3>1. PICK k \in at : \A T :
            Count(l, T) = Count(old, T) - (IF old[k] \in T THEN 1 ELSE 0)
      BY <1>6, <2>11 DEF OneLess
    <3>2. PICK j \in IO!At(was, fn) : \A T :
            Count(m, T) = Count(was, T) - (IF was[j] \in T THEN 1 ELSE 0)
      BY <1>7, <2>9, <2>11 DEF OneLess
    <3>3. old[k] \in Entries(fn, o) <=> was[j] \in Meanings(fn, o)
      <4>1. k \in DOMAIN old /\ old[k].fn = fn /\ old[k].once = FALSE
        BY <1>3, <2>3, <2>6
      <4>2. j \in DOMAIN was /\ was[j].fn = fn /\ was[j].once = FALSE
        BY <1>3, <2>6, <2>8
      <4>. QED  BY <2>6, <4>1, <4>2
    <3>. QED  BY <2>2, <3>1, <3>2, <3>3
  <2>. QED  BY <2>10, <2>11
<1>10. \A g \in Callbacks \ excused', o \in BOOLEAN :
         Count(l, Entries(g, o)) = Count(m, Meanings(g, o))
  <2>. TAKE g \in Callbacks \ excused', o \in BOOLEAN
  <2>1. CASE g = fn
    BY <1>9, <2>1
  <2>2. CASE g # fn
    <3>1. g \in Callbacks \ excused
      BY <1>2
    <3>. QED  BY <1>4, <1>8, <2>2, <3>1
  <2>. QED  BY <2>1, <2>2
<1>11. excused \subseteq excused' /\ excused' \subseteq Callbacks
  BY <1>1, <1>2
<1>. QED  BY <1>2, <1>6, <1>7, <1>10, <1>11, ShorterKeeps DEF old

LEMMA OffAllKeeps ==
  ASSUME IoInv, NEW e \in Events, IO!OffAll(e)
  PROVE  IoInv'
<1>1. /\ <<>> \in Seq(IoEntry) /\ <<>> \in Seq(Meaning) /\ DOMAIN <<>> = {}
  OBVIOUS
<1>2. /\ listening' = [listening EXCEPT ![e] = <<>>] /\ meant' = [meant EXCEPT ![e] = <<>>]
      /\ UNCHANGED <<global, waiting, enabledOne, made, onDisable, patches, tables>>
      /\ excused' = excused
  BY DEF IO!OffAll
<1>3. excused \subseteq Callbacks
  BY DEF IoInv, IO!IoTypeOK
<1>4. \A g \in Callbacks \ excused', o \in BOOLEAN :
        Count(<<>>, Entries(g, o)) = Count(<<>>, Meanings(g, o))
  BY CountOfEmpty
<1>. QED  BY <1>1, <1>2, <1>3, <1>4, ShorterKeeps

LEMMA ReceiveKeeps ==
  ASSUME IoInv, NEW e \in Events, IO!Receive(e)
  PROVE  IoInv'
<1>. DEFINE old == listening[e]
            was == meant[e]
            on == {i \in DOMAIN old : ~(old[i].once /\ old[i].by = IO!Through(e))}
            mn == {i \in DOMAIN was : ~was[i].once}
            l == Kept(old, on)
            m == Kept(was, mn)
<1>1. /\ old \in Seq(IoEntry) /\ was \in Seq(Meaning) /\ excused \subseteq Callbacks
  BY DEF IoInv, IO!IoTypeOK, IoEntry, Meaning
<1>2. /\ listening' = [listening EXCEPT ![e] = l] /\ meant' = [meant EXCEPT ![e] = m]
      /\ UNCHANGED <<global, waiting, enabledOne, made, onDisable, patches, tables>>
      /\ excused' = excused \cup {fn \in Callbacks : IO!OtherPatches(fn, e)}
  BY KeptIsTheSame DEF IO!Receive
<1>3. \A i \in DOMAIN l : \E j \in DOMAIN old : l[i] = old[j]
  <2>. HIDE DEF old, on
  <2>. QED  BY <1>1, KeptIsOfList
<1>4. /\ l \in Seq(IoEntry)
      /\ \A T : Count(l, T) = Cardinality({i \in DOMAIN old : i \in on /\ old[i] \in T})
  <2>. HIDE DEF old, on
  <2>. QED  BY <1>1, KeptFacts
<1>5. /\ m \in Seq(Meaning)
      /\ \A T : Count(m, T) = Cardinality({i \in DOMAIN was : i \in mn /\ was[i] \in T})
  <2>. HIDE DEF was, mn
  <2>. QED  BY <1>1, KeptFacts
<1>6. excused \subseteq excused' /\ excused' \subseteq Callbacks
  BY <1>1, <1>2
<1>7. ASSUME NEW g \in Callbacks \ excused', NEW o \in BOOLEAN
      PROVE  Count(l, Entries(g, o)) = Count(m, Meanings(g, o))
  <2>1. \A i \in DOMAIN old : old[i].fn = g => old[i].by = IO!Through(e)
    BY <1>2 DEF IO!OtherPatches, IO!At
  <2>2. /\ \A i \in DOMAIN old : old[i] \in Entries(g, o) <=> old[i].fn = g /\ old[i].once = o
        /\ \A i \in DOMAIN was : was[i] \in Meanings(g, o) <=> was[i].fn = g /\ was[i].once = o
    BY <1>1, EntryCounts
  <2>3. Count(old, Entries(g, o)) = Count(was, Meanings(g, o))
    BY <1>6 DEF IoInv, CountsInv
  <2>4. CASE o = TRUE
    <3>1. {i \in DOMAIN old : i \in on /\ old[i] \in Entries(g, o)} = {}
      BY <2>1, <2>2, <2>4
    <3>2. {i \in DOMAIN was : i \in mn /\ was[i] \in Meanings(g, o)} = {}
      BY <2>2, <2>4
    <3>. QED  BY <1>4, <1>5, <3>1, <3>2
  <2>5. CASE o = FALSE
    <3>1. {i \in DOMAIN old : i \in on /\ old[i] \in Entries(g, o)} = Where(old, Entries(g, o))
      BY <2>2, <2>5 DEF Where
    <3>2. {i \in DOMAIN was : i \in mn /\ was[i] \in Meanings(g, o)}
            = Where(was, Meanings(g, o))
      BY <2>2, <2>5 DEF Where
    <3>. QED  BY <1>4, <1>5, <2>3, <3>1, <3>2 DEF Count
  <2>. QED  BY <2>4, <2>5
<1>. HIDE DEF l, m
<1>. QED  BY <1>2, <1>3, <1>4, <1>5, <1>6, <1>7, ShorterKeeps

LEMMA IoStep == IoInv /\ [IO!Next]_IO!ioVars => IoInv'
<1>. SUFFICES ASSUME IoInv, [IO!Next]_IO!ioVars PROVE IoInv'
  OBVIOUS
<1>1. CASE UNCHANGED IO!ioVars
  BY <1>1 DEF IoInv, IO!ioVars, IO!IoTypeOK, PatchesInv, TablesInv, CountsInv
<1>2. CASE IO!Next
  BY <1>2, PatchingKeeps, OffAllKeeps, ReceiveKeeps, OffKeeps, OnKeeps DEF IO!Next
<1>. QED  BY <1>1, <1>2

\* The registrations of a listener are those of on and those of once.
LEMMA BothKinds == IoInv => RegisteredAsMeant
<1>. SUFFICES ASSUME IoInv, NEW e \in Events, NEW fn \in Callbacks \ excused
              PROVE  Cardinality(IO!At(listening[e], fn)) = Cardinality(IO!At(meant[e], fn))
  <2>1. \A S : IO!Cardinality(S) = Cardinality(S)
    BY DEF IO!Cardinality, Cardinality
  <2>. QED  BY <2>1 DEF RegisteredAsMeant, IO!RegisteredAsMeant
<1>1. listening[e] \in Seq(IoEntry) /\ meant[e] \in Seq(Meaning)
  BY DEF IoInv, IO!IoTypeOK, IoEntry, Meaning
<1>2. Cardinality(IO!At(listening[e], fn))
        = Count(listening[e], Entries(fn, TRUE)) + Count(listening[e], Entries(fn, FALSE))
  <2>. DEFINE A == Where(listening[e], Entries(fn, TRUE))
              B == Where(listening[e], Entries(fn, FALSE))
  <2>1. \A i \in DOMAIN listening[e] : listening[e][i] \in IoEntry
    BY <1>1
  <2>2. IO!At(listening[e], fn) = A \cup B /\ A \cap B = {}
    BY <2>1, EntryCounts DEF Where, IO!At
  <2>3. IsFiniteSet(A) /\ IsFiniteSet(B)
    BY <1>1, CountOf
  <2>4. Cardinality(A \cap B) = 0 /\ Cardinality(A) \in Nat /\ Cardinality(B) \in Nat
    BY <2>2, <2>3, FS_EmptySet, FS_CardinalityType
  <2>. HIDE DEF A, B
  <2>5. Cardinality(A \cup B) = Cardinality(A) + Cardinality(B)
    <3>1. Cardinality(A \cup B) = Cardinality(A) + Cardinality(B) - Cardinality(A \cap B)
      BY <2>3, FS_Union
    <3>. QED  BY <2>4, <3>1
  <2>. QED  BY <2>2, <2>5 DEF Count, A, B
<1>3. Cardinality(IO!At(meant[e], fn))
        = Count(meant[e], Meanings(fn, TRUE)) + Count(meant[e], Meanings(fn, FALSE))
  <2>. DEFINE A == Where(meant[e], Meanings(fn, TRUE))
              B == Where(meant[e], Meanings(fn, FALSE))
  <2>1. \A i \in DOMAIN meant[e] : meant[e][i] \in Meaning
    BY <1>1
  <2>2. IO!At(meant[e], fn) = A \cup B /\ A \cap B = {}
    BY <2>1, EntryCounts DEF Where, IO!At
  <2>3. IsFiniteSet(A) /\ IsFiniteSet(B)
    BY <1>1, CountOf
  <2>4. Cardinality(A \cap B) = 0 /\ Cardinality(A) \in Nat /\ Cardinality(B) \in Nat
    BY <2>2, <2>3, FS_EmptySet, FS_CardinalityType
  <2>. HIDE DEF A, B
  <2>5. Cardinality(A \cup B) = Cardinality(A) + Cardinality(B)
    <3>1. Cardinality(A \cup B) = Cardinality(A) + Cardinality(B) - Cardinality(A \cap B)
      BY <2>3, FS_Union
    <3>. QED  BY <2>4, <3>1
  <2>. QED  BY <2>2, <2>5 DEF Count, A, B
<1>4. \A o \in BOOLEAN : Count(listening[e], Entries(fn, o)) = Count(meant[e], Meanings(fn, o))
  BY DEF IoInv, CountsInv
<1>. QED  BY <1>2, <1>3, <1>4

\* The variables of the instrumentation of socket.io keep their types
\* (SplunkSocketIoClientInstrumentation.ts).
THEOREM EmitterTypes == IO!Spec => []IO!IoTypeOK
<1>1. IoInv => IO!IoTypeOK
  BY DEF IoInv
<1>. QED  BY IoInitial, IoStep, <1>1, PTL DEF IO!Spec

\* A listener is registered as often as it would be without patches, unless it is
\* excused (SplunkSocketIoClientInstrumentation.ts:149-224).
THEOREM ListenersAsMeant == IO!Spec => []RegisteredAsMeant
BY IoInitial, IoStep, BothKinds, PTL DEF IO!Spec

-----------------------------------------------------------------------------
(* BrowserReports.                                                         *)

List(s) == \E S : s \in Seq(S)

\* Two lists, one after the other.
LEMMA ListsJoin ==
  ASSUME NEW s, NEW t, List(s), List(t)
  PROVE  /\ List(s \o t) /\ Len(s \o t) = Len(s) + Len(t)
         /\ Len(s) \in Nat /\ DOMAIN s = 1..Len(s) /\ Len(t) \in Nat /\ DOMAIN t = 1..Len(t)
         /\ DOMAIN (s \o t) = 1..(Len(s) + Len(t))
         /\ \A i \in DOMAIN s : i \in DOMAIN (s \o t) /\ (s \o t)[i] = s[i]
         /\ \A i \in DOMAIN t : Len(s) + i \in DOMAIN (s \o t) /\ (s \o t)[Len(s) + i] = t[i]
         /\ \A i \in DOMAIN (s \o t) : i \notin DOMAIN s => i - Len(s) \in DOMAIN t
<1>1. PICK S : s \in Seq(S)
  BY DEF List
<1>2. PICK T : t \in Seq(T)
  BY DEF List
<1>3. s \in Seq(S \cup T) /\ t \in Seq(S \cup T)
  BY <1>1, <1>2
<1>4. /\ s \o t \in Seq(S \cup T) /\ Len(s \o t) = Len(s) + Len(t)
      /\ \A i \in 1..(Len(s) + Len(t)) : (s \o t)[i] = IF i <= Len(s) THEN s[i] ELSE t[i - Len(s)]
  BY <1>3, ConcatProperties
<1>. QED  BY <1>1, <1>2, <1>4 DEF List

\* The wrappers, each once.
LEMMA WrappersFacts ==
  ASSUME NEW n \in Nat, layers \in Seq(0..n),
         \A i, j \in DOMAIN layers : layers[i] = layers[j] /\ layers[i] # 0 => i = j
  PROVE  /\ BR!Wrappers \in Seq(1..n)
         /\ \A i, j \in DOMAIN BR!Wrappers : BR!Wrappers[i] = BR!Wrappers[j] => i = j
         /\ \A i \in DOMAIN layers : layers[i] # 0 =>
              \E j \in DOMAIN BR!Wrappers : BR!Wrappers[j] = layers[i]
<1>. DEFINE s == BR!Reverse(layers)
            at == {i \in DOMAIN layers : s[i] # 0}
            r == Kept(s, at)
            m == Len(layers)
<1>1. BR!Wrappers = r
  BY KeptIsTheSame DEF BR!Wrappers
<1>0. s \in Seq(0..n)
  BY DEF BR!Reverse
<1>2. /\ m \in Nat /\ DOMAIN layers = 1..m /\ DOMAIN s = 1..m
      /\ \A i \in 1..m : s[i] = layers[(m - i) + 1] /\ (m - i) + 1 \in 1..m
  <2>1. m \in Nat /\ DOMAIN layers = 1..m
    OBVIOUS
  <2>2. s = [i \in 1..m |-> layers[(m - i) + 1]]
    BY DEF BR!Reverse
  <2>3. \A i \in 1..m : (m - i) + 1 \in 1..m
    BY <2>1
  <2>. HIDE DEF s, m
  <2>. QED  BY <2>1, <2>2, <2>3
<1>3. \A i, j \in 1..m : s[i] = s[j] /\ s[i] # 0 => i = j
  BY <1>2
<1>4. \A i \in 1..m : (m - i) + 1 \in 1..m /\ s[(m - i) + 1] = layers[i]
  BY <1>2
<1>5. \A i \in at : i \in 1..m /\ s[i] # 0
  BY <1>2
<1>6. \A i \in 1..m : s[i] # 0 => i \in at
  BY <1>2
<1>. HIDE DEF s, at
<1>7. /\ r \in Seq(0..n)
      /\ \A T : Count(r, T) = Cardinality({i \in DOMAIN s : i \in at /\ s[i] \in T})
  BY <1>0, KeptFacts
<1>. HIDE DEF r
<1>8. ASSUME NEW k, k # 0
      PROVE  /\ \A i, j \in DOMAIN r : r[i] = k /\ r[j] = k => i = j
             /\ (\E i \in DOMAIN r : r[i] = k) <=> \E i \in 1..m : s[i] = k
  <2>. DEFINE A == {i \in DOMAIN s : i \in at /\ s[i] \in {k}}
              W == Where(r, {k})
  <2>1. Cardinality(W) = Cardinality(A) /\ IsFiniteSet(W)
    BY <1>7, CountOf DEF Count
  <2>2. \A i \in 1..m : i \in A <=> s[i] = k
    BY <1>2, <1>6, <1>8
  <2>3. A = {} \/ \E x \in 1..m : A = {x}
    BY <1>2, <1>3, <1>8, <2>2
  <2>4. \A i \in DOMAIN r : i \in W <=> r[i] = k
    BY DEF Where
  <2>5. \A i \in A : i \in 1..m
    BY <1>2
  <2>6. \A i \in W : i \in DOMAIN r
    BY DEF Where
  <2>. HIDE DEF A, W
  <2>7. CASE A = {}
    <3>1. W = {}
      BY <2>1, <2>7, FS_EmptySet
    <3>. QED  BY <2>2, <2>4, <2>7, <3>1
  <2>8. CASE \E x \in 1..m : A = {x}
    <3>1. Cardinality(A) = 1
      BY <2>8, FS_Singleton
    <3>2. \E x : W = {x}
      BY <2>1, <3>1, FS_Singleton
    <3>. QED  BY <2>2, <2>4, <2>6, <2>8, <3>2
  <2>. QED  BY <2>3, <2>7, <2>8
<1>9. \A i \in DOMAIN r : r[i] # 0
  <2>. SUFFICES ASSUME NEW i \in DOMAIN r, r[i] = 0 PROVE FALSE
    OBVIOUS
  <2>1. Count(r, {0}) # 0
    BY <1>7, CountOf
  <2>2. {j \in DOMAIN s : j \in at /\ s[j] \in {0}} = {}
    BY <1>5
  <2>. QED  BY <1>7, <2>1, <2>2, FS_EmptySet
<1>10. r \in Seq(1..n)
  <2>1. \A i \in DOMAIN r : r[i] \in 0..n
    BY <1>7
  <2>2. \A i \in DOMAIN r : r[i] \in 1..n
    BY <1>9, <2>1
  <2>. QED  BY <1>7, <2>2
<1>11. \A i, j \in DOMAIN r : r[i] = r[j] => i = j
  BY <1>8, <1>9
<1>12. ASSUME NEW i \in DOMAIN layers, layers[i] # 0
       PROVE  \E j \in DOMAIN r : r[j] = layers[i]
  <2>1. \E j \in 1..m : s[j] = layers[i]
    BY <1>2, <1>4
  <2>. QED  BY <1>8, <1>12, <2>1
<1>. QED  BY <1>1, <1>10, <1>11, <1>12

\* A set of one element as a list.
LEMMA ListOfOne ==
  ASSUME NEW S, NEW x, S = {} \/ S = {x}
  PROVE  BR!SetToSeq(S) = IF S = {} THEN <<>> ELSE <<x>>
<1>1. \A T : BR!Cardinality(T) = Cardinality(T)
  BY DEF BR!Cardinality, Cardinality
<1>2. CASE S = {}
  <2>1. Cardinality(S) = 0
    BY <1>2, FS_EmptySet
  <2>2. <<>> \in [1..Cardinality(S) -> S] /\ BR!IsInjective(<<>>)
    BY <1>2, <2>1 DEF BR!IsInjective
  <2>3. BR!SetToSeq(S) \in [1..Cardinality(S) -> S]
    BY <1>1, <2>2 DEF BR!SetToSeq
  <2>4. BR!SetToSeq(S) \in [1..0 -> S]
    BY <2>1, <2>3
  <2>5. \A f \in [1..0 -> S] : f = <<>>
    OBVIOUS
  <2>. QED  BY <1>2, <2>4, <2>5
<1>3. CASE S = {x}
  <2>1. Cardinality(S) = 1
    BY <1>3, FS_Singleton
  <2>2. <<x>> \in [1..Cardinality(S) -> S] /\ BR!IsInjective(<<x>>)
    BY <1>3, <2>1 DEF BR!IsInjective
  <2>3. BR!SetToSeq(S) \in [1..Cardinality(S) -> S]
    BY <1>1, <2>2 DEF BR!SetToSeq
  <2>4. BR!SetToSeq(S) \in [1..1 -> S]
    BY <2>1, <2>3
  <2>5. \A f \in [1..1 -> S] : f = <<x>>
    BY <1>3
  <2>. QED  BY <1>3, <2>4, <2>5
<1>. QED  BY <1>2, <1>3

LifeInv ==
  /\ running \notin shutting /\ shutting \subseteq 1..instances
  /\ hearing = {} \/ (hearing = {running} /\ running # 0)
  /\ running \in hearing =>
       errorInstr = running /\ \E i \in DOMAIN layers : layers[i] = running
  /\ \A i, j \in DOMAIN layers : layers[i] = layers[j] /\ layers[i] # 0 => i = j

\* Of an incident that came while no former provider was shutting down only the
\* instance that heard it has a report that will be, or is, exported.
OnlyOf(r, c, alive) ==
  c.calm => (r.status = "exported" \/ r.by \in alive => r.by = c.to)

Fields == {"of", "by", "about", "own", "said", "name", "path", "status"}

\* A report has the path of what it is about and, unless the error was filtered, what
\* the event of it says.
FromEvent(r) ==
  /\ r.path = IF r.about.is = "Event" /\ r.about.target # NoNode
              THEN BR!GetElementXPath(r.about.target, TRUE) ELSE <<>>
  /\ r.status \in {"exported", "lost"} =>
       IF r.about = BR!NoError THEN r.said = <<>>
       ELSE IF r.about.filtered THEN r.said = <<>> /\ ~r.own
       ELSE LET event == BR!BuildEventFromException(r.about) IN
            /\ r.said = event.exceptions
            /\ r.own => r.name = BR!GetSpanNameFromEvent(event)

OnceInv ==
  /\ List(reports) /\ List(incidents)
  /\ \A i \in DOMAIN reports : LET r == reports[i] IN
       /\ DOMAIN r = Fields /\ FromEvent(r)
       /\ r.of \in 1..Len(incidents) /\ r.by \in 1..instances
       /\ r.status = "processing" => r.about # BR!NoError
       /\ OnlyOf(r, incidents[r.of], {running} \cup shutting)
  /\ \A i, j \in DOMAIN reports :
       reports[i].of = reports[j].of /\ reports[i].by = reports[j].by => i = j

\* An incident that is worth a report, and was heard, has one of the running SDK.
WorthInv ==
  \A k \in DOMAIN incidents : LET c == incidents[k] IN
    /\ c.to \in 0..instances
    /\ c.heard /\ BR!Telling(c.values) /\ c.via # "Rum.recordException" =>
         /\ c.to # 0
         /\ \E i \in DOMAIN reports :
              /\ reports[i].of = k /\ reports[i].by = c.to /\ ~reports[i].own
              /\ c.to = running => reports[i].status \in {"processing", "exported"}

BrInv == BR!BrTypeOK /\ LifeInv /\ OnceInv /\ WorthInv

LEMMA BrInitial == BR!Init => BrInv
<1>. SUFFICES ASSUME BR!Init PROVE BrInv
  OBVIOUS
<1>. USE DEF BR!Init
<1>1. BR!BrTypeOK
  <2>1. /\ instances = 0 /\ running = 0 /\ errorInstr = 0 /\ layers = <<>> /\ hearing = {}
        /\ shutting = {} /\ reports = <<>> /\ incidents = <<>>
    OBVIOUS
  <2>2. instances \in 0..MaxInstances /\ {running, errorInstr} \subseteq 0..instances
    BY ONLY <2>1, ReportsAssumption
  <2>3. layers \in Seq(0..instances) /\ Len(incidents) <= MaxIncidents
    BY ONLY <2>1, ReportsAssumption
  <2>. QED  BY <2>1, <2>2, <2>3 DEF BR!BrTypeOK
<1>2. LifeInv /\ WorthInv
  BY DEF LifeInv, WorthInv
<1>3. OnceInv
  BY DEF OnceInv, List
<1>. QED  BY <1>1, <1>2, <1>3 DEF BrInv

\* The life cycle leaves the reports and what was reported alone; an instance that
\* starts is a new one, and one that is neither running nor shutting down stays so.
LEMMA LifeKeeps ==
  ASSUME BrInv, BR!BrTypeOK', LifeInv',
         UNCHANGED <<reports, incidents>>, instances <= instances',
         {running'} \cup shutting' \subseteq {0, running, instances + 1} \cup shutting,
         running' \in {running, 0, instances + 1}
  PROVE  BrInv'
<1>0. instances \in Nat /\ instances' \in Nat
  BY ReportsAssumption DEF BrInv, BR!BrTypeOK
<1>1. OnceInv'
  <2>1. \A i \in DOMAIN reports : LET r == reports[i] IN
          /\ DOMAIN r = Fields /\ FromEvent(r)
          /\ r.of \in 1..Len(incidents) /\ r.by \in 1..instances
          /\ r.status = "processing" => r.about # BR!NoError
          /\ OnlyOf(r, incidents[r.of], {running} \cup shutting)
    BY DEF BrInv, OnceInv
  <2>2. ASSUME NEW i \in DOMAIN reports, NEW c, OnlyOf(reports[i], c, {running} \cup shutting)
        PROVE  OnlyOf(reports[i], c, {running'} \cup shutting')
    <3>1. reports[i].by \in 1..instances
      BY <2>1
    <3>2. reports[i].by # instances + 1 /\ reports[i].by # 0
      BY <1>0, <3>1
    <3>. QED  BY <2>2, <3>2 DEF OnlyOf
  <2>3. /\ List(reports') /\ List(incidents')
        /\ \A i, j \in DOMAIN reports' :
             reports'[i].of = reports'[j].of /\ reports'[i].by = reports'[j].by => i = j
    BY DEF BrInv, OnceInv
  <2>4. \A i \in DOMAIN reports :
          /\ reports[i].by \in 1..instances'
          /\ OnlyOf(reports[i], incidents[reports[i].of], {running'} \cup shutting')
    <3>. SUFFICES ASSUME NEW i \in DOMAIN reports
                  PROVE  /\ reports[i].by \in 1..instances'
                         /\ OnlyOf(reports[i], incidents[reports[i].of],
                                   {running'} \cup shutting')
      OBVIOUS
    <3>1. /\ reports[i].by \in 1..instances
          /\ OnlyOf(reports[i], incidents[reports[i].of], {running} \cup shutting)
      BY <2>1
    <3>2. reports[i].by \in 1..instances'
      BY <1>0, <3>1
    <3>. QED  BY <2>2, <3>1, <3>2
  <2>. QED  BY <2>1, <2>3, <2>4 DEF OnceInv
<1>2. WorthInv'
  <2>. SUFFICES ASSUME NEW k \in DOMAIN incidents
                PROVE  LET c == incidents[k] IN
                       /\ c.to \in 0..instances'
                       /\ c.heard /\ BR!Telling(c.values) /\ c.via # "Rum.recordException" =>
                            /\ c.to # 0
                            /\ \E i \in DOMAIN reports :
                                 /\ reports[i].of = k /\ reports[i].by = c.to /\ ~reports[i].own
                                 /\ c.to = running' =>
                                      reports[i].status \in {"processing", "exported"}
    BY DEF WorthInv
  <2>. DEFINE c == incidents[k]
  <2>1. c.to \in 0..instances
    BY DEF BrInv, WorthInv
  <2>2. c.to # 0 /\ c.to = running' => c.to = running
    BY <1>0, <2>1
  <2>. QED  BY <1>0, <2>1, <2>2 DEF BrInv, WorthInv
<1>. QED  BY <1>1, <1>2 DEF BrInv

LEMMA LifeCycleKeeps ==
  ASSUME BrInv,
         \/ BR!ForeignWrap \/ BR!ForeignUnwrap \/ BR!RumDeinit
         \/ \E withErrors \in BOOLEAN : BR!RumInit(withErrors)
         \/ \E n \in BR!Instances : BR!ShutDown(n)
  PROVE  BrInv'
<1>1. /\ instances \in 0..MaxInstances /\ instances \in Nat
      /\ running \in 0..instances /\ errorInstr \in 0..instances
      /\ layers \in Seq(0..instances)
      /\ hearing \subseteq BR!Instances /\ shutting \subseteq BR!Instances
      /\ \A i \in DOMAIN reports : BR!IsReport(reports[i])
      /\ Len(incidents) <= MaxIncidents
  BY ReportsAssumption DEF BrInv, BR!BrTypeOK
<1>2. LifeInv
  BY DEF BrInv
<1>3. layers # <<>> => /\ BR!Front(layers) \in Seq(0..instances)
                       /\ DOMAIN BR!Front(layers) = 1..Len(layers) - 1
                       /\ \A i \in 1..Len(layers) - 1 : BR!Front(layers)[i] = layers[i]
                       /\ BR!Last(layers) = layers[Len(layers)]
                       /\ Len(layers) \in DOMAIN layers
  <2>. SUFFICES ASSUME layers # <<>>
                PROVE  /\ BR!Front(layers) \in Seq(0..instances)
                       /\ DOMAIN BR!Front(layers) = 1..Len(layers) - 1
                       /\ \A i \in 1..Len(layers) - 1 : BR!Front(layers)[i] = layers[i]
                       /\ BR!Last(layers) = layers[Len(layers)]
                       /\ Len(layers) \in DOMAIN layers
    OBVIOUS
  <2>1. BR!Front(layers) = SubSeq(layers, 1, Len(layers) - 1)
    BY DEF BR!Front
  <2>2. Len(layers) \in Nat /\ Len(layers) # 0
    BY <1>1
  <2>3. BR!Last(layers) = layers[Len(layers)]
    BY DEF BR!Last
  <2>. QED  BY <1>1, <2>1, <2>2, <2>3, SubSeqProperties
<1>4. \A x \in 0..(instances + 1) :
        /\ Append(layers, x) \in Seq(0..(instances + 1))
        /\ DOMAIN Append(layers, x) = DOMAIN layers \cup {Len(layers) + 1}
        /\ Append(layers, x)[Len(layers) + 1] = x /\ Len(layers) + 1 \notin DOMAIN layers
        /\ \A i \in DOMAIN layers : Append(layers, x)[i] = layers[i]
  <2>1. layers \in Seq(0..(instances + 1))
    BY <1>1
  <2>. QED  BY <2>1, AppendProperties
<1>10. ASSUME layers # <<>>
       PROVE  /\ \A i, j \in DOMAIN BR!Front(layers) :
                   BR!Front(layers)[i] = BR!Front(layers)[j] /\ BR!Front(layers)[i] # 0 => i = j
              /\ \A x : x # BR!Last(layers) /\ (\E i \in DOMAIN layers : layers[i] = x)
                   => \E i \in DOMAIN BR!Front(layers) : BR!Front(layers)[i] = x
  <2>. DEFINE f == BR!Front(layers)
              n == Len(layers)
  <2>1. /\ DOMAIN f = 1..n - 1 /\ \A i \in 1..n - 1 : f[i] = layers[i]
        /\ BR!Last(layers) = layers[n] /\ DOMAIN layers = 1..n /\ n \in Nat
    BY <1>1, <1>3, <1>10
  <2>2. \A i, j \in DOMAIN layers : layers[i] = layers[j] /\ layers[i] # 0 => i = j
    BY <1>2 DEF LifeInv
  <2>. HIDE DEF f, n
  <2>3. \A i \in DOMAIN f : i \in DOMAIN layers /\ f[i] = layers[i]
    BY <2>1
  <2>4. \A i \in DOMAIN layers : i = n \/ (i \in DOMAIN f /\ f[i] = layers[i])
    BY <2>1
  <2>5. \A i, j \in DOMAIN f : f[i] = f[j] /\ f[i] # 0 => i = j
    BY <2>2, <2>3
  <2>6. \A x : x # BR!Last(layers) /\ (\E i \in DOMAIN layers : layers[i] = x)
                 => \E i \in DOMAIN f : f[i] = x
    BY <2>1, <2>4
  <2>. QED  BY <2>5, <2>6 DEF f
<1>5. CASE BR!ForeignWrap
  <2>1. /\ layers' = Append(layers, 0)
        /\ UNCHANGED <<instances, running, errorInstr, hearing, shutting, reports, incidents>>
    BY <1>5 DEF BR!ForeignWrap
  <2>2. layers' \in Seq(0..instances)
    BY <1>1, <2>1, AppendProperties
  <2>3. BR!BrTypeOK'
    BY <1>1, <2>1, <2>2 DEF BR!BrTypeOK
  <2>4. LifeInv'
    BY <1>1, <1>2, <1>4, <2>1 DEF LifeInv
  <2>. QED  BY <1>1, <2>1, <2>3, <2>4, LifeKeeps
<1>6. CASE BR!ForeignUnwrap
  <2>1. /\ layers # <<>> /\ BR!Last(layers) = 0 /\ layers' = BR!Front(layers)
        /\ UNCHANGED <<instances, running, errorInstr, hearing, shutting, reports, incidents>>
    BY <1>6 DEF BR!ForeignUnwrap
  <2>3. BR!BrTypeOK'
    BY <1>1, <1>3, <2>1 DEF BR!BrTypeOK
  <2>4. LifeInv'
    <3>1. \A i, j \in DOMAIN layers' : layers'[i] = layers'[j] /\ layers'[i] # 0 => i = j
      BY <1>10, <2>1
    <3>2. (\E i \in DOMAIN layers : layers[i] = running) /\ running # 0 =>
             \E i \in DOMAIN layers' : layers'[i] = running
      BY <1>10, <2>1
    <3>. QED  BY <1>2, <2>1, <3>1, <3>2 DEF LifeInv
  <2>. QED  BY <1>1, <2>1, <2>3, <2>4, LifeKeeps
<1>7. CASE BR!RumDeinit
  <2>1. /\ running # 0 /\ running' = 0 /\ shutting' = shutting \cup {running}
        /\ hearing' = {} /\ layers' \in {layers, BR!Front(layers)}
        /\ (layers' # layers => layers # <<>>)
        /\ UNCHANGED <<instances, errorInstr, reports, incidents>>
    BY <1>2, <1>7 DEF BR!RumDeinit, LifeInv
  <2>2. layers' \in Seq(0..instances)
    BY <1>1, <1>3, <2>1
  <2>3. BR!BrTypeOK'
    <3>1. running \in BR!Instances
      BY <1>1, <2>1, ReportsAssumption DEF BR!Instances
    <3>. QED  BY <1>1, <2>1, <2>2, <3>1 DEF BR!BrTypeOK
  <2>4. LifeInv'
    <3>1. \A i, j \in DOMAIN layers' : layers'[i] = layers'[j] /\ layers'[i] # 0 => i = j
      <4>1. \A i, j \in DOMAIN layers : layers[i] = layers[j] /\ layers[i] # 0 => i = j
        BY <1>2 DEF LifeInv
      <4>. QED  BY <1>10, <2>1, <4>1
    <3>2. running' \notin shutting' /\ shutting' \subseteq 1..instances'
      <4>1. shutting \subseteq 1..instances /\ running \in 1..instances
        BY <1>1, <1>2, <2>1 DEF LifeInv
      <4>2. 0 \notin 1..instances
        BY <1>1
      <4>. QED  BY <2>1, <4>1, <4>2
    <3>3. /\ hearing' = {} \/ (hearing' = {running'} /\ running' # 0)
          /\ running' \in hearing' =>
               errorInstr' = running' /\ \E i \in DOMAIN layers' : layers'[i] = running'
      BY <2>1
    <3>. QED  BY ONLY <3>1, <3>2, <3>3 DEF LifeInv
  <2>. QED  BY <1>1, <2>1, <2>3, <2>4, LifeKeeps
<1>8. ASSUME NEW withErrors \in BOOLEAN, BR!RumInit(withErrors) PROVE BrInv'
  <2>. DEFINE n == instances + 1
  <2>1. /\ running = 0 /\ n \in 1..MaxInstances /\ instances' = n /\ running' = n
        /\ IF withErrors
           THEN errorInstr' = n /\ layers' = Append(layers, n) /\ hearing' = hearing \cup {n}
           ELSE UNCHANGED <<errorInstr, layers, hearing>>
        /\ UNCHANGED <<shutting, reports, incidents>>
    BY <1>8 DEF BR!RumInit, BR!Instances
  <2>2. n \notin shutting /\ hearing = {} /\ \A i \in DOMAIN layers : layers[i] # n
    BY <1>1, <1>2, <2>1 DEF LifeInv
  <2>3. layers' \in Seq(0..n)
    <3>1. n \in 0..n /\ layers \in Seq(0..n)
      BY <1>1
    <3>. QED  BY <1>4, <2>1, <3>1
  <2>4. BR!BrTypeOK'
    BY <1>1, <2>1, <2>2, <2>3 DEF BR!BrTypeOK, BR!Instances
  <2>5. LifeInv'
    <3>1. shutting' \subseteq 1..instances' /\ running' \notin shutting'
      BY <1>1, <1>2, <2>1, <2>2 DEF LifeInv
    <3>2. CASE withErrors
      <4>1. /\ \A i, j \in DOMAIN layers' : layers'[i] = layers'[j] /\ layers'[i] # 0 => i = j
            /\ \E i \in DOMAIN layers' : layers'[i] = n
        <5>1. \A i, j \in DOMAIN layers : layers[i] = layers[j] /\ layers[i] # 0 => i = j
          BY <1>2 DEF LifeInv
        <5>2. layers' = Append(layers, n) /\ n \in 0..n
          BY <1>1, <2>1, <3>2
        <5>3. /\ DOMAIN layers' = DOMAIN layers \cup {Len(layers) + 1}
              /\ layers'[Len(layers) + 1] = n
              /\ \A i \in DOMAIN layers : layers'[i] = layers[i]
          BY <1>4, <5>2
        <5>. QED  BY <2>2, <5>1, <5>3
      <4>. QED  BY <1>1, <2>1, <2>2, <3>1, <3>2, <4>1 DEF LifeInv
    <3>3. CASE ~withErrors
      BY <1>2, <2>1, <2>2, <3>1, <3>3 DEF LifeInv
    <3>. QED  BY <3>2, <3>3
  <2>. QED  BY <1>1, <2>1, <2>4, <2>5, LifeKeeps
<1>9. ASSUME NEW n \in BR!Instances, BR!ShutDown(n) PROVE BrInv'
  <2>1. /\ shutting' = shutting \ {n}
        /\ UNCHANGED <<instances, running, errorInstr, layers, hearing, reports, incidents>>
    BY <1>9 DEF BR!ShutDown
  <2>2. BR!BrTypeOK'
    BY <1>1, <2>1 DEF BR!BrTypeOK
  <2>3. LifeInv'
    BY <1>2, <2>1 DEF LifeInv
  <2>. QED  BY <1>1, <2>1, <2>2, <2>3, LifeKeeps
<1>. QED  BY <1>5, <1>6, <1>7, <1>8, <1>9

\* A report that is made of an incident.
Fresh(r, n) ==
  /\ DOMAIN r = Fields /\ BR!IsReport(r) /\ FromEvent(r) /\ r.of = n /\ r.by \in 1..instances
  /\ r.status = IF r.about = BR!NoError THEN BR!Exported(r.by) ELSE "processing"

LEMMA NewReportFresh ==
  ASSUME BR!BrTypeOK, Len(incidents) \in Nat, Len(incidents) < MaxIncidents,
         NEW n \in 1..instances, NEW about, about = BR!NoError \/ about \in BR!Values,
         NEW r, \/ r = BR!NewReport(Len(incidents) + 1, n, about)
                \/ r = [BR!NewReport(Len(incidents) + 1, n, about) EXCEPT !.own = TRUE]
  PROVE  Fresh(r, Len(incidents) + 1) /\ r.by = n
<1>1. /\ r.of = Len(incidents) + 1 /\ r.by = n /\ r.about = about /\ r.own \in BOOLEAN
      /\ r.status = IF about = BR!NoError THEN BR!Exported(n) ELSE "processing"
      /\ r.said = <<>> /\ r.name = <<>>
      /\ r.path = IF about.is = "Event" /\ about.target # NoNode
                  THEN BR!GetElementXPath(about.target, TRUE) ELSE <<>>
  <2>. DEFINE p == BR!NewReport(Len(incidents) + 1, n, about)
  <2>1. /\ p.of = Len(incidents) + 1 /\ p.by = n /\ p.about = about /\ p.own = FALSE
        /\ p.status = IF about = BR!NoError THEN BR!Exported(n) ELSE "processing"
        /\ p.said = <<>> /\ p.name = <<>>
        /\ p.path = IF about.is = "Event" /\ about.target # NoNode
                    THEN BR!GetElementXPath(about.target, TRUE) ELSE <<>>
    BY DEF BR!NewReport
  <2>2. /\ [p EXCEPT !.own = TRUE].of = p.of /\ [p EXCEPT !.own = TRUE].by = p.by
        /\ [p EXCEPT !.own = TRUE].about = p.about /\ [p EXCEPT !.own = TRUE].own = TRUE
        /\ [p EXCEPT !.own = TRUE].status = p.status
        /\ [p EXCEPT !.own = TRUE].said = p.said /\ [p EXCEPT !.own = TRUE].name = p.name
        /\ [p EXCEPT !.own = TRUE].path = p.path
    BY DEF BR!NewReport
  <2>3. r = p \/ r = [p EXCEPT !.own = TRUE]
    OBVIOUS
  <2>. HIDE DEF p
  <2>. QED  BY <2>1, <2>2, <2>3
<1>2. BR!Exported(n) \in {"exported", "lost"}
  BY DEF BR!Exported
<1>3. Len(incidents) + 1 \in 1..MaxIncidents /\ n \in BR!Instances
  BY ReportsAssumption DEF BR!BrTypeOK, BR!Instances
<1>4. r.status \in BR!Statuses
  BY <1>1, <1>2 DEF BR!Statuses
<1>5. BR!IsReport(r)
  BY <1>1, <1>3, <1>4 DEF BR!IsReport
<1>6. DOMAIN r = Fields
  <2>1. DOMAIN BR!NewReport(Len(incidents) + 1, n, about) = Fields
    BY DEF BR!NewReport, Fields
  <2>. QED  BY <2>1
<1>7. FromEvent(r)
  BY <1>1 DEF FromEvent
<1>. QED  BY <1>1, <1>5, <1>6, <1>7 DEF Fresh

\* The reports that are made of an incident, at most one by an instance, and one by the
\* running SDK if it is worth it, are all there are of it.
LEMMA HappensKeeps ==
  ASSUME BrInv, NEW via, NEW values, NEW new, BR!Happens(via, values, new), List(new),
         \A i \in DOMAIN new : Fresh(new[i], Len(incidents) + 1),
         \A i, j \in DOMAIN new : new[i].by = new[j].by => i = j,
         running \in hearing /\ BR!Telling(values) /\ via # "Rum.recordException" =>
           \E i \in DOMAIN new : new[i].by = running /\ ~new[i].own
  PROVE  BrInv'
<1>. DEFINE n == Len(incidents) + 1
            c == BR!Incident(via, values)
            m == Len(reports)
<1>1. /\ Len(incidents) < MaxIncidents /\ incidents' = Append(incidents, c)
      /\ reports' = reports \o new
      /\ UNCHANGED <<instances, running, errorInstr, layers, hearing, shutting>>
  BY DEF BR!Happens
<1>2. /\ Len(incidents) \in Nat /\ DOMAIN incidents = 1..Len(incidents)
      /\ DOMAIN incidents' = 1..n /\ incidents'[n] = c /\ Len(incidents') = n
      /\ \A k \in DOMAIN incidents : incidents'[k] = incidents[k]
      /\ List(incidents')
  <2>1. PICK S : incidents \in Seq(S)
    BY DEF BrInv, OnceInv, List
  <2>2. incidents \in Seq(S \cup {c}) /\ c \in S \cup {c}
    BY <2>1
  <2>. HIDE DEF c
  <2>3. /\ Append(incidents, c) \in Seq(S \cup {c})
        /\ Len(Append(incidents, c)) = Len(incidents) + 1
        /\ \A k \in 1..Len(incidents) : Append(incidents, c)[k] = incidents[k]
        /\ Append(incidents, c)[Len(incidents) + 1] = c
    BY <2>2, AppendProperties
  <2>. QED  BY <1>1, <2>1, <2>3 DEF List
<1>3. /\ List(reports') /\ m \in Nat /\ DOMAIN reports = 1..m
      /\ DOMAIN reports' = 1..(m + Len(new))
      /\ \A i \in DOMAIN reports : i \in DOMAIN reports' /\ reports'[i] = reports[i]
      /\ \A i \in DOMAIN new : m + i \in DOMAIN reports' /\ reports'[m + i] = new[i]
      /\ \A i \in DOMAIN reports' : i \notin DOMAIN reports => i - m \in DOMAIN new
  <2>1. List(reports)
    BY DEF BrInv, OnceInv
  <2>. QED  BY <1>1, <2>1, ListsJoin
<1>4. \A i \in DOMAIN reports' :
        \/ i \in DOMAIN reports /\ reports'[i] = reports[i]
        \/ i \notin DOMAIN reports /\ i - m \in DOMAIN new /\ reports'[i] = new[i - m]
  <2>. SUFFICES ASSUME NEW i \in DOMAIN reports', i \notin DOMAIN reports
                PROVE  i - m \in DOMAIN new /\ reports'[i] = new[i - m]
    BY <1>3
  <2>1. i - m \in DOMAIN new /\ i \in Nat
    BY <1>3
  <2>2. reports'[m + (i - m)] = new[i - m] /\ m + (i - m) = i
    BY <1>3, <2>1
  <2>. QED  BY <2>1, <2>2
<1>5. /\ c.via = via /\ c.values = values /\ c.to = running
      /\ (c.heard <=> running \in hearing) /\ (c.calm <=> shutting = {})
  BY DEF BR!Incident
<1>6. \A i \in DOMAIN reports :
        /\ reports[i].of \in 1..Len(incidents) /\ reports[i].of # n
        /\ reports[i].by \in 1..instances
  BY <1>2 DEF BrInv, OnceInv
<1>7. BR!BrTypeOK /\ instances \in Nat /\ running \in 0..instances
  BY ReportsAssumption DEF BrInv, BR!BrTypeOK
<1>. HIDE DEF c, m
<1>8. BR!BrTypeOK'
  <2>1. \A i \in DOMAIN reports' : BR!IsReport(reports'[i])
    BY <1>4, <1>7 DEF Fresh, BR!BrTypeOK
  <2>2. Len(incidents') <= MaxIncidents
    BY <1>1, <1>2, ReportsAssumption
  <2>. QED  BY <1>1, <1>7, <2>1, <2>2 DEF BR!BrTypeOK
<1>9. LifeInv'
  BY <1>1 DEF BrInv, LifeInv
<1>10. OnceInv'
  <2>1. ASSUME NEW i \in DOMAIN reports'
        PROVE  LET r == reports'[i] IN
               /\ DOMAIN r = Fields /\ FromEvent(r)
               /\ r.of \in 1..Len(incidents') /\ r.by \in 1..instances'
               /\ r.status = "processing" => r.about # BR!NoError
               /\ OnlyOf(r, incidents'[r.of], {running'} \cup shutting')
    <3>1. CASE i \in DOMAIN reports /\ reports'[i] = reports[i]
      <4>1. /\ DOMAIN reports[i] = Fields /\ FromEvent(reports[i])
            /\ reports[i].of \in 1..Len(incidents) /\ reports[i].by \in 1..instances
            /\ reports[i].status = "processing" => reports[i].about # BR!NoError
            /\ OnlyOf(reports[i], incidents[reports[i].of], {running} \cup shutting)
        BY <3>1 DEF BrInv, OnceInv
      <4>2. incidents'[reports[i].of] = incidents[reports[i].of]
        BY <1>2, <4>1
      <4>. QED  BY <1>1, <1>2, <3>1, <4>1, <4>2 DEF OnlyOf
    <3>2. CASE i \notin DOMAIN reports /\ i - m \in DOMAIN new /\ reports'[i] = new[i - m]
      <4>. DEFINE r == new[i - m]
      <4>1. /\ DOMAIN r = Fields /\ FromEvent(r) /\ r.of = n /\ r.by \in 1..instances
            /\ r.status = IF r.about = BR!NoError THEN BR!Exported(r.by) ELSE "processing"
        BY <3>2 DEF Fresh
      <4>. HIDE DEF r
      <4>2. r.status = "processing" => r.about # BR!NoError
        BY <4>1 DEF BR!Exported
      <4>3. shutting = {} => (r.status = "exported" \/ r.by \in {running} \cup shutting
                                 => r.by = running)
        BY <4>1 DEF BR!Exported
      <4>4. reports'[i] = r /\ incidents'[r.of] = c /\ r.of \in 1..Len(incidents')
        BY <1>2, <3>2, <4>1 DEF r
      <4>5. OnlyOf(r, c, {running'} \cup shutting')
        BY <1>1, <1>5, <4>3 DEF OnlyOf, c, BR!Incident
      <4>. QED  BY <1>1, <4>1, <4>2, <4>4, <4>5
    <3>. QED  BY <1>4, <3>1, <3>2
  <2>2. ASSUME NEW i \in DOMAIN reports', NEW j \in DOMAIN reports',
               reports'[i].of = reports'[j].of, reports'[i].by = reports'[j].by
        PROVE  i = j
    <3>1. \A k \in DOMAIN reports' : k \notin DOMAIN reports => reports'[k].of = n
      BY <1>4 DEF Fresh
    <3>2. i \in DOMAIN reports <=> j \in DOMAIN reports
      BY <1>3, <1>6, <2>2, <3>1
    <3>3. CASE i \in DOMAIN reports
      BY <1>3, <2>2, <3>2, <3>3 DEF BrInv, OnceInv
    <3>4. CASE i \notin DOMAIN reports
      <4>1. i - m = j - m
        BY <1>4, <2>2, <3>2, <3>4
      <4>. QED  BY <1>3, <4>1
    <3>. QED  BY <3>3, <3>4
  <2>. QED  BY <1>2, <1>3, <2>1, <2>2 DEF OnceInv
<1>11. WorthInv'
  <2>. SUFFICES ASSUME NEW k \in DOMAIN incidents'
                PROVE  LET d == incidents'[k] IN
                       /\ d.to \in 0..instances'
                       /\ d.heard /\ BR!Telling(d.values) /\ d.via # "Rum.recordException" =>
                            /\ d.to # 0
                            /\ \E i \in DOMAIN reports' :
                                 /\ reports'[i].of = k /\ reports'[i].by = d.to
                                 /\ ~reports'[i].own
                                 /\ d.to = running' =>
                                      reports'[i].status \in {"processing", "exported"}
    BY DEF WorthInv
  <2>1. CASE k \in DOMAIN incidents
    <3>. DEFINE d == incidents[k]
    <3>1. incidents'[k] = d
      BY <1>2, <2>1
    <3>2. /\ d.to \in 0..instances
          /\ d.heard /\ BR!Telling(d.values) /\ d.via # "Rum.recordException" =>
               /\ d.to # 0
               /\ \E i \in DOMAIN reports :
                    /\ reports[i].of = k /\ reports[i].by = d.to /\ ~reports[i].own
                    /\ d.to = running => reports[i].status \in {"processing", "exported"}
      BY <2>1 DEF BrInv, WorthInv
    <3>. HIDE DEF d
    <3>. QED  BY <1>1, <1>3, <3>1, <3>2
  <2>2. CASE k \notin DOMAIN incidents
    <3>1. k = n /\ incidents'[k] = c
      BY <1>2, <2>2
    <3>2. SUFFICES ASSUME running \in hearing, BR!Telling(values), via # "Rum.recordException"
                   PROVE  /\ running # 0
                          /\ \E i \in DOMAIN reports' :
                               /\ reports'[i].of = k /\ reports'[i].by = running
                               /\ ~reports'[i].own
                               /\ reports'[i].status \in {"processing", "exported"}
      BY <1>1, <1>5, <1>7, <3>1
    <3>3. PICK i \in DOMAIN new : new[i].by = running /\ ~new[i].own
      BY <3>2
    <3>4. new[i].of = n /\ new[i].status \in {"processing", "exported"}
      BY <3>3 DEF Fresh, BR!Exported
    <3>5. running # 0
      BY <3>2 DEF BrInv, LifeInv
    <3>. QED  BY <1>3, <3>1, <3>3, <3>4, <3>5
  <2>. QED  BY <2>1, <2>2
<1>. QED  BY <1>8, <1>9, <1>10, <1>11 DEF BrInv

\* What the page logs or throws.
Given(values) == values \in Logged \/ \E v \in Thrown : values = <<v>>

LEMMA GivenFacts ==
  ASSUME NEW values, Given(values)
  PROVE  /\ List(values) /\ Len(values) \in Nat /\ DOMAIN values = 1..Len(values)
         /\ \A i \in DOMAIN values :
              /\ values[i] \in BR!Values
              /\ values[i].is = "ErrorEvent" =>
                   /\ List(values[i].error)
                   /\ \A j \in DOMAIN values[i].error :
                        /\ values[i].error[j] \in BR!Values
                        /\ values[i].error[j].text = "useful"
                             \/ values[i].error[j].stack # <<>>
<1>. DEFINE given == Thrown \cup Handed \cup UNION {BR!ToSet(s) : s \in Logged}
            errors == UNION {BR!ToSet(v.error) : v \in {w \in given : w.is = "ErrorEvent"}}
<1>1. BR!Values = given \cup errors
  BY DEF BR!Values
<1>2. \A s : BR!ToSet(s) = {s[i] : i \in DOMAIN s} /\ ToSet(s) = {s[i] : i \in DOMAIN s}
  BY DEF BR!ToSet, ToSet
<1>3. List(values)
  <2>1. CASE values \in Logged
    BY <2>1, ReportsAssumption DEF List, IsText
  <2>2. CASE \E v \in Thrown : values = <<v>>
    <3>1. PICK v \in Thrown : values = <<v>>
      BY <2>2
    <3>2. values \in Seq({v})
      BY <3>1
    <3>. QED  BY <3>2 DEF List
  <2>. QED  BY <2>1, <2>2 DEF Given
<1>4. Len(values) \in Nat /\ DOMAIN values = 1..Len(values)
  BY <1>3 DEF List
<1>5. ASSUME NEW i \in DOMAIN values PROVE values[i] \in given
  <2>1. CASE values \in Logged
    <3>1. values[i] \in BR!ToSet(values)
      BY <1>2
    <3>. QED  BY <2>1, <3>1
  <2>2. CASE \E v \in Thrown : values = <<v>>
    BY <2>2
  <2>. QED  BY <2>1, <2>2 DEF Given
<1>6. ASSUME NEW i \in DOMAIN values, values[i].is = "ErrorEvent"
      PROVE  /\ List(values[i].error)
             /\ \A j \in DOMAIN values[i].error :
                  /\ values[i].error[j] \in BR!Values
                  /\ values[i].error[j].text = "useful" \/ values[i].error[j].stack # <<>>
  <2>. DEFINE v == values[i]
  <2>1. v \in given /\ v.is = "ErrorEvent"
    BY <1>5, <1>6
  <2>. HIDE DEF v, given
  <2>2. v \in BR!Values
    BY <1>1, <2>1
  <2>3. v.error \in Seq(ToSet(v.error))
        /\ \A j \in DOMAIN v.error : v.error[j].text = "useful" \/ v.error[j].stack # <<>>
    BY <2>1, <2>2, ReportsAssumption DEF IsText
  <2>4. BR!ToSet(v.error) \subseteq errors
    BY <2>1
  <2>5. \A j \in DOMAIN v.error : v.error[j] \in BR!Values
    BY <1>1, <1>2, <2>4
  <2>. QED  BY <2>3, <2>5 DEF List, v
<1>. QED  BY <1>1, <1>3, <1>4, <1>5, <1>6

\* A span is of none of the values or of one of them, and is made if they are worth it.
LEMMA SpanFacts ==
  ASSUME NEW values, Given(values), NEW one, one = BR!HdxReport(values)
  PROVE  /\ one = <<>> \/ \E x : one = <<x>> /\ (x = BR!NoError \/ x \in BR!Values)
         /\ BR!Telling(values) => one # <<>>
<1>. DEFINE Good(s) == s = <<>> \/ \E x : s = <<x>> /\ (x = BR!NoError \/ x \in BR!Values)
<1>1. /\ Len(values) \in Nat /\ DOMAIN values = 1..Len(values)
      /\ \A i \in DOMAIN values :
           /\ values[i] \in BR!Values
           /\ values[i].is = "ErrorEvent" =>
                /\ List(values[i].error)
                /\ \A j \in DOMAIN values[i].error :
                     /\ values[i].error[j] \in BR!Values
                     /\ values[i].error[j].text = "useful"
                          \/ values[i].error[j].stack # <<>>
  BY GivenFacts
<1>2. \A e \in BR!Values : Good(BR!SpanOfError(e)) /\ Good(BR!SpanOfString(e))
                           /\ (e.text = "useful" => BR!SpanOfError(e) # <<>>
                                                    /\ BR!SpanOfString(e) # <<>>)
                           /\ (e.stack # <<>> => BR!SpanOfError(e) # <<>>)
  BY DEF BR!SpanOfError, BR!SpanOfString
<1>3. CASE values = <<>>
  <2>1. ~BR!Telling(values)
    BY <1>3 DEF BR!Telling
  <2>. QED  BY <1>3, <2>1 DEF BR!HdxReport
<1>4. CASE Len(values) = 1
  <2>. DEFINE v == values[1]
  <2>1. v \in BR!Values /\ one = BR!SpanOfValue(v)
    BY <1>1, <1>4 DEF BR!HdxReport
  <2>2. BR!Telling(values) => v.text = "useful"
    BY <1>1, <1>4 DEF BR!Telling
  <2>3. v.is = "ErrorEvent" =>
          /\ v.error # <<>> => 1 \in DOMAIN v.error
          /\ \A j \in DOMAIN v.error :
               /\ v.error[j] \in BR!Values
               /\ v.error[j].text = "useful" \/ v.error[j].stack # <<>>
    BY <1>1, <1>4 DEF List
  <2>. HIDE DEF v
  <2>4. CASE v.is \in {"Error", "DOMException"}
    BY <1>2, <2>1, <2>2, <2>4 DEF BR!SpanOfValue
  <2>5. CASE v.is = "ErrorEvent"
    <3>1. CASE v.error = <<>>
      BY <1>2, <2>1, <2>2, <2>5, <3>1 DEF BR!SpanOfValue
    <3>2. CASE v.error # <<>>
      <4>1. one = BR!SpanOfError(v.error[1])
        BY <2>1, <2>5, <3>2 DEF BR!SpanOfValue
      <4>2. v.error[1] \in BR!Values
            /\ (v.error[1].text = "useful" \/ v.error[1].stack # <<>>)
        BY <2>3, <2>5, <3>2
      <4>. QED  BY <1>2, <4>1, <4>2
    <3>. QED  BY <3>1, <3>2
  <2>6. CASE v.is = "Event"
    BY <2>1, <2>2, <2>6 DEF BR!SpanOfValue
  <2>7. CASE v.is \notin {"Error", "DOMException", "ErrorEvent", "Event"}
    BY <1>2, <2>1, <2>2, <2>7 DEF BR!SpanOfValue
  <2>. QED  BY <2>4, <2>5, <2>6, <2>7
<1>5. CASE values # <<>> /\ Len(values) # 1
  <2>. DEFINE at == {i \in DOMAIN values : values[i].is = "Error"}
  <2>1. one = BR!SpanOfList(values)
    BY <1>5 DEF BR!HdxReport
  <2>2. at # {} => BR!Min(at) \in at
    <3>. SUFFICES ASSUME at # {} PROVE BR!Min(at) \in at
      OBVIOUS
    <3>1. at \in SUBSET Nat
      BY <1>1
    <3>. HIDE DEF at
    <3>2. \E n \in at : \A m \in at : n <= m
      BY <3>1, Least
    <3>. QED  BY <3>2 DEF BR!Min
  <2>3. Good(BR!SpanOfList(values))
    BY <1>1, <2>2 DEF BR!SpanOfList
  <2>4. BR!Telling(values) => BR!SpanOfList(values) # <<>>
    BY DEF BR!SpanOfList, BR!Telling
  <2>. QED  BY <2>1, <2>3, <2>4
<1>. QED  BY <1>3, <1>4, <1>5

\* Of each of some instances the report of what was logged or thrown.
LEMMA ReportedFacts ==
  ASSUME BrInv, Len(incidents) < MaxIncidents, NEW values, Given(values),
         NEW ns \in Seq(1..instances), \A i, j \in DOMAIN ns : ns[i] = ns[j] => i = j,
         NEW new, new = BR!Reported(ns, values)
  PROVE  /\ List(new) /\ \A i \in DOMAIN new : Fresh(new[i], Len(incidents) + 1)
         /\ \A i, j \in DOMAIN new : new[i].by = new[j].by => i = j
         /\ BR!Telling(values) =>
              \A k \in DOMAIN ns : \E i \in DOMAIN new : new[i].by = ns[k] /\ ~new[i].own
<1>. DEFINE one == BR!HdxReport(values)
<1>1. /\ one = <<>> \/ \E x : one = <<x>> /\ (x = BR!NoError \/ x \in BR!Values)
      /\ BR!Telling(values) => one # <<>>
  BY SpanFacts
<1>2. BR!BrTypeOK /\ Len(incidents) \in Nat
  BY DEF BrInv, OnceInv, List
<1>. HIDE DEF one
<1>3. CASE one = <<>>
  <2>1. new = <<>>
    BY <1>3 DEF BR!Reported, one
  <2>. QED  BY <1>1, <1>3, <2>1 DEF List
<1>4. CASE one # <<>>
  <2>1. PICK x : one = <<x>> /\ (x = BR!NoError \/ x \in BR!Values)
    BY <1>1, <1>4
  <2>. DEFINE R(k) == BR!NewReport(Len(incidents) + 1, ns[k], x)
  <2>2. new = [k \in DOMAIN ns |-> R(k)]
    BY <1>4, <2>1 DEF BR!Reported, one
  <2>3. \A k \in DOMAIN ns :
          /\ Fresh(R(k), Len(incidents) + 1) /\ R(k).by = ns[k] /\ ~R(k).own
    <3>. SUFFICES ASSUME NEW k \in DOMAIN ns
                  PROVE  Fresh(R(k), Len(incidents) + 1) /\ R(k).by = ns[k] /\ ~R(k).own
      OBVIOUS
    <3>1. ns[k] \in 1..instances
      <4>1. k \in 1..Len(ns)
        OBVIOUS
      <4>. QED  BY <4>1, ElementOfSeq
    <3>2. ~R(k).own
      BY DEF BR!NewReport
    <3>3. \A n, r : n = ns[k] /\ r = BR!NewReport(Len(incidents) + 1, n, x) =>
                      Fresh(r, Len(incidents) + 1) /\ r.by = n
      BY <1>2, <2>1, <3>1, NewReportFresh
    <3>. QED  BY <3>2, <3>3
  <2>. HIDE DEF R
  <2>4. List(new)
    <3>1. DOMAIN ns = 1..Len(ns) /\ Len(ns) \in Nat
      OBVIOUS
    <3>2. new \in Seq({R(k) : k \in DOMAIN ns})
      BY <2>2, <3>1
    <3>. QED  BY <3>2 DEF List
  <2>. QED  BY <2>2, <2>3, <2>4
<1>. QED  BY <1>3, <1>4


\* What is done with the event of an error leaves alone what the report is of.
LEMMA ProcessedFacts ==
  ASSUME NEW r, BR!IsReport(r), DOMAIN r = Fields, FromEvent(r),
         r.status = "processing", r.about # BR!NoError, NEW q, q = BR!Processed(r)
  PROVE  /\ DOMAIN q = Fields /\ BR!IsReport(q) /\ FromEvent(q)
         /\ q.of = r.of /\ q.by = r.by /\ q.about = r.about /\ q.own = r.own
         /\ q.status = BR!Exported(r.by) \/ (r.own /\ q.status = "none")
         /\ q.status # "processing"
<1>1. BR!Exported(r.by) \in {"exported", "lost"}
  BY DEF BR!Exported
<1>2. /\ DOMAIN q = Fields
      /\ q.of = r.of /\ q.by = r.by /\ q.about = r.about /\ q.own = r.own
      /\ q.status = BR!Exported(r.by) \/ (r.own /\ q.status = "none")
  <2>1. CASE r.about.filtered
    <3>1. q = [r EXCEPT !.status = IF r.own THEN "none" ELSE BR!Exported(r.by)]
      BY <2>1 DEF BR!Processed
    <3>. QED  BY <3>1 DEF Fields, BR!IsReport
  <2>2. CASE ~r.about.filtered
    <3>. DEFINE event == BR!BuildEventFromException(r.about)
                name == IF r.own THEN BR!GetSpanNameFromEvent(event) ELSE r.name
                status == BR!Exported(r.by)
    <3>1. q = [r EXCEPT !.said = event.exceptions, !.name = name, !.status = status]
      BY <2>2 DEF BR!Processed
    <3>. HIDE DEF event, name, status
    <3>2. /\ DOMAIN q = Fields /\ q.status = status
          /\ q.of = r.of /\ q.by = r.by /\ q.about = r.about /\ q.own = r.own
      BY <3>1 DEF Fields
    <3>. QED  BY <3>2 DEF status
  <2>. QED  BY <2>1, <2>2
<1>3. q.status \in BR!Statuses /\ q.status # "processing"
  BY <1>1, <1>2 DEF BR!Statuses
<1>4. q.path = r.path
      /\ IF r.about.filtered THEN q.said = <<>> /\ (q.status # "none" => ~r.own)
         ELSE LET event == BR!BuildEventFromException(r.about) IN
              q.said = event.exceptions /\ (r.own => q.name = BR!GetSpanNameFromEvent(event))
  <2>1. CASE r.about.filtered
    <3>1. q = [r EXCEPT !.status = IF r.own THEN "none" ELSE BR!Exported(r.by)]
      BY <2>1 DEF BR!Processed
    <3>2. r.said = <<>>
      BY DEF BR!IsReport
    <3>. QED  BY <2>1, <3>1, <3>2 DEF Fields
  <2>2. CASE ~r.about.filtered
    <3>. DEFINE event == BR!BuildEventFromException(r.about)
                name == BR!GetSpanNameFromEvent(event)
                status == BR!Exported(r.by)
    <3>1. q = [r EXCEPT !.said = event.exceptions, !.name = IF r.own THEN name ELSE r.name,
                        !.status = status]
      BY <2>2 DEF BR!Processed
    <3>. HIDE DEF event, name, status
    <3>2. q.path = r.path /\ q.said = event.exceptions /\ (r.own => q.name = name)
      BY <3>1 DEF Fields
    <3>. QED  BY <2>2, <3>2 DEF event, name
  <2>. QED  BY <2>1, <2>2
<1>5. FromEvent(q)
  BY <1>2, <1>4 DEF FromEvent
<1>. QED  BY <1>1, <1>2, <1>3, <1>5 DEF BR!IsReport

LEMMA RecordExceptionKeeps ==
  ASSUME BrInv, NEW i \in DOMAIN reports, BR!RecordException(i)
  PROVE  BrInv'
<1>. DEFINE r == reports[i]
            q == BR!Processed(r)
<1>1. r.status = "processing"
      /\ UNCHANGED <<instances, running, errorInstr, layers, hearing, shutting, incidents>>
  BY DEF BR!RecordException
<1>2. /\ List(reports') /\ DOMAIN reports' = DOMAIN reports /\ reports'[i] = q
      /\ \A j \in DOMAIN reports : j # i => reports'[j] = reports[j]
  <2>1. PICK R : reports \in Seq(R)
    BY DEF BrInv, OnceInv, List
  <2>. DEFINE s == [reports EXCEPT ![i] = q]
  <2>2. s \in Seq(R \cup {q})
    BY <2>1
  <2>3. reports' = s \o <<>>
    BY DEF BR!RecordException, BR!Diagnosed
  <2>4. reports' = s
    BY <2>2, <2>3, ConcatEmptySeq
  <2>. HIDE DEF q
  <2>. QED  BY <2>2, <2>4 DEF List
<1>3. /\ BR!IsReport(r) /\ DOMAIN r = Fields /\ FromEvent(r)
      /\ r.of \in 1..Len(incidents) /\ r.by \in 1..instances /\ r.about # BR!NoError
      /\ OnlyOf(r, incidents[r.of], {running} \cup shutting)
  BY <1>1 DEF BrInv, BR!BrTypeOK, OnceInv
<1>. HIDE DEF r
<1>4. /\ DOMAIN q = Fields /\ BR!IsReport(q) /\ FromEvent(q)
      /\ q.of = r.of /\ q.by = r.by /\ q.about = r.about /\ q.own = r.own
      /\ q.status = BR!Exported(r.by) \/ (r.own /\ q.status = "none")
      /\ q.status # "processing"
  BY <1>1, <1>3, ProcessedFacts DEF r
<1>. HIDE DEF q
<1>5. BR!BrTypeOK'
  <2>1. \A j \in DOMAIN reports' : BR!IsReport(reports'[j])
    BY <1>2, <1>4 DEF BrInv, BR!BrTypeOK
  <2>. QED  BY <1>1, <2>1 DEF BrInv, BR!BrTypeOK
<1>6. LifeInv'
  BY <1>1 DEF BrInv, LifeInv
<1>7. OnceInv'
  <2>1. OnlyOf(q, incidents[q.of], {running} \cup shutting)
    BY <1>3, <1>4 DEF OnlyOf, BR!Exported
  <2>2. \A j \in DOMAIN reports' : LET p == reports'[j] IN
          /\ DOMAIN p = Fields /\ FromEvent(p)
          /\ p.of \in 1..Len(incidents) /\ p.by \in 1..instances
          /\ p.status = "processing" => p.about # BR!NoError
          /\ OnlyOf(p, incidents[p.of], {running} \cup shutting)
    BY <1>2, <1>3, <1>4, <2>1 DEF BrInv, OnceInv
  <2>3. \A j \in DOMAIN reports' :
          reports'[j].of = reports[j].of /\ reports'[j].by = reports[j].by
    BY <1>2, <1>4 DEF r
  <2>4. \A j, k \in DOMAIN reports' :
          reports'[j].of = reports'[k].of /\ reports'[j].by = reports'[k].by => j = k
    BY <1>2, <2>3 DEF BrInv, OnceInv
  <2>5. List(incidents)
    BY DEF BrInv, OnceInv
  <2>. QED  BY <1>1, <1>2, <2>2, <2>4, <2>5 DEF OnceInv
<1>8. WorthInv'
  <2>. SUFFICES ASSUME NEW k \in DOMAIN incidents
                PROVE  LET c == incidents[k] IN
                       /\ c.to \in 0..instances
                       /\ c.heard /\ BR!Telling(c.values) /\ c.via # "Rum.recordException" =>
                            /\ c.to # 0
                            /\ \E j \in DOMAIN reports' :
                                 /\ reports'[j].of = k /\ reports'[j].by = c.to
                                 /\ ~reports'[j].own
                                 /\ c.to = running =>
                                      reports'[j].status \in {"processing", "exported"}
    BY <1>1 DEF WorthInv
  <2>. DEFINE c == incidents[k]
  <2>1. c.to \in 0..instances
    BY DEF BrInv, WorthInv
  <2>2. ASSUME c.heard, BR!Telling(c.values), c.via # "Rum.recordException"
        PROVE  /\ c.to # 0
               /\ \E j \in DOMAIN reports' :
                    /\ reports'[j].of = k /\ reports'[j].by = c.to
                    /\ ~reports'[j].own
                    /\ c.to = running => reports'[j].status \in {"processing", "exported"}
    <3>1. c.to # 0
      BY <2>2 DEF BrInv, WorthInv
    <3>2. PICK j \in DOMAIN reports :
            /\ reports[j].of = k /\ reports[j].by = c.to /\ ~reports[j].own
            /\ c.to = running => reports[j].status \in {"processing", "exported"}
      BY <2>2 DEF BrInv, WorthInv
    <3>. HIDE DEF c
    <3>3. CASE j # i
      BY <1>2, <3>1, <3>2, <3>3
    <3>4. CASE j = i
      <4>1. q.of = k /\ q.by = c.to /\ ~q.own
        BY <1>4, <3>2, <3>4 DEF r
      <4>2. c.to = running => q.status = "exported"
        BY <1>4, <4>1 DEF BR!Exported
      <4>. QED  BY <1>2, <3>1, <3>4, <4>1, <4>2
    <3>. QED  BY <3>3, <3>4
  <2>. QED  BY <2>1, <2>2
<1>. QED  BY <1>5, <1>6, <1>7, <1>8 DEF BrInv

\* The reports of what is logged or thrown, and of what the application hands over.
LEMMA ReportsKeep ==
  ASSUME BrInv,
         \/ \E values \in Logged : BR!ConsoleError(values) \/ BR!RumError(values)
         \/ \E v \in Thrown : BR!ErrorEvent(v)
         \/ \E v \in Handed : BR!RumRecordException(v)
  PROVE  BrInv'
<1>1. /\ BR!BrTypeOK /\ instances \in Nat /\ running \in 0..instances
      /\ errorInstr \in 0..instances /\ layers \in Seq(0..instances)
  BY ReportsAssumption DEF BrInv, BR!BrTypeOK
<1>2. LifeInv
  BY DEF BrInv
<1>3. \A values : Given(values) /\ BR!Telling(values) => ~BR!Fails(values)
  BY DEF BR!Telling
<1>4. List(<<>>)
  BY DEF List
<1>5. ASSUME NEW values \in Logged, BR!ConsoleError(values) PROVE BrInv'
  <2>. DEFINE new == IF BR!Fails(values) THEN <<>> ELSE BR!Reported(BR!Wrappers, values)
  <2>1. BR!Happens("console", values, new) /\ Len(incidents) < MaxIncidents
    BY <1>5 DEF BR!ConsoleError, BR!Happens
  <2>2. Given(values)
    BY DEF Given
  <2>3. /\ BR!Wrappers \in Seq(1..instances)
        /\ \A i, j \in DOMAIN BR!Wrappers : BR!Wrappers[i] = BR!Wrappers[j] => i = j
        /\ \A i \in DOMAIN layers : layers[i] # 0 =>
             \E j \in DOMAIN BR!Wrappers : BR!Wrappers[j] = layers[i]
    BY <1>1, <1>2, WrappersFacts DEF LifeInv
  <2>4. running \in hearing => \E j \in DOMAIN BR!Wrappers : BR!Wrappers[j] = running
    BY <1>2, <2>3 DEF LifeInv
  <2>5. /\ List(new) /\ \A i \in DOMAIN new : Fresh(new[i], Len(incidents) + 1)
        /\ \A i, j \in DOMAIN new : new[i].by = new[j].by => i = j
        /\ running \in hearing /\ BR!Telling(values) =>
             \E i \in DOMAIN new : new[i].by = running /\ ~new[i].own
    <3>1. CASE BR!Fails(values)
      BY <1>3, <1>4, <2>2, <3>1
    <3>2. CASE ~BR!Fails(values)
      BY <2>1, <2>2, <2>3, <2>4, <3>2, ReportedFacts
    <3>. QED  BY <3>1, <3>2
  <2>. HIDE DEF new
  <2>. QED  BY <2>1, <2>5, HappensKeeps
<1>6. ASSUME NEW values \in Logged, BR!RumError(values) PROVE BrInv'
  <2>. DEFINE ns == <<errorInstr>>
              new == IF errorInstr = 0 \/ BR!Fails(values) THEN <<>>
                     ELSE BR!Reported(ns, values)
  <2>1. BR!Happens("Rum.error", values, new) /\ Len(incidents) < MaxIncidents
    BY <1>6 DEF BR!RumError, BR!Happens
  <2>2. Given(values)
    BY DEF Given
  <2>3. running \in hearing => errorInstr = running /\ running # 0
    BY <1>2 DEF LifeInv
  <2>4. errorInstr # 0 => /\ ns \in Seq(1..instances) /\ DOMAIN ns = {1}
                          /\ ns[1] = errorInstr
    BY <1>1
  <2>5. /\ List(new) /\ \A i \in DOMAIN new : Fresh(new[i], Len(incidents) + 1)
        /\ \A i, j \in DOMAIN new : new[i].by = new[j].by => i = j
        /\ running \in hearing /\ BR!Telling(values) =>
             \E i \in DOMAIN new : new[i].by = running /\ ~new[i].own
    <3>1. CASE errorInstr = 0 \/ BR!Fails(values)
      BY <1>3, <1>4, <2>2, <2>3, <3>1
    <3>2. CASE ~(errorInstr = 0 \/ BR!Fails(values))
      <4>. HIDE DEF ns
      <4>. QED  BY <2>1, <2>2, <2>3, <2>4, <3>2, ReportedFacts
    <3>. QED  BY <3>1, <3>2
  <2>. HIDE DEF new
  <2>. QED  BY <2>1, <2>5, HappensKeeps
<1>7. ASSUME NEW v \in Thrown, BR!ErrorEvent(v) PROVE BrInv'
  <2>. DEFINE values == <<v>>
              ns == BR!SetToSeq(hearing)
              new == IF BR!Fails(values) THEN <<>> ELSE BR!Reported(ns, values)
  <2>1. BR!Happens("event", values, new) /\ Len(incidents) < MaxIncidents
    BY <1>7 DEF BR!ErrorEvent, BR!Happens
  <2>2. Given(values)
    BY DEF Given
  <2>3. ns = IF hearing = {} THEN <<>> ELSE <<running>>
    BY <1>2, ListOfOne DEF LifeInv
  <2>4. /\ ns \in Seq(1..instances) /\ \A i, j \in DOMAIN ns : ns[i] = ns[j] => i = j
        /\ running \in hearing => 1 \in DOMAIN ns /\ ns[1] = running
    <3>. HIDE DEF ns
    <3>1. CASE hearing = {}
      <4>1. ns = <<>> /\ running \notin hearing
        BY <2>3, <3>1
      <4>. QED  BY <4>1
    <3>2. CASE hearing # {}
      <4>1. ns = <<running>> /\ running \in 1..instances
        BY <1>1, <1>2, <2>3, <3>2 DEF LifeInv
      <4>. QED  BY <4>1
    <3>. QED  BY <3>1, <3>2
  <2>. HIDE DEF values, ns
  <2>5. /\ List(new) /\ \A i \in DOMAIN new : Fresh(new[i], Len(incidents) + 1)
        /\ \A i, j \in DOMAIN new : new[i].by = new[j].by => i = j
        /\ running \in hearing /\ BR!Telling(values) =>
             \E i \in DOMAIN new : new[i].by = running /\ ~new[i].own
    <3>1. CASE BR!Fails(values)
      BY <1>3, <1>4, <2>2, <3>1
    <3>2. CASE ~BR!Fails(values)
      BY <2>1, <2>2, <2>4, <3>2, ReportedFacts
    <3>. QED  BY <3>1, <3>2
  <2>. HIDE DEF new
  <2>. QED  BY <2>1, <2>5, HappensKeeps
<1>8. ASSUME NEW v \in Handed, BR!RumRecordException(v) PROVE BrInv'
  <2>. DEFINE r == [BR!NewReport(Len(incidents) + 1, running, v) EXCEPT !.own = TRUE]
  <2>1. /\ running # 0 /\ BR!Happens("Rum.recordException", <<v>>, <<r>>)
        /\ Len(incidents) < MaxIncidents
    BY <1>8 DEF BR!RumRecordException, BR!Happens
  <2>2. v \in BR!Values /\ running \in 1..instances /\ Len(incidents) \in Nat
    BY <1>1, <2>1 DEF BR!Values, BrInv, OnceInv, List
  <2>3. Fresh(r, Len(incidents) + 1)
    <3>1. \A about, p : \A n \in 1..instances :
            /\ about = BR!NoError \/ about \in BR!Values
            /\ p = [BR!NewReport(Len(incidents) + 1, n, about) EXCEPT !.own = TRUE]
            => Fresh(p, Len(incidents) + 1)
      BY <1>1, <2>1, <2>2, NewReportFresh
    <3>. HIDE DEF r
    <3>. QED  BY <2>2, <3>1 DEF r
  <2>. HIDE DEF r
  <2>4. List(<<r>>) /\ DOMAIN <<r>> = {1} /\ <<r>>[1] = r
    <3>1. <<r>> \in Seq({r})
      OBVIOUS
    <3>2. List(<<r>>)
      BY <3>1 DEF List
    <3>3. DOMAIN <<r>> = {1} /\ <<r>>[1] = r
      OBVIOUS
    <3>. QED  BY <3>2, <3>3
  <2>. DEFINE new == <<r>>
  <2>5. /\ List(new) /\ \A i \in DOMAIN new : Fresh(new[i], Len(incidents) + 1)
        /\ \A i, j \in DOMAIN new : new[i].by = new[j].by => i = j
    BY <2>3, <2>4
  <2>. HIDE DEF new
  <2>. QED  BY <2>1, <2>5, HappensKeeps DEF new
<1>. QED  BY <1>5, <1>6, <1>7, <1>8

LEMMA BrStep == BrInv /\ [BR!Next]_BR!brVars => BrInv'
<1>. SUFFICES ASSUME BrInv, [BR!Next]_BR!brVars PROVE BrInv'
  OBVIOUS
<1>1. CASE UNCHANGED BR!brVars
  <2>. USE <1>1 DEF BR!brVars
  <2>1. BR!BrTypeOK'
    BY DEF BrInv, BR!BrTypeOK
  <2>2. LifeInv' /\ OnceInv' /\ WorthInv'
    BY DEF BrInv, LifeInv, OnceInv, WorthInv
  <2>. QED  BY <2>1, <2>2 DEF BrInv
<1>2. CASE BR!Next
  BY <1>2, LifeCycleKeeps, ReportsKeep, RecordExceptionKeeps DEF BR!Next
<1>. QED  BY <1>1, <1>2

\* What was reported once is reported once.
LEMMA OnceReported == BrInv => BR!ReportedOnce
<1>. SUFFICES ASSUME BrInv, NEW k \in DOMAIN incidents, incidents[k].calm
              PROVE  LET c == incidents[k]
                         spans == {i \in DOMAIN reports :
                                     reports[i].of = k /\ reports[i].status # "none"}
                         sent == {i \in spans : reports[i].status = "exported"}
                     IN  /\ \A i, j \in sent : i = j
                         /\ /\ c.heard /\ c.to = running /\ BR!Telling(c.values)
                            /\ \A i \in spans : reports[i].status # "processing"
                            /\ c.via # "Rum.recordException"
                            => \E i \in sent : reports[i].by = c.to
  BY DEF BR!ReportedOnce
<1>. DEFINE c == incidents[k]
            spans == {i \in DOMAIN reports : reports[i].of = k /\ reports[i].status # "none"}
            sent == {i \in spans : reports[i].status = "exported"}
<1>1. \A i \in sent : reports[i].by = c.to
  BY DEF BrInv, OnceInv, OnlyOf
<1>2. \A i, j \in sent : i = j
  BY <1>1 DEF BrInv, OnceInv
<1>3. ASSUME c.heard, c.to = running, BR!Telling(c.values),
             \A i \in spans : reports[i].status # "processing",
             c.via # "Rum.recordException"
      PROVE  \E i \in sent : reports[i].by = c.to
  <2>1. PICK i \in DOMAIN reports :
          /\ reports[i].of = k /\ reports[i].by = c.to
          /\ reports[i].status \in {"processing", "exported"}
    BY <1>3 DEF BrInv, WorthInv
  <2>2. i \in spans
    BY <2>1
  <2>. QED  BY <1>3, <2>1, <2>2
<1>. QED  BY <1>2, <1>3

\* The state of the reports stays in its types (HyperDXErrorInstrumentation.ts:127-207,
\* index.ts:648-677).
THEOREM ReportTypes == BR!Spec => []BR!BrTypeOK
<1>1. BrInv => BR!BrTypeOK
  BY DEF BrInv
<1>. QED  BY <1>1, BrInitial, BrStep, PTL DEF BR!Spec

\* Of what is logged or thrown at most one span is exported, and one if it is worth it
\* (HyperDXErrorInstrumentation.ts:33-207).
THEOREM ErrorsExportedOnce == BR!Spec => []BR!ReportedOnce
<1>. QED  BY BrInitial, BrStep, OnceReported, PTL DEF BR!Spec

-----------------------------------------------------------------------------
(* What the report of a value says.                                        *)

\* The second of two lists, one after the other, is a suffix.
LEMMA Suffix ==
  ASSUME NEW s, NEW t, List(s), List(t)
  PROVE  BR!IsSuffix(t, s \o t)
<1>. DEFINE w == s \o t
            p == BR!Reverse(t)
            q == BR!Reverse(w)
<1>1. PICK S : s \in Seq(S)
  BY DEF List
<1>2. PICK T : t \in Seq(T)
  BY DEF List
<1>3. s \in Seq(S \cup T) /\ t \in Seq(S \cup T)
  BY <1>1, <1>2
<1>4. /\ w \in Seq(S \cup T) /\ Len(w) = Len(s) + Len(t)
      /\ \A i \in 1..(Len(s) + Len(t)) : w[i] = IF i <= Len(s) THEN s[i] ELSE t[i - Len(s)]
  BY <1>3, ConcatProperties
<1>5. Len(s) \in Nat /\ Len(t) \in Nat
  BY <1>1, <1>2
<1>. HIDE DEF w
<1>6. /\ p \in Seq(S \cup T) /\ Len(p) = Len(t)
      /\ \A i \in 1..Len(t) : p[i] = t[(Len(t) - i) + 1]
  BY <1>3 DEF BR!Reverse
<1>7. /\ q \in Seq(S \cup T) /\ Len(q) = Len(w)
      /\ \A i \in 1..Len(w) : q[i] = w[(Len(w) - i) + 1]
  BY <1>4 DEF BR!Reverse
<1>8. \A i \in 1..Len(t) : i \in 1..Len(w) /\ q[i] = p[i]
  <2>. SUFFICES ASSUME NEW i \in 1..Len(t) PROVE i \in 1..Len(w) /\ q[i] = p[i]
    OBVIOUS
  <2>1. /\ i \in 1..Len(w) /\ (Len(w) - i) + 1 \in 1..(Len(s) + Len(t))
        /\ ~((Len(w) - i) + 1 <= Len(s))
        /\ ((Len(w) - i) + 1) - Len(s) = (Len(t) - i) + 1
    BY <1>4, <1>5
  <2>. QED  BY <1>4, <1>6, <1>7, <2>1
<1>. HIDE DEF p, q
<1>9. /\ SubSeq(p, 1, Len(t)) \in Seq(S \cup T) /\ Len(SubSeq(p, 1, Len(t))) = Len(t)
      /\ \A i \in 1..Len(t) : SubSeq(p, 1, Len(t))[i] = p[i]
  BY <1>5, <1>6
<1>10. /\ SubSeq(q, 1, Len(t)) \in Seq(S \cup T) /\ Len(SubSeq(q, 1, Len(t))) = Len(t)
       /\ \A i \in 1..Len(t) : SubSeq(q, 1, Len(t))[i] = q[i]
  BY <1>4, <1>5, <1>7
<1>11. SubSeq(p, 1, Len(p)) = SubSeq(q, 1, Len(p))
  BY <1>6, <1>8, <1>9, <1>10, SeqEqual
<1>12. Len(p) <= Len(q)
  BY <1>4, <1>5, <1>6, <1>7
<1>. QED  BY <1>11, <1>12 DEF BR!IsSuffix, BR!IsPrefix, p, q, w

LEMMA SuffixOfItself ==
  ASSUME NEW t, List(t) PROVE BR!IsSuffix(t, t) /\ BR!IsSuffix(<<>>, t)
<1>1. List(<<>>)
  BY DEF List
<1>2. <<>> \o t = t /\ t \o <<>> = t
  BY ConcatEmptySeq DEF List
<1>3. BR!IsSuffix(t, <<>> \o t) /\ BR!IsSuffix(<<>>, t \o <<>>)
  BY <1>1, Suffix
<1>. QED  BY <1>2, <1>3

LEMMA LastOfMore ==
  ASSUME NEW s, List(s), NEW x
  PROVE  List(s \o <<x>>) /\ s \o <<x>> # <<>> /\ BR!Last(s \o <<x>>) = x
<1>1. PICK S : s \in Seq(S)
  BY DEF List
<1>2. s \in Seq(S \cup {x})
  BY <1>1
<1>3. /\ s \o <<x>> \in Seq(S \cup {x}) /\ Len(s \o <<x>>) = Len(s) + 1
      /\ Len(s) + 1 \in DOMAIN (s \o <<x>>) /\ Len(s) + 1 \notin DOMAIN s
      /\ \A i \in DOMAIN (s \o <<x>>) : (s \o <<x>>)[i] = IF i \in DOMAIN s THEN s[i] ELSE x
  BY <1>2, OneMore
<1>4. (s \o <<x>>)[Len(s \o <<x>>)] = x
  BY <1>3
<1>5. s \o <<x>> # <<>>
  BY <1>1, <1>3
<1>. QED  BY <1>3, <1>4, <1>5 DEF BR!Last, List

\* The integration keeps the name and the value of the exception, and names the event
\* after them.
LEMMA IntegrationFacts ==
  ASSUME NEW raw, NEW type, NEW value, NEW frames,
         List(type), List(value), List(raw.message),
         raw.exceptions = <<[type |-> type, value |-> value, frames |-> frames]>>,
         NEW event, event = BR!HyperdxIntegration(raw)
  PROVE  /\ event.exceptions =
              <<[type |-> type, value |-> value, frames |-> BR!FilteredFrames(frames)]>>
         /\ BR!IsSuffix(value, BR!GetSpanNameFromEvent(event))
<1>. DEFINE x == [type |-> type, value |-> value, frames |-> frames]
            texts == BR!GetPossibleEventMessages(raw)
            y == [type |-> type, value |-> value, frames |-> BR!FilteredFrames(frames)]
            m == IF raw.message = <<>> THEN <<>> ELSE <<raw.message>>
<1>1. event = [message |-> IF texts = <<>> THEN raw.message ELSE BR!Last(texts),
               exceptions |-> [i \in DOMAIN raw.exceptions |->
                 [raw.exceptions[i] EXCEPT !.frames = BR!FilteredFrames(@)]]]
  BY DEF BR!HyperdxIntegration
<1>2. event.exceptions = <<y>>
  <2>1. [x EXCEPT !.frames = BR!FilteredFrames(@)] = y
    OBVIOUS
  <2>2. DOMAIN raw.exceptions = {1} /\ raw.exceptions[1] = x
    OBVIOUS
  <2>3. event.exceptions = [i \in {1} |-> [x EXCEPT !.frames = BR!FilteredFrames(@)]]
    BY <1>1, <2>2
  <2>. HIDE DEF y
  <2>4. event.exceptions = [i \in {1} |-> y]
    BY <2>1, <2>3
  <2>. QED  BY <2>4
<1>3. BR!Last(raw.exceptions) = x /\ x.type = type /\ x.value = value
  BY DEF BR!Last
<1>4. texts = m \o (IF value = <<>> THEN <<>> ELSE <<value>>)
                   \o (IF value = <<>> \/ type \in {<<>>, BR!Undefined} THEN <<>>
                       ELSE <<type \o value>>)
  BY <1>3 DEF BR!GetPossibleEventMessages
<1>5. List(m) /\ List(<<>>)
  <2>1. <<raw.message>> \in Seq({raw.message}) /\ <<>> \in Seq({})
    OBVIOUS
  <2>. QED  BY <2>1 DEF List
<1>6. BR!GetSpanNameFromEvent(event) =
        IF event.message # <<>> THEN event.message ELSE type
  BY <1>2 DEF BR!GetSpanNameFromEvent
<1>7. event.message = IF texts = <<>> THEN raw.message ELSE BR!Last(texts)
  BY <1>1
<1>. HIDE DEF texts, m, y
<1>8. CASE value = <<>>
  <2>1. texts = (m \o <<>>) \o <<>> /\ m \o <<>> = m
    BY <1>4, <1>5, <1>8, ConcatEmptySeq DEF List
  <2>2. texts = m
    BY <2>1
  <2>3. event.message = raw.message
    BY <1>7, <2>2 DEF m, BR!Last
  <2>. QED  BY <1>2, <1>6, <1>8, <2>3, SuffixOfItself DEF y
<1>9. CASE value # <<>> /\ type \in {<<>>, BR!Undefined}
  <2>1. texts = (m \o <<value>>) \o <<>> /\ List(m \o <<value>>)
        /\ m \o <<value>> # <<>> /\ BR!Last(m \o <<value>>) = value
    BY <1>4, <1>5, <1>9, LastOfMore
  <2>2. texts = m \o <<value>>
    BY <2>1, ConcatEmptySeq DEF List
  <2>3. event.message = value
    BY <1>7, <2>1, <2>2
  <2>. QED  BY <1>2, <1>6, <1>9, <2>3, SuffixOfItself DEF y
<1>10. CASE value # <<>> /\ type \notin {<<>>, BR!Undefined}
  <2>1. texts = (m \o <<value>>) \o <<type \o value>> /\ List(m \o <<value>>)
    BY <1>4, <1>5, <1>10, LastOfMore
  <2>2. texts # <<>> /\ BR!Last(texts) = type \o value
    BY <2>1, LastOfMore
  <2>3. event.message = type \o value
    BY <1>7, <2>2
  <2>4. type \o value # <<>>
    BY <1>10, ListsJoin DEF List
  <2>5. BR!IsSuffix(value, type \o value)
    BY Suffix
  <2>. QED  BY <1>2, <1>6, <2>3, <2>4, <2>5 DEF y
<1>. QED  BY <1>8, <1>9, <1>10

\* The exception of an error has its name and its message.
LEMMA ErrorFacts ==
  ASSUME NEW v \in BR!Values, BR!ErrorIn(v) # <<>>, BR!ReadsAlone(v),
         NEW e, e = BR!ErrorIn(v)[1], NEW event,
         event = BR!HyperdxIntegration(BR!EventFromError(e))
  PROVE  BR!Says(event.exceptions, v)
         /\ BR!IsSuffix(event.exceptions[1].value, BR!GetSpanNameFromEvent(event))
<1>. DEFINE x == BR!ExceptionFromError(e)
            raw == BR!EventFromError(e)
            message == IF e.inner # <<>> THEN e.inner[1] ELSE e.message
<1>1. /\ List(e.name) /\ List(e.message) /\ (e.inner # <<>> => List(e.inner[1]))
  BY ValuesAssumption DEF IsText, List
<1>2. /\ raw.message = <<>> /\ raw.exceptions = <<x>>
  BY DEF BR!EventFromError, BR!AnEvent
<1>3. /\ x = [type |-> e.name, value |-> x.value, frames |-> BR!ParseStackFrames(e)]
      /\ x.value = IF e.name = BR!Undefined /\ BR!ExtractMessage(e) = <<>>
                   THEN <<"Unrecoverable error caught">> ELSE BR!ExtractMessage(e)
  BY DEF BR!ExceptionFromError
<1>4. BR!ExtractMessage(e) = IF e.inner = <<>> /\ e.message = <<>>
                             THEN <<"No error message">> ELSE message
  BY DEF BR!ExtractMessage
<1>5. List(message) /\ List(<<>>) /\ \A w : List(<<w>>)
  <2>1. \A w : <<w>> \in Seq({w})
    OBVIOUS
  <2>2. <<>> \in Seq({})
    OBVIOUS
  <2>3. List(message)
    BY <1>1
  <2>. QED  BY <2>1, <2>2, <2>3 DEF List
<1>. HIDE DEF x, raw, message
<1>6. List(x.value) /\ (message # <<>> => x.value = message)
  BY <1>3, <1>4, <1>5 DEF message
<1>7. /\ event.exceptions = <<[type |-> e.name, value |-> x.value,
                               frames |-> BR!FilteredFrames(BR!ParseStackFrames(e))]>>
      /\ BR!IsSuffix(x.value, BR!GetSpanNameFromEvent(event))
  <2>1. event = BR!HyperdxIntegration(raw)
    BY DEF raw
  <2>2. List(raw.message)
    BY <1>2, <1>5
  <2>. DEFINE type == e.name
              value == x.value
              frames == BR!ParseStackFrames(e)
  <2>3. raw.exceptions = <<[type |-> type, value |-> value, frames |-> frames]>>
    BY <1>2, <1>3
  <2>4. List(type) /\ List(value)
    BY <1>1, <1>6
  <2>. HIDE DEF type, value, frames
  <2>5. /\ event.exceptions = <<[type |-> type, value |-> value,
                                 frames |-> BR!FilteredFrames(frames)]>>
        /\ BR!IsSuffix(value, BR!GetSpanNameFromEvent(event))
    BY <2>1, <2>2, <2>3, <2>4, IntegrationFacts
  <2>. QED  BY <2>5 DEF type, value, frames
<1>8. BR!FilteredFrames(BR!ParseStackFrames(e)) = BR!CallsOfThePage(e)
  BY DEF BR!ReadsAlone
<1>9. BR!Says(event.exceptions, v)
  <2>. DEFINE y == [type |-> e.name, value |-> x.value, frames |-> BR!CallsOfThePage(e)]
  <2>1. event.exceptions = <<y>>
    BY <1>7, <1>8
  <2>2. y.type = e.name /\ y.value = x.value /\ y.frames = BR!CallsOfThePage(e)
    OBVIOUS
  <2>. HIDE DEF y
  <2>3. Len(<<y>>) = 1 /\ <<y>>[1] = y
    OBVIOUS
  <2>. QED  BY <1>6, <2>1, <2>2, <2>3 DEF BR!Says, message
<1>. QED  BY <1>7, <1>9

\* The exception of what is no error and holds none has its text.
LEMMA OtherFacts ==
  ASSUME NEW v \in BR!Values, BR!ErrorIn(v) = <<>>, NEW event,
         event = BR!BuildEventFromException(v)
  PROVE  BR!Says(event.exceptions, v)
         /\ BR!IsSuffix(event.exceptions[1].value, BR!GetSpanNameFromEvent(event))
<1>. DEFINE raw == BR!EventFromUnknownInput(v)
            E(type, value) == [type |-> type, value |-> value, frames |-> <<>>]
            Good(type, value) ==
              /\ raw.exceptions = <<E(type, value)>> /\ List(raw.message)
              /\ List(type) /\ List(value) /\ type # <<>>
              /\ BR!IsSuffix(v.message, value) /\ (v.is # "other" => value # <<>>)
<1>1. /\ v.is \in {"Error", "DOMException", "ErrorEvent", "Event", "object", "other"}
      /\ List(v.message) /\ (v.is = "DOMException" => List(v.name))
      /\ v.is \in {"object", "Event"} => v.message = <<>>
      /\ v.is = "ErrorEvent" => v.errors = <<>>
  BY ValuesAssumption DEF IsText, List
<1>2. List(<<>>) /\ \A w : List(<<w>>) /\ <<w>> # <<>>
  <2>1. \A w : <<w>> \in Seq({w}) /\ <<w>> # <<>>
    OBVIOUS
  <2>2. <<>> \in Seq({})
    OBVIOUS
  <2>. QED  BY <2>1, <2>2 DEF List
<1>3. \A a, b : List(a) /\ List(b) /\ a # <<>> => List(a \o b) /\ a \o b # <<>>
  BY ListsJoin DEF List
<1>4. ASSUME v.is \in {"object", "Event", "ErrorEvent"} PROVE \E t, w : Good(t, w)
  <2>. DEFINE type == IF v.is = "object" THEN <<"Error">> ELSE <<v.is>>
              value == BR!GetNonErrorObjectExceptionValue(v)
  <2>1. v.errors = <<>>
    BY <1>1, <1>4 DEF BR!ErrorIn
  <2>2. v.is = "ErrorEvent" => v.error = <<>>
    BY DEF BR!ErrorIn
  <2>3. raw = BR!EventFromPlainObject(v)
    BY <1>4, <2>2 DEF BR!EventFromUnknownInput
  <2>4. raw = BR!AnEvent(<<>>, <<E(type, value)>>)
    BY <2>1, <2>3 DEF BR!EventFromPlainObject
  <2>5. raw.exceptions = <<E(type, value)>> /\ raw.message = <<>>
    BY <2>4 DEF BR!AnEvent
  <2>6. List(type) /\ type # <<>>
    BY <1>2
  <2>7. List(value) /\ value # <<>> /\ BR!IsSuffix(v.message, value)
    <3>1. CASE v.is = "ErrorEvent"
      <4>. DEFINE a == <<"Event ErrorEvent captured with message">>
      <4>1. value = a \o v.message /\ List(a) /\ a # <<>>
        BY <1>2, <3>1 DEF BR!GetNonErrorObjectExceptionValue
      <4>. HIDE DEF a, value
      <4>. QED  BY <1>1, <1>3, <4>1, Suffix
    <3>2. CASE v.is # "ErrorEvent"
      <4>1. value \in {<<"Event captured">>, <<"Object captured with keys">>}
        BY <3>2 DEF BR!GetNonErrorObjectExceptionValue
      <4>. HIDE DEF value
      <4>2. List(value) /\ value # <<>> /\ v.message = <<>>
        BY <1>1, <1>2, <1>4, <3>2, <4>1
      <4>. QED  BY <4>2, SuffixOfItself
    <3>. QED  BY <3>1, <3>2
  <2>. HIDE DEF raw, type, value
  <2>8. Good(type, value)
    BY <1>2, <2>5, <2>6, <2>7
  <2>. QED  BY <2>8
<1>5. ASSUME v.is = "DOMException" PROVE \E t, w : Good(t, w)
  <2>. DEFINE value == BR!DomMessage(v)
              type == <<"Error">>
  <2>1. v.stack = <<>>
    <3>1. v.stack # <<>> => BR!ErrorIn(v) = <<v>>
      BY <1>5 DEF BR!ErrorIn
    <3>. QED  BY <3>1
  <2>2. raw = BR!AddExceptionTypeValue(BR!EventFromString(value, FALSE), value)
    BY <1>5, <2>1 DEF BR!EventFromUnknownInput
  <2>3. raw.exceptions = <<E(type, value)>> /\ raw.message = value
    BY <2>2 DEF BR!AddExceptionTypeValue, BR!EventFromString, BR!AnEvent
  <2>4. List(value) /\ value # <<>> /\ BR!IsSuffix(v.message, value)
    <3>. DEFINE a == IF v.name = <<>> THEN <<"DOMException">> ELSE v.name
    <3>1. value = a \o v.message
      BY DEF BR!DomMessage
    <3>2. List(a) /\ a # <<>>
      BY <1>1, <1>2, <1>5
    <3>. HIDE DEF a, value
    <3>. QED  BY <1>1, <1>3, <3>1, <3>2, Suffix
  <2>. HIDE DEF raw, value
  <2>5. List(type) /\ type # <<>>
    BY <1>2
  <2>. HIDE DEF type
  <2>6. Good(type, value)
    BY <2>3, <2>4, <2>5
  <2>. QED  BY <2>6
<1>6. ASSUME v.is = "other" PROVE \E t, w : Good(t, w)
  <2>. DEFINE type == <<"Error">>
  <2>1. raw = BR!AddExceptionTypeValue(BR!EventFromString(v.message, v.parameterized), v.message)
    BY <1>6 DEF BR!EventFromUnknownInput
  <2>2. /\ raw.exceptions = <<E(type, v.message)>>
        /\ raw.message = <<>> \/ raw.message = v.message
    BY <2>1 DEF BR!AddExceptionTypeValue, BR!EventFromString, BR!AnEvent
  <2>. HIDE DEF raw
  <2>3. List(type) /\ type # <<>> /\ List(raw.message)
    BY <1>1, <1>2, <2>2
  <2>4. BR!IsSuffix(v.message, v.message)
    BY <1>1, SuffixOfItself
  <2>. HIDE DEF type
  <2>5. Good(type, v.message)
    BY <1>1, <1>6, <2>2, <2>3, <2>4
  <2>. QED  BY <2>5
<1>7. \E t, w : Good(t, w)
  <2>1. v.is # "Error"
    BY DEF BR!ErrorIn
  <2>. QED  BY <1>1, <1>4, <1>5, <1>6, <2>1
<1>8. PICK type, value : Good(type, value)
  BY <1>7
<1>. DEFINE y == [type |-> type, value |-> value, frames |-> BR!FilteredFrames(<<>>)]
<1>9. event.exceptions = <<y>> /\ BR!IsSuffix(value, BR!GetSpanNameFromEvent(event))
  <2>1. event = BR!HyperdxIntegration(raw)
    BY DEF BR!BuildEventFromException
  <2>. HIDE DEF raw
  <2>. QED  BY <1>8, <2>1, IntegrationFacts
<1>10. y.type = type /\ y.value = value
  OBVIOUS
<1>. HIDE DEF y, raw
<1>11. Len(<<y>>) = 1 /\ <<y>>[1] = y
  OBVIOUS
<1>. QED  BY <1>8, <1>9, <1>10, <1>11 DEF BR!Says

LEMMA ValueFacts ==
  ASSUME NEW v \in BR!Values, BR!ReadsAlone(v), NEW event,
         event = BR!BuildEventFromException(v)
  PROVE  BR!Says(event.exceptions, v)
         /\ BR!IsSuffix(event.exceptions[1].value, BR!GetSpanNameFromEvent(event))
<1>1. CASE BR!ErrorIn(v) = <<>>
  BY <1>1, OtherFacts
<1>2. CASE BR!ErrorIn(v) # <<>>
  <2>1. BR!EventFromUnknownInput(v) = BR!EventFromError(BR!ErrorIn(v)[1])
    <3>1. CASE v.is = "Error"
      <4>1. BR!ErrorIn(v)[1] = v
        BY <3>1 DEF BR!ErrorIn
      <4>. QED  BY <3>1, <4>1 DEF BR!EventFromUnknownInput
    <3>2. CASE v.is = "DOMException"
      <4>1. v.stack # <<>> /\ BR!ErrorIn(v) = <<v>>
        BY <1>2, <3>2 DEF BR!ErrorIn
      <4>. QED  BY <3>2, <4>1 DEF BR!EventFromUnknownInput
    <3>3. CASE v.is = "ErrorEvent"
      <4>1. v.error # <<>> /\ BR!ErrorIn(v) = v.error
        BY <1>2, <3>3 DEF BR!ErrorIn
      <4>. QED  BY <3>3, <4>1 DEF BR!EventFromUnknownInput
    <3>4. CASE v.is \in {"object", "Event"}
      <4>1. v.errors # <<>> /\ BR!ErrorIn(v) = v.errors
        BY <1>2, <3>4 DEF BR!ErrorIn
      <4>. QED  BY <3>4, <4>1 DEF BR!EventFromUnknownInput, BR!EventFromPlainObject
    <3>5. CASE v.is \notin {"Error", "DOMException", "ErrorEvent", "object", "Event"}
      BY <1>2, <3>5 DEF BR!ErrorIn
    <3>. QED  BY <3>1, <3>2, <3>3, <3>4, <3>5
  <2>2. event = BR!HyperdxIntegration(BR!EventFromError(BR!ErrorIn(v)[1]))
    BY <2>1 DEF BR!BuildEventFromException
  <2>. QED  BY <1>2, <2>2, ErrorFacts
<1>. QED  BY <1>1, <1>2

LEMMA ReportedTruly ==
  ASSUME \A v \in BR!Values : BR!ReadsAlone(v)
  PROVE  BrInv => BR!ReportedAsWhatItIs
<1>. SUFFICES ASSUME BrInv, NEW i \in DOMAIN reports
              PROVE  LET r == reports[i] IN
                /\ r.path # <<>> => BR!NodeAt(r.path) = r.about.target
                /\ r.status = "exported" =>
                     IF r.about = BR!NoError THEN r.said = <<>>
                     ELSE IF r.about.filtered THEN r.said = <<>> /\ ~r.own
                     ELSE /\ BR!Says(r.said, r.about)
                          /\ r.own => BR!IsSuffix(r.said[1].value, r.name)
  BY DEF BR!ReportedAsWhatItIs
<1>. DEFINE r == reports[i]
            event == BR!BuildEventFromException(r.about)
<1>1. FromEvent(r) /\ (r.about = BR!NoError \/ r.about \in BR!Values)
  BY DEF BrInv, BR!BrTypeOK, BR!IsReport, OnceInv
<1>2. BR!NoError.is = "none"
  BY DEF BR!NoError
<1>. HIDE DEF r
<1>3. r.path # <<>> => BR!NodeAt(r.path) = r.about.target
  <2>. SUFFICES ASSUME r.path # <<>> PROVE BR!NodeAt(r.path) = r.about.target
    OBVIOUS
  <2>1. /\ r.about.is = "Event" /\ r.about.target # NoNode
        /\ r.path = BR!GetElementXPath(r.about.target, TRUE)
    BY <1>1 DEF FromEvent
  <2>2. r.about \in BR!Values
    BY <1>1, <1>2, <2>1
  <2>. QED  BY <2>1, <2>2 DEF BR!ReadsAlone
<1>4. r.about # BR!NoError =>
        /\ BR!Says(event.exceptions, r.about)
        /\ BR!IsSuffix(event.exceptions[1].value, BR!GetSpanNameFromEvent(event))
  BY <1>1, ValueFacts
<1>5. r.status = "exported" =>
        IF r.about = BR!NoError THEN r.said = <<>>
        ELSE IF r.about.filtered THEN r.said = <<>> /\ ~r.own
        ELSE /\ r.said = event.exceptions
             /\ r.own => r.name = BR!GetSpanNameFromEvent(event)
  BY <1>1 DEF FromEvent
<1>. HIDE DEF event
<1>. QED  BY <1>3, <1>4, <1>5 DEF r

\* If the stack of each error is read as the calls of the page in it, and the path of
\* each node leads to it, whatever happens on the page is reported once and as what it
\* is, with its name and its message (HyperDXErrorInstrumentation.ts:33-207,
\* eventbuilder.ts:230-364).
THEOREM ReportedOnceAsWhatTheyAre ==
  ASSUME \A v \in BR!Values : BR!ReadsAlone(v)
  PROVE  BR!Spec => []ErrorsReportedOnce
<1>1. BrInv => ErrorsReportedOnce
  BY OnceReported, ReportedTruly DEF ErrorsReportedOnce, BR!ErrorsReportedOnce
<1>. QED  BY <1>1, BrInitial, BrStep, PTL DEF BR!Spec

-----------------------------------------------------------------------------
(* The composition.                                                        *)

LEMMA PartsStart ==
  PartsInit => Init /\ RL!Init /\ WS!Init /\ IO!Init /\ PR!Init /\ BR!Init
<1>. SUFFICES ASSUME PartsInit
              PROVE  Init /\ RL!Init /\ WS!Init /\ IO!Init /\ PR!Init /\ BR!Init
  OBVIOUS
<1>1. RL!Init
  <2>1. (CHOOSE id \in Sessions : TRUE) \in Sessions
    BY RumAssumption
  <2>. QED  BY <2>1 DEF PartsInit, RL!Init
<1>2. IO!Init
  BY DEF PartsInit, IO!Init
<1>. QED  BY <1>1, <1>2 DEF PartsInit

\* A step of the composition is a step of one part, and the others stutter.
LEMMA PartsMove ==
  [PartsNext]_partsVars =>
    /\ [Next]_vars /\ [RL!Next]_RL!rlVars /\ [WS!Next]_WS!wsVars
    /\ [IO!Next]_IO!ioVars /\ [PR!Next]_PR!prVars /\ [BR!Next]_BR!brVars
<1>. SUFFICES ASSUME [PartsNext]_partsVars
              PROVE  /\ [Next]_vars /\ [RL!Next]_RL!rlVars /\ [WS!Next]_WS!wsVars
                     /\ [IO!Next]_IO!ioVars /\ [PR!Next]_PR!prVars /\ [BR!Next]_BR!brVars
  OBVIOUS
<1>1. /\ RL!rlVars = rumVars /\ RL!rlVars' = rumVars'
      /\ WS!wsVars = socketVars /\ WS!wsVars' = socketVars'
      /\ IO!ioVars = ioVars /\ IO!ioVars' = ioVars'
      /\ PR!prVars = pageVars /\ PR!prVars' = pageVars'
      /\ BR!brVars = reportVars /\ BR!brVars' = reportVars'
  BY DEF RL!rlVars, rumVars, WS!wsVars, socketVars, IO!ioVars, ioVars, PR!prVars, pageVars,
         BR!brVars, reportVars
<1>2. CASE PartsNext
  BY <1>1, <1>2 DEF PartsNext
<1>3. CASE UNCHANGED partsVars
  BY <1>1, <1>3 DEF partsVars
<1>. QED  BY <1>2, <1>3

\* The composition implements the parts with variables of their own.
THEOREM PartsImplementEach ==
  PartsSpec => Spec /\ RL!Spec /\ WS!Spec /\ IO!Spec /\ PR!Spec /\ BR!Spec
BY PartsStart, PartsMove, PTL
   DEF PartsSpec, Spec, RL!Spec, WS!Spec, IO!Spec, PR!Spec, BR!Spec

\* Which part runs does not change.
LEMMA OnePart ==
  PartsSpec => [](part \in {"contexts", "rum", "sockets", "socket.io", "resources",
                            "reports", "report"})
<1>. DEFINE P == part \in {"contexts", "rum", "sockets", "socket.io", "resources",
                           "reports", "report"}
<1>1. PartsInit => P
  BY DEF PartsInit
<1>2. P /\ [PartsNext]_partsVars => P'
  BY DEF PartsNext, partsVars
<1>. QED  BY <1>1, <1>2, PTL DEF PartsSpec

\* The state of each part stays in its types (browser/src, otel-web/src and
\* instrumentation-exception/src/browser).
THEOREM PartsTypes == PartsSpec => []TypesOK
<1>1. /\ part \in {"contexts", "rum", "sockets", "socket.io", "resources", "reports",
                   "report"}
      /\ TypeOK /\ RL!RlTypeOK /\ WS!WsTypeOK /\ IO!IoTypeOK /\ PR!PrTypeOK /\ BR!BrTypeOK
      => TypesOK
  <2>. SUFFICES ASSUME part \in {"contexts", "rum", "sockets", "socket.io", "resources",
                                 "reports", "report"},
                       TypeOK, RL!RlTypeOK, WS!WsTypeOK, IO!IoTypeOK, PR!PrTypeOK,
                       BR!BrTypeOK
                PROVE  TypesOK
    OBVIOUS
  <2>. QED  BY DEF TypesOK
<1>. QED
  BY <1>1, OnePart, PartsImplementEach, TypeCorrect, RumTypes, SocketTypes, EmitterTypes,
     ResourceTypes, ReportTypes, PTL

\* What holds of the parts holds of their composition.
THEOREM PartsAreSafe ==
  PartsSpec => [](/\ InnermostWith /\ RequestAsPlain /\ NoStaleContext
                  /\ SpansOfTheSession /\ AttributesHeard
                  /\ ListenersAsPlain /\ RegisteredAsMeant /\ ResourcesInContext
                  /\ BR!ReportedOnce)
BY PartsImplementEach, InnermostIsActive, RequestIsPlain, ContextsAreFresh,
   SpansKeepTheDecision, ListenersHear, InstrumentedAsPlain, ListenersAsMeant,
   LoadsInContext, ErrorsExportedOnce, PTL

=============================================================================
