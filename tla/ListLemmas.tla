------------------------------ MODULE ListLemmas ------------------------------
(***************************************************************************)
(* Counting up to a number, folds over the positions of a sequence, and    *)
(* the sequences that the components build with them.                      *)
(***************************************************************************)
EXTENDS OrderedLists, FiniteSetTheorems, FunctionTheorems,
        SequenceTheorems, NaturalsInduction, WellFoundedInduction, TLAPS

-----------------------------------------------------------------------------
(* The loops of the code are folds over a sequence.  A fold is a function   *)
(* on the sets of positions; what it makes of the first n positions is what *)
(* one step makes of the first n - 1.                                       *)

\* What holds at 0, and one further whenever it holds, holds up to n.
LEMMA CountUp ==
    ASSUME NEW N \in Nat, NEW S, 0 \in S, \A n \in 1..N : n - 1 \in S => n \in S
    PROVE  0..N \subseteq S
<1> SUFFICES ASSUME ~(0..N \subseteq S)
             PROVE  FALSE
  OBVIOUS
<1> DEFINE Missing == {n \in 0..N : n \notin S}
<1>1. Missing \in SUBSET Nat /\ Missing # {}
  OBVIOUS
<1>2. IsWellFoundedOn(OpToRel(<, Nat), Nat)
  BY NatLessThanWellFounded
<1>3. PICK x \in Missing : \A y \in Missing : ~(<<y, x>> \in OpToRel(<, Nat))
  BY <1>1, <1>2, WFMin
<1>4. \A y \in Missing : ~(y < x)
  BY <1>1, <1>3 DEF OpToRel
<1>5. x \in 1..N /\ x - 1 \in S
  BY <1>4
<1> QED
  BY <1>3, <1>5

\* The first n positions, without the last of them.
LEMMA LastOfInterval ==
    ASSUME NEW n \in Nat \ {0}
    PROVE  Max(1..n) = n /\ (1..n) \ {n} = 1..(n - 1) /\ 1..n # {} /\ n \in 1..n
<1>1. n \in 1..n /\ \A y \in 1..n : n >= y
  OBVIOUS
<1>2. \A x \in 1..n : (\A y \in 1..n : x >= y) => x = n
  BY <1>1
<1>3. Max(1..n) = n
  BY <1>1, <1>2 DEF Max
<1> QED
  BY <1>1, <1>3

\* The greatest of some of the positions up to n is one of them.
LEMMA MaxWithin ==
    ASSUME NEW N \in Nat, NEW s \in SUBSET (1..N), s # {}
    PROVE  Max(s) \in s /\ \A y \in s : y <= Max(s)
<1> DEFINE Fits == {n \in 0..N : s \cap 1..n = {} \/ \E x \in s : \A y \in s : y <= n => x >= y /\ x <= n}
<1>1. 0 \in Fits
  OBVIOUS
<1>2. ASSUME NEW n \in 1..N, n - 1 \in Fits
      PROVE  n \in Fits
  <2>1. CASE n \in s
    BY <2>1
  <2>2. CASE n \notin s /\ s \cap 1..(n - 1) = {}
    BY <2>2
  <2>3. CASE n \notin s /\ s \cap 1..(n - 1) # {}
    <3>1. PICK x \in s : \A y \in s : y <= n - 1 => x >= y /\ x <= n - 1
      BY <1>2, <2>3
    <3>2. \A y \in s : y <= n => x >= y /\ x <= n
      BY <3>1, <2>3
    <3> QED
      BY <3>2
  <2> QED
    BY <2>1, <2>2, <2>3
<1> HIDE DEF Fits
<1>3. N \in Fits
  BY <1>1, <1>2, CountUp
<1> USE DEF Fits
<1>4. PICK x \in s : \A y \in s : y <= N => x >= y /\ x <= N
  BY <1>3
<1>5. \E z \in s : \A y \in s : z >= y
  BY <1>4
<1>6. Max(s) \in s /\ \A y \in s : Max(s) >= y
  BY <1>5 DEF Max
<1> QED
  BY <1>6

\* it folds step, from base, over the positions 1..N.
Folding(it, N, base, step) ==
    \A s \in SUBSET (1..N) :
        it[s] = IF s = {} THEN base ELSE step[<<it[s \ {Max(s)}], Max(s)>>]

\* A step that maps a set of values to itself can be folded.
LEMMA FoldExists ==
    ASSUME NEW N \in Nat, NEW T, NEW base \in T, NEW step \in [T \X (1..N) -> T]
    PROVE  \E it \in [SUBSET (1..N) -> T] : Folding(it, N, base, step)
<1> DEFINE Folds(n, it) == \A s \in SUBSET (1..n) :
               it[s] = IF s = {} THEN base ELSE step[<<it[s \ {Max(s)}], Max(s)>>]
           Done == {n \in 0..N : \E it \in [SUBSET (1..n) -> T] : Folds(n, it)}
<1>1. 0 \in Done
  <2> DEFINE none == [s \in SUBSET (1..0) |-> base]
  <2>1. \A s \in SUBSET (1..0) : s = {}
    OBVIOUS
  <2>2. none \in [SUBSET (1..0) -> T]
    OBVIOUS
  <2>3. Folds(0, none)
    BY <2>1
  <2>4. 0 \in 0..N
    OBVIOUS
  <2> HIDE DEF none, Folds
  <2> QED
    BY <2>2, <2>3, <2>4
<1>2. ASSUME NEW n \in 1..N, n - 1 \in Done
      PROVE  n \in Done
  <2>1. PICK it \in [SUBSET (1..(n - 1)) -> T] : Folds(n - 1, it)
    BY <1>2
  <2> DEFINE more == [s \in SUBSET (1..n) |->
                        IF n \in s THEN step[<<it[s \ {n}], n>>] ELSE it[s]]
  <2>2. \A s \in SUBSET (1..n) : s \ {n} \in SUBSET (1..(n - 1))
    BY LastOfInterval
  <2>3. more \in [SUBSET (1..n) -> T]
    BY <2>2
  <2>4. ASSUME NEW s \in SUBSET (1..n)
        PROVE  more[s] = IF s = {} THEN base ELSE step[<<more[s \ {Max(s)}], Max(s)>>]
    <3>1. CASE n \in s
      <4>1. n \in Nat /\ s # {}
        BY <3>1
      <4>2. Max(s) \in s /\ \A y \in s : y <= Max(s)
        BY <4>1, MaxWithin
      <4>3. Max(s) \in 1..n /\ n <= Max(s)
        BY <3>1, <4>2
      <4>4. Max(s) = n
        BY <4>3
      <4>5. s \ {n} \in SUBSET (1..n) /\ n \notin s \ {n}
        OBVIOUS
      <4> QED
        BY <3>1, <4>4, <4>5
    <3>2. CASE n \notin s
      <4>1. s \in SUBSET (1..(n - 1)) /\ s \ {Max(s)} \in SUBSET (1..(n - 1))
        BY <2>2, <3>2
      <4>2. it[s] = IF s = {} THEN base ELSE step[<<it[s \ {Max(s)}], Max(s)>>]
        BY <2>1, <4>1
      <4>3. more[s] = it[s] /\ more[s \ {Max(s)}] = it[s \ {Max(s)}]
        BY <3>2
      <4> QED
        BY <4>2, <4>3
    <3> QED
      BY <3>1, <3>2
  <2> HIDE DEF more
  <2>5. Folds(n, more)
    BY <2>4
  <2>6. n \in 0..N
    OBVIOUS
  <2> HIDE DEF Folds
  <2> QED
    BY <2>3, <2>5, <2>6
<1> HIDE DEF Done
<1>3. N \in Done
  BY <1>1, <1>2, CountUp
<1> QED
  BY <1>3 DEF Done, Folding

-----------------------------------------------------------------------------
(* The lists of OrderedLists, and the concatenation of lists. *)

\* The first n positions are n.
LEMMA PositionsCounted ==
    ASSUME NEW n \in Nat
    PROVE  IsFiniteSet(1..n) /\ Cardinality(1..n) = n
<1>1. IsFiniteSet(1..n) /\ Cardinality(1..n) = IF 1 > n THEN 0 ELSE n - 1 + 1
  BY FS_Interval
<1> QED
  BY <1>1

\* The empty list has no element.
LEMMA NoElements == ToSet(<<>>) = {} /\ IsInjective(<<>>)
BY DEF ToSet, IsInjective

\* A list without its first element.
LEMMA TailOf ==
    ASSUME NEW T, NEW s \in Seq(T), s # <<>>
    PROVE  /\ Head(s) \in T /\ Tail(s) \in Seq(T) /\ Head(s) \in ToSet(s)
           /\ ToSet(Tail(s)) \subseteq ToSet(s)
           /\ ToSet(s) = ToSet(Tail(s)) \cup {Head(s)}
           /\ IsInjective(s) => /\ IsInjective(Tail(s))
                               /\ ToSet(Tail(s)) = ToSet(s) \ {Head(s)}
<1>1. PICK r : r = Tail(s)
  OBVIOUS
<1>2. /\ r \in Seq(T) /\ Len(s) \in Nat /\ Len(s) >= 1 /\ Len(r) = Len(s) - 1 /\ Head(s) = s[1]
      /\ \A n \in 1..Len(r) : r[n] = s[n + 1]
  BY <1>1, HeadTailProperties
<1>3. DOMAIN s = 1..Len(s) /\ DOMAIN r = 1..Len(r) /\ 1 \in DOMAIN s
  BY <1>2
<1>4. \A n \in DOMAIN r : n + 1 \in DOMAIN s /\ r[n] = s[n + 1]
  BY <1>2, <1>3
<1>5. \A n \in DOMAIN s : n = 1 \/ (n - 1 \in DOMAIN r /\ r[n - 1] = s[n])
  BY <1>2, <1>3
<1>6. ToSet(r) \subseteq ToSet(s) /\ s[1] \in ToSet(s) /\ s[1] \in T
  BY <1>3, <1>4 DEF ToSet
<1>7. \A x \in ToSet(s) : x = s[1] \/ x \in ToSet(r)
  BY <1>5 DEF ToSet
<1>8. ASSUME IsInjective(s)
      PROVE  IsInjective(r) /\ s[1] \notin ToSet(r)
  <2>1. ASSUME NEW m \in DOMAIN r, NEW n \in DOMAIN r, r[m] = r[n]
        PROVE  m = n
    <3>1. m + 1 = n + 1
      BY <1>4, <1>8, <2>1 DEF IsInjective
    <3> QED
      BY <1>3, <3>1
  <2>2. ASSUME NEW n \in DOMAIN r, r[n] = s[1]
        PROVE  FALSE
    <3>1. n + 1 = 1
      BY <1>3, <1>4, <1>8, <2>2 DEF IsInjective
    <3> QED
      BY <1>3, <3>1
  <2> QED
    BY <2>1, <2>2 DEF IsInjective, ToSet
<1> QED
  BY <1>1, <1>2, <1>6, <1>7, <1>8

\* An injective sequence is as long as it has elements.
LEMMA ElementsCounted ==
    ASSUME NEW T, NEW s \in Seq(T), IsInjective(s)
    PROVE  IsFiniteSet(ToSet(s)) /\ Cardinality(ToSet(s)) = Len(s)
<1>1. s \in [1..Len(s) -> ToSet(s)] /\ Len(s) \in Nat
  BY DEF ToSet
<1>2. s \in Bijection(1..Len(s), ToSet(s))
  BY <1>1 DEF Bijection, Injection, Surjection, IsInjective, ToSet
<1>3. IsFiniteSet(1..Len(s)) /\ Cardinality(1..Len(s)) = Len(s)
  BY <1>1, PositionsCounted
<1> QED
  BY <1>2, <1>3, FS_Bijection DEF ExistsBijection

\* The sets of numbers that can be listed in their order have a greatest member.
LEMMA GreatestMember ==
    ASSUME NEW S \in SUBSET Int, IsFiniteSet(S), S # {}
    PROVE  \E x \in S : \A y \in S : y <= x
<1> DEFINE N == Cardinality(S)
           Bounded == {n \in 0..N : \A U \in SUBSET S :
                         Cardinality(U) = n /\ U # {} => \E x \in U : \A y \in U : y <= x}
<1>1. N \in Nat
  BY FS_CardinalityType
<1>2. \A U \in SUBSET S : IsFiniteSet(U) /\ Cardinality(U) \in Nat
  BY FS_Subset, FS_CardinalityType
<1>3. 0 \in Bounded
  BY <1>1, <1>2, FS_EmptySet
<1>4. ASSUME NEW n \in 1..N, n - 1 \in Bounded
      PROVE  n \in Bounded
  <2> SUFFICES ASSUME NEW U \in SUBSET S, Cardinality(U) = n
               PROVE  \E x \in U : \A y \in U : y <= x
    BY <1>4
  <2>0. U # {}
    BY <1>2, FS_EmptySet
  <2>1. PICK x \in U : TRUE
    BY <2>0
  <2>2. Cardinality(U \ {x}) = n - 1
    BY <1>2, <2>1, FS_RemoveElement
  <2>3. CASE U \ {x} = {}
    BY <2>3
  <2>4. CASE U \ {x} # {}
    <3>1. PICK z \in U \ {x} : \A y \in U \ {x} : y <= z
      BY <1>4, <2>2, <2>4
    <3>2. CASE x <= z
      BY <3>1, <3>2
    <3>3. CASE ~(x <= z)
      BY <3>1, <3>3
    <3> QED
      BY <3>2, <3>3
  <2> QED
    BY <2>3, <2>4
<1> HIDE DEF Bounded
<1>5. N \in Bounded
  BY <1>1, <1>3, <1>4, CountUp
<1> QED
  BY <1>5 DEF Bounded

Increasing(s) == \A m, n \in DOMAIN s : m < n => s[m] < s[n]

\* A finite set of numbers can be listed in their order.
LEMMA AscendingExists ==
    ASSUME NEW S \in SUBSET Int, IsFiniteSet(S)
    PROVE  \E s \in [1..Cardinality(S) -> S] : Increasing(s)
<1> DEFINE N == Cardinality(S)
           Listed == {n \in 0..N : \A U \in SUBSET S :
                        Cardinality(U) = n => \E s \in [1..n -> U] : Increasing(s)}
<1>1. N \in Nat
  BY FS_CardinalityType
<1>2. \A U \in SUBSET S : IsFiniteSet(U) /\ Cardinality(U) \in Nat
  BY FS_Subset, FS_CardinalityType
<1>3. 0 \in Listed
  <2> SUFFICES ASSUME NEW U \in SUBSET S
               PROVE  \E s \in [1..0 -> U] : Increasing(s)
    BY <1>1
  <2> DEFINE none == [j \in 1..0 |-> 0]
  <2>1. none \in [1..0 -> U] /\ Increasing(none)
    BY DEF Increasing
  <2> QED
    BY <2>1
<1>4. ASSUME NEW n \in 1..N, n - 1 \in Listed
      PROVE  n \in Listed
  <2> SUFFICES ASSUME NEW U \in SUBSET S, Cardinality(U) = n
               PROVE  \E s \in [1..n -> U] : Increasing(s)
    BY <1>4
  <2>1. U # {}
    BY <1>2, FS_EmptySet
  <2>2. PICK x \in U : \A y \in U : y <= x
    BY <1>2, <2>1, GreatestMember
  <2>3. Cardinality(U \ {x}) = n - 1
    BY <1>2, FS_RemoveElement
  <2>4. PICK s \in [1..(n - 1) -> U \ {x}] : Increasing(s)
    BY <1>4, <2>3
  <2> DEFINE more == [j \in 1..n |-> IF j = n THEN x ELSE s[j]]
  <2>5. \A j \in 1..n : j # n => s[j] \in U \ {x} /\ j \in 1..(n - 1)
    OBVIOUS
  <2>6. more \in [1..n -> U]
    BY <2>5
  <2>7. ASSUME NEW m \in 1..n, NEW j \in 1..n, m < j
        PROVE  more[m] < more[j]
    <3>1. m # n /\ more[m] = s[m] /\ s[m] \in U \ {x}
      BY <2>5, <2>7
    <3>2. CASE j = n
      <4>1. s[m] <= x /\ s[m] # x /\ s[m] \in Int /\ x \in Int
        BY <2>2, <3>1
      <4> QED
        BY <3>1, <3>2, <4>1
    <3>3. CASE j # n
      BY <2>4, <2>5, <2>7, <3>1, <3>3 DEF Increasing
    <3> QED
      BY <3>2, <3>3
  <2> HIDE DEF more
  <2>8. Increasing(more)
    BY <2>6, <2>7 DEF Increasing
  <2> QED
    BY <2>6, <2>8
<1> HIDE DEF Listed
<1>5. N \in Listed
  BY <1>1, <1>3, <1>4, CountUp
<1> QED
  BY <1>5 DEF Listed

\* An increasing list of all members of a set: each once, after those below it.
LEMMA IncreasingIs ==
    ASSUME NEW S \in SUBSET Int, IsFiniteSet(S),
           NEW s \in [1..Cardinality(S) -> S], Increasing(s)
    PROVE  /\ s \in Seq(S) /\ ToSet(s) = S /\ IsInjective(s)
           /\ \A n \in 1..Cardinality(S) : Cardinality({y \in S : y < s[n]}) = n - 1
<1>1. Cardinality(S) \in Nat
  BY FS_CardinalityType
<1>2. IsInjective(s)
  <2> SUFFICES ASSUME NEW m \in DOMAIN s, NEW n \in DOMAIN s, s[m] = s[n], m # n
               PROVE  FALSE
    BY DEF IsInjective
  <2>1. m < n \/ n < m
    BY <1>1
  <2>2. s[m] \in Int /\ s[n] \in Int
    OBVIOUS
  <2> QED
    BY <2>1, <2>2 DEF Increasing
<1>3. IsFiniteSet(1..Cardinality(S)) /\ Cardinality(1..Cardinality(S)) = Cardinality(S)
  BY <1>1, PositionsCounted
<1>4. s \in Injection(1..Cardinality(S), S)
  BY <1>2 DEF Injection, IsInjective
<1>5. s \in Surjection(1..Cardinality(S), S)
  BY <1>3, <1>4, FS_Injection
<1>6. s \in Seq(S) /\ ToSet(s) = S
  <2>1. s \in Seq(S)
    BY <1>1
  <2>2. DOMAIN s = 1..Cardinality(S) /\ \A x \in S : \E n \in 1..Cardinality(S) : s[n] = x
    BY <1>5 DEF Surjection
  <2> QED
    BY <2>1, <2>2 DEF ToSet
<1>7. ASSUME NEW n \in 1..Cardinality(S)
      PROVE  Cardinality({y \in S : y < s[n]}) = n - 1
  <2> DEFINE below == [m \in 1..(n - 1) |-> s[m]]
             U == {y \in S : y < s[n]}
  <2>1. \A m \in 1..(n - 1) : m \in DOMAIN s /\ s[m] \in U
    BY <1>1 DEF Increasing
  <2>2. ASSUME NEW y \in U
        PROVE  \E m \in 1..(n - 1) : s[m] = y
    <3>1. PICK m \in 1..Cardinality(S) : s[m] = y
      BY <1>5 DEF Surjection
    <3>2. CASE n < m
      <4>1. s[n] < s[m] /\ s[n] \in Int /\ s[m] \in Int /\ s[m] < s[n]
        BY <3>1, <3>2 DEF Increasing
      <4> QED
        BY <4>1
    <3>3. m # n
      BY <3>1
    <3> QED
      BY <1>1, <3>1, <3>2, <3>3
  <2>3. below \in Bijection(1..(n - 1), U)
    <3>1. below \in Surjection(1..(n - 1), U)
      BY <2>1, <2>2 DEF Surjection
    <3>2. \A m, j \in 1..(n - 1) : below[m] = below[j] => m = j
      BY <1>2, <2>1 DEF IsInjective
    <3>3. below \in [1..(n - 1) -> U]
      BY <2>1
    <3> HIDE DEF below, U
    <3>4. below \in Injection(1..(n - 1), U)
      BY <3>2, <3>3 DEF Injection, IsInjective
    <3> QED
      BY <3>1, <3>4 DEF Bijection
  <2>4. n - 1 \in Nat
    BY <1>1
  <2> HIDE DEF below, U
  <2>5. Cardinality(U) = Cardinality(1..(n - 1))
    BY <2>3, <2>4, PositionsCounted, FS_Bijection DEF ExistsBijection
  <2> QED
    BY <2>4, <2>5, PositionsCounted DEF U
<1> QED
  BY <1>2, <1>6, <1>7

\* There is one such list, and it is Ascending.
LEMMA AscendingIs ==
    ASSUME NEW S \in SUBSET Int, IsFiniteSet(S),
           NEW s \in [1..Cardinality(S) -> S], Increasing(s)
    PROVE  Ascending(S) = s
<1>1. /\ ToSet(s) = S
      /\ \A n \in 1..Cardinality(S) : Cardinality({y \in S : y < s[n]}) = n - 1
  BY IncreasingIs
<1>2. ASSUME NEW n \in 1..Cardinality(S)
      PROVE  (CHOOSE x \in S : Cardinality({y \in S : y < x}) = n - 1) = s[n]
  <2>1. ASSUME NEW x \in S, Cardinality({y \in S : y < x}) = n - 1
        PROVE  x = s[n]
    <3>1. PICK m \in 1..Cardinality(S) : s[m] = x
      BY <1>1 DEF ToSet
    <3>2. m - 1 = n - 1
      BY <1>1, <2>1, <3>1
    <3>3. m = n
      BY <3>2
    <3> QED
      BY <3>1, <3>3
  <2>2. s[n] \in S /\ Cardinality({y \in S : y < s[n]}) = n - 1
    BY <1>1
  <2> QED
    BY <2>1, <2>2
<1>3. Ascending(S) = [n \in 1..Cardinality(S) |-> s[n]]
  BY <1>2 DEF Ascending
<1> QED
  BY <1>3

\* Ascending lists every member of a finite set of numbers, each once.
LEMMA AscendingLists ==
    ASSUME NEW S \in SUBSET Int, IsFiniteSet(S)
    PROVE  /\ Ascending(S) \in Seq(S) /\ ToSet(Ascending(S)) = S
           /\ IsInjective(Ascending(S)) /\ Increasing(Ascending(S))
<1>1. PICK s \in [1..Cardinality(S) -> S] : Increasing(s)
  BY AscendingExists
<1>2. Ascending(S) = s
  BY <1>1, AscendingIs
<1> QED
  BY <1>1, <1>2, IncreasingIs

\* What a comprehension with a condition keeps of a list.
LEMMA OnlyOf ==
    ASSUME NEW T, NEW s \in Seq(T), NEW S
    PROVE  /\ Only(s, S) \in Seq(T) /\ ToSet(Only(s, S)) = ToSet(s) \cap S
           /\ IsInjective(s) => IsInjective(Only(s, S))
<1> DEFINE there == {n \in DOMAIN s : s[n] \in S}
           kept == [n \in DOMAIN Ascending(there) |-> s[Ascending(there)[n]]]
<1>1. DOMAIN s = 1..Len(s) /\ Len(s) \in Nat /\ \A n \in 1..Len(s) : s[n] \in T
  OBVIOUS
<1>2. there \in SUBSET Int /\ IsFiniteSet(there)
  <2>1. IsFiniteSet(1..Len(s)) /\ there \in SUBSET (1..Len(s))
    BY <1>1, PositionsCounted
  <2> QED
    BY <2>1, FS_Subset
<1>3. PICK at : at = Ascending(there)
  OBVIOUS
<1>4. at \in Seq(there) /\ ToSet(at) = there /\ IsInjective(at)
  BY <1>2, <1>3, AscendingLists
<1>5. Len(at) \in Nat /\ at \in [1..Len(at) -> there]
  BY <1>4
<1>6. PICK k : k = Only(s, S)
  OBVIOUS
<1>7. k = [n \in 1..Len(at) |-> s[at[n]]]
  BY <1>3, <1>5, <1>6 DEF Only
<1>8. k \in Seq(T)
  BY <1>1, <1>5, <1>7
<1>9. ToSet(k) = ToSet(s) \cap S
  <2>1. ASSUME NEW x \in ToSet(k)
        PROVE  x \in ToSet(s) \cap S
    BY <1>5, <1>7 DEF ToSet
  <2>2. ASSUME NEW x \in ToSet(s) \cap S
        PROVE  x \in ToSet(k)
    <3>1. PICK m \in there : s[m] = x
      BY DEF ToSet
    <3>2. PICK n \in 1..Len(at) : at[n] = m
      BY <1>4, <1>5 DEF ToSet
    <3> QED
      BY <1>7, <3>1, <3>2 DEF ToSet
  <2> QED
    BY <2>1, <2>2
<1>10. IsInjective(s) => IsInjective(k)
  BY <1>4, <1>5, <1>7 DEF IsInjective
<1> QED
  BY <1>6, <1>8, <1>9, <1>10

\* it[n] is the concatenation of the first n lists.
Flattening(it, ss) == it = [i \in 1..Len(ss) |-> IF i = 1 THEN ss[i] ELSE it[i - 1] \o ss[i]]

\* The lists of a list can be put together one by one.
LEMMA FlatteningExists ==
    ASSUME NEW T, NEW ss \in Seq(Seq(T))
    PROVE  \E it \in [1..Len(ss) -> Seq(T)] : Flattening(it, ss)
<1> DEFINE N == Len(ss)
           Flat(n, it) == \A i \in 1..n : it[i] = IF i = 1 THEN ss[i] ELSE it[i - 1] \o ss[i]
           Done == {n \in 0..N : \E it \in [1..n -> Seq(T)] : Flat(n, it)}
<1>1. N \in Nat /\ \A i \in 1..N : ss[i] \in Seq(T)
  OBVIOUS
<1>2. 0 \in Done
  <2> DEFINE none == [j \in 1..0 |-> <<>>]
  <2>1. none \in [1..0 -> Seq(T)]
    OBVIOUS
  <2>2. Flat(0, none)
    OBVIOUS
  <2>3. 0 \in 0..N
    BY <1>1
  <2> HIDE DEF none, Flat, N
  <2> QED
    BY <2>1, <2>2, <2>3
<1>3. ASSUME NEW n \in 1..N, n - 1 \in Done
      PROVE  n \in Done
  <2>1. PICK it \in [1..(n - 1) -> Seq(T)] : Flat(n - 1, it)
    BY <1>3
  <2>2. \A i \in 1..n : i # n => i \in 1..(n - 1)
    OBVIOUS
  <2>3. n # 1 => n - 1 \in 1..(n - 1)
    OBVIOUS
  <2> DEFINE more == [i \in 1..n |-> IF i # n THEN it[i]
                                     ELSE IF n = 1 THEN ss[n] ELSE it[n - 1] \o ss[n]]
  <2>4. ss[n] \in Seq(T)
    BY <1>1
  <2>5. n # 1 => it[n - 1] \o ss[n] \in Seq(T)
    BY <2>3, <2>4, ConcatProperties
  <2>6. more \in [1..n -> Seq(T)]
    BY <2>2, <2>4, <2>5
  <2>7. ASSUME NEW i \in 1..n
        PROVE  more[i] = IF i = 1 THEN ss[i] ELSE more[i - 1] \o ss[i]
    <3>1. CASE i = n
      <4>1. i # 1 => more[i - 1] = it[i - 1]
        BY <3>1, <2>3
      <4> QED
        BY <3>1, <4>1
    <3>2. CASE i # n
      <4>1. i \in 1..(n - 1) /\ more[i] = it[i]
        BY <2>2, <3>2
      <4>2. i # 1 => i - 1 \in 1..n /\ i - 1 # n /\ more[i - 1] = it[i - 1]
        BY <4>1
      <4> QED
        BY <2>1, <4>1, <4>2
    <3> QED
      BY <3>1, <3>2
  <2> HIDE DEF more
  <2>8. Flat(n, more)
    BY <2>7
  <2> HIDE DEF Flat
  <2> QED
    BY <1>1, <2>6, <2>8
<1> HIDE DEF Done, N
<1>4. N \in Done
  <2>1. \A n \in 1..N : n - 1 \in Done => n \in Done
    BY <1>3
  <2>2. N \in Nat
    BY <1>1
  <2>3. 0..N \subseteq Done
    BY <1>2, <2>1, <2>2, CountUp, Zenon
  <2> QED
    BY <2>2, <2>3
<1>5. PICK it \in [1..N -> Seq(T)] : Flat(N, it)
  BY <1>4 DEF Done
<1> USE DEF N
<1>6. it = [i \in 1..N |-> it[i]]
  OBVIOUS
<1>7. [i \in 1..N |-> it[i]] = [i \in 1..N |-> IF i = 1 THEN ss[i] ELSE it[i - 1] \o ss[i]]
  BY <1>5
<1> QED
  BY <1>6, <1>7 DEF Flattening

\* What two lists have, the one after the other has.
LEMMA ConcatElements ==
    ASSUME NEW T, NEW a \in Seq(T), NEW b \in Seq(T)
    PROVE  /\ a \o b \in Seq(T) /\ ToSet(a \o b) = ToSet(a) \cup ToSet(b)
           /\ IsInjective(a) /\ IsInjective(b) /\ ToSet(a) \cap ToSet(b) = {} => IsInjective(a \o b)
<1>1. PICK c : c = a \o b
  OBVIOUS
<1>2. /\ c \in Seq(T) /\ Len(c) = Len(a) + Len(b)
      /\ \A i \in 1..Len(c) : c[i] = IF i <= Len(a) THEN a[i] ELSE b[i - Len(a)]
  BY <1>1, ConcatProperties
<1>3. Len(a) \in Nat /\ Len(b) \in Nat
  OBVIOUS
<1>4. \A i \in 1..Len(a) : i \in 1..Len(c) /\ c[i] = a[i]
  BY <1>2, <1>3
<1>5. \A i \in 1..Len(b) : i + Len(a) \in 1..Len(c) /\ c[i + Len(a)] = b[i]
  BY <1>2, <1>3
<1>6. ASSUME NEW i \in 1..Len(c)
      PROVE  \/ i \in 1..Len(a) /\ c[i] = a[i]
             \/ i - Len(a) \in 1..Len(b) /\ c[i] = b[i - Len(a)]
  BY <1>2, <1>3
<1>7. ToSet(c) = ToSet(a) \cup ToSet(b)
  <2>1. \A x \in ToSet(c) : x \in ToSet(a) \cup ToSet(b)
    BY <1>2, <1>6 DEF ToSet
  <2>2. \A x \in ToSet(a) : x \in ToSet(c)
    BY <1>2, <1>4, SMTT(20) DEF ToSet
  <2>3. ASSUME NEW x \in ToSet(b)
        PROVE  x \in ToSet(c)
    <3>1. PICK i \in 1..Len(b) : b[i] = x
      BY DEF ToSet
    <3>2. i + Len(a) \in 1..Len(c) /\ c[i + Len(a)] = x
      BY <1>5, <3>1
    <3> QED
      BY <1>2, <3>2, SMTT(20) DEF ToSet
  <2> QED
    BY <2>1, <2>2, <2>3
<1>8. ASSUME IsInjective(a), IsInjective(b), ToSet(a) \cap ToSet(b) = {},
             NEW i \in 1..Len(c), NEW j \in 1..Len(c), c[i] = c[j]
      PROVE  i = j
  <2>1. ASSUME NEW m \in 1..Len(a), NEW n \in 1..Len(b)
        PROVE  a[m] # b[n]
    <3>1. a[m] \in ToSet(a)
      BY DEF ToSet
    <3>2. b[n] \in ToSet(b)
      BY DEF ToSet
    <3> QED
      BY <1>8, <3>1, <3>2
  <2>2. CASE i \in 1..Len(a) /\ c[i] = a[i]
    <3>1. j \in 1..Len(a) /\ c[j] = a[j]
      BY <1>6, <1>8, <2>1, <2>2
    <3>2. \A m, n \in 1..Len(a) : a[m] = a[n] => m = n
      BY <1>8 DEF IsInjective
    <3> QED
      BY <1>8, <2>2, <3>1, <3>2
  <2>3. CASE i - Len(a) \in 1..Len(b) /\ c[i] = b[i - Len(a)]
    <3>1. j - Len(a) \in 1..Len(b) /\ c[j] = b[j - Len(a)]
      BY <1>6, <1>8, <2>1, <2>3
    <3>2. \A m, n \in 1..Len(b) : b[m] = b[n] => m = n
      BY <1>8 DEF IsInjective
    <3>3. b[i - Len(a)] = b[j - Len(a)]
      BY <1>8, <2>3, <3>1
    <3>4. i - Len(a) = j - Len(a)
      BY <2>3, <3>1, <3>2, <3>3
    <3>5. i \in Int /\ j \in Int
      OBVIOUS
    <3> QED
      BY <1>3, <3>4, <3>5
  <2> QED
    BY <1>6, <2>2, <2>3
<1>9. DOMAIN c = 1..Len(c)
  BY <1>2
<1> QED
  BY <1>1, <1>2, <1>7, <1>8, <1>9 DEF IsInjective

\* No element is in two of the lists, or twice in one.
Apart(ss) ==
    /\ \A n \in DOMAIN ss : IsInjective(ss[n])
    /\ \A m, n \in DOMAIN ss : m # n => ToSet(ss[m]) \cap ToSet(ss[n]) = {}

\* The elements of the lists of a list.
ElementsOf(ss) == UNION {ToSet(ss[n]) : n \in DOMAIN ss}

\* The concatenation of lists has their elements.
LEMMA Flattened ==
    ASSUME NEW T, NEW ss \in Seq(Seq(T))
    PROVE  /\ FlattenSeq(ss) \in Seq(T) /\ ToSet(FlattenSeq(ss)) = ElementsOf(ss)
           /\ Apart(ss) => IsInjective(FlattenSeq(ss))
<1> DEFINE N == Len(ss)
<1>1. N \in Nat /\ DOMAIN ss = 1..N /\ \A i \in 1..N : ss[i] \in Seq(T)
  OBVIOUS
<1>2. CASE N = 0
  <2>1. ss = <<>> /\ FlattenSeq(ss) = <<>>
    BY <1>2 DEF FlattenSeq
  <2>2. DOMAIN ss = {}
    BY <1>1, <1>2
  <2>3. ElementsOf(ss) = {}
    BY <2>2 DEF ElementsOf
  <2>4. <<>> \in Seq(T) /\ ToSet(<<>>) = {} /\ IsInjective(<<>>)
    BY DEF ToSet, IsInjective
  <2> QED
    BY <2>1, <2>3, <2>4
<1>3. CASE N # 0
  <2> DEFINE it == CHOOSE h : Flattening(h, ss)
  <2>1. Flattening(it, ss)
    <3>1. \E h : Flattening(h, ss)
      BY FlatteningExists
    <3> QED
      BY <3>1
  <2>2. FlattenSeq(ss) = it[N]
    BY <1>3 DEF FlattenSeq, Flattening
  <2> HIDE DEF it
  <2>3. \A i \in 1..N : it[i] = IF i = 1 THEN ss[i] ELSE it[i - 1] \o ss[i]
    BY <2>1 DEF Flattening
  <2> DEFINE Upto(n) == {x \in ElementsOf(ss) : \E m \in 1..n : x \in ToSet(ss[m])}
             Good == {n \in 0..N : n = 0 \/
                        /\ it[n] \in Seq(T) /\ ToSet(it[n]) = Upto(n)
                        /\ Apart(ss) => IsInjective(it[n])}
  <2>4. 0 \in Good
    BY <1>1
  <2>5. ASSUME NEW n \in 1..N, n - 1 \in Good
        PROVE  n \in Good
    <3>1. ss[n] \in Seq(T) /\ ToSet(ss[n]) \subseteq ElementsOf(ss)
      BY <1>1 DEF ElementsOf
    <3>2. CASE n = 1
      <4>1. it[n] = ss[n] /\ 1..n = {n}
        BY <2>3, <3>2
      <4>2. Upto(n) = ToSet(ss[n])
        BY <3>1, <4>1
      <4>3. Apart(ss) => IsInjective(ss[n])
        BY <1>1 DEF Apart
      <4> HIDE DEF Upto
      <4> QED
        BY <3>1, <4>1, <4>2, <4>3
    <3>3. CASE n # 1
      <4>1. /\ it[n - 1] \in Seq(T) /\ ToSet(it[n - 1]) = Upto(n - 1)
            /\ Apart(ss) => IsInjective(it[n - 1])
        BY <2>5, <3>3
      <4>2. it[n] = it[n - 1] \o ss[n]
        BY <2>3, <3>3
      <4>3. 1..n = 1..(n - 1) \cup {n}
        OBVIOUS
      <4>4. Upto(n) = Upto(n - 1) \cup ToSet(ss[n])
        BY <3>1, <4>3
      <4>5. ASSUME Apart(ss)
            PROVE  Upto(n - 1) \cap ToSet(ss[n]) = {}
        <5>1. \A m \in 1..(n - 1) : m \in 1..N /\ m # n
          BY <1>1
        <5> QED
          BY <1>1, <4>5, <5>1 DEF Apart
      <4>6. Apart(ss) => IsInjective(ss[n])
        BY <1>1 DEF Apart
      <4> HIDE DEF Upto
      <4>7. it[n] \in Seq(T) /\ ToSet(it[n]) = Upto(n)
        BY <3>1, <4>1, <4>2, <4>4, ConcatElements
      <4>8. Apart(ss) => IsInjective(it[n])
        BY <3>1, <4>1, <4>2, <4>5, <4>6, ConcatElements
      <4> QED
        BY <4>7, <4>8
    <3> QED
      BY <3>2, <3>3
  <2> HIDE DEF Good, N
  <2>6. N \in Good
    <3>1. \A n \in 1..N : n - 1 \in Good => n \in Good
      BY <2>5
    <3>2. N \in Nat
      BY <1>1
    <3>3. 0..N \subseteq Good
      BY <2>4, <3>1, <3>2, CountUp, Zenon
    <3> QED
      BY <3>2, <3>3
  <2> USE DEF N
  <2>7. /\ it[N] \in Seq(T) /\ ToSet(it[N]) = Upto(N)
        /\ Apart(ss) => IsInjective(it[N])
    BY <1>3, <2>6 DEF Good
  <2>8. Upto(N) = ElementsOf(ss)
    BY <1>1 DEF ElementsOf
  <2> QED
    BY <2>2, <2>7, <2>8
<1> QED
  BY <1>2, <1>3
=============================================================================
