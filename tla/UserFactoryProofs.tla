-------------------------- MODULE UserFactoryProofs --------------------------
(***************************************************************************)
(* Theorems about UserFactory for any personae, address books, selections  *)
(* and scores: the tables and the panel agree with the list, imports are   *)
(* exact, permanent personae stay, the order is that of the scores.  The   *)
(* last section is about the personae that UserFactory keeps on disk       *)
(* between its sessions (UserStore).                                       *)
(***************************************************************************)
EXTENDS UserFactory, FiniteSetTheorems, TLAPS

-----------------------------------------------------------------------------
(* Lists.                                                                   *)

\* The numbers 1 to n are n.
LEMMA UpTo ==
  ASSUME NEW n \in Nat
  PROVE  IsFiniteSet(1..n) /\ Cardinality(1..n) = n
BY FS_Interval

\* Ascending(I) goes through I once, upwards: the rank of a number in I is a
\* bijection from I to 1..Cardinality(I).
LEMMA AscendingFacts ==
  ASSUME NEW I \in SUBSET Nat, IsFiniteSet(I)
  PROVE  /\ Cardinality(I) \in Nat
         /\ Ascending(I) \in [1..Cardinality(I) -> I]
         /\ \A k, l \in 1..Cardinality(I) : k < l => Ascending(I)[k] < Ascending(I)[l]
         /\ \A i \in I : \E k \in 1..Cardinality(I) : Ascending(I)[k] = i
<1> DEFINE n == Cardinality(I)
           upto(i) == {j \in I : j <= i}
           rank == [i \in I |-> Cardinality(upto(i))]
<1>1. n \in Nat
  BY FS_CardinalityType
<1>2. \A i \in I : IsFiniteSet(upto(i)) /\ rank[i] \in 1..n
  <2> TAKE i \in I
  <2>1. IsFiniteSet(upto(i)) /\ Cardinality(upto(i)) <= n
    BY FS_Subset, upto(i) \in SUBSET I
  <2>2. i \in upto(i)
    OBVIOUS
  <2>3. Cardinality(upto(i)) \in Nat /\ Cardinality(upto(i)) # 0
    BY <2>1, <2>2, FS_CardinalityType, FS_EmptySet
  <2> QED
    BY <1>1, <2>1, <2>3
<1>3. \A i, j \in I : i < j => rank[i] < rank[j]
  <2> SUFFICES ASSUME NEW i \in I, NEW j \in I, i < j
               PROVE  Cardinality(upto(i)) < Cardinality(upto(j))
    OBVIOUS
  <2>0. i \in Nat /\ j \in Nat
    OBVIOUS
  <2>1. upto(i) \in SUBSET upto(j) /\ j \in upto(j) /\ j \notin upto(i)
    <3>1. \A m \in I : m \in Nat
      OBVIOUS
    <3>2. \A m \in upto(i) : m \in upto(j)
      BY <2>0, <3>1
    <3>3. j \in upto(j) /\ j \notin upto(i)
      BY <2>0
    <3> QED
      BY <3>2, <3>3
  <2>2. Cardinality(upto(i)) <= Cardinality(upto(j)) /\ Cardinality(upto(i)) # Cardinality(upto(j))
    BY <1>2, <2>1, FS_Subset
  <2>3. Cardinality(upto(i)) \in Nat /\ Cardinality(upto(j)) \in Nat
    BY <1>2, FS_CardinalityType
  <2> QED
    BY <2>2, <2>3
<1>4. rank \in Injection(I, 1..n)
  <2>1. rank \in [I -> 1..n]
    BY <1>2
  <2>2. \A i, j \in I : rank[i] = rank[j] => i = j
    <3> TAKE i, j \in I
    <3> HAVE rank[i] = rank[j]
    <3>1. rank[i] \in 1..n /\ i \in Nat /\ j \in Nat
      BY <1>2
    <3>2. ~(i < j) /\ ~(j < i)
      BY <1>1, <1>3, <3>1
    <3> QED
      BY <3>1, <3>2
  <2> HIDE DEF rank
  <2> QED
    BY <2>1, <2>2 DEF Injection, IsInjective
<1>5. \A k \in 1..n : \E i \in I : rank[i] = k
  <2>1. IsFiniteSet(1..n) /\ Cardinality(1..n) = n
    BY <1>1, UpTo
  <2>2. rank \in Surjection(I, 1..n)
    BY <1>4, <2>1, FS_Injection
  <2> QED
    BY <2>2 DEF Surjection
<1>6. \A k \in 1..n : Ascending(I)[k] \in I /\ rank[Ascending(I)[k]] = k
  <2> TAKE k \in 1..n
  <2>1. PICK i \in I : Cardinality(upto(i)) = k
    BY <1>5
  <2>2. Ascending(I)[k] = CHOOSE j \in I : Cardinality(upto(j)) = k
    BY DEF Ascending
  <2> QED
    BY <2>1, <2>2
<1>7. Ascending(I) \in [1..n -> I]
  BY <1>6 DEF Ascending
<1>8. \A k, l \in 1..n : k < l => Ascending(I)[k] < Ascending(I)[l]
  <2> SUFFICES ASSUME NEW k \in 1..n, NEW l \in 1..n, k < l
               PROVE  Ascending(I)[k] < Ascending(I)[l]
    OBVIOUS
  <2> DEFINE a == Ascending(I)[k]  b == Ascending(I)[l]
  <2>1. a \in I /\ b \in I /\ rank[a] = k /\ rank[b] = l
    BY <1>6
  <2> HIDE DEF a, b, rank
  <2>2. a # b /\ ~(b < a)
    BY <1>1, <1>3, <2>1
  <2>3. a < b
    BY <2>1, <2>2
  <2> QED
    BY <2>3 DEF a, b
<1>9. \A i \in I : \E k \in 1..n : Ascending(I)[k] = i
  <2> TAKE i \in I
  <2>1. rank[i] \in 1..n
    BY <1>2
  <2>2. Ascending(I)[rank[i]] \in I /\ rank[Ascending(I)[rank[i]]] = rank[i]
    BY <1>6, <2>1
  <2> HIDE DEF rank
  <2>3. Ascending(I)[rank[i]] = i
    BY <1>4, <2>2 DEF Injection, IsInjective
  <2> QED
    BY <2>1, <2>3
<1> QED
  BY <1>1, <1>7, <1>8, <1>9

\* Those takes out the elements that are in K and keeps their order.
LEMMA ThoseFacts ==
  ASSUME NEW S, NEW s \in Seq(S), NEW K
  PROVE  /\ Those(s, K) \in Seq(S)
         /\ Len(Those(s, K)) <= Len(s)
         /\ ToSet(Those(s, K)) = ToSet(s) \cap K
         /\ \E f \in [DOMAIN Those(s, K) -> DOMAIN s] :
              /\ \A k, l \in DOMAIN Those(s, K) : k < l => f[k] < f[l]
              /\ \A k \in DOMAIN Those(s, K) : Those(s, K)[k] = s[f[k]]
         /\ IsInjective(s) => IsInjective(Those(s, K))
<1> DEFINE I == {i \in DOMAIN s : s[i] \in K}
           n == Cardinality(I)
           f == Ascending(I)
           t == Those(s, K)
<1>1. Len(s) \in Nat /\ DOMAIN s = 1..Len(s) /\ \A i \in 1..Len(s) : s[i] \in S
  OBVIOUS
<1>2. I \in SUBSET Nat /\ IsFiniteSet(I) /\ n <= Len(s)
  <2>0. IsFiniteSet(1..Len(s)) /\ Cardinality(1..Len(s)) = Len(s)
    BY <1>1, UpTo
  <2>1. I \in SUBSET (1..Len(s)) /\ IsFiniteSet(1..Len(s)) /\ Cardinality(1..Len(s)) = Len(s)
    BY <1>1, <2>0
  <2> HIDE DEF I
  <2>2. IsFiniteSet(I) /\ Cardinality(I) <= Len(s)
    BY <2>1, FS_Subset
  <2> QED
    BY <1>1, <2>1, <2>2
<1>3. /\ n \in Nat
      /\ f \in [1..n -> I]
      /\ \A k, l \in 1..n : k < l => f[k] < f[l]
      /\ \A i \in I : \E k \in 1..n : f[k] = i
  <2> HIDE DEF I
  <2> QED
    BY <1>2, AscendingFacts
<1>4. t = [k \in 1..n |-> s[f[k]]]
  BY <1>3 DEF Those
<1> HIDE DEF f
<1>5. \A k \in 1..n : f[k] \in 1..Len(s) /\ s[f[k]] \in K /\ t[k] = s[f[k]]
  BY <1>1, <1>3, <1>4
<1>6. t \in Seq(S) /\ DOMAIN t = 1..n /\ Len(t) = n
  BY <1>1, <1>3, <1>4, <1>5
<1>7. ToSet(t) = ToSet(s) \cap K
  <2>1. ASSUME NEW k \in 1..n PROVE t[k] \in ToSet(s) \cap K
    BY <1>1, <1>5 DEF ToSet
  <2>2. ASSUME NEW i \in DOMAIN s, s[i] \in K PROVE s[i] \in ToSet(t)
    <3>1. PICK k \in 1..n : f[k] = i
      BY <1>3, <2>2
    <3> QED
      BY <1>5, <1>6, <3>1 DEF ToSet
  <2> HIDE DEF t, n
  <2> QED
    BY <1>6, <2>1, <2>2 DEF ToSet
<1>8. IsInjective(s) => IsInjective(t)
  <2> SUFFICES ASSUME IsInjective(s), NEW k \in 1..n, NEW l \in 1..n, t[k] = t[l]
               PROVE  k = l
    BY <1>6 DEF IsInjective
  <2>1. f[k] = f[l]
    BY <1>1, <1>5 DEF IsInjective
  <2>2. f[k] \in Nat /\ f[l] \in Nat
    BY <1>5
  <2>3. ~(k < l) /\ ~(l < k)
    BY <1>3, <2>1, <2>2
  <2> QED
    BY <1>3, <2>3
<1>9. f \in [DOMAIN t -> DOMAIN s]
  BY <1>1, <1>3, <1>6
<1> HIDE DEF t, n
<1> QED
  BY <1>2, <1>3, <1>5, <1>6, <1>7, <1>8, <1>9 DEF t, n

\* An array of objects is finite.
LEMMA ArrayFinite ==
  ASSUME NEW S, NEW s \in Seq(S)
  PROVE  IsFiniteSet(ToSet(s)) /\ ToSet(s) \subseteq S
<1>1. s \in Surjection(1..Len(s), ToSet(s))
  BY DEF Surjection, ToSet
<1>2. IsFiniteSet(1..Len(s))
  BY UpTo
<1> QED
  BY <1>1, <1>2, FS_Surjection DEF ToSet

\* What reorderUsers may leave has the same personae, each once, in order.
LEMMA SortedFacts ==
  ASSUME NEW users \in Seq(Personae), NEW scores, NEW s \in Sorted(users, scores)
  PROVE  /\ s \in Seq(Personae) /\ IsInjective(s)
         /\ ToSet(s) = ToSet(users)
         /\ \A i, j \in DOMAIN s : i < j => scores[s[i]] >= scores[s[j]]
<1> DEFINE S == ToSet(users)
           n == Cardinality(S)
<1>1. IsFiniteSet(S) /\ S \subseteq Personae /\ n \in Nat
  BY ArrayFinite, FS_CardinalityType
<1>2. s \in [1..n -> S] /\ \A i, j \in 1..n : i # j => s[i] # s[j]
  BY DEF Sorted, SetToSeqs
<1>3. \A i, j \in DOMAIN s : i < j => scores[s[i]] >= scores[s[j]]
  BY DEF Sorted
<1> HIDE DEF S
<1>4. s \in Injection(1..n, S)
  BY <1>2 DEF Injection, IsInjective
<1>5. s \in Surjection(1..n, S)
  BY <1>1, <1>4, UpTo, FS_Injection
<1>6. s \in Seq(Personae) /\ DOMAIN s = 1..n
  BY <1>1, <1>2
<1>7. ToSet(s) = S
  BY <1>5, <1>6 DEF Surjection, ToSet
<1> QED
  BY <1>2, <1>3, <1>6, <1>7 DEF IsInjective, S

\* Two arrays that share no persona, one after the other.
LEMMA Joined ==
  ASSUME NEW s \in Seq(Personae), NEW t \in Seq(Personae)
  PROVE  /\ s \o t \in Seq(Personae)
         /\ ToSet(s \o t) = ToSet(s) \cup ToSet(t)
         /\ IsInjective(s) /\ IsInjective(t) /\ ToSet(s) \cap ToSet(t) = {} => IsInjective(s \o t)
<1> DEFINE u == s \o t
<1>1. /\ Len(s) \in Nat /\ Len(t) \in Nat
      /\ DOMAIN s = 1..Len(s) /\ DOMAIN t = 1..Len(t)
      /\ u \in Seq(Personae) /\ Len(u) = Len(s) + Len(t) /\ DOMAIN u = 1..Len(u)
  OBVIOUS
<1>2. \A i \in 1..Len(s) : u[i] = s[i]
  BY <1>1
<1>3. \A i \in 1..Len(t) : u[Len(s) + i] = t[i]
  BY <1>1
<1>4. \A i \in 1..Len(u) : i \in 1..Len(s) \/ (i - Len(s) \in 1..Len(t) /\ u[i] = t[i - Len(s)])
  BY <1>1, <1>3
<1> HIDE DEF u
<1>5. ToSet(u) = ToSet(s) \cup ToSet(t)
  <2>1. \A i \in 1..Len(t) : Len(s) + i \in 1..Len(u)
    BY <1>1
  <2>2. ASSUME NEW i \in 1..Len(u) PROVE u[i] \in ToSet(s) \cup ToSet(t)
    <3>1. CASE i \in 1..Len(s)
      BY <1>1, <1>2, <3>1 DEF ToSet
    <3>2. CASE i - Len(s) \in 1..Len(t) /\ u[i] = t[i - Len(s)]
      BY <1>1, <3>2 DEF ToSet
    <3> QED
      BY <1>4, <3>1, <3>2
  <2>3. ASSUME NEW i \in 1..Len(s) PROVE s[i] \in ToSet(u)
    <3>1. i \in 1..Len(u) /\ u[i] = s[i]
      BY <1>1, <1>2
    <3> QED
      BY <1>1, <3>1 DEF ToSet
  <2>4. ASSUME NEW i \in 1..Len(t) PROVE t[i] \in ToSet(u)
    BY <1>1, <1>3, <2>1 DEF ToSet
  <2> QED
    BY <1>1, <2>2, <2>3, <2>4 DEF ToSet
<1>6. ASSUME IsInjective(s), IsInjective(t), ToSet(s) \cap ToSet(t) = {}
      PROVE  IsInjective(u)
  <2> SUFFICES ASSUME NEW i \in 1..Len(u), NEW j \in 1..Len(u), u[i] = u[j]
               PROVE  i = j
    BY <1>1 DEF IsInjective
  <2>1. \A k \in 1..Len(s), l \in 1..Len(t) : s[k] # t[l]
    BY <1>1, <1>6 DEF ToSet
  <2>2. CASE i \in 1..Len(s) /\ j \in 1..Len(s)
    BY <1>1, <1>2, <1>6, <2>2 DEF IsInjective
  <2>3. CASE i \in 1..Len(s) /\ j \notin 1..Len(s)
    BY <1>2, <1>4, <2>1, <2>3
  <2>4. CASE i \notin 1..Len(s) /\ j \in 1..Len(s)
    BY <1>2, <1>4, <2>1, <2>4
  <2>5. CASE i \notin 1..Len(s) /\ j \notin 1..Len(s)
    <3>1. i - Len(s) = j - Len(s)
      BY <1>1, <1>4, <1>6, <2>5 DEF IsInjective
    <3> QED
      BY <1>1, <3>1
  <2> QED
    BY <2>2, <2>3, <2>4, <2>5
<1> QED
  BY <1>1, <1>5, <1>6 DEF u

-----------------------------------------------------------------------------
(* The import.                                                              *)

\* A created and an imported object are personae, each of its own kind.
LEMMA PersonaeTyped ==
  /\ \A p \in Ids : /\ Permanent(p) \in Personae /\ IsPermanent(Permanent(p))
                    /\ ~IsFromAddressBook(Permanent(p))
  /\ \A a \in People, n \in 1..MaxCopies :
       Imported(a, n) \in Personae /\ IsFromAddressBook(Imported(a, n))
  /\ \A x \in Personae : ~(IsPermanent(x) /\ IsFromAddressBook(x))
<1>1. ASSUME NEW p \in Ids
      PROVE  /\ Permanent(p) \in Personae /\ IsPermanent(Permanent(p))
             /\ ~IsFromAddressBook(Permanent(p))
  <2>1. Permanent(p) \in Personae
    BY DEF Personae
  <2> QED
    BY <2>1 DEF Permanent, IsPermanent, IsFromAddressBook
<1>2. ASSUME NEW a \in People, NEW n \in 1..MaxCopies
      PROVE  Imported(a, n) \in Personae /\ IsFromAddressBook(Imported(a, n))
  <2>1. Imported(a, n) \in Personae
    BY DEF Personae
  <2> QED
    BY <2>1 DEF Imported, IsFromAddressBook
<1>3. ASSUME NEW x \in Personae PROVE ~(IsPermanent(x) /\ IsFromAddressBook(x))
  BY DEF IsPermanent, IsFromAddressBook
<1> QED
  BY <1>1, <1>2, <1>3

\* An import makes a different object for each named person, however often selected.
LEMMA ImportFacts ==
  ASSUME NEW persons \in Seq(People), Len(persons) <= MaxCopies
  PROVE  LET new == ImportABUsers(persons)
         IN  /\ new \in Seq(Personae) /\ IsInjective(new)
             /\ \A x \in ToSet(new) : IsFromAddressBook(x)
             /\ DOMAIN new = DOMAIN Named(persons)
             /\ \A i \in DOMAIN new : new[i].of = Named(persons)[i]
<1> DEFINE N == Named(persons)
           new == ImportABUsers(persons)
           same(i) == {j \in 1..i : N[j] = N[i]}
<1>1. N \in Seq(People) /\ Len(N) <= MaxCopies /\ Len(persons) \in Nat
  <2>1. N \in Seq(People) /\ Len(N) <= Len(persons)
    BY ThoseFacts DEF Named
  <2> QED
    BY <2>1, UserFactoryAssumption
<1>2. Len(N) \in Nat /\ DOMAIN N = 1..Len(N) /\ MaxCopies \in Nat
  BY <1>1, UserFactoryAssumption
<1>3. new = [i \in 1..Len(N) |-> Imported(N[i], Cardinality(same(i)))]
  BY <1>2 DEF ImportABUsers
<1> HIDE DEF N, new
<1>4. \A i \in 1..Len(N) : IsFiniteSet(same(i)) /\ Cardinality(same(i)) \in 1..MaxCopies
  <2> TAKE i \in 1..Len(N)
  <2>1. IsFiniteSet(1..i) /\ Cardinality(1..i) = i
    BY <1>2, UpTo
  <2>2. IsFiniteSet(same(i)) /\ Cardinality(same(i)) <= i
    <3>1. \A j \in same(i) : j \in 1..i
      OBVIOUS
    <3> HIDE DEF same
    <3>2. same(i) \in SUBSET (1..i)
      BY <3>1
    <3> QED
      BY <2>1, <3>2, FS_Subset
  <2>3. i \in same(i)
    BY <1>2
  <2>4. Cardinality(same(i)) \in Nat /\ Cardinality(same(i)) # 0
    BY <2>2, <2>3, FS_CardinalityType, FS_EmptySet
  <2> QED
    BY <1>1, <1>2, <2>2, <2>4
<1>5. \A i, j \in 1..Len(N) : i < j /\ N[i] = N[j] => Cardinality(same(i)) # Cardinality(same(j))
  <2> SUFFICES ASSUME NEW i \in 1..Len(N), NEW j \in 1..Len(N), i < j, N[i] = N[j]
               PROVE  Cardinality(same(i)) # Cardinality(same(j))
    OBVIOUS
  <2>1. same(i) \in SUBSET same(j) /\ j \in same(j) /\ j \notin same(i)
    BY <1>2
  <2> QED
    BY <1>4, <2>1, FS_Subset
<1>6. \A i \in 1..Len(N) : /\ new[i] \in Personae /\ IsFromAddressBook(new[i])
                           /\ new[i].of = N[i] /\ new[i].copy = Cardinality(same(i))
  <2> TAKE i \in 1..Len(N)
  <2>1. N[i] \in People /\ new[i] = Imported(N[i], Cardinality(same(i)))
    BY <1>1, <1>2, <1>3
  <2>2. new[i] \in Personae /\ IsFromAddressBook(new[i])
    BY <1>4, <2>1, PersonaeTyped
  <2> QED
    BY <2>1, <2>2 DEF Imported
<1>7. new \in Seq(Personae) /\ DOMAIN new = 1..Len(N)
  BY <1>2, <1>3, <1>6
<1>8. IsInjective(new)
  <2> SUFFICES ASSUME NEW i \in 1..Len(N), NEW j \in 1..Len(N), new[i] = new[j]
               PROVE  i = j
    BY <1>7 DEF IsInjective
  <2>1. N[i] = N[j] /\ Cardinality(same(i)) = Cardinality(same(j))
    BY <1>6
  <2> HIDE DEF same
  <2> QED
    BY <1>2, <1>5, <2>1
<1>9. \A x \in ToSet(new) : IsFromAddressBook(x)
  BY <1>6, <1>7 DEF ToSet
<1> QED
  BY <1>2, <1>6, <1>7, <1>8, <1>9 DEF new, N

\* The places of a person in a list, and in a selection.
Listed(users, a) ==
  {i \in DOMAIN users : users[i].source = "ABPerson" /\ users[i].of = a}
Chosen(persons, a) == {i \in DOMAIN Named(persons) : Named(persons)[i] = a}

\* A list whose imported personae are those of an import has each person as often
\* as the import.
LEMMA CountImported ==
  ASSUME NEW users \in Seq(Personae), IsInjective(users),
         NEW persons \in Seq(People), Len(persons) <= MaxCopies,
         {x \in ToSet(users) : IsFromAddressBook(x)} = ToSet(ImportABUsers(persons)),
         NEW a
  PROVE  Cardinality(Listed(users, a)) = Cardinality(Chosen(persons, a))
<1> DEFINE new == ImportABUsers(persons)
           A == {i \in DOMAIN users : users[i].source = "ABPerson" /\ users[i].of = a}
           B == {i \in DOMAIN Named(persons) : Named(persons)[i] = a}
           g == [i \in A |-> CHOOSE k \in DOMAIN new : new[k] = users[i]]
<1>1. /\ new \in Seq(Personae) /\ IsInjective(new)
      /\ \A x \in ToSet(new) : IsFromAddressBook(x)
      /\ DOMAIN new = DOMAIN Named(persons)
      /\ \A i \in DOMAIN new : new[i].of = Named(persons)[i]
  BY ImportFacts
<1>2. \A x \in ToSet(users) : IsFromAddressBook(x) => x \in ToSet(new)
  OBVIOUS
<1>3. \A x \in ToSet(new) : x \in ToSet(users)
  OBVIOUS
<1> HIDE DEF new
<1>4. \A i \in A : g[i] \in DOMAIN new /\ new[g[i]] = users[i]
  <2> TAKE i \in A
  <2>1. users[i] \in ToSet(new)
    BY <1>2 DEF ToSet, IsFromAddressBook
  <2>2. \E k \in DOMAIN new : new[k] = users[i]
    BY <2>1 DEF ToSet
  <2> QED
    BY <2>2
<1>5. \A i \in A : g[i] \in B
  BY <1>1, <1>4
<1>6. \A k \in B : \E i \in A : g[i] = k
  <2> TAKE k \in B
  <2>1. k \in DOMAIN new /\ new[k].of = a /\ new[k] \in ToSet(new)
    BY <1>1 DEF ToSet
  <2>2. PICK i \in DOMAIN users : users[i] = new[k]
    BY <1>3, <2>1 DEF ToSet
  <2>3. i \in A
    BY <1>1, <2>1, <2>2 DEF IsFromAddressBook
  <2>4. new[g[i]] = new[k] /\ g[i] \in DOMAIN new
    BY <1>4, <2>2, <2>3
  <2> HIDE DEF g
  <2>5. g[i] = k
    BY <1>1, <2>1, <2>4 DEF IsInjective
  <2> QED
    BY <2>3, <2>5
<1>7. \A i, j \in A : g[i] = g[j] => i = j
  <2> TAKE i, j \in A
  <2> HAVE g[i] = g[j]
  <2>1. users[i] = users[j]
    BY <1>4
  <2> QED
    BY <2>1 DEF IsInjective
<1>8. g \in Bijection(A, B)
  <2>1. g \in [A -> B]
    BY <1>5
  <2> HIDE DEF g, A, B
  <2> QED
    BY <1>6, <1>7, <2>1 DEF Bijection, Injection, Surjection, IsInjective
<1>9. IsFiniteSet(A)
  <2>1. DOMAIN users = 1..Len(users) /\ IsFiniteSet(1..Len(users))
    BY UpTo
  <2>2. A \in SUBSET (1..Len(users))
    BY <2>1
  <2> HIDE DEF A
  <2> QED
    BY <2>1, <2>2, FS_Subset
<1>10. Cardinality(B) = Cardinality(A)
  <2> HIDE DEF A, B, g
  <2> QED
    BY <1>8, <1>9, FS_Bijection DEF ExistsBijection
<1> QED
  BY <1>10 DEF Listed, Chosen

-----------------------------------------------------------------------------
(* The inductive invariant.                                                 *)

ListOK == theUsers \in Seq(Personae) /\ IsInjective(theUsers)

FlagsOK ==
  /\ owed \in BOOLEAN /\ asked \in BOOLEAN /\ stray \in BOOLEAN
  /\ timer \in BOOLEAN /\ raised \in BOOLEAN

ScoresOK ==
  /\ score \in [Personae -> Levels]
  /\ theTasks \in Seq({"runs", "ended", "lost"}) /\ theUsersRetained \in Seq(Personae)
  /\ FlagsOK

\* The order of the personae is that of their scores.
InOrder(users, scores) ==
  \A i, j \in DOMAIN users : i < j => scores[users[i]] >= scores[users[j]]

\* Only the first persona has a score.
OnlyFirst(users, scores) == \A i \in DOMAIN users : i > 1 => scores[users[i]] = 0

\* A round is owed while processes are listed.  Until the External Source was asked
\* once with success nobody sorts the list: but then only the first persona can have
\* got a score, from a process that a call cut short has left behind.
SourceOK ==
  /\ theTasks # <<>> => owed
  /\ owed => asked
  /\ asked \/ stray => async
  /\ async /\ ~asked =>
       /\ OnlyFirst(theUsers, score)
       /\ theUsersRetained # <<>> =>
            \A i \in DOMAIN theUsers : i > 1 => theUsers[i] # theUsersRetained[1]

TablesOK ==
  /\ userRows \in Nat /\ displayRows \in Nat /\ selectedRow \in 0..userRows
  /\ picked \in Personae \cup {Nobody}

\* The panel, when it edits, edits the persona it shows, a permanent one.
DialogOK ==
  /\ panel \in {"closed", "add", "edit"}
  /\ theUserToEdit \in Personae \cup {Nobody} /\ shown \in Personae \cup {Nobody}
  /\ panel = "edit" => theUserToEdit = shown /\ shown \in Personae /\ IsPermanent(shown)

EffectOK == effect.on \in Personae \cup {Nobody} /\ SaveGoesToShown

\* The personae of the address book are the objects the latest import made.
ImportOK ==
  /\ imported \in Selections[async] \cup {<<>>}
  /\ {x \in ToSet(theUsers) : IsFromAddressBook(x)} = ToSet(ImportABUsers(imported))

\* Nothing happens before awakeFromNib.
Asleep ==
  ~awake => /\ theUsers = <<>> /\ ~owed /\ panel = "closed"
            /\ score = [x \in Personae |-> 0] /\ ~timer /\ ~stray

RankedUnlessNegative == Levels \subseteq Nat => Ranked

IInv ==
  /\ async \in Asyncs /\ awake \in BOOLEAN
  /\ ListOK /\ ScoresOK /\ SourceOK /\ TablesOK /\ TablesSettled /\ RankedUnlessNegative
  /\ DialogOK /\ EffectOK /\ ImportOK /\ Asleep

\* Nothing is kept of the empty list.
LEMMA EmptyList ==
  ASSUME NEW K
  PROVE  Those(<<>>, K) = <<>> /\ ToSet(<<>>) = {} /\ IsInjective(<<>>) /\ <<>> \in Seq(Personae)
<1>1. <<>> \in Seq({}) /\ Len(<<>>) = 0
  OBVIOUS
<1>2. Those(<<>>, K) \in Seq({}) /\ Len(Those(<<>>, K)) <= 0
  BY <1>1, ThoseFacts
<1>3. Those(<<>>, K) = <<>>
  BY <1>2
<1> QED
  BY <1>3 DEF ToSet, IsInjective

\* init: nothing is listed, shown or scored.
LEMMA InitIInv == Init => IInv
<1> SUFFICES ASSUME Init PROVE IInv
  OBVIOUS
<1> USE DEF Init
<1>1. ListOK
  BY EmptyList DEF ListOK
<1>2. ScoresOK /\ SourceOK
  <2>1. FlagsOK
    BY Zenon DEF FlagsOK
  <2>2. score \in [Personae -> Levels]
    BY UserFactoryAssumption
  <2>3. SourceOK
    BY DEF SourceOK, OnlyFirst
  <2> QED
    BY <2>1, <2>2, <2>3 DEF ScoresOK
<1>3. TablesOK
  BY DEF TablesOK
<1>4. TablesSettled
  BY EmptyList DEF TablesSettled, PermanentUsers
<1>5. RankedUnlessNegative
  BY DEF RankedUnlessNegative, Ranked
<1>6. DialogOK /\ EffectOK /\ Asleep
  BY DEF DialogOK, EffectOK, SaveGoesToShown, NoEffect, Asleep, scoring, source
<1>7. ImportOK
  <2>1. Named(<<>>) = <<>>
    BY EmptyList DEF Named
  <2>2. ImportABUsers(<<>>) = <<>>
    BY <2>1 DEF ImportABUsers
  <2> QED
    BY <2>2, EmptyList DEF ImportOK
<1> QED
  BY <1>1, <1>2, <1>3, <1>4, <1>5, <1>6, <1>7 DEF IInv

\* hasChanged brings the tables up to date.
LEMMA ChangedTables ==
  ASSUME TablesOK, NEW users \in Seq(Personae), HasChanged(users)
  PROVE  /\ TablesOK'
         /\ userRows' = Len(PermanentUsers(users)) /\ displayRows' = Len(users)
<1>1. Len(PermanentUsers(users)) \in Nat /\ Len(users) \in Nat
  BY ThoseFacts DEF PermanentUsers
<1> QED
  BY <1>1 DEF HasChanged, TablesOK

\* Arrays of the same personae, each once, are of one length.
LEMMA SameLength ==
  ASSUME NEW s \in Seq(Personae), NEW t \in Seq(Personae), IsInjective(s), IsInjective(t),
         ToSet(s) = ToSet(t)
  PROVE  Len(s) = Len(t)
<1> DEFINE g == [i \in 1..Len(s) |-> CHOOSE k \in 1..Len(t) : t[k] = s[i]]
<1>1. Len(s) \in Nat /\ Len(t) \in Nat /\ DOMAIN s = 1..Len(s) /\ DOMAIN t = 1..Len(t)
  OBVIOUS
<1>2. \A i \in 1..Len(s) : \E k \in 1..Len(t) : t[k] = s[i]
  <2> TAKE i \in 1..Len(s)
  <2>1. s[i] \in ToSet(t)
    BY <1>1 DEF ToSet
  <2> QED
    BY <1>1, <2>1 DEF ToSet
<1>3. \A k \in 1..Len(t) : \E i \in 1..Len(s) : s[i] = t[k]
  <2> TAKE k \in 1..Len(t)
  <2>1. t[k] \in ToSet(s)
    BY <1>1 DEF ToSet
  <2> QED
    BY <1>1, <2>1 DEF ToSet
<1>4. \A i \in 1..Len(s) : g[i] \in 1..Len(t) /\ t[g[i]] = s[i]
  BY <1>2
<1>5. g \in Bijection(1..Len(s), 1..Len(t))
  <2>1. g \in [1..Len(s) -> 1..Len(t)]
    BY <1>4
  <2> HIDE DEF g
  <2>2. ASSUME NEW a \in 1..Len(s), NEW b \in 1..Len(s), g[a] = g[b] PROVE a = b
    BY <1>1, <1>4, <2>2 DEF IsInjective
  <2>3. \A k \in 1..Len(t) : \E i \in 1..Len(s) : g[i] = k
    <3> TAKE k \in 1..Len(t)
    <3>1. PICK i \in 1..Len(s) : s[i] = t[k]
      BY <1>3
    <3>2. g[i] = k
      BY <1>1, <1>4, <3>1 DEF IsInjective
    <3> QED
      BY <3>2
  <2> QED
    BY <2>1, <2>2, <2>3 DEF Bijection, Injection, Surjection, IsInjective
<1> HIDE DEF g
<1>6. Cardinality(1..Len(s)) = Cardinality(1..Len(t))
  BY <1>1, <1>5, UpTo, FS_Bijection DEF ExistsBijection
<1> QED
  BY <1>1, <1>6, UpTo

\* After calculateUserScores the list has the same personae, and either the tables and
\* the order are those of the new scores, or the External Source was asked: then both
\* are as they were, and a round is under way or an exception has come.
LEMMA Calculated ==
  ASSUME TablesOK, ScoresOK, SourceOK, async' = async,
         NEW users \in Seq(Personae), IsInjective(users),
         NEW scores \in [Personae -> Levels], NEW changed,
         Levels \subseteq Nat /\ ~owed => InOrder(users, scores),
         async /\ ~asked => OnlyFirst(users, scores),
         ~changed => userRows = Len(PermanentUsers(users)),
         timer' \in BOOLEAN,
         CalculateUserScores(users, scores, changed)
  PROVE  /\ ListOK' /\ ScoresOK' /\ SourceOK' /\ TablesOK' /\ TablesSettled'
         /\ RankedUnlessNegative'
         /\ ToSet(theUsers') = ToSet(users)
<1>1. CASE async
  <2>1. theUsers' = users /\ score' = scores
    BY <1>1 DEF CalculateUserScores
  <2>2. TablesOK' /\ userRows' = Len(PermanentUsers(users))
    <3>1. CASE changed
      BY <1>1, <3>1, ChangedTables DEF CalculateUserScores
    <3>2. CASE ~changed
      BY <1>1, <3>2 DEF CalculateUserScores, TablesOK, tables
    <3> QED
      BY <3>1, <3>2
  <2>3. owed' \/ raised'
    BY <1>1 DEF CalculateUserScores, ExternalSourceStarts, ExternalSourceRaises
  <2>4. CASE ExternalSourceStarts(users)
    <3>1. ScoresOK'
      <4>1. FlagsOK'
        BY <2>4, Zenon DEF ExternalSourceStarts, ScoresOK, FlagsOK
      <4>2. theTasks' \in Seq({"runs", "ended", "lost"}) /\ theUsersRetained' \in Seq(Personae)
        BY <2>4 DEF ExternalSourceStarts
      <4> QED
        BY <2>1, <4>1, <4>2 DEF ScoresOK
    <3>2. SourceOK'
      BY <1>1, <2>4 DEF ExternalSourceStarts, SourceOK
    <3>3. RankedUnlessNegative'
      BY <2>4 DEF ExternalSourceStarts, RankedUnlessNegative, Ranked
    <3> QED
      BY <2>1, <2>2, <2>3, <3>1, <3>2, <3>3 DEF ListOK, TablesSettled, ExternalSourceStarts
  <2>5. CASE ExternalSourceRaises(users)
    <3>1. ScoresOK'
      BY <2>1, <2>5 DEF ExternalSourceRaises, ScoresOK, FlagsOK
    <3>2. SourceOK'
      <4>1. ASSUME ~asked, NEW i \in DOMAIN users, i > 1
            PROVE  users[i] # users[1]
        <5>1. 1 \in DOMAIN users /\ i # 1
          BY <4>1
        <5> QED
          BY <5>1 DEF IsInjective
      <4> QED
        BY <1>1, <2>1, <2>5, <4>1 DEF ExternalSourceRaises, SourceOK
    <3>3. RankedUnlessNegative'
      BY <2>1, <2>5 DEF ExternalSourceRaises, RankedUnlessNegative, Ranked, InOrder
    <3> QED
      BY <2>1, <2>2, <2>3, <2>5, <3>1, <3>2, <3>3 DEF ListOK, TablesSettled, ExternalSourceRaises
  <2> QED
    BY <1>1, <2>4, <2>5 DEF CalculateUserScores
<1>2. CASE ~async
  <2>1. PICK new \in [ToSet(users) -> Levels] :
          score' = [x \in Personae |-> IF x \in ToSet(users) THEN new[x] ELSE 0]
    BY <1>2 DEF CalculateUserScores, MailSourceScores
  <2>2. /\ ReorderUsers(users, score') /\ raised' = FALSE
        /\ UNCHANGED <<theTasks, theUsersRetained, owed, asked, stray>>
    BY <1>2 DEF CalculateUserScores, MailSourceScores
  <2>3. theUsers' \in Sorted(users, score') /\ HasChanged(theUsers')
    BY <2>2 DEF ReorderUsers
  <2>4. /\ theUsers' \in Seq(Personae) /\ IsInjective(theUsers')
        /\ ToSet(theUsers') = ToSet(users)
        /\ \A i, j \in DOMAIN theUsers' : i < j => score'[theUsers'[i]] >= score'[theUsers'[j]]
    BY <2>3, SortedFacts
  <2>5. TablesOK' /\ userRows' = Len(PermanentUsers(theUsers')) /\ displayRows' = Len(theUsers')
    BY <2>3, <2>4, ChangedTables
  <2>6. ScoresOK' /\ SourceOK'
    BY <1>2, <2>1, <2>2, UserFactoryAssumption DEF ScoresOK, FlagsOK, SourceOK
  <2> QED
    BY <2>4, <2>5, <2>6 DEF ListOK, TablesSettled, RankedUnlessNegative, Ranked
<1> QED
  BY <1>1, <1>2

\* What a list keeps of its order and of its scores when some of it is taken out and
\* personae with the score 0 are put at its end.
LEMMA KeptInOrder ==
  ASSUME NEW users \in Seq(Personae), NEW K, NEW new \in Seq(Personae),
         NEW score0 \in [Personae -> Levels], NEW scores \in [Personae -> Levels],
         \A x \in ToSet(Those(users, K)) : scores[x] = score0[x],
         \A x \in ToSet(new) : scores[x] = 0
  PROVE  LET list == Those(users, K) \o new
         IN  /\ Levels \subseteq Nat /\ InOrder(users, score0) => InOrder(list, scores)
             /\ OnlyFirst(users, score0) => OnlyFirst(list, scores)
<1> DEFINE kept == Those(users, K)
           list == kept \o new
<1>1. PICK f \in [DOMAIN kept -> DOMAIN users] :
        /\ \A k, l \in DOMAIN kept : k < l => f[k] < f[l]
        /\ \A k \in DOMAIN kept : kept[k] = users[f[k]]
  BY ThoseFacts
<1>2. kept \in Seq(Personae)
  BY ThoseFacts
<1>3. \A k \in DOMAIN kept : scores[kept[k]] = score0[users[f[k]]]
  BY <1>1 DEF ToSet
<1> HIDE DEF kept
<1>4. /\ Len(kept) \in Nat /\ DOMAIN kept = 1..Len(kept) /\ Len(new) \in Nat
      /\ DOMAIN list = 1..(Len(kept) + Len(new)) /\ DOMAIN users \subseteq Nat \ {0}
      /\ list \in Seq(Personae)
  BY <1>2
<1>5. \A i \in DOMAIN list :
        IF i <= Len(kept) THEN list[i] = kept[i] ELSE scores[list[i]] = 0
  <2> TAKE i \in DOMAIN list
  <2>1. CASE i <= Len(kept)
    BY <1>2, <1>4, <2>1
  <2>2. CASE ~(i <= Len(kept))
    <3>1. i - Len(kept) \in DOMAIN new /\ list[i] = new[i - Len(kept)]
      BY <1>2, <1>4, <2>2
    <3> QED
      BY <2>2, <3>1 DEF ToSet
  <2> QED
    BY <2>1, <2>2
<1> HIDE DEF list
<1>6. ASSUME Levels \subseteq Nat, InOrder(users, score0) PROVE InOrder(list, scores)
  <2> SUFFICES ASSUME NEW i \in DOMAIN list, NEW j \in DOMAIN list, i < j
               PROVE  scores[list[i]] >= scores[list[j]]
    BY DEF InOrder
  <2>1. CASE j <= Len(kept)
    <3>1. i \in DOMAIN kept /\ j \in DOMAIN kept
      BY <1>4, <2>1
    <3>2. /\ f[i] \in DOMAIN users /\ f[j] \in DOMAIN users /\ f[i] < f[j]
          /\ list[i] = kept[i] /\ list[j] = kept[j]
      BY <1>1, <1>4, <1>5, <2>1, <3>1
    <3>3. score0[users[f[i]]] >= score0[users[f[j]]]
      BY <1>6, <3>2 DEF InOrder
    <3> QED
      BY <1>3, <3>1, <3>2, <3>3
  <2>2. CASE ~(j <= Len(kept))
    <3>1. scores[list[j]] = 0
      BY <1>5, <2>2
    <3>2. scores[list[i]] \in Nat
      <4>1. list[i] \in Personae
        BY <1>4
      <4> QED
        BY <1>6, <4>1
    <3> QED
      BY <3>1, <3>2
  <2> QED
    BY <2>1, <2>2
<1>7. ASSUME OnlyFirst(users, score0) PROVE OnlyFirst(list, scores)
  <2> SUFFICES ASSUME NEW i \in DOMAIN list, i > 1
               PROVE  scores[list[i]] = 0
    BY DEF OnlyFirst
  <2>1. CASE i <= Len(kept)
    <3>1. i \in DOMAIN kept /\ 1 \in DOMAIN kept
      BY <1>4, <2>1
    <3>2. f[i] \in DOMAIN users /\ f[1] \in DOMAIN users /\ f[1] < f[i]
      BY <1>1, <1>4, <3>1
    <3>3. f[i] > 1
      BY <1>4, <3>2
    <3>4. score0[users[f[i]]] = 0
      BY <1>7, <3>2, <3>3 DEF OnlyFirst
    <3> QED
      BY <1>3, <1>5, <2>1, <3>1, <3>4
  <2>2. CASE ~(i <= Len(kept))
    BY <1>5, <2>2
  <2> QED
    BY <2>1, <2>2
<1> QED
  BY <1>6, <1>7 DEF list, kept

\* A refresh keeps whoever is not from the address book, and imports exactly.
LEMMA Refreshed ==
  ASSUME TablesOK, ScoresOK, SourceOK, NEW users \in Seq(Personae), IsInjective(users),
         async \in Asyncs, async' = async,
         Levels \subseteq Nat /\ ~owed => InOrder(users, score),
         async /\ ~asked => OnlyFirst(users, score),
         NEW persons \in Selections[async], NEW changed,
         ~changed => userRows = Len(PermanentUsers(users)),
         Refresh(users, persons, changed)
  PROVE  /\ ListOK' /\ ScoresOK' /\ SourceOK' /\ TablesOK' /\ TablesSettled'
         /\ RankedUnlessNegative' /\ ImportOK'
         /\ \A x \in ToSet(users) : ~IsFromAddressBook(x) => x \in ToSet(theUsers')
<1> DEFINE kept == Without(users, UsersFromAddressBook(users))
           new == ImportABUsers(persons)
           scores == [x \in Personae |-> IF IsFromAddressBook(x) THEN 0 ELSE score[x]]
<1>1. /\ CalculateUserScores(kept \o new, scores, changed \/ new # <<>>)
      /\ imported' = persons
      /\ timer' = (timer \/ ~raised')
  BY DEF Refresh
<1>2. persons \in Seq(People) /\ Len(persons) <= MaxCopies
  BY UserFactoryAssumption
<1>3. new \in Seq(Personae) /\ IsInjective(new) /\ \A x \in ToSet(new) : IsFromAddressBook(x)
  BY <1>2, ImportFacts
<1>4. /\ kept \in Seq(Personae) /\ IsInjective(kept)
      /\ ToSet(kept) = {x \in ToSet(users) : ~IsFromAddressBook(x)}
  <2>1. ToSet(users) \subseteq Personae
    BY ArrayFinite
  <2>2. /\ kept \in Seq(Personae) /\ IsInjective(kept)
        /\ ToSet(kept) = ToSet(users) \cap (Personae \ UsersFromAddressBook(users))
    BY ThoseFacts DEF Without
  <2> HIDE DEF kept
  <2> QED
    BY <2>1, <2>2 DEF UsersFromAddressBook
<1>5. scores \in [Personae -> Levels] /\ score \in [Personae -> Levels]
  BY UserFactoryAssumption DEF ScoresOK
<1>6. /\ Levels \subseteq Nat /\ ~owed => InOrder(kept \o new, scores)
      /\ async /\ ~asked => OnlyFirst(kept \o new, scores)
  <2> DEFINE K == Personae \ UsersFromAddressBook(users)
  <2>1. kept = Those(users, K)
    BY DEF Without
  <2>2. ToSet(kept) \subseteq Personae /\ ToSet(new) \subseteq Personae
    BY <1>3, <1>4, ArrayFinite
  <2>3. /\ \A x \in ToSet(kept) : scores[x] = score[x]
        /\ \A x \in ToSet(new) : scores[x] = 0
    BY <1>3, <1>4, <2>2
  <2> HIDE DEF kept, new, scores, K
  <2> QED
    BY <1>3, <1>5, <2>1, <2>3, KeptInOrder
<1>7. ~(changed \/ new # <<>>) => userRows = Len(PermanentUsers(kept \o new))
  <2> SUFFICES ASSUME ~changed, new = <<>> PROVE userRows = Len(PermanentUsers(kept \o new))
    OBVIOUS
  <2> DEFINE perm == {x \in Personae : IsPermanent(x)}
  <2>1. kept \o new = kept
    BY <1>4
  <2> HIDE DEF kept, new
  <2>2. /\ Those(users, perm) \in Seq(Personae) /\ IsInjective(Those(users, perm))
        /\ ToSet(Those(users, perm)) = ToSet(users) \cap perm
    BY ThoseFacts
  <2>3. /\ Those(kept, perm) \in Seq(Personae) /\ IsInjective(Those(kept, perm))
        /\ ToSet(Those(kept, perm)) = ToSet(kept) \cap perm
    BY <1>4, ThoseFacts
  <2>4. ToSet(kept) \cap perm = ToSet(users) \cap perm
    BY <1>4, PersonaeTyped
  <2> HIDE DEF perm
  <2>5. Len(Those(kept, perm)) = Len(Those(users, perm))
    BY <2>2, <2>3, <2>4, SameLength
  <2> QED
    BY <2>1, <2>5 DEF PermanentUsers, perm
<1>8. timer' \in BOOLEAN
  BY <1>1
<1> HIDE DEF kept, new, scores
<1>9. /\ kept \o new \in Seq(Personae) /\ IsInjective(kept \o new)
      /\ ToSet(kept \o new) = ToSet(kept) \cup ToSet(new)
  <2>1. ToSet(kept) \cap ToSet(new) = {}
    BY <1>3, <1>4
  <2> QED
    BY <1>3, <1>4, <2>1, Joined
<1>10. /\ ListOK' /\ ScoresOK' /\ SourceOK' /\ TablesOK' /\ TablesSettled'
       /\ RankedUnlessNegative'
       /\ ToSet(theUsers') = ToSet(kept \o new)
  BY <1>1, <1>5, <1>6, <1>7, <1>8, <1>9, Calculated
<1>11. ImportOK'
  <2>1. {x \in ToSet(theUsers') : IsFromAddressBook(x)} = ToSet(new)
    BY <1>3, <1>4, <1>9, <1>10
  <2> QED
    BY <1>1, <2>1 DEF ImportOK, new
<1> QED
  BY <1>4, <1>9, <1>10, <1>11

-----------------------------------------------------------------------------
(* Every action preserves it, and loses no persona but the one removed.      *)

Kept ==
  \A x \in ToSet(theUsers) :
    ~IsFromAddressBook(x) => x \in ToSet(theUsers') \/ effect' = [kind |-> "removed", on |-> x]

\* The list of permanent personae, which the rows of theUserTable show.
LEMMA PermanentFacts ==
  ASSUME NEW users \in Seq(Personae)
  PROVE  /\ PermanentUsers(users) \in Seq(Personae)
         /\ \A r \in DOMAIN PermanentUsers(users) :
              /\ PermanentUsers(users)[r] \in Personae /\ IsPermanent(PermanentUsers(users)[r])
              /\ PermanentUsers(users)[r] \in ToSet(users)
<1> DEFINE t == PermanentUsers(users)
<1>1. t \in Seq(Personae) /\ ToSet(t) = ToSet(users) \cap {x \in Personae : IsPermanent(x)}
  BY ThoseFacts DEF PermanentUsers
<1> HIDE DEF t
<1>2. \A r \in DOMAIN t : t[r] \in ToSet(t)
  BY DEF ToSet
<1> QED
  BY <1>1, <1>2 DEF t

\* What a step changes neither in the list nor in scores and tables, it preserves.
LEMMA Unmoved ==
  ASSUME IInv, async' = async, UNCHANGED <<theUsers, scoring, userRows, displayRows, imported>>
  PROVE  /\ ListOK' /\ ScoresOK' /\ SourceOK' /\ TablesSettled' /\ RankedUnlessNegative'
         /\ ImportOK' /\ Kept
<1>1. UNCHANGED <<theTasks, theUsersRetained, owed, asked, stray, timer, raised, score>>
  BY DEF scoring, source
<1> QED
  BY <1>1 DEF IInv, ListOK, ScoresOK, SourceOK, OnlyFirst, TablesSettled, FlagsOK,
              RankedUnlessNegative, Ranked, ImportOK, Kept

\* awakeFromNib: what was loaded, then a refresh.
LEMMA StepAwakeFromNib ==
  ASSUME IInv, async' = async, NEW loaded \in Loadable[async], NEW persons \in Selections[async],
         AwakeFromNib(loaded, persons)
  PROVE  IInv' /\ Kept
<1>1. loaded \in Seq(Personae) /\ IsInjective(loaded)
  <2>1. PICK n \in 0..MaxUsers[async] :
          loaded \in [1..n -> {x \in Personae : ~IsFromAddressBook(x)}]
    BY DEF IInv, Loadable
  <2>2. n \in Nat
    BY UserFactoryAssumption DEF IInv
  <2>3. \A i, j \in DOMAIN loaded : loaded[i].of = loaded[j].of => i = j
    BY DEF IInv, Loadable
  <2>4. loaded \in Seq(Personae)
    BY <2>1, <2>2
  <2> QED
    BY <2>3, <2>4 DEF IsInjective
<1>2. /\ awake' = TRUE /\ ~awake
      /\ Refresh(loaded, persons, loaded # <<>>)
      /\ effect' = NoEffect /\ UNCHANGED dialog
  BY DEF AwakeFromNib
<1>3. /\ ListOK' /\ ScoresOK' /\ SourceOK' /\ TablesOK' /\ TablesSettled'
      /\ RankedUnlessNegative' /\ ImportOK'
  <2>1. score = [x \in Personae |-> 0] /\ theUsers = <<>>
    BY <1>2 DEF IInv, Asleep
  <2>2. \A i \in DOMAIN loaded : score[loaded[i]] = 0
    BY <1>1, <2>1
  <2>3. InOrder(loaded, score) /\ OnlyFirst(loaded, score)
    BY <2>2 DEF InOrder, OnlyFirst
  <2>4. ~(loaded # <<>>) => userRows = Len(PermanentUsers(loaded))
    BY <2>1 DEF IInv, TablesSettled
  <2> QED
    BY <1>1, <1>2, <2>3, <2>4, Refreshed DEF IInv
<1>4. DialogOK' /\ EffectOK' /\ Asleep'
  BY <1>2 DEF IInv, DialogOK, EffectOK, SaveGoesToShown, NoEffect, Asleep, dialog, scoring, source
<1>5. Kept
  BY <1>2 DEF IInv, Asleep, Kept, ToSet
<1> QED
  BY <1>2, <1>3, <1>4, <1>5 DEF IInv

\* refreshUsers: replaces the imported personae and scores all.
LEMMA StepRefreshUsers ==
  ASSUME IInv, async' = async, NEW persons \in Selections[async], RefreshUsers(persons)
  PROVE  IInv' /\ Kept
<1>1. /\ awake /\ awake' = awake
      /\ Refresh(theUsers, persons, FALSE)
      /\ effect' = NoEffect /\ UNCHANGED dialog
  BY DEF RefreshUsers
<1>2. /\ ListOK' /\ ScoresOK' /\ SourceOK' /\ TablesOK' /\ TablesSettled'
      /\ RankedUnlessNegative' /\ ImportOK'
      /\ \A x \in ToSet(theUsers) : ~IsFromAddressBook(x) => x \in ToSet(theUsers')
  <2>1. /\ Levels \subseteq Nat /\ ~owed => InOrder(theUsers, score)
        /\ async /\ ~asked => OnlyFirst(theUsers, score)
        /\ userRows = Len(PermanentUsers(theUsers))
    BY DEF IInv, RankedUnlessNegative, Ranked, InOrder, SourceOK, TablesSettled
  <2> QED
    BY <1>1, <2>1, Refreshed DEF IInv, ListOK
<1>3. DialogOK' /\ EffectOK' /\ Asleep'
  BY <1>1 DEF IInv, DialogOK, EffectOK, SaveGoesToShown, NoEffect, Asleep, dialog, scoring, source
<1> QED
  BY <1>1, <1>2, <1>3 DEF IInv, Kept

\* calculateUserScoresTimer: scores all again.
LEMMA StepTimer ==
  ASSUME IInv, async' = async, CalculateUserScoresTimer
  PROVE  IInv' /\ Kept
<1>1. /\ awake' = awake /\ imported' = imported
      /\ CalculateUserScores(theUsers, score, FALSE)
      /\ timer' \in {TRUE, ~raised'}
      /\ effect' = NoEffect /\ UNCHANGED dialog
      /\ timer
  BY DEF CalculateUserScoresTimer
<1>2. /\ ListOK' /\ ScoresOK' /\ SourceOK' /\ TablesOK' /\ TablesSettled'
      /\ RankedUnlessNegative'
      /\ ToSet(theUsers') = ToSet(theUsers)
  <2>1. /\ Levels \subseteq Nat /\ ~owed => InOrder(theUsers, score)
        /\ async /\ ~asked => OnlyFirst(theUsers, score)
        /\ userRows = Len(PermanentUsers(theUsers))
    BY DEF IInv, RankedUnlessNegative, Ranked, InOrder, SourceOK, TablesSettled
  <2>2. timer' \in BOOLEAN
    BY <1>1
  <2> QED
    BY <1>1, <2>1, <2>2, Calculated DEF IInv, ListOK, ScoresOK
<1>3. DialogOK' /\ EffectOK' /\ Asleep' /\ ImportOK'
  BY <1>1, <1>2
  DEF IInv, DialogOK, EffectOK, SaveGoesToShown, NoEffect, Asleep, dialog, ImportOK
<1> QED
  BY <1>1, <1>2, <1>3 DEF IInv, Kept

\* The caller is informed: it sorts the list and tells the tables.  If there is no
\* caller, they stay as they are.
LEMMA Informed ==
  ASSUME IInv, async' = async, async, score' \in [Personae -> Levels],
         UNCHANGED <<asked, stray, timer, raised, imported>>, InformCaller,
         ~asked => OnlyFirst(theUsers, score')
  PROVE  /\ ListOK' /\ ScoresOK' /\ SourceOK' /\ TablesOK' /\ TablesSettled'
         /\ RankedUnlessNegative' /\ ImportOK' /\ Kept
<1>1. theTasks' = <<>> /\ theUsersRetained' = <<>> /\ owed' = FALSE
  BY DEF InformCaller
<1>2. ScoresOK'
  <2>1. FlagsOK'
    BY <1>1, Zenon DEF IInv, ScoresOK, FlagsOK
  <2> QED
    BY <1>1, <2>1 DEF ScoresOK
<1>3. CASE asked
  <2>1. theUsers' \in Sorted(theUsers, score') /\ HasChanged(theUsers')
    BY <1>3 DEF InformCaller, ReorderUsers
  <2>2. /\ theUsers' \in Seq(Personae) /\ IsInjective(theUsers')
        /\ ToSet(theUsers') = ToSet(theUsers)
        /\ \A i, j \in DOMAIN theUsers' : i < j => score'[theUsers'[i]] >= score'[theUsers'[j]]
    BY <2>1, SortedFacts DEF IInv, ListOK
  <2>3. TablesOK' /\ userRows' = Len(PermanentUsers(theUsers')) /\ displayRows' = Len(theUsers')
    BY <2>1, <2>2, ChangedTables DEF IInv
  <2>4. ListOK' /\ SourceOK' /\ TablesSettled' /\ RankedUnlessNegative'
    BY <1>1, <1>3, <2>2, <2>3
    DEF ListOK, SourceOK, TablesSettled, RankedUnlessNegative, Ranked
  <2>5. ImportOK' /\ Kept
    BY <2>2 DEF IInv, ImportOK, Kept
  <2> QED
    BY <1>2, <2>3, <2>4, <2>5
<1>4. CASE ~asked
  <2>1. theUsers' = theUsers /\ UNCHANGED <<userRows, displayRows, selectedRow, picked>>
    BY <1>4 DEF InformCaller, tables
  <2>2. ListOK' /\ TablesOK' /\ ImportOK' /\ Kept
    BY <2>1 DEF IInv, ListOK, TablesOK, ImportOK, Kept
  <2>3. TablesSettled'
    BY <1>4, <2>1 DEF IInv, SourceOK, TablesSettled
  <2>4. SourceOK'
    BY <1>1, <1>4, <2>1 DEF IInv, SourceOK
  <2>5. RankedUnlessNegative'
    <3> SUFFICES ASSUME Levels \subseteq Nat, NEW i \in DOMAIN theUsers, NEW j \in DOMAIN theUsers,
                        i < j
                 PROVE  score'[theUsers[i]] >= score'[theUsers[j]]
      BY <2>1 DEF RankedUnlessNegative, Ranked
    <3>1. theUsers[i] \in Personae /\ i \in Nat \ {0} /\ j \in Nat
      BY DEF IInv, ListOK
    <3>2. score'[theUsers[j]] = 0
      BY <1>4, <3>1 DEF OnlyFirst
    <3>3. score'[theUsers[i]] \in Nat
      BY <3>1
    <3> QED
      BY <3>2, <3>3
  <2> QED
    BY <1>2, <2>2, <2>3, <2>4, <2>5
<1> QED
  BY <1>3, <1>4 DEF IInv, ScoresOK

\* A score arrives; the last one of a round informs.
LEMMA StepScoreArrives ==
  ASSUME IInv, async' = async, NEW i \in DOMAIN theTasks, NEW level \in Levels,
         ScoreArrives(i, level)
  PROVE  IInv' /\ Kept
<1> DEFINE x == theUsersRetained[i]
           last == \A k \in DOMAIN theTasks : k = i \/ theTasks[k] = "ended"
<1>1. /\ i \in DOMAIN theUsersRetained /\ awake' = awake
      /\ UNCHANGED <<asked, stray, timer, raised, imported>>
      /\ score' = [score EXCEPT ![x] = IF x \in ToSet(theUsers) THEN level ELSE 0]
      /\ IF last THEN InformCaller
                 ELSE /\ theTasks' = [theTasks EXCEPT ![i] = "ended"]
                      /\ UNCHANGED <<theUsersRetained, owed, theUsers, tables>>
      /\ effect' = NoEffect /\ UNCHANGED dialog
  BY DEF ScoreArrives, SetScore
<1>2. theTasks # <<>>
  OBVIOUS
<1>3. owed /\ asked /\ async /\ awake
  BY <1>2 DEF IInv, SourceOK, Asleep
<1>4. DialogOK' /\ EffectOK' /\ Asleep'
  BY <1>1, <1>3 DEF IInv, DialogOK, EffectOK, SaveGoesToShown, NoEffect, Asleep, dialog, scoring, source
<1>5. score' \in [Personae -> Levels]
  BY <1>1, UserFactoryAssumption DEF IInv, ScoresOK
<1> HIDE DEF last, x
<1>6. CASE last
  <2>1. /\ ListOK' /\ ScoresOK' /\ SourceOK' /\ TablesOK' /\ TablesSettled'
        /\ RankedUnlessNegative' /\ ImportOK' /\ Kept
    BY <1>1, <1>3, <1>5, <1>6, Informed
  <2> QED
    BY <1>1, <1>4, <2>1 DEF IInv
<1>7. CASE ~last
  <2>1. /\ theTasks' = [theTasks EXCEPT ![i] = "ended"]
        /\ UNCHANGED <<theUsersRetained, owed, theUsers, userRows, displayRows, selectedRow, picked>>
    BY <1>1, <1>7 DEF tables
  <2>2. theTasks' \in Seq({"runs", "ended", "lost"})
    BY <2>1 DEF IInv, ScoresOK
  <2>3. ListOK' /\ ScoresOK' /\ TablesOK' /\ ImportOK' /\ Kept
    BY <1>1, <1>5, <2>1, <2>2 DEF IInv, ListOK, ScoresOK, FlagsOK, TablesOK, ImportOK, Kept
  <2>4. TablesSettled' /\ RankedUnlessNegative' /\ SourceOK'
    BY <1>1, <1>3, <2>1 DEF IInv, TablesSettled, RankedUnlessNegative, Ranked, SourceOK
  <2> QED
    BY <1>1, <1>4, <2>3, <2>4 DEF IInv
<1> QED
  BY <1>6, <1>7

\* The end of a process without a place: its entry stays what it was.
LEMMA StepScoreLost ==
  ASSUME IInv, async' = async, NEW i \in DOMAIN theTasks, ScoreLost(i)
  PROVE  IInv' /\ Kept
<1>1. /\ theTasks' = [theTasks EXCEPT ![i] = "lost"] /\ effect' = NoEffect
      /\ UNCHANGED <<awake, theUsers, score, theUsersRetained, owed, asked, stray, timer, raised,
                     tables, dialog, imported>>
  BY DEF ScoreLost
<1>2. theTasks # <<>>
  OBVIOUS
<1>3. owed /\ asked /\ async
  BY <1>2 DEF IInv, SourceOK
<1>4. theTasks' \in Seq({"runs", "ended", "lost"})
  BY <1>1 DEF IInv, ScoresOK, FlagsOK
<1>5. ListOK' /\ ScoresOK' /\ TablesOK' /\ ImportOK' /\ Kept
  BY <1>1, <1>4 DEF IInv, ListOK, ScoresOK, FlagsOK, TablesOK, tables, ImportOK, Kept
<1>6. TablesSettled' /\ RankedUnlessNegative' /\ SourceOK'
  BY <1>1, <1>3 DEF IInv, TablesSettled, tables, RankedUnlessNegative, Ranked, SourceOK
<1>7. DialogOK' /\ EffectOK' /\ Asleep'
  BY <1>1 DEF IInv, DialogOK, EffectOK, SaveGoesToShown, NoEffect, Asleep, dialog, scoring, source
<1> QED
  BY <1>1, <1>5, <1>6, <1>7 DEF IInv

\* A process that is not listed ends while none is listed: it may score the first
\* retained persona, and informs.
LEMMA StepStrayEnds ==
  ASSUME IInv, async' = async, NEW level \in Levels, StrayEnds(level)
  PROVE  IInv' /\ Kept
<1>1. /\ stray /\ ~owed /\ awake' = awake /\ effect' = NoEffect /\ UNCHANGED dialog
      /\ UNCHANGED <<asked, stray, timer, raised, imported>>
      /\ InformCaller
  BY DEF StrayEnds
<1>2. async /\ awake
  BY <1>1 DEF IInv, SourceOK, Asleep
<1>3. score' \in [Personae -> Levels]
  BY UserFactoryAssumption DEF StrayEnds, SetScore, IInv, ScoresOK
<1>4. ASSUME ~asked PROVE OnlyFirst(theUsers, score')
  <2> SUFFICES ASSUME NEW i \in DOMAIN theUsers, i > 1 PROVE score'[theUsers[i]] = 0
    BY DEF OnlyFirst
  <2>1. score[theUsers[i]] = 0 /\ (theUsersRetained # <<>> => theUsers[i] # theUsersRetained[1])
    BY <1>2, <1>4 DEF IInv, SourceOK, OnlyFirst
  <2>2. theUsers[i] \in Personae
    BY DEF IInv, ListOK
  <2> QED
    BY <2>1, <2>2 DEF StrayEnds, SetScore, IInv, ScoresOK
<1>5. /\ ListOK' /\ ScoresOK' /\ SourceOK' /\ TablesOK' /\ TablesSettled'
      /\ RankedUnlessNegative' /\ ImportOK' /\ Kept
  BY <1>1, <1>2, <1>3, <1>4, Informed
<1>6. DialogOK' /\ EffectOK' /\ Asleep'
  BY <1>1, <1>2 DEF IInv, DialogOK, EffectOK, SaveGoesToShown, NoEffect, Asleep, dialog, scoring, source
<1> QED
  BY <1>1, <1>5, <1>6 DEF IInv

\* Personae with the score 0 that were not listed come to the end of the list.
LEMMA Appended ==
  ASSUME IInv, async' = async, UNCHANGED <<source, imported>>,
         NEW new \in Seq(Personae), IsInjective(new),
         \A x \in ToSet(new) : /\ ~IsFromAddressBook(x)
                               /\ x \notin ToSet(theUsers) \cup ToSet(theUsersRetained),
         theUsers' = theUsers \o new,
         score' = [x \in Personae |-> IF x \in ToSet(new) THEN 0 ELSE score[x]],
         \/ HasChanged(theUsers')
         \/ new = <<>> /\ UNCHANGED tables
  PROVE  /\ ListOK' /\ ScoresOK' /\ SourceOK' /\ TablesOK' /\ TablesSettled'
         /\ RankedUnlessNegative' /\ ImportOK' /\ Kept
<1>1. /\ theUsers \in Seq(Personae) /\ IsInjective(theUsers)
      /\ score \in [Personae -> Levels]
  BY DEF IInv, ListOK, ScoresOK
<1>2. /\ theUsers' \in Seq(Personae) /\ IsInjective(theUsers')
      /\ ToSet(theUsers') = ToSet(theUsers) \cup ToSet(new)
  <2>1. ToSet(theUsers) \cap ToSet(new) = {}
    OBVIOUS
  <2> QED
    BY <1>1, <2>1, Joined
<1>3. ListOK' /\ ScoresOK' /\ ImportOK' /\ Kept
  BY <1>1, <1>2, UserFactoryAssumption DEF IInv, ListOK, ScoresOK, FlagsOK, source, ImportOK, Kept
<1>4. TablesOK' /\ TablesSettled'
  <2>1. CASE HasChanged(theUsers')
    <3>1. TablesOK' /\ userRows' = Len(PermanentUsers(theUsers')) /\ displayRows' = Len(theUsers')
      BY <1>2, <2>1, ChangedTables DEF IInv
    <3> QED
      BY <3>1 DEF TablesSettled
  <2>2. CASE new = <<>> /\ UNCHANGED tables
    <3>1. theUsers' = theUsers
      BY <1>1, <2>2
    <3> QED
      BY <2>2, <3>1 DEF IInv, TablesOK, TablesSettled, tables, source
  <2> QED
    BY <2>1, <2>2
<1>5. RankedUnlessNegative'
  <2> SUFFICES ASSUME Levels \subseteq Nat, ~owed,
                      NEW i \in DOMAIN theUsers', NEW j \in DOMAIN theUsers', i < j
               PROVE  score'[theUsers'[i]] >= score'[theUsers'[j]]
    BY DEF RankedUnlessNegative, Ranked, source
  <2>1. /\ Len(theUsers) \in Nat /\ Len(new) \in Nat
        /\ DOMAIN theUsers = 1..Len(theUsers) /\ DOMAIN new = 1..Len(new)
        /\ DOMAIN theUsers' = 1..(Len(theUsers) + Len(new))
    BY <1>1
  <2>2. theUsers'[i] \in Personae /\ theUsers'[j] \in Personae
    BY <1>2
  <2>3. score'[theUsers'[i]] \in Nat
    BY <1>3, <2>2 DEF ScoresOK
  <2>4. CASE j \in 1..Len(theUsers)
    <3>1. i \in 1..Len(theUsers) /\ theUsers'[i] = theUsers[i] /\ theUsers'[j] = theUsers[j]
      BY <1>1, <2>1, <2>4
    <3>2. theUsers[i] \in ToSet(theUsers) /\ theUsers[j] \in ToSet(theUsers)
      BY <2>1, <2>4, <3>1 DEF ToSet
    <3>3. score'[theUsers[i]] = score[theUsers[i]] /\ score'[theUsers[j]] = score[theUsers[j]]
      BY <2>2, <3>1, <3>2
    <3>4. score[theUsers[i]] >= score[theUsers[j]]
      BY <2>1, <2>4, <3>1 DEF IInv, RankedUnlessNegative, Ranked
    <3> QED
      BY <3>1, <3>3, <3>4
  <2>5. CASE j \notin 1..Len(theUsers)
    <3>1. j - Len(theUsers) \in 1..Len(new) /\ theUsers'[j] = new[j - Len(theUsers)]
      BY <1>1, <2>1, <2>5
    <3>2. theUsers'[j] \in ToSet(new)
      BY <2>1, <3>1 DEF ToSet
    <3>3. score'[theUsers'[j]] = 0
      BY <2>2, <3>2
    <3> QED
      BY <2>3, <3>3
  <2> QED
    BY <2>4, <2>5
<1>6. SourceOK'
  <2> SUFFICES ASSUME async, ~asked, NEW i \in DOMAIN theUsers', i > 1
               PROVE  /\ score'[theUsers'[i]] = 0
                      /\ theUsersRetained # <<>> => theUsers'[i] # theUsersRetained[1]
    BY DEF IInv, SourceOK, OnlyFirst, source
  <2>1. /\ Len(theUsers) \in Nat /\ Len(new) \in Nat
        /\ DOMAIN theUsers = 1..Len(theUsers) /\ DOMAIN new = 1..Len(new)
        /\ DOMAIN theUsers' = 1..(Len(theUsers) + Len(new))
    BY <1>1
  <2>2. theUsers'[i] \in Personae
    BY <1>2
  <2>3. CASE i \in 1..Len(theUsers)
    <3>1. theUsers'[i] = theUsers[i] /\ i \in DOMAIN theUsers
      BY <1>1, <2>1, <2>3
    <3>2. /\ score[theUsers[i]] = 0
          /\ theUsersRetained # <<>> => theUsers[i] # theUsersRetained[1]
      BY <3>1 DEF IInv, SourceOK, OnlyFirst
    <3> QED
      BY <2>2, <3>1, <3>2
  <2>4. CASE i \notin 1..Len(theUsers)
    <3>1. i - Len(theUsers) \in 1..Len(new) /\ theUsers'[i] = new[i - Len(theUsers)]
      BY <1>1, <2>1, <2>4
    <3>2. theUsers'[i] \in ToSet(new)
      BY <2>1, <3>1 DEF ToSet
    <3>3. theUsersRetained # <<>> => theUsersRetained[1] \in ToSet(theUsersRetained)
      BY DEF IInv, ScoresOK, ToSet
    <3> QED
      BY <2>2, <3>2, <3>3
  <2> QED
    BY <2>3, <2>4
<1> QED
  BY <1>3, <1>4, <1>5, <1>6

\* importAllUsersFromAddressBook: appends new permanent personae.
LEMMA StepImportAll ==
  ASSUME IInv, async' = async, NEW ids \in IdArrays, ImportAllUsersFromAddressBook(ids)
  PROVE  IInv' /\ Kept
<1> DEFINE new == [i \in DOMAIN ids |-> Permanent(ids[i])]
<1>1. PICK n \in Nat : ids \in [1..n -> Ids] /\ IsInjective(ids)
  <2>1. IsFiniteSet(People \ Nameless)
    BY UserFactoryAssumption, FS_Difference
  <2> QED
    BY <2>1, FS_CardinalityType DEF IdArrays
<1>2. /\ awake /\ awake' = awake /\ UNCHANGED <<source, dialog, imported>>
      /\ \A i \in DOMAIN new : IsNew(new[i])
      /\ theUsers' = theUsers \o new
      /\ score' = [x \in Personae |-> IF x \in ToSet(new) THEN 0 ELSE score[x]]
      /\ HasChanged(theUsers') \/ (new = <<>> /\ UNCHANGED tables)
      /\ effect' = NoEffect
  BY DEF ImportAllUsersFromAddressBook
<1>3. \A i \in 1..n : /\ ids[i] \in Ids /\ new[i] = Permanent(ids[i])
                      /\ new[i] \in Personae /\ ~IsFromAddressBook(new[i])
  BY <1>1, PersonaeTyped
<1>4. new \in Seq(Personae) /\ DOMAIN new = 1..n
  BY <1>1, <1>3
<1> HIDE DEF new
<1>5. IsInjective(new)
  BY <1>1, <1>3, <1>4 DEF IsInjective, Permanent
<1>6. \A x \in ToSet(new) : /\ ~IsFromAddressBook(x)
                            /\ x \notin ToSet(theUsers) \cup ToSet(theUsersRetained)
  BY <1>2, <1>3, <1>4 DEF ToSet, IsNew
<1>7. /\ ListOK' /\ ScoresOK' /\ SourceOK' /\ TablesOK' /\ TablesSettled'
      /\ RankedUnlessNegative' /\ ImportOK' /\ Kept
  BY <1>2, <1>4, <1>5, <1>6, Appended
<1>8. DialogOK' /\ EffectOK' /\ Asleep'
  BY <1>2 DEF IInv, DialogOK, EffectOK, SaveGoesToShown, NoEffect, Asleep, dialog, scoring, source
<1> QED
  BY <1>2, <1>7, <1>8 DEF IInv

\* tableViewSelectionDidChange: only changes what is selected.
LEMMA StepSelectRow ==
  ASSUME IInv, async' = async, NEW r \in 0..userRows, SelectRow(r)
  PROVE  IInv' /\ Kept
<1>1. /\ awake /\ awake' = awake /\ effect' = NoEffect
      /\ UNCHANGED <<theUsers, scoring, userRows, displayRows, dialog, imported>>
      /\ selectedRow' = r
      /\ picked' = IF r \in DOMAIN PermanentUsers(theUsers)
                   THEN PermanentUsers(theUsers)[r] ELSE Nobody
  BY DEF SelectRow
<1>2. /\ ListOK' /\ ScoresOK' /\ SourceOK' /\ TablesSettled' /\ RankedUnlessNegative'
      /\ ImportOK' /\ Kept
  BY <1>1, Unmoved
<1>3. picked' \in Personae \cup {Nobody}
  BY <1>1, PermanentFacts DEF IInv, ListOK
<1>4. TablesOK' /\ DialogOK' /\ EffectOK' /\ Asleep'
  BY <1>1, <1>3
  DEF IInv, TablesOK, DialogOK, EffectOK, SaveGoesToShown, NoEffect, Asleep, dialog, scoring, source
<1> QED
  BY <1>1, <1>2, <1>4 DEF IInv

\* addUserByInterface: opens an empty panel.
LEMMA StepAddUserByInterface ==
  ASSUME IInv, async' = async, AddUserByInterface
  PROVE  IInv' /\ Kept
<1>1. /\ awake /\ awake' = awake /\ effect' = NoEffect
      /\ UNCHANGED <<theUsers, scoring, tables, theUserToEdit, imported>>
      /\ panel' = "add" /\ shown' = Nobody
  BY DEF AddUserByInterface
<1>2. /\ ListOK' /\ ScoresOK' /\ SourceOK' /\ TablesSettled' /\ RankedUnlessNegative'
      /\ ImportOK' /\ Kept
  BY <1>1, Unmoved DEF tables
<1>3. TablesOK' /\ DialogOK' /\ EffectOK' /\ Asleep'
  BY <1>1 DEF IInv, TablesOK, tables, DialogOK, EffectOK, SaveGoesToShown, NoEffect, Asleep, scoring, source
<1> QED
  BY <1>1, <1>2, <1>3 DEF IInv

\* editUserByInterface: shows the permanent persona of the selected row.
LEMMA StepEditUserByInterface ==
  ASSUME IInv, async' = async, EditUserByInterface
  PROVE  IInv' /\ Kept
<1>1. /\ awake /\ awake' = awake /\ effect' = NoEffect
      /\ UNCHANGED <<theUsers, scoring, tables, imported>>
      /\ selectedRow \in DOMAIN PermanentUsers(theUsers)
      /\ theUserToEdit' = PermanentUsers(theUsers)[selectedRow]
      /\ panel' = "edit" /\ shown' = theUserToEdit'
  BY DEF EditUserByInterface
<1>2. /\ ListOK' /\ ScoresOK' /\ SourceOK' /\ TablesSettled' /\ RankedUnlessNegative'
      /\ ImportOK' /\ Kept
  BY <1>1, Unmoved DEF tables
<1>3. shown' \in Personae /\ IsPermanent(shown')
  BY <1>1, PermanentFacts DEF IInv, ListOK
<1>4. TablesOK' /\ DialogOK' /\ EffectOK' /\ Asleep'
  BY <1>1, <1>3
  DEF IInv, TablesOK, tables, DialogOK, EffectOK, SaveGoesToShown, NoEffect, Asleep, scoring, source
<1> QED
  BY <1>1, <1>2, <1>4 DEF IInv

\* Cancel closes the panel and writes nothing.
LEMMA StepCancelPanel ==
  ASSUME IInv, async' = async, CancelPanel
  PROVE  IInv' /\ Kept
<1>1. /\ awake' = awake /\ effect' = NoEffect /\ panel' = "closed"
      /\ UNCHANGED <<theUsers, scoring, tables, theUserToEdit, shown, imported>>
  BY DEF CancelPanel
<1>2. /\ ListOK' /\ ScoresOK' /\ SourceOK' /\ TablesSettled' /\ RankedUnlessNegative'
      /\ ImportOK' /\ Kept
  BY <1>1, Unmoved DEF tables
<1>3. TablesOK' /\ DialogOK' /\ EffectOK' /\ Asleep'
  BY <1>1
  DEF IInv, TablesOK, tables, DialogOK, EffectOK, SaveGoesToShown, NoEffect, Asleep, scoring, source
<1> QED
  BY <1>1, <1>2, <1>3 DEF IInv

\* Saving the panel of an edited persona writes to that one.
LEMMA StepSaveEdited ==
  ASSUME IInv, async' = async, NEW apply \in BOOLEAN, SaveEdited(apply)
  PROVE  IInv' /\ Kept
<1>1. /\ panel = "edit" /\ awake' = awake /\ effect' = [kind |-> "wrote", on |-> theUserToEdit]
      /\ HasChanged(theUsers)
      /\ panel' \in {"edit", "closed"}
      /\ UNCHANGED <<theUsers, scoring, theUserToEdit, shown, imported>>
  BY DEF SaveEdited
<1>2. TablesOK' /\ userRows' = Len(PermanentUsers(theUsers)) /\ displayRows' = Len(theUsers)
  BY <1>1, ChangedTables DEF IInv, ListOK
<1>3. ListOK' /\ ScoresOK' /\ SourceOK' /\ RankedUnlessNegative' /\ ImportOK' /\ Kept
  BY <1>1
  DEF IInv, ListOK, ScoresOK, FlagsOK, SourceOK, OnlyFirst, RankedUnlessNegative, Ranked, ImportOK, Kept,
      scoring, source
<1>4. TablesSettled'
  BY <1>1, <1>2 DEF TablesSettled
<1>5. DialogOK' /\ EffectOK' /\ Asleep'
  BY <1>1 DEF IInv, DialogOK, EffectOK, SaveGoesToShown, Asleep, scoring, source
<1> QED
  BY <1>1, <1>2, <1>3, <1>4, <1>5 DEF IInv

\* Saving the panel of a new persona appends it to the list.
LEMMA StepSaveAdded ==
  ASSUME IInv, async' = async, NEW p \in Ids, NEW apply \in BOOLEAN, SaveAdded(p, apply)
  PROVE  IInv' /\ Kept
<1> DEFINE x == Permanent(p)
<1>1. /\ panel = "add" /\ awake' = awake /\ imported' = imported
      /\ IsNew(x) /\ AddUser(x)
      /\ theUserToEdit' = x /\ shown' = x
      /\ panel' \in {"edit", "closed"}
      /\ effect' = [kind |-> "wrote", on |-> x]
  BY DEF SaveAdded
<1>2. x \in Personae /\ IsPermanent(x) /\ ~IsFromAddressBook(x)
  BY PersonaeTyped
<1> HIDE DEF x
<1>3. /\ theUsers' = theUsers \o <<x>>
      /\ HasChanged(theUsers') /\ UNCHANGED source
  BY <1>1, <1>2 DEF AddUser, IInv, ListOK
<1>4. <<x>> \in Seq(Personae) /\ IsInjective(<<x>>) /\ ToSet(<<x>>) = {x}
  BY <1>2 DEF IsInjective, ToSet
<1>5. score' = [y \in Personae |-> IF y \in ToSet(<<x>>) THEN 0 ELSE score[y]]
  BY <1>1, <1>2, <1>4 DEF AddUser, IInv, ScoresOK
<1>6. x \notin ToSet(theUsers) \cup ToSet(theUsersRetained)
  BY <1>1 DEF IsNew
<1>7. /\ ListOK' /\ ScoresOK' /\ SourceOK' /\ TablesOK' /\ TablesSettled'
      /\ RankedUnlessNegative' /\ ImportOK' /\ Kept
  BY <1>1, <1>2, <1>3, <1>4, <1>5, <1>6, Appended
<1>8. DialogOK' /\ EffectOK' /\ Asleep'
  BY <1>1, <1>2 DEF IInv, DialogOK, EffectOK, SaveGoesToShown, Asleep, scoring, source
<1> QED
  BY <1>1, <1>7, <1>8 DEF IInv

\* removeUserByInterface: takes the permanent persona of the selected row.
LEMMA StepRemoveUser ==
  ASSUME IInv, async' = async, RemoveUserByInterface
  PROVE  IInv' /\ Kept
<1> DEFINE gone == PermanentUsers(theUsers)[selectedRow]
           left == Without(theUsers, {gone})
<1>1. /\ awake /\ awake' = awake /\ UNCHANGED <<source, dialog, imported>>
      /\ selectedRow \in DOMAIN PermanentUsers(theUsers)
      /\ theUsers' = left
      /\ userRows' = Len(PermanentUsers(left)) /\ displayRows' = Len(left)
      /\ selectedRow' = IF selectedRow <= userRows' THEN selectedRow ELSE 0
      /\ picked' = IF selectedRow' = 0 THEN Nobody ELSE PermanentUsers(left)[selectedRow']
      /\ effect' = [kind |-> "removed", on |-> gone]
      /\ score' = [score EXCEPT ![gone] = 0]
  BY DEF RemoveUserByInterface
<1>2. theUsers \in Seq(Personae) /\ IsInjective(theUsers) /\ score \in [Personae -> Levels]
  BY DEF IInv, ListOK, ScoresOK
<1>3. gone \in Personae /\ IsPermanent(gone) /\ ~IsFromAddressBook(gone)
  BY <1>1, <1>2, PermanentFacts, PersonaeTyped
<1> HIDE DEF gone
<1>4. /\ left \in Seq(Personae) /\ IsInjective(left)
      /\ ToSet(left) = ToSet(theUsers) \ {gone}
  <2>1. /\ left \in Seq(Personae) /\ IsInjective(left)
        /\ ToSet(left) = ToSet(theUsers) \cap (Personae \ {gone})
    BY <1>2, ThoseFacts DEF Without
  <2>2. ToSet(theUsers) \subseteq Personae
    BY <1>2, ArrayFinite
  <2> HIDE DEF left
  <2> QED
    BY <2>1, <2>2
<1>5. PICK f \in [DOMAIN left -> DOMAIN theUsers] :
        /\ \A k, l \in DOMAIN left : k < l => f[k] < f[l]
        /\ \A k \in DOMAIN left : left[k] = theUsers[f[k]]
  <2> DEFINE K == Personae \ {gone}
  <2>1. left = Those(theUsers, K)
    BY DEF Without
  <2> HIDE DEF left, K
  <2>2. \E f \in [DOMAIN Those(theUsers, K) -> DOMAIN theUsers] :
          /\ \A k, l \in DOMAIN Those(theUsers, K) : k < l => f[k] < f[l]
          /\ \A k \in DOMAIN Those(theUsers, K) : Those(theUsers, K)[k] = theUsers[f[k]]
    BY <1>2, ThoseFacts
  <2> QED
    BY <2>1, <2>2
<1> HIDE DEF left
<1>6. ListOK' /\ ScoresOK'
  BY <1>1, <1>2, <1>4, UserFactoryAssumption DEF IInv, ListOK, ScoresOK, FlagsOK, source
<1>7. TablesOK' /\ TablesSettled'
  <2>1. Len(PermanentUsers(left)) \in Nat /\ Len(left) \in Nat
    BY <1>4, PermanentFacts
  <2>2. selectedRow \in Nat
    BY DEF IInv, TablesOK
  <2>3. selectedRow' \in 0..userRows'
    BY <1>1, <2>1, <2>2
  <2>4. picked' \in Personae \cup {Nobody}
    <3>1. CASE selectedRow' = 0
      BY <1>1, <3>1
    <3>2. CASE selectedRow' # 0
      <4>1. selectedRow' \in DOMAIN PermanentUsers(left)
        BY <1>1, <1>4, <2>1, <2>3, <3>2, PermanentFacts
      <4> QED
        BY <1>1, <1>4, <3>2, <4>1, PermanentFacts
    <3> QED
      BY <3>1, <3>2
  <2> QED
    BY <1>1, <2>1, <2>3, <2>4 DEF TablesOK, TablesSettled
<1>8. RankedUnlessNegative'
  <2> SUFFICES ASSUME Levels \subseteq Nat, ~owed,
                      NEW k \in DOMAIN left, NEW l \in DOMAIN left, k < l
               PROVE  score'[left[k]] >= score'[left[l]]
    BY <1>1 DEF RankedUnlessNegative, Ranked, source
  <2>1. left[k] \in ToSet(left) /\ left[l] \in ToSet(left)
    BY DEF ToSet
  <2>2. score'[left[k]] = score[left[k]] /\ score'[left[l]] = score[left[l]]
    BY <1>1, <1>2, <1>4, <2>1
  <2>3. score[theUsers[f[k]]] >= score[theUsers[f[l]]]
    BY <1>5 DEF IInv, RankedUnlessNegative, Ranked
  <2> QED
    BY <1>5, <2>2, <2>3
<1>9. ImportOK' /\ Kept
  BY <1>1, <1>3, <1>4 DEF IInv, ImportOK, Kept
<1>11. SourceOK'
  <2> SUFFICES ASSUME async, ~asked, NEW k \in DOMAIN left, k > 1
               PROVE  /\ score'[left[k]] = 0
                      /\ theUsersRetained # <<>> => left[k] # theUsersRetained[1]
    BY <1>1 DEF IInv, SourceOK, OnlyFirst, source
  <2>1. 1 \in DOMAIN left /\ DOMAIN theUsers \subseteq Nat \ {0}
    BY <1>2, <1>4
  <2>2. f[1] \in DOMAIN theUsers /\ f[k] \in DOMAIN theUsers /\ f[1] < f[k]
    BY <1>5, <2>1
  <2>3. f[k] > 1
    BY <2>1, <2>2
  <2>4. score[left[k]] = 0 /\ (theUsersRetained # <<>> => left[k] # theUsersRetained[1])
    BY <1>5, <2>2, <2>3 DEF IInv, SourceOK, OnlyFirst
  <2>5. left[k] \in ToSet(left)
    BY DEF ToSet
  <2> QED
    BY <1>1, <1>2, <1>4, <2>4, <2>5
<1>10. DialogOK' /\ EffectOK' /\ Asleep'
  BY <1>1, <1>3 DEF IInv, DialogOK, EffectOK, SaveGoesToShown, Asleep, dialog, source
<1> QED
  BY <1>1, <1>6, <1>7, <1>8, <1>9, <1>10, <1>11 DEF IInv

\* Each action in turn, and a stutter.
LEMMA NextIInv ==
  ASSUME IInv, [Next]_vars
  PROVE  IInv' /\ ([Kept]_vars)
<1>1. CASE Next
  <2>1. async' = async /\ Step
    BY <1>1 DEF Next
  <2> QED
    BY <2>1, StepAwakeFromNib, StepRefreshUsers, StepTimer, StepScoreArrives, StepScoreLost,
       StepStrayEnds, StepImportAll,
       StepSelectRow, StepAddUserByInterface, StepEditUserByInterface, StepCancelPanel,
       StepSaveEdited, StepSaveAdded, StepRemoveUser DEF Step
<1>2. CASE UNCHANGED vars
  <2>1. UNCHANGED <<theUsers, scoring, tables, dialog, imported, awake, async, effect>>
    BY <1>2 DEF vars, scoring, source, tables, dialog
  <2>2. ListOK' /\ ScoresOK' /\ SourceOK' /\ TablesSettled' /\ RankedUnlessNegative' /\ ImportOK'
    BY <2>1, Unmoved DEF tables
  <2>3. TablesOK' /\ DialogOK' /\ EffectOK' /\ Asleep'
    BY <2>1 DEF IInv, TablesOK, DialogOK, EffectOK, SaveGoesToShown, Asleep, tables, dialog, scoring, source
  <2> QED
    BY <1>2, <2>1, <2>2, <2>3 DEF IInv
<1> QED
  BY <1>1, <1>2

-----------------------------------------------------------------------------
(* The theorems.                                                            *)

\* The list, the scores, the tables, the panel and the import agree in every state.
THEOREM ListInvariance == Spec => []IInv
<1>1. Init => IInv
  BY InitIInv
<1>2. IInv /\ [Next]_vars => IInv'
  BY NextIInv
<1> QED
  BY <1>1, <1>2, PTL DEF Spec

\* Every variable keeps its type, and no persona is listed twice.
THEOREM ListTyped == Spec => []TypeOK
<1>1. IInv => TypeOK
  BY DEF IInv, ListOK, ScoresOK, FlagsOK, TablesOK, DialogOK, EffectOK, ImportOK, TypeOK
<1> QED
  BY <1>1, ListInvariance, PTL

\* theUserTable (UserFactory.m, hasChanged) always has as many rows as there are permanent
\* personae, and theDisplayTable as there are personae, unless a round is being scored or
\* an exception of the source has ended the latest one.
THEOREM TablesAlwaysSettled == Spec => []TablesSettled
<1>1. IInv => TablesSettled
  BY DEF IInv
<1> QED
  BY <1>1, ListInvariance, PTL

\* With sources that give no negative scores, the personae are in the order of their
\* scores (reorderUsers) whenever no round is being scored.
THEOREM AlwaysRanked ==
  ASSUME Levels \subseteq Nat
  PROVE  Spec => []Ranked
<1>1. IInv => Ranked
  BY DEF IInv, RankedUnlessNegative
<1> QED
  BY <1>1, ListInvariance, PTL

\* The personae of the address book are those of the latest selection, each as often
\* as it was selected (refreshUsers:, importABUsersFromArray:permanently:).
THEOREM ImportsExact == Spec => []ImportedOnce
<1>1. IInv => ImportedOnce
  <2> SUFFICES ASSUME IInv, NEW a \in People
               PROVE  Cardinality(Listed(theUsers, a)) = Cardinality(Chosen(imported, a))
    BY DEF ImportedOnce, Listed, Chosen
  <2>1. imported \in Seq(People) /\ Len(imported) <= MaxCopies
    <3>1. CASE imported = <<>>
      BY <3>1, UserFactoryAssumption
    <3>2. CASE imported \in Selections[async]
      BY <3>2, UserFactoryAssumption DEF IInv
    <3> QED
      BY <3>1, <3>2 DEF IInv, ImportOK
  <2>2. theUsers \in Seq(Personae) /\ IsInjective(theUsers)
    BY DEF IInv, ListOK
  <2>3. {x \in ToSet(theUsers) : IsFromAddressBook(x)} = ToSet(ImportABUsers(imported))
    BY DEF IInv, ImportOK
  <2> QED
    BY <2>1, <2>2, <2>3, CountImported
<1> QED
  BY <1>1, ListInvariance, PTL

\* saveUserFromPanelInput: writes to the persona the panel shows, a permanent one.
THEOREM PanelWritesToShown == Spec => []SaveGoesToShown
<1>1. IInv => SaveGoesToShown
  BY DEF IInv, EffectOK
<1> QED
  BY <1>1, ListInvariance, PTL

\* Only removeUserByInterface: takes a persona that is not from the address book away.
THEOREM NoPermanentLost == Spec => PermanentsKept
<1>1. IInv /\ [Next]_vars =>
        [\A x \in ToSet(theUsers) :
           ~IsFromAddressBook(x) =>
             x \in ToSet(theUsers') \/ effect' = [kind |-> "removed", on |-> x]]_vars
  BY NextIInv DEF Kept
<1> QED
  BY <1>1, ListInvariance, PTL DEF Spec, PermanentsKept

-----------------------------------------------------------------------------
(* Personae on disk (UserStore), for every set of personae and texts.  The  *)
(* file always holds the dictionaries of the personae of the last save      *)
(* (Stored); no crash or failed save comes between.  `kept` is the list of  *)
(* UserFactory as UserStore sees it.                                        *)

CONSTANT Texts
VARIABLES running, kept, file, saved

Store == INSTANCE UserStore WITH theUsers <- kept

Stored == /\ file = {Store!Dictionary(p) : p \in saved}
          /\ \A p \in saved : p.source

UniqueIn(users) == \A p, q \in users : p.id = q.id => p = q

StoreIInv == Store!TypeOK /\ Stored /\ UniqueIn(kept) /\ UniqueIn(saved)

\* What dictionary and initWithDictionary: make of a persona: the same one if it
\* has an image; without one the source is lost, the identity and the text never.
LEMMA RoundTrip ==
  ASSUME NEW p \in Store!Persona, p.source
  PROVE  /\ Store!FromDictionary(Store!Dictionary(p)) \in Store!Persona
         /\ Store!Dictionary(p) \in Store!Record
         /\ Store!FromDictionary(Store!Dictionary(p)).id = p.id
         /\ Store!FromDictionary(Store!Dictionary(p)).text = p.text
         /\ Store!FromDictionary(Store!Dictionary(p)).source = p.image
         /\ p.image => Store!FromDictionary(Store!Dictionary(p)) = p
<1>1. Store!Dictionary(p) \in Store!Record
  BY DEF Store!Dictionary, Store!Record, Store!Persona
<1>2. CASE p.image
  BY <1>1, <1>2 DEF Store!FromDictionary, Store!Dictionary, Store!Persona
<1>3. CASE ~p.image
  BY <1>1, <1>3 DEF Store!FromDictionary, Store!Dictionary, Store!Persona
<1> QED
  BY <1>1, <1>2, <1>3 DEF Store!Persona

\* What a launch lists is what dictionary and initWithDictionary: make of the
\* personae of the last save.
LEMMA Loaded ==
  ASSUME StoreIInv, Store!Launch
  PROVE  kept' = {Store!FromDictionary(Store!Dictionary(p)) : p \in saved}
BY DEF StoreIInv, Stored, Store!Launch

\* Nothing is saved at first.
LEMMA StoreInitIInv == Store!Init => StoreIInv
BY DEF Store!Init, StoreIInv, Store!TypeOK, Stored, UniqueIn

\* A launch lists what the last save put in the file.
LEMMA LaunchIInv == ASSUME StoreIInv, Store!Launch PROVE StoreIInv'
<1>1. UNCHANGED <<file, saved>> /\ running'
  BY DEF Store!Launch
<1>2. \A p \in saved : p \in Store!Persona /\ p.source
  BY DEF StoreIInv, Store!TypeOK, Stored
<1>3. Store!TypeOK'
  BY <1>1, <1>2, Loaded, RoundTrip DEF StoreIInv, Store!TypeOK
<1>4. UniqueIn(kept')
  <2> SUFFICES ASSUME NEW x \in kept', NEW y \in kept', x.id = y.id
               PROVE  x = y
    BY DEF UniqueIn
  <2>1. PICK p \in saved : x = Store!FromDictionary(Store!Dictionary(p))
    BY Loaded
  <2>2. PICK q \in saved : y = Store!FromDictionary(Store!Dictionary(q))
    BY Loaded
  <2>3. p.id = q.id
    BY <1>2, <2>1, <2>2, RoundTrip
  <2> QED
    BY <2>1, <2>2, <2>3 DEF StoreIInv, UniqueIn
<1> QED
  BY <1>1, <1>3, <1>4 DEF StoreIInv, Stored, UniqueIn

\* A persona that is added has a new identity.
LEMMA AddUserIInv ==
  ASSUME StoreIInv, NEW p \in Store!Persona, Store!AddUser(p)
  PROVE  StoreIInv'
BY DEF StoreIInv, Store!TypeOK, Stored, UniqueIn, Store!AddUser

\* An edited persona keeps its identity.
LEMMA EditUserIInv ==
  ASSUME StoreIInv, NEW p \in kept, NEW text \in Texts, NEW image \in BOOLEAN,
         Store!EditUser(p, text, image)
  PROVE  StoreIInv'
<1> DEFINE new == [p EXCEPT !.text = text, !.image = image]
<1>1. new \in Store!Persona /\ new.id = p.id
  BY DEF StoreIInv, Store!TypeOK, Store!Persona
<1>2. kept' = (kept \ {p}) \cup {new} /\ UNCHANGED <<running, file, saved>>
  BY DEF Store!EditUser
<1>3. UniqueIn(kept')
  BY <1>1, <1>2 DEF StoreIInv, UniqueIn
<1> QED
  BY <1>1, <1>2, <1>3 DEF StoreIInv, Store!TypeOK, Stored, UniqueIn

\* The others stay as they are.
LEMMA RemoveUserIInv == ASSUME StoreIInv, NEW p \in kept, Store!RemoveUser(p) PROVE StoreIInv'
BY DEF StoreIInv, Store!TypeOK, Stored, UniqueIn, Store!RemoveUser

\* Terminating saves the permanent personae, or leaves the file as it was.
LEMMA TerminateIInv ==
  ASSUME StoreIInv, NEW written \in BOOLEAN, Store!Terminate(written)
  PROVE  StoreIInv'
<1>1. kept' = {} /\ running' = FALSE
  BY DEF Store!Terminate
<1>2. CASE written
  <2>1. /\ saved' = Store!PermanentUsers(kept)
        /\ file' = {Store!Dictionary(p) : p \in saved'}
    BY <1>2 DEF Store!Terminate
  <2>2. \A p \in saved' : p \in kept /\ p \in Store!Persona /\ p.source
    BY <2>1 DEF Store!PermanentUsers, StoreIInv, Store!TypeOK
  <2>3. file' \subseteq Store!Record
    BY <2>1, <2>2, RoundTrip
  <2> QED
    BY <1>1, <2>1, <2>2, <2>3 DEF StoreIInv, Store!TypeOK, Stored, UniqueIn
<1>3. CASE ~written
  BY <1>1, <1>3 DEF Store!Terminate, StoreIInv, Store!TypeOK, Stored, UniqueIn
<1> QED
  BY <1>2, <1>3

\* A crash leaves the file as it was.
LEMMA CrashIInv == ASSUME StoreIInv, Store!Crash PROVE StoreIInv'
BY DEF StoreIInv, Store!TypeOK, Stored, UniqueIn, Store!Crash

\* Types, the contents of the file and the uniqueness of personae hold in every
\* state of every behaviour.
THEOREM StoreInvariance == Store!Spec => []StoreIInv
<1>1. ASSUME StoreIInv, [Store!Next]_Store!vars PROVE StoreIInv'
  <2>1. CASE UNCHANGED Store!vars
    BY <1>1, <2>1 DEF StoreIInv, Store!TypeOK, Stored, UniqueIn, Store!vars
  <2> QED
    BY <1>1, <2>1, LaunchIInv, AddUserIInv, EditUserIInv, RemoveUserIInv,
       TerminateIInv, CrashIInv DEF Store!Next
<1> QED
  BY StoreInitIInv, <1>1, PTL DEF Store!Spec

\* No persona is ever listed twice, in any session.
THEOREM StoreOnePerId == Store!Spec => []Store!OnePerId
<1>1. StoreIInv => Store!OnePerId
  BY DEF StoreIInv, UniqueIn, Store!OnePerId
<1> QED
  BY <1>1, StoreInvariance, PTL

\* Only a launch starts the program.
LEMMA LaunchingLaunches == ASSUME [Store!Next]_Store!vars, Store!Launching PROVE Store!Launch
BY DEF Store!Next, Store!vars, Store!Launching, Store!AddUser, Store!EditUser,
   Store!RemoveUser, Store!Terminate, Store!Crash

\* A permanent persona with an image survives every restart after its save,
\* through any number of crashes and failed saves.
THEOREM StoreReloads == Store!Spec => Store!Reloaded
<1> DEFINE Back == Store!Launching => {p \in saved : p.image} \subseteq kept'
<1>1. ASSUME StoreIInv, [Store!Next]_Store!vars, Store!Launching, NEW p \in saved, p.image
      PROVE  p \in kept'
  <2>1. Store!Launch
    BY <1>1, LaunchingLaunches
  <2>2. Store!FromDictionary(Store!Dictionary(p)) = p
    BY <1>1, RoundTrip DEF StoreIInv, Store!TypeOK, Stored
  <2> QED
    BY <1>1, <2>1, <2>2, Loaded
<1>2. StoreIInv /\ [Store!Next]_Store!vars => [Back]_Store!vars
  BY <1>1
<1> QED
  BY <1>2, StoreInvariance, PTL DEF Store!Spec, Store!Reloaded

\* No launch lists anything that was not permanent at the last save, or with
\* another text.
THEOREM StoreNothingReturns == Store!Spec => Store!NothingReturns
<1> DEFINE Back == Store!Launching => \A p \in kept' :
                                   \E q \in saved : q.id = p.id /\ q.text = p.text
<1>1. ASSUME StoreIInv, [Store!Next]_Store!vars, Store!Launching, NEW p \in kept'
      PROVE  \E q \in saved : q.id = p.id /\ q.text = p.text
  <2>1. Store!Launch
    BY <1>1, LaunchingLaunches
  <2>2. PICK q \in saved : p = Store!FromDictionary(Store!Dictionary(q))
    BY <1>1, <2>1, Loaded
  <2>3. q \in Store!Persona /\ q.source
    BY <1>1 DEF StoreIInv, Store!TypeOK, Stored
  <2> QED
    BY <2>2, <2>3, RoundTrip
<1>2. StoreIInv /\ [Store!Next]_Store!vars => [Back]_Store!vars
  BY <1>1
<1> QED
  BY <1>2, StoreInvariance, PTL DEF Store!Spec, Store!NothingReturns
=============================================================================
