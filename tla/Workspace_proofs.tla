-------------------------- MODULE Workspace_proofs --------------------------
(***************************************************************************)
(* Proofs about Workspace, for any cards, attempts, pages and bounds. The  *)
(* card that is shown and the attempt that commands go to are those that   *)
(* are selected because an answer counts only with the number of the last  *)
(* load, and every selection loads; where the code has no such guard, the  *)
(* flags of the invariant say what may have come in. The list of attempts  *)
(* catches up because whatever makes it wrong is on its way to the pane: a *)
(* message, a list, or the answer to a command of its own.                 *)
(***************************************************************************)
EXTENDS Workspace, FiniteSetTheorems, FunctionTheorems, SequenceTheorems, TLAPS

-----------------------------------------------------------------------------
(* Lists: an entry dropped, rows in the order of their ids, a filter. The  *)
(* rank of a member of a finite set of numbers is the number of lesser     *)
(* ones, and ranks are different.                                          *)

(* A list without one of its entries has all the others.                   *)
LEMMA WithoutFacts ==
  ASSUME NEW S, NEW s \in Seq(S), NEW i \in DOMAIN s
  PROVE  /\ Without(s, i) \in Seq(S)
         /\ Len(Without(s, i)) = Len(s) - 1
         /\ \A j \in DOMAIN Without(s, i) : \E k \in DOMAIN s : k # i /\ Without(s, i)[j] = s[k]
         /\ \A k \in DOMAIN s : k # i => \E j \in DOMAIN Without(s, i) : Without(s, i)[j] = s[k]
<1>1. /\ Len(s) \in Nat /\ DOMAIN s = 1 .. Len(s)
      /\ \A j \in 1 .. Len(s) : s[j] \in S
  BY LenProperties
<1>2. i \in 1 .. Len(s) /\ Len(s) - 1 \in Nat
  BY <1>1
<1>3. Without(s, i) \in [1 .. Len(s) - 1 -> S]
  <2>1. \A j \in 1 .. Len(s) - 1 : j \in 1 .. Len(s) /\ j + 1 \in 1 .. Len(s)
    BY <1>1
  <2> QED
    BY <1>1, <2>1 DEF Without
<1>4. Without(s, i) \in Seq(S) /\ Len(Without(s, i)) = Len(s) - 1
  BY <1>2, <1>3
<1>5. ASSUME NEW j \in DOMAIN Without(s, i)
      PROVE  \E k \in DOMAIN s : k # i /\ Without(s, i)[j] = s[k]
  <2>1. j \in 1 .. Len(s) - 1
    BY <1>3
  <2>2. CASE j < i
    BY <1>1, <1>2, <2>1, <2>2 DEF Without
  <2>3. CASE ~(j < i)
    <3>1. j + 1 \in DOMAIN s /\ j + 1 # i /\ Without(s, i)[j] = s[j + 1]
      BY <1>1, <1>2, <2>1, <2>3 DEF Without
    <3> QED
      BY <3>1
  <2> QED
    BY <2>2, <2>3
<1>6. ASSUME NEW k \in DOMAIN s, k # i
      PROVE  \E j \in DOMAIN Without(s, i) : Without(s, i)[j] = s[k]
  <2>1. k \in 1 .. Len(s)
    BY <1>1
  <2>2. CASE k < i
    <3>1. k \in DOMAIN Without(s, i) /\ Without(s, i)[k] = s[k]
      BY <1>2, <1>3, <2>1, <2>2 DEF Without
    <3> QED
      BY <3>1
  <2>3. CASE i < k
    <3>1. k - 1 \in 1 .. Len(s) - 1 /\ ~(k - 1 < i) /\ (k - 1) + 1 = k
      BY <1>2, <2>1, <2>3
    <3>2. k - 1 \in DOMAIN Without(s, i) /\ Without(s, i)[k - 1] = s[k]
      BY <1>3, <3>1 DEF Without
    <3> QED
      BY <3>2
  <2> QED
    BY <1>2, <1>6, <2>1, <2>2, <2>3
<1> QED
  BY <1>4, <1>5, <1>6

(* Its entries come from different places.                                 *)
LEMMA WithoutApart ==
  ASSUME NEW S, NEW s \in Seq(S), NEW i \in DOMAIN s,
         NEW j \in DOMAIN Without(s, i), NEW m \in DOMAIN Without(s, i), j # m
  PROVE  \E k, l \in DOMAIN s :
             k # i /\ l # i /\ k # l /\ Without(s, i)[j] = s[k] /\ Without(s, i)[m] = s[l]
<1> DEFINE At(x) == IF x < i THEN x ELSE x + 1
<1>1. Len(s) \in Nat /\ DOMAIN s = 1 .. Len(s) /\ i \in 1 .. Len(s)
  BY LenProperties
<1>2. j \in 1 .. Len(s) - 1 /\ m \in 1 .. Len(s) - 1
  BY DEF Without
<1>3. At(j) \in 1 .. Len(s) /\ At(m) \in 1 .. Len(s) /\ At(j) # i /\ At(m) # i /\ At(j) # At(m)
  BY <1>1, <1>2
<1>4. Without(s, i)[j] = s[At(j)] /\ Without(s, i)[m] = s[At(m)]
  BY <1>2 DEF Without
<1> QED
  BY <1>1, <1>3, <1>4

(* A greater member has a greater rank.                                    *)
LEMMA RankGrows ==
  ASSUME NEW S, S \subseteq Nat, IsFiniteSet(S), NEW a \in S, NEW c \in S, a < c
  PROVE  Cardinality({b \in S : b < a}) < Cardinality({b \in S : b < c})
<1> DEFINE A == {b \in S : b < a}
           C == {b \in S : b < c}
<1>1. IsFiniteSet(C) /\ Cardinality(C) \in Nat
  BY FS_Subset, FS_CardinalityType
<1>2. A \in SUBSET C /\ a \in C /\ a \notin A
  <2>1. \A b \in S : b < a => b < c
    <3> SUFFICES ASSUME NEW b \in S, b < a PROVE b < c
      OBVIOUS
    <3>1. a \in Nat /\ b \in Nat /\ c \in Nat
      OBVIOUS
    <3> QED
      BY <3>1
  <2>2. a \in Nat /\ ~(a < a)
    OBVIOUS
  <2> QED
    BY <2>1, <2>2
<1>3. Cardinality(A) <= Cardinality(C) /\ (Cardinality(C) = Cardinality(A) => C = A)
  BY <1>1, <1>2, FS_Subset
<1>4. Cardinality(A) \in Nat
  BY <1>1, <1>2, FS_Subset, FS_CardinalityType
<1> QED
  BY <1>1, <1>2, <1>3, <1>4

(* The rank of a member.                                                   *)
LEMMA RankType ==
  ASSUME NEW S, S \subseteq Nat, IsFiniteSet(S), NEW a \in S
  PROVE  /\ Cardinality(S) \in Nat
         /\ Cardinality({b \in S : b < a}) \in 0 .. Cardinality(S) - 1
<1> DEFINE A == {b \in S : b < a}
<1>1. Cardinality(S) \in Nat
  BY FS_CardinalityType
<1>2. A \in SUBSET S /\ a \notin A
  OBVIOUS
<1>3. /\ Cardinality(A) <= Cardinality(S)
      /\ Cardinality(S) = Cardinality(A) => S = A
      /\ IsFiniteSet(A)
  BY <1>2, FS_Subset
<1>4. Cardinality(A) \in Nat
  BY <1>3, FS_CardinalityType
<1> QED
  BY <1>1, <1>2, <1>3, <1>4

(* InOrder lists each member once, the least one first.                    *)
LEMMA InOrderFacts ==
  ASSUME NEW S, S \subseteq Nat, IsFiniteSet(S)
  PROVE  /\ Cardinality(S) \in Nat
         /\ InOrder(S) \in [1 .. Cardinality(S) -> S]
         /\ \A i, j \in 1 .. Cardinality(S) : i < j => InOrder(S)[i] < InOrder(S)[j]
         /\ \A a \in S : \E k \in 1 .. Cardinality(S) : InOrder(S)[k] = a
<1> DEFINE n == Cardinality(S)
           rank == [a \in S |-> Cardinality({b \in S : b < a})]
<1>1. n \in Nat
  BY FS_CardinalityType
<1>2. rank \in [S -> 0 .. n - 1]
  BY RankType
<1>3. \A a, c \in S : rank[a] = rank[c] => a = c
  <2> SUFFICES ASSUME NEW a \in S, NEW c \in S, a < c
               PROVE  rank[a] # rank[c]
    OBVIOUS
  <2>1. rank[a] < rank[c]
    BY RankGrows
  <2> QED
    BY <1>1, <1>2, <2>1
<1>4. IsFiniteSet(0 .. n - 1) /\ Cardinality(0 .. n - 1) = n
  <2>1. 0 \in Int /\ n - 1 \in Int /\ (n - 1) - 0 + 1 = n /\ (0 > n - 1 => n = 0)
    BY <1>1
  <2> HIDE DEF n
  <2> QED
    BY <2>1, FS_Interval
<1>5. rank \in Surjection(S, 0 .. n - 1)
  <2>1. rank \in Injection(S, 0 .. n - 1)
    BY <1>2, <1>3 DEF Injection, IsInjective
  <2> QED
    BY <1>4, <2>1, FS_Injection
<1>6. \A k \in 1 .. n : \E a \in S : Cardinality({b \in S : b < a}) = k - 1
  <2> SUFFICES ASSUME NEW k \in 1 .. n
               PROVE  \E a \in S : rank[a] = k - 1
    OBVIOUS
  <2>1. k - 1 \in 0 .. n - 1
    BY <1>1
  <2> QED
    BY <1>5, <2>1 DEF Surjection
<1>7. \A k \in 1 .. n :
          InOrder(S)[k] \in S /\ Cardinality({b \in S : b < InOrder(S)[k]}) = k - 1
  BY <1>6 DEF InOrder
<1>8. InOrder(S) \in [1 .. n -> S]
  BY <1>7 DEF InOrder
<1>9. ASSUME NEW i \in 1 .. n, NEW j \in 1 .. n, i < j
      PROVE  InOrder(S)[i] < InOrder(S)[j]
  <2> DEFINE a == InOrder(S)[i]
             c == InOrder(S)[j]
  <2>1. a \in S /\ c \in S /\ a \in Nat /\ c \in Nat
    BY <1>7
  <2>2. Cardinality({b \in S : b < a}) = i - 1 /\ Cardinality({b \in S : b < c}) = j - 1
    BY <1>7
  <2> HIDE DEF a, c
  <2>3. a # c
    BY <1>1, <1>9, <2>2
  <2>4. ~(c < a)
    <3> SUFFICES ASSUME c < a PROVE FALSE
      OBVIOUS
    <3>1. Cardinality({b \in S : b < c}) < Cardinality({b \in S : b < a})
      BY <2>1, RankGrows
    <3> QED
      BY <1>1, <1>9, <2>2, <3>1
  <2>5. a < c
    BY <2>1, <2>3, <2>4
  <2> QED
    BY <2>5 DEF a, c
<1>10. ASSUME NEW a \in S
       PROVE  \E k \in 1 .. n : InOrder(S)[k] = a
  <2> DEFINE k == rank[a] + 1
  <2>1. rank[a] \in 0 .. n - 1
    BY <1>2
  <2>2. k \in 1 .. n /\ k - 1 = rank[a]
    BY <1>1, <2>1
  <2>3. InOrder(S)[k] \in S /\ rank[InOrder(S)[k]] = rank[a]
    BY <1>7, <2>2
  <2> QED
    BY <1>3, <2>2, <2>3
<1> QED
  BY <1>1, <1>8, <1>9, <1>10

(* A set of numbers has a least one: induction, as the provers can use it. *)
LEMMA LeastNumber ==
  ASSUME NEW S, S \subseteq Nat, S # {}
  PROVE  \E n \in S : \A m \in S : n <= m
<1> DEFINE Less == {ss \in Nat \X Nat : ss[1] < ss[2]}
<1>1. IsWellFoundedOn(Less, Nat)
  BY NatLessThanWellFounded DEF OpToRel
<1> HIDE DEF Less
<1>2. PICK n \in S : \A m \in S : ~(<<m, n>> \in Less)
  BY <1>1, WFMin
<1>3. \A m \in S : ~(m < n)
  BY <1>2 DEF Less
<1> QED
  BY <1>3

(* The filter's loop, up to the n-th entry of s.                           *)
Keeping(f, s, places, n) ==
    f = [i \in 0 .. n |-> IF i = 0 THEN <<>>
                          ELSE IF i \in places THEN Append(f[i - 1], s[i]) ELSE f[i - 1]]

LEMMA KeepingExists ==
  ASSUME NEW s, NEW places, NEW n \in Nat
  PROVE  \E f : Keeping(f, s, places, n)
<1> DEFINE T == {k \in Nat : ~ \E f : Keeping(f, s, places, k)}
<1> SUFFICES ASSUME T # {} PROVE FALSE
  OBVIOUS
<1>1. PICK k \in T : \A m \in T : k <= m
  BY LeastNumber
<1>2. k # 0
  <2>1. Keeping([i \in 0 .. 0 |-> <<>>], s, places, 0)
    BY DEF Keeping
  <2> QED
    BY <2>1
<1>3. k - 1 \in Nat /\ k - 1 \notin T
  BY <1>1, <1>2
<1>4. PICK f : Keeping(f, s, places, k - 1)
  BY <1>3
<1> DEFINE g == [i \in 0 .. k |->
                    IF i = 0 THEN <<>>
                    ELSE IF i \in places THEN Append(f[i - 1], s[i]) ELSE f[i - 1]]
<1>5. \A i \in 0 .. k - 1 : g[i] = f[i]
  <2> SUFFICES ASSUME NEW i \in 0 .. k - 1 PROVE g[i] = f[i]
    OBVIOUS
  <2>1. i \in 0 .. k
    BY <1>3
  <2>2. f[i] = IF i = 0 THEN <<>>
               ELSE IF i \in places THEN Append(f[i - 1], s[i]) ELSE f[i - 1]
    BY <1>4 DEF Keeping
  <2> QED
    BY <2>1, <2>2
<1>6. \A i \in 0 .. k : i # 0 => g[i - 1] = f[i - 1]
  <2>1. \A i \in 0 .. k : i # 0 => i - 1 \in 0 .. k - 1
    BY <1>3
  <2> QED
    BY <1>5, <2>1
<1>7. Keeping(g, s, places, k)
  <2>1. \A i \in 0 .. k : g[i] = IF i = 0 THEN <<>>
                     ELSE IF i \in places THEN Append(g[i - 1], s[i]) ELSE g[i - 1]
    BY <1>6
  <2> QED
    BY <2>1 DEF Keeping
<1> QED
  BY <1>7

(* A filtered list has the entries at the kept places, in their order.     *)
LEMMA KeptFacts ==
  ASSUME NEW S, NEW s \in Seq(S), NEW places \in SUBSET DOMAIN s
  PROVE  LET t == Kept(s, places)
         IN  /\ t \in Seq(S)
             /\ \E at \in [1 .. Len(t) -> places] :
                    /\ \A j \in 1 .. Len(t) : t[j] = s[at[j]]
                    /\ \A j, k \in 1 .. Len(t) : j < k => at[j] < at[k]
                    /\ \A k \in places : \E j \in 1 .. Len(t) : at[j] = k
<1> DEFINE n == Len(s)
           Picks(t, i) ==
             /\ t \in Seq(S)
             /\ \E at \in [1 .. Len(t) -> places \cap 1 .. i] :
                    /\ \A j \in 1 .. Len(t) : t[j] = s[at[j]]
                    /\ \A j, k \in 1 .. Len(t) : j < k => at[j] < at[k]
                    /\ \A k \in places \cap 1 .. i : \E j \in 1 .. Len(t) : at[j] = k
<1>1. n \in Nat /\ DOMAIN s = 1 .. n /\ \A i \in 1 .. n : s[i] \in S
  BY LenProperties
<1>2. PICK f : Keeping(f, s, places, n) /\ Kept(s, places) = f[n]
  <2>1. \E f : Keeping(f, s, places, n)
    BY <1>1, KeepingExists
  <2> QED
    BY <2>1 DEF Kept, Keeping
<1>3. f[0] = <<>>
  BY <1>1, <1>2 DEF Keeping
<1>4. \A i \in 1 .. n : f[i] = IF i \in places THEN Append(f[i - 1], s[i]) ELSE f[i - 1]
  <2>1. \A i \in 1 .. n : i \in 0 .. n /\ i # 0
    BY <1>1
  <2>2. \A i \in 0 .. n : f[i] = IF i = 0 THEN <<>>
                     ELSE IF i \in places THEN Append(f[i - 1], s[i]) ELSE f[i - 1]
    BY <1>2 DEF Keeping
  <2> QED
    BY <2>1, <2>2
<1>5. Picks(<<>>, 0)
  <2>1. <<>> \in Seq(S) /\ Len(<<>>) = 0 /\ 1 .. 0 = {}
    OBVIOUS
  <2> DEFINE at == [j \in 1 .. 0 |-> 0]
  <2>2. at \in [1 .. 0 -> places \cap 1 .. 0]
    BY <2>1
  <2> QED
    BY <2>1, <2>2
<1>6. ASSUME NEW i \in 1 .. n, NEW t, Picks(t, i - 1)
      PROVE  Picks(IF i \in places THEN Append(t, s[i]) ELSE t, i)
  <2>1. t \in Seq(S) /\ Len(t) \in Nat /\ i \in Nat
    BY <1>1, <1>6
  <2>2. PICK at \in [1 .. Len(t) -> places \cap 1 .. (i - 1)] :
                    /\ \A j \in 1 .. Len(t) : t[j] = s[at[j]]
                    /\ \A j, k \in 1 .. Len(t) : j < k => at[j] < at[k]
                    /\ \A k \in places \cap 1 .. (i - 1) : \E j \in 1 .. Len(t) : at[j] = k
    BY <1>6
  <2>3. CASE i \notin places
    <3>1. places \cap 1 .. i = places \cap 1 .. (i - 1)
      BY <2>1, <2>3
    <3> QED
      BY <1>6, <2>3, <3>1
  <2>4. CASE i \in places
    <3> DEFINE u == Append(t, s[i])
               to == [j \in 1 .. Len(t) + 1 |-> IF j = Len(t) + 1 THEN i ELSE at[j]]
    <3>1. /\ u \in Seq(S) /\ Len(u) = Len(t) + 1 /\ u[Len(t) + 1] = s[i]
          /\ \A j \in 1 .. Len(t) : u[j] = t[j]
      BY <1>1, <2>1
    <3>2. \A j \in 1 .. Len(t) : at[j] \in places /\ at[j] \in 1 .. (i - 1)
      BY <2>2
    <3>3. \A j \in 1 .. Len(t) : to[j] = at[j] /\ at[j] < i /\ at[j] \in places \cap 1 .. i
      BY <2>1, <3>2
    <3>4. to[Len(t) + 1] = i /\ i \in places \cap 1 .. i
      BY <2>1, <2>4
    <3>5. to \in [1 .. Len(u) -> places \cap 1 .. i]
      BY <2>1, <3>1, <3>3, <3>4
    <3>6. \A j \in 1 .. Len(u) : j \in 1 .. Len(t) \/ j = Len(t) + 1
      BY <2>1, <3>1
    <3>7. \A k \in places \cap 1 .. i : k = i \/ k \in places \cap 1 .. (i - 1)
      BY <2>1
    <3> HIDE DEF u, to
    <3>8. \A j \in 1 .. Len(u) : u[j] = s[to[j]]
      BY <2>2, <3>1, <3>3, <3>4, <3>6
    <3>9. ASSUME NEW j \in 1 .. Len(u), NEW k \in 1 .. Len(u), j < k
          PROVE  to[j] < to[k]
      <4>1. j \in 1 .. Len(t)
        BY <2>1, <3>6, <3>9
      <4>2. CASE k \in 1 .. Len(t)
        <5>1. at[j] < at[k]
          BY <2>2, <3>9, <4>1, <4>2
        <5> QED
          BY <3>3, <4>1, <4>2, <5>1
      <4>3. CASE k = Len(t) + 1
        BY <3>3, <3>4, <4>1, <4>3
      <4> QED
        BY <3>6, <4>2, <4>3
    <3>10. ASSUME NEW k \in places \cap 1 .. i
           PROVE  \E j \in 1 .. Len(u) : to[j] = k
      <4>1. CASE k = i
        <5>1. Len(t) + 1 \in 1 .. Len(u)
          BY <2>1, <3>1
        <5> QED
          BY <3>4, <4>1, <5>1
      <4>2. CASE k \in places \cap 1 .. (i - 1)
        <5>1. PICK j \in 1 .. Len(t) : at[j] = k
          BY <2>2, <4>2
        <5>2. j \in 1 .. Len(u) /\ to[j] = k
          BY <2>1, <3>1, <3>3, <5>1
        <5> QED
          BY <5>2
      <4> QED
        BY <3>7, <4>1, <4>2
    <3>11. Picks(u, i)
      BY <3>1, <3>5, <3>8, <3>9, <3>10
    <3> QED
      BY <2>4, <3>11 DEF u
  <2> QED
    BY <2>3, <2>4
<1> HIDE DEF Picks
<1>7. \A i \in 0 .. n : Picks(f[i], i)
  <2> DEFINE T == {i \in 0 .. n : ~Picks(f[i], i)}
  <2> SUFFICES ASSUME T # {} PROVE FALSE
    OBVIOUS
  <2>1. PICK i \in T : \A j \in T : i <= j
    <3>1. T \subseteq Nat
      BY <1>1
    <3> QED
      BY <3>1, LeastNumber
  <2>2. i \in 1 .. n /\ i - 1 \in 0 .. n /\ i - 1 \notin T
    BY <1>1, <1>3, <1>5, <2>1
  <2>3. Picks(f[i - 1], i - 1)
    BY <2>2
  <2> QED
    BY <1>4, <1>6, <2>1, <2>2, <2>3
<1>8. Picks(Kept(s, places), n)
  BY <1>1, <1>2, <1>7
<1>9. places \cap 1 .. n = places
  BY <1>1
<1> QED
  BY <1>8, <1>9 DEF Picks

-----------------------------------------------------------------------------
Requests ==
    [kind : {"task", "list", "more"}, seq : Nat, task : Tasks \cup {NoTask},
     before : Ids \cup {NoId}, read : BOOLEAN, list : Seq(Rows), more : BOOLEAN]

Orders ==
    [op : {"save", "del", "delAttempt", "start", "send", "cancel", "continue", "reconnect"},
     task : Tasks \cup {NoTask}, id : Ids \cup {NoId},
     asked : Ids \cup {NoId} \cup Tasks \cup {NoTask}, stage : {"sent", "ok", "err"},
     mine : BOOLEAN]

(* The types of what is in flight, and of the server.                      *)
TypeInv ==
    /\ pane \in Panes
    /\ cards \subseteq Tasks /\ rows \subseteq Ids
    /\ home \in [Ids -> Tasks \cup {NoTask}] /\ state \in [Ids -> {"live", "settled"}]
    /\ \A a \in rows : home[a] \in cards
    /\ news \in Seq(Rows)
    /\ w \in Data
    /\ gets \in Seq(Requests) /\ Len(gets) <= MaxGets
    /\ calls \in Seq(Orders) /\ Len(calls) <= MaxCalls
    /\ turns \in Nat
    /\ cardLost \in BOOLEAN /\ listLost \in BOOLEAN /\ reopened \in BOOLEAN /\ crossed \in BOOLEAN
    /\ overlooked \subseteq Ids

(* No request has a number that is still to come.                          *)
Numbered ==
    /\ \A i \in DOMAIN gets : gets[i].seq <= w.loadSeq /\ 0 < w.loadSeq
    /\ w.attempts # <<>> => 0 < w.loadSeq

(* Every attempt in a list, in an answer or in a command has been started  *)
(* for a card; an answer has attempts of the card it was asked for, and so *)
(* has the list on the screen, unless a page crossed.                      *)
Origins ==
    /\ \A i \in DOMAIN w.attempts :
           /\ home[w.attempts[i].id] \in Tasks
           /\ w.taskId = NoTask \/ crossed \/ home[w.attempts[i].id] = w.taskId
    /\ \A i \in DOMAIN gets : \A j \in DOMAIN gets[i].list :
           home[gets[i].list[j].id] \in Tasks /\ home[gets[i].list[j].id] = gets[i].task
    /\ w.activeAttemptId # NoId => home[w.activeAttemptId] \in Tasks
    /\ \A i \in DOMAIN calls :
           calls[i].op = "start" /\ calls[i].stage = "ok" =>
               calls[i].id \in Ids /\ home[calls[i].id] \in Tasks

(* A current request is about the card that is selected, or the card was   *)
(* closed since.                                                           *)
Own ==
    \A i \in DOMAIN gets : Current(gets[i]) =>
        \/ gets[i].task = w.taskId
        \/ w.taskId = NoTask /\ (gets[i].kind = "task" => reopened)

Rising(list) == \A i, j \in DOMAIN list : i < j => list[i].id < list[j].id

(* Lists are in the order of the ids, and a page that is asked for comes   *)
(* before what the pane has.                                               *)
Sorted ==
    /\ crossed \/ Rising(w.attempts)
    /\ \A i \in DOMAIN gets :
           /\ Rising(gets[i].list)
           /\ gets[i].kind = "more" =>
                  /\ gets[i].before \in Ids
                  /\ \A j \in DOMAIN gets[i].list : gets[i].list[j].id < gets[i].before
                  /\ Current(gets[i]) /\ ~crossed =>
                         \A j \in DOMAIN w.attempts : gets[i].before <= w.attempts[j].id

(* One page is asked for at a time, and not while the list it belongs to is*)
(* awaited; one current list is awaited at a time, and nothing is shown in *)
(* the meantime.                                                           *)
Single ==
    /\ \A i, j \in DOMAIN gets :
           /\ gets[i].kind = "more" /\ gets[j].kind = "more" => i = j
           /\ gets[i].kind = "list" /\ Current(gets[i]) /\ Current(gets[j]) =>
                  gets[j].kind # "more" /\ (gets[j].kind = "list" => i = j)
    /\ \A i \in DOMAIN gets :
           /\ gets[i].kind = "more" => w.loadingMore
           /\ gets[i].kind = "list" /\ Current(gets[i]) => w.attempts = <<>> \/ crossed

IInv ==
    /\ TypeInv /\ Numbered /\ Origins /\ Own /\ Sorted /\ Single
    /\ w.task # NoTask => w.form = w.task
    /\ ShownIsSelected /\ ActiveIsOfSelected

-----------------------------------------------------------------------------
(* The fields of a pane.                                                   *)
LEMMA FieldTypes ==
  ASSUME NEW v \in Data
  PROVE  /\ v.taskId \in Tasks \cup {NoTask} /\ v.task \in Tasks \cup {NoTask}
         /\ v.form \in Tasks \cup {NoTask} /\ v.attempts \in Seq(Rows)
         /\ v.activeAttemptId \in Ids \cup {NoId} /\ v.loadSeq \in Nat
         /\ v.loadingMore \in BOOLEAN
BY DEF Data

(* What the invariant says of a step that leaves alone what it speaks of.  *)
Kernel ==
    <<w.taskId, w.task, w.form, w.attempts, w.activeAttemptId, w.loadingMore, w.loadSeq,
      gets, home, cardLost, listLost, reopened, crossed>>

StartedKnown ==
    \A i \in DOMAIN calls :
        calls[i].op = "start" /\ calls[i].stage = "ok" =>
            calls[i].id \in Ids /\ home[calls[i].id] \in Tasks

Alike(v) ==
    /\ v \in Data
    /\ v.taskId = w.taskId /\ v.task = w.task /\ v.form = w.form /\ v.attempts = w.attempts
    /\ v.activeAttemptId = w.activeAttemptId /\ v.loadingMore = w.loadingMore
    /\ v.loadSeq = w.loadSeq

LEMMA Frame ==
  ASSUME IInv, TypeInv', UNCHANGED Kernel, StartedKnown'
  PROVE  IInv'
<1>1. /\ w'.taskId = w.taskId /\ w'.task = w.task /\ w'.form = w.form
      /\ w'.attempts = w.attempts /\ w'.activeAttemptId = w.activeAttemptId
      /\ w'.loadingMore = w.loadingMore /\ w'.loadSeq = w.loadSeq
      /\ gets' = gets /\ home' = home /\ cardLost' = cardLost /\ listLost' = listLost
      /\ reopened' = reopened /\ crossed' = crossed
  BY DEF Kernel
<1>2. Numbered'
  BY <1>1 DEF IInv, Numbered
<1>3. Origins'
  BY <1>1 DEF IInv, Origins, StartedKnown
<1>4. Own'
  BY <1>1 DEF IInv, Own, Current
<1>5. Sorted'
  BY <1>1 DEF IInv, Sorted, Rising, Current
<1>6. Single'
  BY <1>1 DEF IInv, Single, Current
<1>7. ShownIsSelected' /\ ActiveIsOfSelected'
  BY <1>1 DEF IInv, ShownIsSelected, ActiveIsOfSelected, Pending, Current
<1> QED
  BY <1>1, <1>2, <1>3, <1>4, <1>5, <1>6, <1>7 DEF IInv

-----------------------------------------------------------------------------
(* Clicks and commands.                                                    *)

LEMMA ClickStep ==
  ASSUME IInv, NEW v, Alike(v), Click(v)
  PROVE  IInv'
<1>1. /\ w' = v
      /\ UNCHANGED <<pane, cards, home, rows, state, news, gets, calls, turns, cardLost, listLost,
                     reopened, crossed, overlooked>>
  BY DEF Click, server, ghosts
<1>2. TypeInv'
  BY <1>1 DEF IInv, TypeInv, Alike
<1>3. StartedKnown'
  BY <1>1 DEF IInv, Origins, StartedKnown
<1> QED
  BY <1>1, <1>2, <1>3, Frame DEF Kernel, Alike

LEMMA ClicksStep ==
  ASSUME IInv, Edit \/ CancelEdit \/ AskStop \/ StopTimer \/ AskDelete
  PROVE  IInv'
<1>1. w \in Data
  BY DEF IInv, TypeInv
<1>2. CASE Edit
  <2>1. Alike([w EXCEPT !.editing = TRUE])
    BY <1>1 DEF Alike, Data
  <2> QED
    BY <1>2, <2>1, ClickStep DEF Edit
<1>3. CASE CancelEdit
  <2>1. Alike([w EXCEPT !.editing = FALSE])
    BY <1>1 DEF Alike, Data
  <2> QED
    BY <1>3, <2>1, ClickStep DEF CancelEdit
<1>4. CASE AskStop
  <2>1. Alike([w EXCEPT !.stop = w.activeAttemptId])
    BY <1>1 DEF Alike, Data
  <2> QED
    BY <1>4, <2>1, ClickStep DEF AskStop
<1>5. CASE StopTimer
  <2>1. Alike([w EXCEPT !.stop = NoId])
    BY <1>1 DEF Alike, Data
  <2> QED
    BY <1>5, <2>1, ClickStep DEF StopTimer
<1>6. CASE AskDelete
  <2>1. Alike([w EXCEPT !.del = w.task])
    BY <1>1, <1>6 DEF Alike, Data, AskDelete
  <2> QED
    BY <1>6, <2>1, ClickStep DEF AskDelete
<1> QED
  BY <1>2, <1>3, <1>4, <1>5, <1>6

Ops == {"save", "del", "delAttempt", "start", "send", "cancel", "continue", "reconnect"}

(* A command goes out.                                                     *)
LEMMA SentTyped ==
  ASSUME IInv, NEW v \in Data, NEW op \in Ops, NEW id \in Ids \cup {NoId},
         NEW asked \in Ids \cup {NoId} \cup Tasks \cup {NoTask}, Send(v, op, id, asked)
  PROVE  /\ TypeInv' /\ StartedKnown' /\ w' = v
         /\ UNCHANGED <<gets, home, cardLost, listLost, reopened, crossed>>
<1>1. /\ turns' = turns + 1 /\ Len(calls) < MaxCalls
      /\ calls' = Append(calls, Command(op, id, asked)) /\ w' = v
      /\ UNCHANGED <<pane, cards, home, rows, state, news, gets, cardLost, listLost, reopened,
                     crossed, overlooked>>
  BY DEF Send, Turn, server, ghosts
<1>2. TypeInv /\ w.taskId \in Tasks \cup {NoTask} /\ calls \in Seq(Orders) /\ MaxCalls \in Nat
  BY BoundAssumption DEF IInv, TypeInv, Data
<1>3. Command(op, id, asked) \in Orders
  BY <1>2 DEF Command, Orders, Ops
<1>4. calls' \in Seq(Orders) /\ Len(calls') = Len(calls) + 1
  BY <1>1, <1>2, <1>3
<1>5. TypeInv'
  BY <1>1, <1>2, <1>4 DEF TypeInv
<1>6. StartedKnown'
  <2> SUFFICES ASSUME NEW i \in DOMAIN calls', calls'[i].op = "start", calls'[i].stage = "ok"
               PROVE  calls'[i].id \in Ids /\ home[calls'[i].id] \in Tasks
    BY <1>1 DEF StartedKnown
  <2>1. CASE i = Len(calls) + 1
    BY <1>1, <1>2, <2>1 DEF Command
  <2>2. CASE i \in DOMAIN calls
    <3>1. calls'[i] = calls[i]
      BY <1>1, <1>2, <2>2
    <3> QED
      BY <2>2, <3>1 DEF IInv, Origins
  <2> QED
    BY <1>1, <1>2, <1>4, <2>1, <2>2
<1> QED
  BY <1>1, <1>5, <1>6

LEMMA SentStep ==
  ASSUME IInv, NEW v, Alike(v), NEW op \in Ops, NEW id \in Ids \cup {NoId},
         NEW asked \in Ids \cup {NoId} \cup Tasks \cup {NoTask}, Send(v, op, id, asked)
  PROVE  IInv'
<1>1. /\ TypeInv' /\ StartedKnown' /\ w' = v
      /\ UNCHANGED <<gets, home, cardLost, listLost, reopened, crossed>>
  BY SentTyped DEF Alike
<1> QED
  BY <1>1, Frame DEF Kernel, Alike

LEMMA CommandsStep ==
  ASSUME IInv,
         \/ Save \/ DeleteTask \/ StartAttempt \/ SendMsg \/ CancelAttempt \/ SendContinue
         \/ Reconnect
  PROVE  IInv'
<1>1. /\ w \in Data /\ w.activeAttemptId \in Ids \cup {NoId} /\ w.stop \in Ids \cup {NoId}
      /\ w.del \in Tasks \cup {NoTask} /\ NoId \in Ids \cup {NoId}
  BY ArchivedAssumption DEF IInv, TypeInv, Data
<1>2. Alike(w)
  BY <1>1 DEF Alike
<1>3. CASE Save \/ DeleteTask \/ StartAttempt \/ SendMsg
  BY <1>1, <1>2, <1>3, SentStep DEF Save, DeleteTask, StartAttempt, SendMsg, Ops
<1>4. CASE CancelAttempt
  <2>1. Alike([w EXCEPT !.stop = NoId])
    BY <1>1 DEF Alike, Data
  <2> QED
    BY <1>1, <1>4, <2>1, SentStep DEF CancelAttempt, Ops
<1>5. CASE SendContinue
  <2>1. Alike([w EXCEPT !.sending = TRUE])
    BY <1>1 DEF Alike, Data
  <2> QED
    BY <1>1, <1>5, <2>1, SentStep DEF SendContinue, Ops
<1>6. CASE Reconnect
  <2>1. Alike([w EXCEPT !.reconnectAskedFor = w.activeAttemptId])
    BY <1>1 DEF Alike, Data
  <2> QED
    BY <1>1, <1>6, <2>1, SentStep DEF Reconnect, Ops
<1> QED
  BY <1>3, <1>4, <1>5, <1>6

(* The last of a list, if there is one.                                    *)
LEMMA LastIdFacts ==
  ASSUME NEW list \in Seq(Rows)
  PROVE  /\ LastId(list) \in Ids \cup {NoId}
         /\ LastId(list) # NoId => \E k \in DOMAIN list : LastId(list) = list[k].id
<1>1. CASE list = <<>>
  BY <1>1 DEF LastId
<1>2. CASE list # <<>>
  <2>1. Len(list) \in DOMAIN list /\ list[Len(list)] \in Rows
    BY <1>2, EmptySeq, LenProperties
  <2> QED
    BY <1>2, <2>1 DEF LastId, Rows
<1> QED
  BY <1>1, <1>2

LEMMA DeleteAttemptStep ==
  ASSUME IInv, NEW n \in Nat, DeleteAttempt(n)
  PROVE  IInv'
<1> DEFINE id     == w.attempts[n].id
           places == {j \in DOMAIN w.attempts : w.attempts[j].id # id}
           list   == Kept(w.attempts, places)
           v      == [w EXCEPT !.attempts = list,
                               !.activeAttemptId = IF @ = id THEN LastId(list) ELSE @]
<1>1. Send(v, "delAttempt", id, NoTask) /\ n \in DOMAIN w.attempts
  BY DEF DeleteAttempt
<1>2. w \in Data /\ w.attempts \in Seq(Rows) /\ w.activeAttemptId \in Ids \cup {NoId}
  BY DEF IInv, TypeInv, Data
<1>3. id \in Ids
  <2>1. w.attempts[n] \in Rows
    BY <1>1, <1>2
  <2> QED
    BY <2>1 DEF Rows
<1>4. /\ list \in Seq(Rows)
      /\ \A j \in DOMAIN list : \E k \in DOMAIN w.attempts : list[j] = w.attempts[k]
      /\ Rising(w.attempts) => Rising(list)
  <2> HIDE DEF id
  <2>1. places \in SUBSET DOMAIN w.attempts
    OBVIOUS
  <2>2. PICK at \in [1 .. Len(list) -> places] :
            /\ list \in Seq(Rows)
            /\ \A j \in 1 .. Len(list) : list[j] = w.attempts[at[j]]
            /\ \A i, j \in 1 .. Len(list) : i < j => at[i] < at[j]
    <3> HIDE DEF places
    <3> QED
      BY <1>2, <2>1, KeptFacts
  <2> HIDE DEF places, list
  <2>3. DOMAIN list = 1 .. Len(list) /\ \A j \in DOMAIN list : at[j] \in DOMAIN w.attempts
    BY <2>1, <2>2
  <2>4. Rising(w.attempts) => Rising(list)
    BY <2>2, <2>3 DEF Rising
  <2> QED
    BY <2>2, <2>3, <2>4
<1>5. /\ LastId(list) \in Ids \cup {NoId}
      /\ LastId(list) # NoId => \E k \in DOMAIN w.attempts : LastId(list) = w.attempts[k].id
  BY <1>4, LastIdFacts
<1> HIDE DEF list, id
<1>6. /\ v \in Data /\ v.taskId = w.taskId /\ v.task = w.task /\ v.form = w.form
      /\ v.attempts = list /\ v.loadingMore = w.loadingMore /\ v.loadSeq = w.loadSeq
      /\ v.activeAttemptId = IF w.activeAttemptId = id THEN LastId(list) ELSE w.activeAttemptId
  <2> DEFINE next == IF w.activeAttemptId = id THEN LastId(list) ELSE w.activeAttemptId
  <2>1. next \in Ids \cup {NoId} /\ list \in Seq(Rows)
    BY <1>2, <1>4, <1>5
  <2>2. v = [w EXCEPT !.attempts = list, !.activeAttemptId = next]
    BY <1>2 DEF Data
  <2> HIDE DEF next, v
  <2>3. /\ v \in Data /\ v.taskId = w.taskId /\ v.task = w.task /\ v.form = w.form
        /\ v.attempts = list /\ v.loadingMore = w.loadingMore /\ v.loadSeq = w.loadSeq
        /\ v.activeAttemptId = next
    BY <1>2, <2>1, <2>2 DEF Data
  <2> QED
    BY <2>3 DEF next
<1> HIDE DEF v
<1>7. /\ TypeInv' /\ StartedKnown' /\ w' = v
      /\ UNCHANGED <<gets, home, cardLost, listLost, reopened, crossed>>
  BY <1>1, <1>3, <1>6, SentTyped DEF Ops
<1>8. w.attempts # <<>>
  BY <1>1
<1>9. Numbered'
  BY <1>6, <1>7, <1>8 DEF IInv, Numbered
<1>10. Origins'
  BY <1>4, <1>5, <1>6, <1>7 DEF IInv, Origins, StartedKnown
<1>11. Own'
  BY <1>6, <1>7 DEF IInv, Own, Current
<1>12. Sorted'
  BY <1>4, <1>6, <1>7 DEF IInv, Sorted, Rising, Current
<1>13. Single'
  BY <1>6, <1>7, <1>8 DEF IInv, Single, Current
<1>14. ShownIsSelected'
  BY <1>6, <1>7 DEF IInv, ShownIsSelected, Pending, Current
<1>15. ActiveIsOfSelected'
  BY <1>5, <1>6, <1>7 DEF IInv, ActiveIsOfSelected, Origins, Pending, Current
<1> QED
  BY <1>6, <1>7, <1>9, <1>10, <1>11, <1>12, <1>13, <1>14, <1>15 DEF IInv

-----------------------------------------------------------------------------
(* Loading.                                                                *)

(* A load of a card adds its two requests, and no other one is current.    *)
LEMMA LoadAdds ==
  ASSUME IInv, NEW v \in Data, v.loadSeq = w.loadSeq, v.taskId # NoTask, Load(v, gets)
  PROVE  /\ w' \in Data /\ w'.taskId = v.taskId /\ w'.task = v.task /\ w'.form = v.form
         /\ w'.attempts = <<>> /\ w'.activeAttemptId = v.activeAttemptId
         /\ w'.loadingMore = v.loadingMore /\ w'.loadSeq = w.loadSeq + 1
         /\ gets' \in Seq(Requests) /\ Len(gets') <= MaxGets
         /\ DOMAIN gets' = 1 .. Len(gets) + 2
         /\ \A k \in 1 .. Len(gets) : gets'[k] = gets[k] /\ gets'[k].seq < w'.loadSeq
         /\ \A k \in {Len(gets) + 1, Len(gets) + 2} :
                /\ gets'[k].seq = w'.loadSeq /\ gets'[k].task = v.taskId
                /\ gets'[k].list = <<>> /\ gets'[k].before = NoId /\ gets'[k].read = FALSE
                /\ gets'[k].kind = IF k = Len(gets) + 1 THEN "task" ELSE "list"
         /\ cardLost' = FALSE /\ listLost' = FALSE
<1> DEFINE T == Get("task", w', NoId)
           L == Get("list", w', NoId)
<1>1. /\ w' = [v EXCEPT !.loadSeq = @ + 1, !.attempts = <<>>, !.hasMore = FALSE]
      /\ gets' = gets \o <<T, L>> /\ Len(gets') <= MaxGets
      /\ cardLost' = FALSE /\ listLost' = FALSE
  BY DEF Load, Loading
<1>2. /\ w' \in Data /\ w'.taskId = v.taskId /\ w'.task = v.task /\ w'.form = v.form
      /\ w'.attempts = <<>> /\ w'.activeAttemptId = v.activeAttemptId
      /\ w'.loadingMore = v.loadingMore /\ w'.loadSeq = w.loadSeq + 1
  <2>1. v.loadSeq + 1 \in Nat /\ <<>> \in Seq(Rows)
    BY FieldTypes
  <2>2. w' = [v EXCEPT !.loadSeq = w.loadSeq + 1, !.attempts = <<>>, !.hasMore = FALSE]
    BY <1>1 DEF Data
  <2> QED
    BY <2>1, <2>2 DEF Data
<1>3. /\ T \in Requests /\ L \in Requests /\ T.seq = w'.loadSeq /\ L.seq = w'.loadSeq
      /\ T.task = v.taskId /\ L.task = v.taskId /\ T.list = <<>> /\ L.list = <<>>
      /\ T.before = NoId /\ L.before = NoId /\ T.read = FALSE /\ L.read = FALSE
      /\ T.kind = "task" /\ L.kind = "list"
  <2>1. w'.loadSeq \in Nat /\ w'.taskId \in Tasks \cup {NoTask}
    BY <1>2, FieldTypes
  <2> QED
    BY <1>2, <2>1 DEF Get, Requests
<1>4. gets \in Seq(Requests) /\ Len(gets) \in Nat /\ DOMAIN gets = 1 .. Len(gets)
  BY DEF IInv, TypeInv
<1> HIDE DEF T, L
<1>5. <<T, L>> \in Seq(Requests) /\ Len(<<T, L>>) = 2
  BY <1>3
<1>6. /\ gets' \in Seq(Requests) /\ Len(gets') = Len(gets) + 2
      /\ DOMAIN gets' = 1 .. Len(gets) + 2
      /\ \A k \in 1 .. Len(gets) : gets'[k] = gets[k]
      /\ gets'[Len(gets) + 1] = T /\ gets'[Len(gets) + 2] = L
  BY <1>1, <1>4, <1>5
<1>7. \A k \in 1 .. Len(gets) : gets[k].seq < w'.loadSeq
  <2> SUFFICES ASSUME NEW k \in 1 .. Len(gets) PROVE gets[k].seq < w.loadSeq + 1
    BY <1>2
  <2>1. gets[k].seq <= w.loadSeq
    BY <1>4 DEF IInv, Numbered
  <2>2. gets[k] \in Requests
    BY <1>4
  <2>3. gets[k].seq \in Nat /\ w.loadSeq \in Nat
    BY <2>2, FieldTypes DEF IInv, TypeInv, Requests
  <2> QED
    BY <2>1, <2>3
<1>8. Len(gets) + 1 # Len(gets) + 2
  BY <1>4
<1> QED
  BY <1>1, <1>2, <1>3, <1>6, <1>7, <1>8

LEMMA LoadNone ==
  ASSUME IInv, NEW v \in Data, v.taskId = NoTask, Load(v, gets)
  PROVE  /\ w' \in Data /\ w'.taskId = NoTask /\ w'.task = NoTask
         /\ w'.attempts = v.attempts /\ w'.activeAttemptId = v.activeAttemptId
         /\ w'.loadingMore = v.loadingMore /\ w'.loadSeq = v.loadSeq
         /\ gets' = gets /\ cardLost' = cardLost /\ listLost' = listLost
<1>1. /\ w' = [v EXCEPT !.task = NoTask] /\ gets' = gets
      /\ cardLost' = cardLost /\ listLost' = listLost
  BY DEF Load, Loading
<1> QED
  BY <1>1 DEF Data

(* A load of a pane that knows its attempt.                                *)
LEMMA LoadStep ==
  ASSUME IInv, NEW v \in Data, Load(v, gets), v.loadSeq = w.loadSeq,
         v.task = w.task, v.form = w.form, v.attempts = w.attempts,
         v.loadingMore = w.loadingMore,
         v.activeAttemptId # NoId => home[v.activeAttemptId] \in Tasks,
         v.taskId = NoTask => w.taskId = NoTask /\ reopened' = reopened,
         UNCHANGED <<pane, cards, home, rows, state, news, crossed, overlooked>>,
         calls' \in Seq(Orders), Len(calls') <= MaxCalls, StartedKnown', turns' \in Nat,
         reopened' \in BOOLEAN
  PROVE  IInv'
<1>1. CASE v.taskId # NoTask
  <2>1. /\ w' \in Data /\ w'.taskId = v.taskId /\ w'.task = v.task /\ w'.form = v.form
        /\ w'.attempts = <<>> /\ w'.activeAttemptId = v.activeAttemptId
        /\ w'.loadingMore = v.loadingMore /\ w'.loadSeq = w.loadSeq + 1
        /\ gets' \in Seq(Requests) /\ Len(gets') <= MaxGets
        /\ DOMAIN gets' = 1 .. Len(gets) + 2
        /\ \A k \in 1 .. Len(gets) : gets'[k] = gets[k] /\ gets'[k].seq < w'.loadSeq
        /\ \A k \in {Len(gets) + 1, Len(gets) + 2} :
               /\ gets'[k].seq = w'.loadSeq /\ gets'[k].task = v.taskId
               /\ gets'[k].list = <<>>
               /\ gets'[k].kind = IF k = Len(gets) + 1 THEN "task" ELSE "list"
        /\ cardLost' = FALSE /\ listLost' = FALSE
    BY <1>1, LoadAdds
  <2>2. /\ w.loadSeq \in Nat /\ Len(gets) \in Nat /\ DOMAIN gets = 1 .. Len(gets)
        /\ w'.loadSeq \in Nat
    BY <2>1, FieldTypes DEF IInv, TypeInv
  <2>3. \A i \in DOMAIN gets' : i \in DOMAIN gets \/ i \in {Len(gets) + 1, Len(gets) + 2}
    <3> DEFINE n == Len(gets)
    <3>1. n \in Nat /\ DOMAIN gets = 1 .. n /\ DOMAIN gets' = 1 .. n + 2
      BY <2>1, <2>2
    <3> HIDE DEF n
    <3>2. \A i \in DOMAIN gets' : i \in DOMAIN gets \/ i \in {n + 1, n + 2}
      BY <3>1
    <3> QED
      BY <3>2 DEF n
  <2>4. \A i \in DOMAIN gets' : gets'[i].seq \in Nat
    <3> SUFFICES ASSUME NEW i \in DOMAIN gets' PROVE gets'[i].seq \in Nat
      OBVIOUS
    <3>1. gets'[i] \in Requests
      BY <2>1
    <3> QED
      BY <3>1 DEF Requests
  <2>5. \A i \in DOMAIN gets' : gets'[i].seq = w'.loadSeq =>
            i \in {Len(gets) + 1, Len(gets) + 2} /\ i \notin DOMAIN gets
    BY <2>1, <2>2, <2>3, <2>4
  <2>6. TypeInv'
    BY <2>1, BoundAssumption DEF IInv, TypeInv
  <2>7. Numbered'
    BY <2>1, <2>2, <2>3, <2>4 DEF Numbered
  <2>8. Origins'
    <3>1. \A i \in DOMAIN gets' : \A j \in DOMAIN gets'[i].list :
              home[gets'[i].list[j].id] \in Tasks /\ home[gets'[i].list[j].id] = gets'[i].task
      BY <2>1, <2>2, <2>3 DEF IInv, Origins
    <3> QED
      BY <2>1, <3>1 DEF Origins, StartedKnown
  <2>9. Own'
    BY <2>1, <2>5 DEF Own, Current
  <2>10. Sorted'
    <3> SUFFICES ASSUME NEW i \in DOMAIN gets'
                 PROVE  /\ Rising(gets'[i].list)
                        /\ gets'[i].kind = "more" =>
                               /\ gets'[i].before \in Ids
                               /\ \A j \in DOMAIN gets'[i].list :
                                      gets'[i].list[j].id < gets'[i].before
      BY <2>1 DEF Sorted, Rising
    <3>1. CASE i \in DOMAIN gets
      BY <2>1, <2>2, <3>1 DEF IInv, Sorted, Rising
    <3>2. CASE i \in {Len(gets) + 1, Len(gets) + 2}
      BY <2>1, <3>2 DEF Rising
    <3> QED
      BY <2>3, <3>1, <3>2
  <2>11. Single'
    <3>1. ASSUME NEW i \in DOMAIN gets', gets'[i].kind = "more"
          PROVE  i \in DOMAIN gets /\ gets[i].kind = "more"
      BY <2>1, <2>2, <2>3, <3>1
    <3>2. ASSUME NEW i \in DOMAIN gets', gets'[i].kind = "list", gets'[i].seq = w'.loadSeq
          PROVE  i = Len(gets) + 2
      BY <2>1, <2>5, <3>2
    <3> QED
      BY <2>1, <2>5, <3>1, <3>2 DEF IInv, Single, Current
  <2>12. Pending("task")' /\ Pending("list")'
    <3>1. Len(gets) + 1 \in DOMAIN gets' /\ Len(gets) + 2 \in DOMAIN gets'
      BY <2>1, <2>2
    <3>2. gets'[Len(gets) + 1].kind = "task" /\ gets'[Len(gets) + 1].seq = w'.loadSeq
      BY <2>1
    <3>3. gets'[Len(gets) + 2].kind = "list" /\ gets'[Len(gets) + 2].seq = w'.loadSeq
      BY <2>1, <2>2
    <3> QED
      BY <3>1, <3>2, <3>3 DEF Pending, Current
  <2>13. ShownIsSelected' /\ ActiveIsOfSelected'
    BY <2>12 DEF ShownIsSelected, ActiveIsOfSelected
  <2> QED
    BY <2>1, <2>6, <2>7, <2>8, <2>9, <2>10, <2>11, <2>13 DEF IInv
<1>2. CASE v.taskId = NoTask
  <2>1. /\ w' \in Data /\ w'.taskId = NoTask /\ w'.task = NoTask
        /\ w'.attempts = w.attempts /\ w'.activeAttemptId = v.activeAttemptId
        /\ w'.loadingMore = w.loadingMore /\ w'.loadSeq = w.loadSeq
        /\ gets' = gets /\ cardLost' = cardLost /\ listLost' = listLost
        /\ w.taskId = NoTask /\ reopened' = reopened
    BY <1>2, LoadNone
  <2>2. TypeInv'
    BY <2>1 DEF IInv, TypeInv
  <2>3. Numbered' /\ Own'
    BY <2>1 DEF IInv, Numbered, Own, Current
  <2>4. Origins'
    BY <2>1 DEF IInv, Origins, StartedKnown
  <2>5. Sorted' /\ Single'
    BY <2>1 DEF IInv, Sorted, Rising, Single, Current
  <2>6. ShownIsSelected' /\ ActiveIsOfSelected'
    BY <2>1 DEF ShownIsSelected, ActiveIsOfSelected
  <2> QED
    BY <2>1, <2>2, <2>3, <2>4, <2>5, <2>6 DEF IInv
<1> QED
  BY <1>1, <1>2

LEMMA SelectStep ==
  ASSUME IInv, NEW t \in Tasks, Select(t)
  PROVE  IInv'
<1> DEFINE v == [w EXCEPT !.taskId = t]
<1>1. /\ Load(v, gets) /\ reopened' = FALSE /\ turns' = turns + 1
      /\ UNCHANGED <<pane, cards, home, rows, state, news, calls, crossed, overlooked>>
  BY DEF Select, Turn, server
<1>2. TypeInv /\ w \in Data
  BY DEF IInv, TypeInv
<1>3. /\ v \in Data /\ v.taskId = t /\ v.task = w.task /\ v.form = w.form
      /\ v.attempts = w.attempts /\ v.loadingMore = w.loadingMore /\ v.loadSeq = w.loadSeq
      /\ v.activeAttemptId = w.activeAttemptId
  BY <1>2 DEF Data
<1>4. t # NoTask
  BY IdAssumption
<1>5. StartedKnown' /\ (w.activeAttemptId # NoId => home[w.activeAttemptId] \in Tasks)
  BY <1>1 DEF IInv, Origins, StartedKnown
<1>6. calls' \in Seq(Orders) /\ Len(calls') <= MaxCalls /\ turns' \in Nat
  BY <1>1, <1>2 DEF TypeInv
<1>7. reopened' \in BOOLEAN
  BY <1>1
<1> HIDE DEF v
<1> QED
  BY <1>1, <1>3, <1>4, <1>5, <1>6, <1>7, LoadStep

(* Reload, of the pane after an answer.                                    *)
LEMMA ReloadStep ==
  ASSUME IInv, NEW v \in Data, NEW others \in Seq(Orders), Reload(v, others),
         v.taskId = w.taskId, v.loadSeq = w.loadSeq,
         v.task = w.task, v.form = w.form, v.attempts = w.attempts,
         v.loadingMore = w.loadingMore,
         v.activeAttemptId # NoId => home[v.activeAttemptId] \in Tasks,
         UNCHANGED <<pane, cards, home, rows, state, news, overlooked>>, turns' \in Nat,
         Len(others) <= MaxCalls, StartedKnown'
  PROVE  IInv'
<1>1. Load(v, gets) /\ calls' = others /\ reopened' = reopened /\ crossed' = crossed
  BY DEF Reload
<1>2. TypeInv
  BY DEF IInv
<1> QED
  BY <1>1, <1>2, LoadStep DEF TypeInv

-----------------------------------------------------------------------------
(* Answers.                                                                *)

(* What is left when a request is answered.                                *)
Remains(i) ==
    /\ gets' \in Seq(Requests) /\ Len(gets') <= MaxGets
    /\ \A j \in DOMAIN gets' : \E k \in DOMAIN gets : k # i /\ gets'[j] = gets[k]
    /\ \A j \in DOMAIN gets' : gets'[j].seq <= w'.loadSeq /\ 0 < w'.loadSeq
    /\ \A j \in DOMAIN gets' : \A m \in DOMAIN gets'[j].list :
           home'[gets'[j].list[m].id] \in Tasks
           /\ home'[gets'[j].list[m].id] = gets'[j].task
    /\ Own'
    /\ \A j, m \in DOMAIN gets' :
           /\ gets'[j].kind = "more" /\ gets'[m].kind = "more" => j = m
           /\ gets'[j].kind = "list" /\ Current(gets[j])' /\ Current(gets[m])' =>
                  gets'[m].kind # "more" /\ (gets'[m].kind = "list" => j = m)
    /\ \A j \in DOMAIN gets' : gets'[j].kind = "more" =>
           w'.loadingMore /\ gets[i].kind # "more"
    /\ \A kind : (gets[i].kind # kind \/ ~Current(gets[i])) /\ Pending(kind) => Pending(kind)'

LEMMA Answered ==
  ASSUME IInv, NEW i \in DOMAIN gets, gets' = Without(gets, i),
         w'.loadSeq = w.loadSeq, w'.taskId = w.taskId, home' = home, reopened' = reopened,
         gets[i].kind = "more" \/ w'.loadingMore = w.loadingMore
  PROVE  Remains(i)
<1>1. gets \in Seq(Requests) /\ Len(gets) \in Nat /\ Len(gets) <= MaxGets /\ MaxGets \in Nat
  BY BoundAssumption DEF IInv, TypeInv
<1>2. gets' \in Seq(Requests) /\ Len(gets') <= MaxGets
  <2>1. gets' \in Seq(Requests) /\ Len(gets') = Len(gets) - 1
    BY <1>1, WithoutFacts
  <2> QED
    BY <1>1, <2>1
<1>3. /\ \A j \in DOMAIN gets' : \E k \in DOMAIN gets : k # i /\ gets'[j] = gets[k]
      /\ \A k \in DOMAIN gets : k # i => \E j \in DOMAIN gets' : gets'[j] = gets[k]
  BY <1>1, WithoutFacts
<1>4. \A j, m \in DOMAIN gets' : j # m =>
          \E k, l \in DOMAIN gets :
              k # i /\ l # i /\ k # l /\ gets'[j] = gets[k] /\ gets'[m] = gets[l]
  BY <1>1, WithoutApart
<1>5. \A j \in DOMAIN gets' : gets'[j].seq <= w'.loadSeq /\ 0 < w'.loadSeq
  BY <1>3 DEF IInv, Numbered
<1>6. \A j \in DOMAIN gets' : \A m \in DOMAIN gets'[j].list :
          home'[gets'[j].list[m].id] \in Tasks /\ home'[gets'[j].list[m].id] = gets'[j].task
  BY <1>3 DEF IInv, Origins
<1>7. Own'
  BY <1>3 DEF IInv, Own, Current
<1>8. \A j, m \in DOMAIN gets' :
          /\ gets'[j].kind = "more" /\ gets'[m].kind = "more" => j = m
          /\ gets'[j].kind = "list" /\ Current(gets[j])' /\ Current(gets[m])' =>
                 gets'[m].kind # "more" /\ (gets'[m].kind = "list" => j = m)
  <2> SUFFICES ASSUME NEW j \in DOMAIN gets', NEW m \in DOMAIN gets'
               PROVE  /\ gets'[j].kind = "more" /\ gets'[m].kind = "more" => j = m
                      /\ gets'[j].kind = "list" /\ Current(gets[j])' /\ Current(gets[m])' =>
                             gets'[m].kind # "more" /\ (gets'[m].kind = "list" => j = m)
    OBVIOUS
  <2>1. CASE j # m
    <3>1. PICK k \in DOMAIN gets, l \in DOMAIN gets :
              k # l /\ gets'[j] = gets[k] /\ gets'[m] = gets[l]
      BY <1>4, <2>1
    <3> QED
      BY <3>1 DEF IInv, Single, Current
  <2>2. CASE j = m
    <3>1. PICK k \in DOMAIN gets : gets'[j] = gets[k]
      BY <1>3
    <3> QED
      BY <2>2, <3>1
  <2> QED
    BY <2>1, <2>2
<1>9. ASSUME NEW j \in DOMAIN gets', gets'[j].kind = "more"
      PROVE  w'.loadingMore /\ gets[i].kind # "more"
  <2>1. PICK k \in DOMAIN gets : k # i /\ gets'[j] = gets[k]
    BY <1>3
  <2> QED
    BY <1>9, <2>1 DEF IInv, Single
<1>10. ASSUME NEW kind, gets[i].kind # kind \/ ~Current(gets[i]), Pending(kind)
       PROVE  Pending(kind)'
  <2>1. PICK k \in DOMAIN gets : gets[k].kind = kind /\ Current(gets[k])
    BY <1>10 DEF Pending
  <2>2. k # i
    BY <1>10, <2>1
  <2>3. PICK j \in DOMAIN gets' : gets'[j] = gets[k]
    BY <1>3, <2>2
  <2> QED
    BY <2>1, <2>3 DEF Pending, Current
<1> QED
  BY <1>2, <1>3, <1>5, <1>6, <1>7, <1>8, <1>9, <1>10 DEF Remains

(* The pages that are asked for stay before what the pane has.             *)
LEMMA AnsweredSorted ==
  ASSUME IInv, NEW i \in DOMAIN gets,
         \A j \in DOMAIN gets' : \E k \in DOMAIN gets : k # i /\ gets'[j] = gets[k],
         w'.loadSeq = w.loadSeq, crossed' \/ Rising(w'.attempts),
         \/ crossed'
         \/ w'.attempts = w.attempts /\ ~crossed
         \/ \A j \in DOMAIN gets' : gets'[j].kind = "more" => ~Current(gets[j])'
  PROVE  Sorted'
<1> SUFFICES ASSUME NEW j \in DOMAIN gets'
             PROVE  /\ Rising(gets'[j].list)
                    /\ gets'[j].kind = "more" =>
                           /\ gets'[j].before \in Ids
                           /\ \A m \in DOMAIN gets'[j].list :
                                  gets'[j].list[m].id < gets'[j].before
                           /\ Current(gets[j])' /\ ~crossed' =>
                                  \A m \in DOMAIN w'.attempts :
                                      gets'[j].before <= w'.attempts[m].id
  BY DEF Sorted, Rising
<1>1. PICK k \in DOMAIN gets : gets'[j] = gets[k]
  OBVIOUS
<1>2. /\ Rising(gets'[j].list)
      /\ gets'[j].kind = "more" =>
             /\ gets'[j].before \in Ids
             /\ \A m \in DOMAIN gets'[j].list : gets'[j].list[m].id < gets'[j].before
  BY <1>1 DEF IInv, Sorted
<1>3. ASSUME gets'[j].kind = "more", Current(gets[j])', ~crossed'
      PROVE  \A m \in DOMAIN w'.attempts : gets'[j].before <= w'.attempts[m].id
  <2>1. w'.attempts = w.attempts /\ ~crossed
    BY <1>3
  <2>2. Current(gets[k])
    BY <1>1, <1>3 DEF Current
  <2> QED
    BY <1>1, <1>3, <2>1, <2>2 DEF IInv, Sorted
<1> QED
  BY <1>2, <1>3

LEMMA TaskAnswerStep ==
  ASSUME IInv, NEW i \in Nat, TaskAnswer(i)
  PROVE  IInv'
<1> DEFINE g == gets[i]
<1>1. /\ i \in DOMAIN gets /\ g.kind = "task" /\ g.task \in cards
      /\ gets' = Without(gets, i)
      /\ w' = IF Current(g) THEN [w EXCEPT !.task = g.task, !.form = g.task] ELSE w
      /\ UNCHANGED <<pane, cards, home, rows, state, news, calls, turns, cardLost, listLost,
                     reopened, crossed, overlooked>>
  BY DEF TaskAnswer, server, ghosts
<1>2. TypeInv /\ w \in Data /\ g.task \in Tasks
  BY <1>1 DEF IInv, TypeInv
<1>3. /\ w' \in Data /\ w'.taskId = w.taskId /\ w'.attempts = w.attempts
      /\ w'.activeAttemptId = w.activeAttemptId /\ w'.loadingMore = w.loadingMore
      /\ w'.loadSeq = w.loadSeq
      /\ w'.task = IF Current(g) THEN g.task ELSE w.task
      /\ w'.form = IF Current(g) THEN g.task ELSE w.form
  BY <1>1, <1>2 DEF Data
<1>4. Remains(i)
  BY <1>1, <1>3, Answered
<1>5. TypeInv'
  BY <1>1, <1>2, <1>3, <1>4 DEF Remains, TypeInv
<1>6. Numbered' /\ Origins'
  BY <1>1, <1>3, <1>4 DEF Remains, IInv, Numbered, Origins
<1>7. Sorted'
  <2>1. crossed' \/ Rising(w'.attempts)
    BY <1>1, <1>3 DEF IInv, Sorted
  <2> QED
    BY <1>1, <1>3, <1>4, <2>1, AnsweredSorted DEF Remains
<1>8. Single'
  <2>1. \A j \in DOMAIN gets' : gets'[j].kind = "list" /\ Current(gets[j])' =>
            w'.attempts = <<>> \/ crossed'
    BY <1>1, <1>3, <1>4 DEF Remains, IInv, Single, Current
  <2> QED
    BY <1>4, <2>1 DEF Remains, Single
<1>9. ShownIsSelected'
  <2>1. CASE Current(g)
    <3>1. g.task = w.taskId \/ (w.taskId = NoTask /\ reopened)
      BY <1>1, <2>1 DEF IInv, Own
    <3> QED
      BY <1>1, <1>3, <2>1, <3>1 DEF ShownIsSelected
  <2>2. CASE ~Current(g)
    BY <1>1, <1>3, <1>4, <2>2 DEF Remains, IInv, ShownIsSelected
  <2> QED
    BY <2>1, <2>2
<1>10. ActiveIsOfSelected'
  <2>1. gets[i].kind # "list"
    BY <1>1
  <2> QED
    BY <1>1, <1>3, <1>4, <2>1 DEF Remains, IInv, ActiveIsOfSelected
<1>11. w'.task # NoTask => w'.form = w'.task
  BY <1>3 DEF IInv
<1> QED
  BY <1>4, <1>5, <1>6, <1>7, <1>8, <1>9, <1>10, <1>11 DEF Remains, IInv

LEMMA ListAnswerStep ==
  ASSUME IInv, NEW i \in Nat, ListAnswer(i)
  PROVE  IInv'
<1> DEFINE g == gets[i]
<1>1. /\ i \in DOMAIN gets /\ g.kind = "list"
      /\ gets' = Without(gets, i)
      /\ w' = IF Current(g)
              THEN [w EXCEPT !.attempts = g.list, !.hasMore = g.more,
                             !.activeAttemptId = Chosen(w, g.list)]
              ELSE w
      /\ crossed' = (crossed /\ ~Current(g))
      /\ UNCHANGED <<pane, cards, home, rows, state, news, calls, turns, cardLost, listLost,
                     reopened, overlooked>>
  BY DEF ListAnswer, server
<1>2. TypeInv /\ w \in Data /\ g \in Requests /\ g.list \in Seq(Rows) /\ g.more \in BOOLEAN
  <2>1. g \in Requests
    BY <1>1 DEF IInv, TypeInv
  <2> QED
    BY <2>1 DEF IInv, TypeInv, Requests
<1>3. /\ Chosen(w, g.list) \in Ids \cup {NoId}
      /\ \/ Chosen(w, g.list) = NoId
         \/ \E k \in DOMAIN g.list : Chosen(w, g.list) = g.list[k].id
  <2>1. CASE w.activeAttemptId \in IdsOf(g.list)
    BY <1>2, <2>1 DEF Chosen, IdsOf, Data
  <2>2. CASE w.activeAttemptId \notin IdsOf(g.list)
    BY <1>2, <2>2, LastIdFacts DEF Chosen
  <2> QED
    BY <2>1, <2>2
<1>4. /\ w' \in Data /\ w'.taskId = w.taskId /\ w'.task = w.task /\ w'.form = w.form
      /\ w'.loadingMore = w.loadingMore /\ w'.loadSeq = w.loadSeq
      /\ w'.attempts = IF Current(g) THEN g.list ELSE w.attempts
      /\ w'.activeAttemptId = IF Current(g) THEN Chosen(w, g.list) ELSE w.activeAttemptId
  <2> DEFINE next == Chosen(w, g.list)
  <2>1. next \in Ids \cup {NoId}
    BY <1>3
  <2> HIDE DEF next
  <2>2. w' = IF Current(g)
             THEN [w EXCEPT !.attempts = g.list, !.hasMore = g.more, !.activeAttemptId = next]
             ELSE w
    BY <1>1 DEF next
  <2>3. /\ w' \in Data /\ w'.taskId = w.taskId /\ w'.task = w.task /\ w'.form = w.form
        /\ w'.loadingMore = w.loadingMore /\ w'.loadSeq = w.loadSeq
        /\ w'.attempts = IF Current(g) THEN g.list ELSE w.attempts
        /\ w'.activeAttemptId = IF Current(g) THEN next ELSE w.activeAttemptId
    <3> HIDE DEF g
    <3>1. CASE Current(g)
      BY <1>2, <2>1, <2>2, <3>1 DEF Data
    <3>2. CASE ~Current(g)
      BY <1>2, <2>2, <3>2
    <3> QED
      BY <3>1, <3>2
  <2> QED
    BY <2>3 DEF next
<1>5. Remains(i)
  BY <1>1, <1>4, Answered
<1>6. crossed \in BOOLEAN /\ crossed' \in BOOLEAN
  BY <1>1, <1>2 DEF TypeInv
<1>7. TypeInv'
  BY <1>1, <1>2, <1>4, <1>5, <1>6 DEF TypeInv, Remains
<1>8. Numbered'
  BY <1>1, <1>4, <1>5 DEF IInv, Numbered, Remains
<1>9. /\ \A k \in DOMAIN g.list : home[g.list[k].id] \in Tasks /\ home[g.list[k].id] = g.task
      /\ Current(g) => g.task = w.taskId \/ w.taskId = NoTask
  BY <1>1 DEF IInv, Origins, Own
<1>10. Origins'
  <2>1. CASE Current(g)
    <3>1. \A k \in DOMAIN w'.attempts :
              /\ home[w'.attempts[k].id] \in Tasks
              /\ w'.taskId = NoTask \/ crossed' \/ home[w'.attempts[k].id] = w'.taskId
      BY <1>4, <1>9, <2>1
    <3>2. w'.activeAttemptId # NoId => home[w'.activeAttemptId] \in Tasks
      BY <1>3, <1>4, <1>9, <2>1
    <3> QED
      BY <1>1, <1>5, <3>1, <3>2 DEF IInv, Origins, Remains
  <2>2. CASE ~Current(g)
    BY <1>1, <1>4, <1>5, <2>2 DEF IInv, Origins, Remains
  <2> QED
    BY <2>1, <2>2
<1>11. Current(g) => \A j \in DOMAIN gets' :
           Current(gets[j])' => gets'[j].kind # "more" /\ gets'[j].kind # "list"
  <2> SUFFICES ASSUME Current(g), NEW j \in DOMAIN gets', Current(gets[j])'
               PROVE  gets'[j].kind # "more" /\ gets'[j].kind # "list"
    OBVIOUS
  <2>1. PICK k \in DOMAIN gets : k # i /\ gets'[j] = gets[k]
    BY <1>5 DEF Remains
  <2>2. Current(gets[k])
    BY <1>4, <2>1 DEF Current
  <2> QED
    BY <1>1, <2>1, <2>2 DEF IInv, Single
<1>12. Sorted'
  <2>1. CASE Current(g)
    <3>1. Rising(w'.attempts)
      BY <1>1, <1>4, <2>1 DEF IInv, Sorted
    <3> QED
      BY <1>1, <1>4, <1>5, <1>11, <2>1, <3>1, AnsweredSorted DEF Remains
  <2>2. CASE ~Current(g)
    <3>1. crossed' \/ Rising(w'.attempts)
      BY <1>1, <1>4, <1>6, <2>2 DEF IInv, Sorted
    <3>2. crossed' = crossed /\ w'.attempts = w.attempts
      BY <1>1, <1>4, <1>6, <2>2
    <3> QED
      BY <1>1, <1>4, <1>5, <3>1, <3>2, AnsweredSorted DEF Remains
  <2> QED
    BY <2>1, <2>2
<1>13. Single'
  <2>1. \A j \in DOMAIN gets' : gets'[j].kind = "list" /\ Current(gets[j])' =>
            w'.attempts = <<>> \/ crossed'
    <3>1. CASE Current(g)
      BY <1>11, <3>1
    <3>2. CASE ~Current(g)
      BY <1>1, <1>4, <1>5, <1>6, <3>2 DEF IInv, Single, Current, Remains
    <3> QED
      BY <3>1, <3>2
  <2> QED
    BY <1>5, <2>1 DEF Single, Remains
<1>14. ShownIsSelected'
  <2>1. gets[i].kind # "task"
    BY <1>1
  <2> QED
    BY <1>1, <1>4, <1>5, <2>1 DEF IInv, ShownIsSelected, Remains
<1>15. ActiveIsOfSelected'
  <2>1. CASE Current(g)
    BY <1>1, <1>3, <1>4, <1>9, <2>1 DEF ActiveIsOfSelected
  <2>2. CASE ~Current(g)
    BY <1>1, <1>4, <1>5, <1>6, <2>2 DEF IInv, ActiveIsOfSelected, Remains
  <2> QED
    BY <2>1, <2>2
<1> QED
  BY <1>4, <1>5, <1>7, <1>8, <1>10, <1>12, <1>13, <1>14, <1>15 DEF IInv, Remains

(* A page before a list.                                                   *)
LEMMA Joined ==
  ASSUME NEW page \in Seq(Rows), NEW list \in Seq(Rows)
  PROVE  /\ page \o list \in Seq(Rows)
         /\ \A k \in DOMAIN (page \o list) :
                \/ \E m \in DOMAIN page : (page \o list)[k] = page[m]
                \/ \E m \in DOMAIN list : (page \o list)[k] = list[m]
         /\ \A m \in DOMAIN page : \E k \in DOMAIN (page \o list) : (page \o list)[k] = page[m]
         /\ \A m \in DOMAIN list : \E k \in DOMAIN (page \o list) : (page \o list)[k] = list[m]
         /\ Rising(page) /\ Rising(list)
            /\ (\A m \in DOMAIN page, n \in DOMAIN list : page[m].id < list[n].id)
            => Rising(page \o list)
<1> DEFINE both == page \o list
           m == Len(page)
           n == Len(list)
<1>1. /\ m \in Nat /\ n \in Nat /\ both \in Seq(Rows)
      /\ DOMAIN page = 1 .. m /\ DOMAIN list = 1 .. n /\ DOMAIN both = 1 .. m + n
      /\ \A k \in 1 .. m : both[k] = page[k]
      /\ \A k \in 1 .. n : both[m + k] = list[k]
  OBVIOUS
<1> HIDE DEF both, m, n
<1>2. ASSUME NEW k \in 1 .. m + n
      PROVE  \/ k \in 1 .. m /\ both[k] = page[k]
             \/ m < k /\ k - m \in 1 .. n /\ both[k] = list[k - m]
  <2>1. CASE k <= m
    BY <1>1, <2>1
  <2>2. CASE m < k
    <3>1. k - m \in 1 .. n /\ m + (k - m) = k
      BY <1>1, <2>2
    <3> QED
      BY <1>1, <2>2, <3>1
  <2> QED
    BY <1>1, <2>1, <2>2
<1>3. ASSUME Rising(page), Rising(list),
             \A a \in DOMAIN page, b \in DOMAIN list : page[a].id < list[b].id
      PROVE  Rising(both)
  <2> SUFFICES ASSUME NEW a \in 1 .. m + n, NEW b \in 1 .. m + n, a < b
               PROVE  both[a].id < both[b].id
    BY <1>1 DEF Rising
  <2>1. CASE a \in 1 .. m /\ b \in 1 .. m /\ both[a] = page[a] /\ both[b] = page[b]
    BY <1>1, <1>3, <2>1 DEF Rising
  <2>2. CASE a \in 1 .. m /\ both[a] = page[a] /\ b - m \in 1 .. n /\ both[b] = list[b - m]
    BY <1>1, <1>3, <2>2
  <2>3. CASE /\ a - m \in 1 .. n /\ both[a] = list[a - m]
             /\ b - m \in 1 .. n /\ both[b] = list[b - m]
    <3>1. a - m < b - m
      BY <1>1
    <3> QED
      BY <1>1, <1>3, <2>3, <3>1 DEF Rising
  <2>4. ~(m < a /\ b \in 1 .. m)
    BY <1>1
  <2> QED
    BY <1>2, <2>1, <2>2, <2>3, <2>4
<1>4. \A k \in DOMAIN both :
          \/ \E a \in DOMAIN page : both[k] = page[a]
          \/ \E b \in DOMAIN list : both[k] = list[b]
  BY <1>1, <1>2
<1>5. \A a \in DOMAIN page : \E k \in DOMAIN both : both[k] = page[a]
  <2>1. \A a \in 1 .. m : a \in 1 .. m + n
    BY <1>1
  <2> QED
    BY <1>1, <2>1
<1>6. \A b \in DOMAIN list : \E k \in DOMAIN both : both[k] = list[b]
  <2>1. \A b \in 1 .. n : m + b \in 1 .. m + n
    BY <1>1
  <2> QED
    BY <1>1, <2>1
<1> QED
  BY <1>1, <1>3, <1>4, <1>5, <1>6 DEF both

LEMMA MoreAnswerStep ==
  ASSUME IInv, NEW i \in Nat, MoreAnswer(i)
  PROVE  IInv'
<1> DEFINE g == gets[i]
           list == g.list \o w.attempts
<1>1. /\ i \in DOMAIN gets /\ g.kind = "more"
      /\ gets' = Without(gets, i)
      /\ w' = [w EXCEPT !.attempts = list, !.hasMore = g.more, !.loadingMore = FALSE]
      /\ crossed' = (crossed \/ ~Current(g))
      /\ UNCHANGED <<pane, cards, home, rows, state, news, calls, turns, cardLost, listLost,
                     reopened, overlooked>>
  BY DEF MoreAnswer, server
<1>2. /\ TypeInv /\ w \in Data /\ g \in Requests /\ g.list \in Seq(Rows) /\ g.more \in BOOLEAN
      /\ w.attempts \in Seq(Rows)
  <2>1. g \in Requests /\ w \in Data
    BY <1>1 DEF IInv, TypeInv
  <2> QED
    BY <2>1, FieldTypes DEF IInv, Requests
<1>3. /\ list \in Seq(Rows)
      /\ \A k \in DOMAIN list : \/ \E m \in DOMAIN g.list : list[k] = g.list[m]
                                \/ \E m \in DOMAIN w.attempts : list[k] = w.attempts[m]
      /\ Rising(g.list) /\ Rising(w.attempts)
         /\ (\A m \in DOMAIN g.list, n \in DOMAIN w.attempts : g.list[m].id < w.attempts[n].id)
         => Rising(list)
  BY <1>2, Joined
<1> HIDE DEF list
<1>4. /\ w' \in Data /\ w'.taskId = w.taskId /\ w'.task = w.task /\ w'.form = w.form
      /\ w'.loadSeq = w.loadSeq /\ w'.attempts = list
      /\ w'.activeAttemptId = w.activeAttemptId
  BY <1>1, <1>2, <1>3 DEF Data
<1>5. Remains(i)
  BY <1>1, <1>4, Answered
<1>6. crossed \in BOOLEAN /\ crossed' \in BOOLEAN
  BY <1>1, <1>2 DEF TypeInv
<1>7. TypeInv'
  BY <1>1, <1>2, <1>4, <1>5, <1>6 DEF TypeInv, Remains
<1>8. Numbered'
  BY <1>1, <1>4, <1>5 DEF IInv, Numbered, Remains
<1>9. ~crossed' => Current(g) /\ ~crossed
  BY <1>1, <1>6
<1>10. Origins'
  <2>1. \A k \in DOMAIN g.list :
            /\ home[g.list[k].id] \in Tasks
            /\ w.taskId = NoTask \/ crossed' \/ home[g.list[k].id] = w.taskId
    BY <1>1, <1>9 DEF IInv, Origins, Own
  <2>2. \A k \in DOMAIN w.attempts :
            /\ home[w.attempts[k].id] \in Tasks
            /\ w.taskId = NoTask \/ crossed' \/ home[w.attempts[k].id] = w.taskId
    BY <1>9 DEF IInv, Origins
  <2>3. \A k \in DOMAIN list :
            /\ home[list[k].id] \in Tasks
            /\ w.taskId = NoTask \/ crossed' \/ home[list[k].id] = w.taskId
    BY <1>3, <2>1, <2>2
  <2> QED
    BY <1>1, <1>4, <1>5, <2>3 DEF IInv, Origins, Remains
<1>11. Sorted'
  <2>1. ASSUME ~crossed' PROVE Rising(list)
    <3>1. Rising(g.list) /\ Rising(w.attempts) /\ g.before \in Nat
      BY <1>1, <1>9, <2>1, IdAssumption DEF IInv, Sorted
    <3>2. \A m \in DOMAIN g.list, n \in DOMAIN w.attempts : g.list[m].id < w.attempts[n].id
      <4> SUFFICES ASSUME NEW m \in DOMAIN g.list, NEW n \in DOMAIN w.attempts
                   PROVE  g.list[m].id < w.attempts[n].id
        OBVIOUS
      <4>1. g.list[m].id < g.before /\ g.before <= w.attempts[n].id
        BY <1>1, <1>9, <2>1 DEF IInv, Sorted
      <4>2. g.list[m] \in Rows /\ w.attempts[n] \in Rows
        BY <1>2
      <4>3. g.list[m].id \in Nat /\ w.attempts[n].id \in Nat
        BY <4>2, IdAssumption DEF Rows
      <4> QED
        BY <3>1, <4>1, <4>3
    <3> QED
      BY <1>3, <3>1, <3>2
  <2>2. \A j \in DOMAIN gets' : gets'[j].kind # "more"
    BY <1>1, <1>5 DEF Remains
  <2> QED
    BY <1>1, <1>4, <1>5, <1>6, <2>1, <2>2, AnsweredSorted DEF Remains
<1>12. Single'
  <2>1. \A j \in DOMAIN gets' : gets'[j].kind = "list" /\ Current(gets[j])' =>
            w'.attempts = <<>> \/ crossed'
    <3> SUFFICES ASSUME NEW j \in DOMAIN gets', gets'[j].kind = "list", Current(gets[j])',
                        ~crossed'
                 PROVE  FALSE
      OBVIOUS
    <3>1. PICK k \in DOMAIN gets : k # i /\ gets'[j] = gets[k]
      BY <1>5 DEF Remains
    <3>2. Current(gets[k]) /\ Current(g)
      BY <1>4, <1>9, <3>1 DEF Current
    <3> QED
      BY <1>1, <3>1, <3>2 DEF IInv, Single
  <2>2. \A j \in DOMAIN gets' : gets'[j].kind # "more"
    BY <1>1, <1>5 DEF Remains
  <2> QED
    BY <1>5, <2>1, <2>2 DEF Single, Remains
<1>13. ShownIsSelected' /\ ActiveIsOfSelected'
  <2>1. gets[i].kind # "task" /\ gets[i].kind # "list"
    BY <1>1
  <2> QED
    BY <1>1, <1>4, <1>5, <1>6, <2>1 DEF IInv, ShownIsSelected, ActiveIsOfSelected, Remains
<1> QED
  BY <1>4, <1>5, <1>7, <1>8, <1>10, <1>11, <1>12, <1>13 DEF IInv, Remains

LEMMA GetFailsStep ==
  ASSUME IInv, NEW i \in Nat, GetFails(i)
  PROVE  IInv'
<1> DEFINE g == gets[i]
<1>1. /\ i \in DOMAIN gets
      /\ gets' = Without(gets, i)
      /\ w' = IF g.kind = "more" THEN [w EXCEPT !.loadingMore = FALSE] ELSE w
      /\ cardLost' = (cardLost \/ (g.kind = "task" /\ Current(g)))
      /\ listLost' = (listLost \/ (g.kind = "list" /\ Current(g)))
      /\ UNCHANGED <<pane, cards, home, rows, state, news, calls, reopened, crossed, overlooked>>
      /\ turns' = turns \/ turns' = turns + 1
  BY DEF GetFails, server, Turn
<1>2. TypeInv /\ w \in Data
  BY DEF IInv, TypeInv
<1>3. /\ w' \in Data /\ w'.taskId = w.taskId /\ w'.task = w.task /\ w'.form = w.form
      /\ w'.attempts = w.attempts /\ w'.loadSeq = w.loadSeq
      /\ w'.activeAttemptId = w.activeAttemptId
      /\ g.kind = "more" \/ w'.loadingMore = w.loadingMore
  BY <1>1, <1>2 DEF Data
<1>4. Remains(i)
  BY <1>1, <1>3, Answered
<1>5. turns' \in Nat
  BY <1>1, <1>2 DEF TypeInv
<1>6. cardLost' \in BOOLEAN /\ listLost' \in BOOLEAN /\ crossed' = crossed
  BY <1>1, <1>2 DEF TypeInv
<1>7. TypeInv'
  BY <1>1, <1>2, <1>3, <1>4, <1>5, <1>6 DEF TypeInv, Remains
<1>8. Numbered' /\ Origins'
  BY <1>1, <1>3, <1>4 DEF IInv, Numbered, Origins, Remains
<1>9. Sorted'
  <2>1. crossed' \/ Rising(w'.attempts)
    BY <1>3, <1>6 DEF IInv, Sorted
  <2> QED
    BY <1>1, <1>3, <1>4, <1>6, <2>1, AnsweredSorted DEF Remains
<1>10. Single'
  <2>1. \A j \in DOMAIN gets' : gets'[j].kind = "list" /\ Current(gets[j])' =>
            w'.attempts = <<>> \/ crossed'
    BY <1>1, <1>3, <1>4 DEF IInv, Single, Current, Remains
  <2> QED
    BY <1>4, <2>1 DEF Single, Remains
<1>11. ShownIsSelected'
  <2>1. CASE g.kind = "task" /\ Current(g)
    BY <1>1, <2>1 DEF ShownIsSelected
  <2>2. CASE ~(g.kind = "task" /\ Current(g))
    BY <1>1, <1>3, <1>4, <2>2 DEF IInv, ShownIsSelected, Remains
  <2> QED
    BY <2>1, <2>2
<1>12. ActiveIsOfSelected'
  <2>1. CASE g.kind = "list" /\ Current(g)
    BY <1>1, <2>1 DEF ActiveIsOfSelected
  <2>2. CASE ~(g.kind = "list" /\ Current(g))
    BY <1>1, <1>3, <1>4, <2>2 DEF IInv, ActiveIsOfSelected, Remains
  <2> QED
    BY <2>1, <2>2
<1> QED
  BY <1>3, <1>4, <1>7, <1>8, <1>9, <1>10, <1>11, <1>12 DEF IInv, Remains

-----------------------------------------------------------------------------
(* Pages are asked for and read.                                           *)

LEMMA LoadMoreStep ==
  ASSUME IInv, LoadMore
  PROVE  IInv'
<1> DEFINE first == w.attempts[1].id
           r     == [Get("more", w, first) EXCEPT !.seq = IF crossed THEN 0 ELSE @]
           n     == Len(gets)
<1>1. /\ w.loadingMore = FALSE /\ w.attempts # <<>> /\ n < MaxGets
      /\ w' = [w EXCEPT !.loadingMore = TRUE] /\ gets' = Append(gets, r)
      /\ UNCHANGED <<pane, cards, home, rows, state, news, calls, turns, cardLost, listLost,
                     reopened, crossed, overlooked>>
  <2>1. w.loadingMore \in BOOLEAN
    BY DEF IInv, TypeInv, Data
  <2> QED
    BY <2>1 DEF LoadMore, MayLoadMore, server, ghosts
<1>2. /\ TypeInv /\ w \in Data /\ gets \in Seq(Requests) /\ n \in Nat /\ MaxGets \in Nat
      /\ DOMAIN gets = 1 .. n /\ w.attempts \in Seq(Rows) /\ w.loadSeq \in Nat
      /\ w.taskId \in Tasks \cup {NoTask} /\ crossed \in BOOLEAN
  BY BoundAssumption, FieldTypes DEF IInv, TypeInv
<1>3. 1 \in DOMAIN w.attempts /\ first \in Ids
  <2>1. 1 \in DOMAIN w.attempts /\ w.attempts[1] \in Rows
    BY <1>1, <1>2, EmptySeq, LenProperties
  <2> QED
    BY <2>1 DEF Rows
<1> HIDE DEF first
<1>4. /\ r \in Requests /\ r.kind = "more" /\ r.list = <<>> /\ r.before = first
      /\ r.task = w.taskId /\ r.seq = IF crossed THEN 0 ELSE w.loadSeq
  <2> DEFINE num == IF crossed THEN 0 ELSE w.loadSeq
  <2>1. num \in Nat
    BY <1>2
  <2>2. r = [kind |-> "more", seq |-> num, task |-> w.taskId, before |-> first,
             read |-> FALSE, list |-> <<>>, more |-> FALSE]
    <3> DEFINE G == Get("more", w, first)
    <3>1. G = [kind |-> "more", seq |-> w.loadSeq, task |-> w.taskId, before |-> first,
               read |-> FALSE, list |-> <<>>, more |-> FALSE]
      BY DEF Get
    <3> HIDE DEF G
    <3>2. r = [G EXCEPT !.seq = num]
      BY <3>1 DEF G
    <3> HIDE DEF r, num
    <3> QED
      BY <3>1, <3>2
  <2>3. <<>> \in Seq(Rows)
    OBVIOUS
  <2> HIDE DEF num, r
  <2>4. /\ r \in Requests /\ r.kind = "more" /\ r.list = <<>> /\ r.before = first
        /\ r.task = w.taskId /\ r.seq = num
    BY <1>2, <1>3, <2>1, <2>2, <2>3 DEF Requests
  <2> QED
    BY <2>4 DEF num
<1> HIDE DEF r
<1>5. /\ w' \in Data /\ w'.taskId = w.taskId /\ w'.task = w.task /\ w'.form = w.form
      /\ w'.attempts = w.attempts /\ w'.loadSeq = w.loadSeq /\ w'.loadingMore = TRUE
      /\ w'.activeAttemptId = w.activeAttemptId
  BY <1>1, <1>2 DEF Data
<1>6. /\ gets' \in Seq(Requests) /\ Len(gets') <= MaxGets /\ DOMAIN gets' = 1 .. n + 1
      /\ \A k \in 1 .. n : gets'[k] = gets[k]
      /\ gets'[n + 1] = r /\ n + 1 \notin 1 .. n
  BY <1>1, <1>2, <1>4
<1> HIDE DEF n
<1>7. \A k \in DOMAIN gets' : (k \in DOMAIN gets /\ gets'[k] = gets[k]) \/ k = n + 1
  BY <1>2, <1>6
<1>8. 0 < w.loadSeq
  BY <1>1 DEF IInv, Numbered
<1>9. r.seq = w.loadSeq => ~crossed
  BY <1>2, <1>4, <1>8
<1>10. TypeInv'
  BY <1>1, <1>2, <1>5, <1>6 DEF TypeInv
<1>11. Numbered'
  <2>1. r.seq <= w.loadSeq
    BY <1>2, <1>4
  <2> QED
    BY <1>5, <1>6, <1>7, <1>8, <2>1 DEF IInv, Numbered
<1>12. Origins'
  BY <1>1, <1>4, <1>5, <1>6, <1>7 DEF IInv, Origins
<1>13. Own'
  BY <1>1, <1>4, <1>5, <1>6, <1>7 DEF IInv, Own, Current
<1>14. Sorted'
  <2>1. ~crossed => \A j \in DOMAIN w.attempts : first <= w.attempts[j].id
    <3> SUFFICES ASSUME ~crossed, NEW j \in DOMAIN w.attempts
                 PROVE  first <= w.attempts[j].id
      OBVIOUS
    <3>1. 1 < j => first < w.attempts[j].id
      BY <1>3 DEF IInv, Sorted, Rising, first
    <3>2. j \in Nat /\ 1 <= j
      BY <1>2
    <3>3. w.attempts[j] \in Rows
      BY <1>2
    <3>4. w.attempts[j].id \in Nat /\ first \in Nat
      BY <1>3, <3>3, IdAssumption DEF Rows
    <3>5. j = 1 => first = w.attempts[j].id
      BY DEF first
    <3> QED
      BY <3>1, <3>2, <3>4, <3>5
  <2> QED
    BY <1>1, <1>3, <1>4, <1>5, <1>6, <1>7, <1>9, <2>1 DEF IInv, Sorted, Rising, Current
<1>15. Single'
  <2>1. \A k \in DOMAIN gets : gets[k].kind # "more"
    BY <1>1 DEF IInv, Single
  <2>2. ASSUME NEW k \in DOMAIN gets, gets[k].kind = "list", Current(gets[k])
        PROVE  r.seq # w.loadSeq
    BY <1>1, <1>9, <2>2 DEF IInv, Single
  <2>3. \A k \in DOMAIN gets' :
           \/ k \in DOMAIN gets /\ gets'[k] = gets[k] 
           \/ k = n + 1 /\ gets'[k].kind = "more" /\ gets'[k].seq = r.seq
    BY <1>4, <1>5, <1>6, <1>7 DEF Current
  <2>4. ASSUME NEW k \in DOMAIN gets', NEW j \in DOMAIN gets',
               gets'[k].kind = "more", gets'[j].kind = "more"
        PROVE  k = j
    BY <2>1, <2>3, <2>4
  <2>5. ASSUME NEW k \in DOMAIN gets', gets'[k].kind = "list", gets'[k].seq = w.loadSeq
        PROVE  /\ k \in DOMAIN gets /\ gets'[k] = gets[k] /\ r.seq # w.loadSeq
               /\ w.attempts = <<>> \/ crossed
    BY <1>1, <2>2, <2>3, <2>5 DEF IInv, Single, Current
  <2>6. ASSUME NEW k \in DOMAIN gets', NEW j \in DOMAIN gets',
               gets'[k].kind = "list", gets'[k].seq = w.loadSeq, gets'[j].seq = w.loadSeq
        PROVE  gets'[j].kind # "more" /\ (gets'[j].kind = "list" => k = j)
    BY <2>3, <2>5, <2>6 DEF IInv, Single, Current
  <2> QED
    BY <1>1, <1>5, <2>4, <2>5, <2>6 DEF Single, Current
<1>16. \A kind : Pending(kind) => Pending(kind)'
  BY <1>2, <1>5, <1>6 DEF Pending, Current
<1>17. ShownIsSelected' /\ ActiveIsOfSelected'
  BY <1>1, <1>5, <1>16 DEF IInv, ShownIsSelected, ActiveIsOfSelected
<1> QED
  BY <1>5, <1>10, <1>11, <1>12, <1>13, <1>14, <1>15, <1>17 DEF IInv

(* A list that the server sends.                                           *)
LEMMA ListingFacts ==
  ASSUME TypeInv, NEW S \in SUBSET Ids
  PROVE  /\ Listing(S) \in Seq(Rows)
         /\ \A j \in DOMAIN Listing(S) :
                Listing(S)[j].id \in S /\ Listing(S)[j].state = state[Listing(S)[j].id]
         /\ Rising(Listing(S))
         /\ IdsOf(Listing(S)) = S
<1> DEFINE n == Cardinality(S)
           order == InOrder(S)
<1>1. S \subseteq Nat /\ IsFiniteSet(S)
  BY IdAssumption, FS_Subset
<1>2. /\ n \in Nat /\ order \in [1 .. n -> S]
      /\ \A i, j \in 1 .. n : i < j => order[i] < order[j]
      /\ \A a \in S : \E k \in 1 .. n : order[k] = a
  BY <1>1, InOrderFacts
<1> HIDE DEF n, order
<1>3. Listing(S) = [i \in 1 .. n |-> [id |-> order[i], state |-> state[order[i]]]]
  BY <1>2 DEF Listing, order
<1>4. \A i \in 1 .. n : [id |-> order[i], state |-> state[order[i]]] \in Rows
  BY <1>2 DEF TypeInv, Rows
<1>5. Listing(S) \in [1 .. n -> Rows]
  BY <1>3, <1>4
<1>6. /\ DOMAIN Listing(S) = 1 .. n
      /\ \A i \in 1 .. n : Listing(S)[i].id = order[i] /\ Listing(S)[i].state = state[order[i]]
  BY <1>3
<1>7. Listing(S) \in Seq(Rows) /\ Rising(Listing(S))
  BY <1>2, <1>5, <1>6 DEF Rising
<1>8. IdsOf(Listing(S)) = S
  BY <1>2, <1>6 DEF IdsOf
<1> QED
  BY <1>2, <1>6, <1>7, <1>8

LEMMA ListAttemptsStep ==
  ASSUME IInv, NEW i \in Nat, ListAttempts(i)
  PROVE  IInv'
<1> DEFINE g    == gets[i]
           page == Page(g.task, g.before)
           more == \E a \in Attempts(g.task) \ page : \A b \in page : a < b
           h    == [g EXCEPT !.read = TRUE, !.list = Listing(page), !.more = more]
<1>1. /\ i \in DOMAIN gets /\ gets' = [gets EXCEPT ![i] = h]
      /\ overlooked' = IF g.kind = "list" /\ Current(g) THEN overlooked \ page ELSE overlooked
      /\ UNCHANGED <<pane, cards, home, rows, state, news, w, calls, turns, cardLost, listLost,
                     reopened, crossed>>
  BY DEF ListAttempts, server
<1>2. TypeInv /\ gets \in Seq(Requests) /\ g \in Requests
  BY <1>1 DEF IInv, TypeInv
<1>3. /\ page \in SUBSET Ids /\ \A a \in page : a \in rows /\ home[a] = g.task
      /\ g.before # NoId => \A a \in page : a < g.before
  BY <1>2 DEF Page, Attempts, TypeInv
<1> HIDE DEF page
<1>4. /\ Listing(page) \in Seq(Rows)
      /\ \A j \in DOMAIN Listing(page) : Listing(page)[j].id \in page
      /\ Rising(Listing(page))
  BY <1>2, <1>3, ListingFacts
<1>5. more \in BOOLEAN
  OBVIOUS
<1> HIDE DEF more
<1>6. /\ h \in Requests /\ h.kind = g.kind /\ h.seq = g.seq /\ h.task = g.task
      /\ h.before = g.before /\ h.list = Listing(page)
  <2> HIDE DEF g
  <2> QED
    BY <1>2, <1>4, <1>5 DEF Requests
<1> HIDE DEF h
<1>7. /\ gets' \in Seq(Requests) /\ Len(gets') = Len(gets) /\ DOMAIN gets' = DOMAIN gets
      /\ \A k \in DOMAIN gets : gets'[k] = IF k = i THEN h ELSE gets[k]
  <2> HIDE DEF g
  <2> QED
    BY <1>1, <1>2, <1>6
<1>8. /\ \A k \in DOMAIN gets :
             /\ gets'[k].kind = gets[k].kind /\ gets'[k].seq = gets[k].seq
             /\ gets'[k].task = gets[k].task /\ gets'[k].before = gets[k].before
             /\ k = i \/ gets'[k].list = gets[k].list
      /\ gets'[i].list = Listing(page)
  BY <1>1, <1>6, <1>7
<1>9. TypeInv'
  BY <1>1, <1>2, <1>7 DEF TypeInv
<1>10. Numbered' /\ Own' /\ Single'
  BY <1>1, <1>7, <1>8 DEF IInv, Numbered, Own, Single, Current
<1>11. Origins'
  <2>1. \A a \in page : home[a] \in Tasks
    BY <1>2, <1>3 DEF TypeInv
  <2>2. ASSUME NEW k \in DOMAIN gets, NEW j \in DOMAIN gets'[k].list
        PROVE  /\ home[gets'[k].list[j].id] \in Tasks
               /\ home[gets'[k].list[j].id] = gets[k].task
    <3>1. CASE k = i
      <4>1. j \in DOMAIN Listing(page) /\ gets'[k].list[j].id \in page
        BY <1>4, <1>8, <2>2, <3>1
      <4> QED
        BY <1>3, <2>1, <3>1, <4>1
    <3>2. CASE k # i
      BY <1>8, <2>2, <3>2 DEF IInv, Origins
    <3> QED
      BY <3>1, <3>2
  <2> QED
    BY <1>1, <1>7, <1>8, <2>2 DEF IInv, Origins
<1>12. Sorted'
  <2>1. ASSUME NEW k \in DOMAIN gets
        PROVE  /\ Rising(gets'[k].list)
               /\ gets[k].kind = "more" =>
                      \A j \in DOMAIN gets'[k].list : gets'[k].list[j].id < gets[k].before
    <3>1. CASE k = i
      <4>1. Rising(gets'[k].list)
        BY <1>4, <1>8, <3>1
      <4>2. ASSUME gets[k].kind = "more", NEW j \in DOMAIN gets'[k].list
            PROVE  gets'[k].list[j].id < gets[k].before
        <5>1. gets'[k].list[j].id \in page
          BY <1>4, <1>8, <3>1, <4>2
        <5>2. g.before # NoId
          BY <3>1, <4>2, IdAssumption DEF IInv, Sorted, NoId
        <5> QED
          BY <1>3, <3>1, <5>1, <5>2
      <4> QED
        BY <4>1, <4>2
    <3>2. CASE k # i
      BY <1>8, <3>2 DEF IInv, Sorted, Rising
    <3> QED
      BY <3>1, <3>2
  <2>2. crossed' \/ Rising(w'.attempts)
    BY <1>1 DEF IInv, Sorted
  <2>3. ASSUME NEW k \in DOMAIN gets', gets'[k].kind = "more"
        PROVE  /\ gets'[k].before \in Ids
               /\ Current(gets[k])' /\ ~crossed' =>
                      \A j \in DOMAIN w'.attempts : gets'[k].before <= w'.attempts[j].id
    BY <1>1, <1>7, <1>8, <2>3 DEF IInv, Sorted, Current
  <2> QED
    BY <1>7, <1>8, <2>1, <2>2, <2>3 DEF Sorted
<1>13. ShownIsSelected' /\ ActiveIsOfSelected'
  <2>1. \A kind : Pending(kind) => Pending(kind)'
    BY <1>1, <1>7, <1>8 DEF Pending, Current
  <2> QED
    BY <1>1, <2>1 DEF IInv, ShownIsSelected, ActiveIsOfSelected
<1> QED
  BY <1>1, <1>9, <1>10, <1>11, <1>12, <1>13 DEF IInv

-----------------------------------------------------------------------------
(* What happens beside the pane.                                           *)

LEMMA PickStep ==
  ASSUME IInv, NEW a \in Ids, Pick(a)
  PROVE  IInv'
<1>1. /\ w' = [w EXCEPT !.activeAttemptId = a] /\ a \in IdsOf(w.attempts)
      /\ UNCHANGED <<pane, cards, home, rows, state, news, gets, calls, turns, cardLost, listLost,
                     reopened, crossed, overlooked>>
  BY DEF Pick, Click, server, ghosts
<1>2. TypeInv /\ w \in Data
  BY DEF IInv, TypeInv
<1>3. /\ w' \in Data /\ w'.taskId = w.taskId /\ w'.task = w.task /\ w'.form = w.form
      /\ w'.attempts = w.attempts /\ w'.loadingMore = w.loadingMore /\ w'.loadSeq = w.loadSeq
      /\ w'.activeAttemptId = a
  BY <1>1, <1>2 DEF Data
<1>4. home[a] \in Tasks /\ (w.taskId = NoTask \/ crossed \/ home[a] = w.taskId)
  BY <1>1 DEF IInv, Origins, IdsOf
<1>5. TypeInv'
  BY <1>1, <1>2, <1>3 DEF TypeInv
<1>6. Numbered' /\ Own' /\ Sorted' /\ Single'
  BY <1>1, <1>3 DEF IInv, Numbered, Own, Sorted, Rising, Single, Current
<1>7. Origins'
  BY <1>1, <1>3, <1>4 DEF IInv, Origins
<1>8. ShownIsSelected'
  BY <1>1, <1>3 DEF IInv, ShownIsSelected, Pending, Current
<1>9. ActiveIsOfSelected'
  BY <1>1, <1>3, <1>4 DEF ActiveIsOfSelected
<1> QED
  BY <1>3, <1>5, <1>6, <1>7, <1>8, <1>9 DEF IInv

(* A change of state leaves a list what it is.                             *)
LEMMA PatchedFacts ==
  ASSUME NEW list \in Seq(Rows), NEW n \in Rows
  PROVE  /\ Patched(list, n) \in Seq(Rows)
         /\ DOMAIN Patched(list, n) = DOMAIN list
         /\ \A i \in DOMAIN list :
                /\ Patched(list, n)[i].id = list[i].id
                /\ Patched(list, n)[i].state = IF list[i].id = n.id THEN n.state ELSE list[i].state
         /\ list = <<>> => Patched(list, n) = <<>>
<1> DEFINE p == Patched(list, n)
<1>1. DOMAIN p = DOMAIN list
  BY DEF Patched
<1>2. ASSUME NEW i \in DOMAIN list
      PROVE  /\ p[i] \in Rows /\ p[i].id = list[i].id
             /\ p[i].state = IF list[i].id = n.id THEN n.state ELSE list[i].state
  <2>1. list[i] \in Rows
    OBVIOUS
  <2>2. p[i] = IF list[i].id = n.id THEN [list[i] EXCEPT !.state = n.state] ELSE list[i]
    BY DEF Patched
  <2> HIDE DEF p
  <2>3. [list[i] EXCEPT !.state = n.state] \in Rows
    BY <2>1 DEF Rows
  <2>4. /\ [list[i] EXCEPT !.state = n.state].id = list[i].id
        /\ [list[i] EXCEPT !.state = n.state].state = n.state
    BY <2>1 DEF Rows
  <2> QED
    BY <2>1, <2>2, <2>3, <2>4
<1>3. p \in [1 .. Len(list) -> Rows] /\ Len(list) \in Nat
  <2>1. p = [i \in DOMAIN p |-> p[i]]
    BY DEF Patched
  <2> HIDE DEF p
  <2> QED
    BY <1>1, <1>2, <2>1
<1> HIDE DEF p
<1>4. p \in Seq(Rows)
  BY <1>3
<1>5. list = <<>> => p = <<>>
  BY <1>1, <1>4
<1> QED
  BY <1>1, <1>2, <1>4, <1>5 DEF p

LEMMA HeadTyped ==
  ASSUME TypeInv, news # <<>>
  PROVE  Head(news) \in Rows /\ Tail(news) \in Seq(Rows) /\ Head(news).id \in Ids
<1>1. Head(news) \in Rows /\ Tail(news) \in Seq(Rows)
  BY HeadTailProperties DEF TypeInv
<1> QED
  BY <1>1 DEF Rows

LEMMA NoticeStep ==
  ASSUME IInv, Notice
  PROVE  IInv'
<1> DEFINE n    == Head(news)
           list == Patched(w.attempts, n)
<1>1. /\ news # <<>> /\ news' = Tail(news) /\ w' = [w EXCEPT !.attempts = list]
      /\ overlooked' = overlooked \cup {n.id} \/ overlooked' = overlooked
      /\ UNCHANGED <<pane, cards, home, rows, state, gets, calls, turns, cardLost, listLost,
                     reopened, crossed>>
  BY DEF Notice, server
<1>2. TypeInv /\ w \in Data /\ w.attempts \in Seq(Rows)
  BY FieldTypes DEF IInv, TypeInv
<1>3. n \in Rows /\ n.id \in Ids /\ Tail(news) \in Seq(Rows)
  BY <1>1, <1>2, HeadTyped
<1> HIDE DEF n
<1>4. /\ list \in Seq(Rows) /\ DOMAIN list = DOMAIN w.attempts
      /\ \A i \in DOMAIN w.attempts : list[i].id = w.attempts[i].id
      /\ w.attempts = <<>> => list = <<>>
  BY <1>2, <1>3, PatchedFacts
<1> HIDE DEF list
<1>5. /\ w' \in Data /\ w'.taskId = w.taskId /\ w'.task = w.task /\ w'.form = w.form
      /\ w'.attempts = list /\ w'.loadingMore = w.loadingMore /\ w'.loadSeq = w.loadSeq
      /\ w'.activeAttemptId = w.activeAttemptId
  BY <1>1, <1>2, <1>4 DEF Data
<1>6. TypeInv'
  BY <1>1, <1>2, <1>3, <1>5 DEF TypeInv
<1>7. Numbered' /\ Own' /\ Single'
  BY <1>1, <1>4, <1>5 DEF IInv, Numbered, Own, Single, Current
<1>8. Origins'
  BY <1>1, <1>4, <1>5 DEF IInv, Origins
<1>9. Sorted'
  BY <1>1, <1>4, <1>5 DEF IInv, Sorted, Rising, Current
<1>10. ShownIsSelected' /\ ActiveIsOfSelected'
  BY <1>1, <1>5 DEF IInv, ShownIsSelected, ActiveIsOfSelected, Pending, Current
<1> QED
  BY <1>5, <1>6, <1>7, <1>8, <1>9, <1>10 DEF IInv

LEMMA LoseNoticeStep ==
  ASSUME IInv, LoseNotice
  PROVE  IInv'
<1>1. /\ news # <<>> /\ news' = Tail(news) /\ turns' = turns + 1
      /\ overlooked' = overlooked \cup {Head(news).id}
      /\ UNCHANGED <<pane, cards, home, rows, state, w, gets, calls, cardLost, listLost, reopened,
                     crossed>>
  BY DEF LoseNotice, Turn, server
<1>2. TypeInv
  BY DEF IInv
<1>3. Tail(news) \in Seq(Rows) /\ Head(news).id \in Ids
  BY <1>1, <1>2, HeadTyped
<1>4. TypeInv'
  BY <1>1, <1>2, <1>3 DEF TypeInv
<1>5. StartedKnown'
  BY <1>1 DEF IInv, Origins, StartedKnown
<1> QED
  BY <1>1, <1>4, <1>5, Frame DEF Kernel

LEMMA BecomesTyped ==
  ASSUME TypeInv, NEW a \in Ids, NEW s \in {"live", "settled"}, Becomes(a, s)
  PROVE  news' \in Seq(Rows) /\ state' \in [Ids -> {"live", "settled"}]
<1>1. [id |-> a, state |-> s] \in Rows
  BY DEF Rows
<1> QED
  BY <1>1 DEF Becomes, TypeInv

LEMMA FlipStep ==
  ASSUME IInv, NEW a \in Ids, Flip(a)
  PROVE  IInv'
<1>1. /\ turns' = turns + 1 /\ Becomes(a, IF state[a] = "live" THEN "settled" ELSE "live")
      /\ UNCHANGED <<pane, cards, home, rows, w, gets, calls, cardLost, listLost, reopened,
                     crossed, overlooked>>
  BY DEF Flip, Turn, ghosts
<1>2. TypeInv
  BY DEF IInv
<1>3. news' \in Seq(Rows) /\ state' \in [Ids -> {"live", "settled"}]
  BY <1>1, <1>2, BecomesTyped
<1>4. TypeInv'
  BY <1>1, <1>2, <1>3 DEF TypeInv
<1>5. StartedKnown'
  BY <1>1 DEF IInv, Origins, StartedKnown
<1> QED
  BY <1>1, <1>4, <1>5, Frame DEF Kernel

-----------------------------------------------------------------------------
(* The server.                                                             *)

(* What a handler changes: an attempt keeps the card it was started for.   *)
Served ==
    /\ cards' \subseteq Tasks /\ rows' \subseteq Ids
    /\ home' \in [Ids -> Tasks \cup {NoTask}] /\ state' \in [Ids -> {"live", "settled"}]
    /\ \A a \in rows' : home'[a] \in cards'
    /\ news' \in Seq(Rows) /\ overlooked' \subseteq Ids
    /\ \A a \in Ids : home[a] \in Tasks => home'[a] = home[a]

LEMMA DoneStep ==
  ASSUME TypeInv, NEW c \in Orders, Accepted(c), Done(c)
  PROVE  Served /\ c.op # "start"
<1>1. c.op # "start"
  BY DEF Accepted
<1>2. CASE c.op = "del"
  <2>1. /\ cards' = cards \ {c.task} /\ rows' = rows \ Attempts(c.task)
        /\ UNCHANGED <<home, state, news, overlooked>>
    BY <1>2 DEF Done
  <2> QED
    BY <1>1, <2>1 DEF TypeInv, Served, Attempts
<1>3. CASE c.op = "delAttempt"
  <2>1. /\ rows' = rows \ {c.id} /\ overlooked' = Noticed(c.id)
        /\ UNCHANGED <<cards, home, state, news>>
    BY <1>3 DEF Done
  <2>2. c.id \in Ids
    BY <1>3 DEF Accepted, TypeInv
  <2>3. overlooked' \subseteq Ids
    BY <2>1, <2>2 DEF Noticed, TypeInv
  <2> QED
    BY <1>1, <2>1, <2>3 DEF TypeInv, Served
<1>4. CASE c.op \in {"send", "continue"} /\ state[c.id] = "settled"
  <2>1. Becomes(c.id, "live") /\ UNCHANGED <<cards, home, rows, overlooked>>
    BY <1>4 DEF Done
  <2>2. c.id \in Ids
    BY <1>4 DEF Accepted, TypeInv
  <2>3. news' \in Seq(Rows) /\ state' \in [Ids -> {"live", "settled"}]
    BY <2>1, <2>2, BecomesTyped
  <2> QED
    BY <1>1, <2>1, <2>3 DEF TypeInv, Served
<1>5. CASE c.op = "cancel" /\ state[c.id] = "live"
  <2>1. Becomes(c.id, "settled") /\ UNCHANGED <<cards, home, rows, overlooked>>
    BY <1>5 DEF Done
  <2>2. c.id \in Ids
    BY <1>5 DEF Accepted, TypeInv
  <2>3. news' \in Seq(Rows) /\ state' \in [Ids -> {"live", "settled"}]
    BY <2>1, <2>2, BecomesTyped
  <2> QED
    BY <1>1, <2>1, <2>3 DEF TypeInv, Served
<1>6. CASE /\ c.op \notin {"del", "delAttempt"}
           /\ ~(c.op \in {"send", "continue"} /\ state[c.id] = "settled")
           /\ ~(c.op = "cancel" /\ state[c.id] = "live")
  <2>1. UNCHANGED <<cards, home, rows, state, news, overlooked>>
    BY <1>6 DEF Done, Same, server
  <2> QED
    BY <1>1, <2>1 DEF TypeInv, Served
<1> QED
  BY <1>1, <1>2, <1>3, <1>4, <1>5, <1>6

LEMMA StartedStep ==
  ASSUME TypeInv, NEW c \in Orders, NEW a \in Ids, NEW told, Started(c, a, told)
  PROVE  Served /\ home'[a] \in Tasks
<1>1. /\ c.task \in cards /\ home[a] = NoTask /\ home' = [home EXCEPT ![a] = c.task]
      /\ rows' = rows \cup {a} /\ Becomes(a, "live") /\ cards' = cards
      /\ overlooked' \in {overlooked, overlooked \cup {a}}
  BY DEF Started
<1>2. news' \in Seq(Rows) /\ state' \in [Ids -> {"live", "settled"}]
  BY <1>1, BecomesTyped
<1>3. cards \subseteq Tasks /\ rows \subseteq Ids /\ home \in [Ids -> Tasks \cup {NoTask}]
      /\ (\A b \in rows : home[b] \in cards) /\ overlooked \subseteq Ids /\ NoTask \notin Tasks
  BY IdAssumption DEF TypeInv
<1>4. home' \in [Ids -> Tasks \cup {NoTask}] /\ home'[a] = c.task
      /\ \A b \in Ids : b # a => home'[b] = home[b]
  BY <1>1, <1>3
<1>5. overlooked' \subseteq Ids
  BY <1>1, <1>3
<1> QED
  BY <1>1, <1>2, <1>3, <1>4, <1>5 DEF Served

(* What a handler does is no business of the pane.                         *)
LEMMA ServedStep ==
  ASSUME IInv, Served, StartedKnown', turns' \in Nat,
         calls' \in Seq(Orders), Len(calls') <= MaxCalls,
         UNCHANGED <<pane, w, gets, cardLost, listLost, reopened, crossed>>
  PROVE  IInv'
<1>1. TypeInv
  BY DEF IInv
<1>2. \A a \in Ids : home[a] \in Tasks => home'[a] = home[a]
  BY DEF Served
<1>3. TypeInv'
  BY <1>1 DEF TypeInv, Served
<1>4. Numbered' /\ Own' /\ Sorted' /\ Single'
  BY DEF IInv, Numbered, Own, Sorted, Rising, Single, Current
<1>5. /\ \A k \in DOMAIN w.attempts : w.attempts[k].id \in Ids
      /\ \A j \in DOMAIN gets : \A k \in DOMAIN gets[j].list : gets[j].list[k].id \in Ids
      /\ w.activeAttemptId \in Ids \cup {NoId}
  <2>1. w.attempts \in Seq(Rows) /\ w.activeAttemptId \in Ids \cup {NoId}
    BY <1>1, FieldTypes DEF TypeInv
  <2>2. \A j \in DOMAIN gets : gets[j].list \in Seq(Rows)
    <3>1. \A j \in DOMAIN gets : gets[j] \in Requests
      BY <1>1 DEF TypeInv
    <3> QED
      BY <3>1 DEF Requests
  <2>3. \A list \in Seq(Rows) : \A k \in DOMAIN list : list[k].id \in Ids
    <3>1. \A list \in Seq(Rows) : \A k \in DOMAIN list : list[k] \in Rows
      OBVIOUS
    <3> QED
      BY <3>1 DEF Rows
  <2> QED
    BY <2>1, <2>2, <2>3
<1>6. Origins'
  <2>1. \A k \in DOMAIN w.attempts :
            /\ home'[w.attempts[k].id] \in Tasks
            /\ w.taskId = NoTask \/ crossed \/ home'[w.attempts[k].id] = w.taskId
    BY <1>2, <1>5 DEF IInv, Origins
  <2>2. \A j \in DOMAIN gets : \A k \in DOMAIN gets[j].list :
            /\ home'[gets[j].list[k].id] \in Tasks
            /\ home'[gets[j].list[k].id] = gets[j].task
    BY <1>2, <1>5 DEF IInv, Origins
  <2>3. w.activeAttemptId # NoId => home'[w.activeAttemptId] \in Tasks
    BY <1>2, <1>5 DEF IInv, Origins
  <2> QED
    BY <2>1, <2>2, <2>3 DEF Origins, StartedKnown
<1>7. ShownIsSelected'
  BY DEF IInv, ShownIsSelected, Pending, Current
<1>8. ActiveIsOfSelected'
  <2>1. w.activeAttemptId # NoId => home'[w.activeAttemptId] = home[w.activeAttemptId]
    BY <1>2, <1>5 DEF IInv, Origins
  <2> QED
    BY <2>1 DEF IInv, ActiveIsOfSelected, Pending, Current
<1>9. w'.task # NoTask => w'.form = w'.task
  BY DEF IInv
<1> QED
  BY <1>3, <1>4, <1>6, <1>7, <1>8, <1>9 DEF IInv

(* A command gets its answer.                                              *)
Reply(i, answer, id) == calls' = [calls EXCEPT ![i].stage = answer, ![i].id = id]

LEMMA Replied ==
  ASSUME NEW i, i \in DOMAIN calls, calls \in Seq(Orders), NEW answer \in {"ok", "err"},
         NEW id \in Ids \cup {NoId}, Reply(i, answer, id)
  PROVE  \E d \in Orders :
             /\ calls' = [calls EXCEPT ![i] = d]
             /\ d.op = calls[i].op /\ d.mine = calls[i].mine /\ d.stage = answer /\ d.id = id
<1> DEFINE c == calls[i]
           d == [c EXCEPT !.stage = answer, !.id = id]
<1>1. c \in Orders
  OBVIOUS
<1>2. calls' = [calls EXCEPT ![i] = d]
  BY DEF Reply
<1>3. /\ d \in Orders /\ d.op = c.op /\ d.mine = c.mine
      /\ d.stage = answer /\ d.id = id
  <2> HIDE DEF c
  <2> QED
    BY <1>1 DEF Orders
<1> HIDE DEF d
<1> QED
  BY <1>2, <1>3

(* What comes of a command: it is carried out, an attempt is started, or   *)
(* nothing is done.                                                        *)
LEMMA ServeCases ==
  ASSUME TypeInv, NEW i \in Nat, Serve(i)
  PROVE  /\ i \in DOMAIN calls /\ calls[i] \in Orders /\ calls[i].stage = "sent"
         /\ UNCHANGED <<pane, w, gets, cardLost, listLost, reopened, crossed>>
         /\ turns' \in Nat
         /\ \E d \in Orders :
                /\ calls' = [calls EXCEPT ![i] = d]
                /\ d.op = calls[i].op /\ d.mine = calls[i].mine
                /\ \/ Accepted(calls[i]) /\ Done(calls[i]) /\ d.id = calls[i].id
                   \/ /\ d.id \in Ids /\ d.stage \in {"ok", "err"}
                      /\ Started(calls[i], d.id, calls[i].mine /\ d.stage = "ok")
                   \/ Same /\ d.stage = "err" /\ d.id = calls[i].id
<1> DEFINE c == calls[i]
<1>1. /\ i \in DOMAIN calls /\ c.stage = "sent"
      /\ UNCHANGED <<pane, w, gets, cardLost, listLost, reopened, crossed>>
      /\ turns' = turns \/ Turn
      /\ \/ \E answer \in {"ok", "err"} :
               \/ Accepted(c) /\ Done(c) /\ Reply(i, answer, c.id)
               \/ \E a \in Ids :
                      Started(c, a, c.mine /\ answer = "ok") /\ Reply(i, answer, a)
         \/ Same /\ Reply(i, "err", c.id)
  BY DEF Serve, Reply
<1>2. /\ calls \in Seq(Orders) /\ i \in DOMAIN calls
  BY <1>1 DEF TypeInv
<1>3. c \in Orders /\ c.id \in Ids \cup {NoId}
  <2>1. c \in Orders
    BY <1>2
  <2> HIDE DEF c
  <2> QED
    BY <2>1 DEF Orders
<1>4. turns' \in Nat
  BY <1>1 DEF Turn, TypeInv
<1>5. ASSUME NEW answer \in {"ok", "err"}, Accepted(c), Done(c), Reply(i, answer, c.id)
      PROVE  \E d \in Orders :
                /\ calls' = [calls EXCEPT ![i] = d]
                /\ d.op = c.op /\ d.mine = c.mine
                /\ Accepted(c) /\ Done(c) /\ d.id = c.id
  <2>1. PICK d \in Orders :
            /\ calls' = [calls EXCEPT ![i] = d]
            /\ d.op = c.op /\ d.mine = c.mine /\ d.stage = answer /\ d.id = c.id
    BY <1>2, <1>3, <1>5, Replied
  <2> QED
    BY <1>5, <2>1
<1>6. ASSUME NEW answer \in {"ok", "err"}, NEW a \in Ids,
             Started(c, a, c.mine /\ answer = "ok"), Reply(i, answer, a)
      PROVE  \E d \in Orders :
                /\ calls' = [calls EXCEPT ![i] = d]
                /\ d.op = c.op /\ d.mine = c.mine
                /\ d.id \in Ids /\ d.stage \in {"ok", "err"}
                /\ Started(c, d.id, c.mine /\ d.stage = "ok")
  <2>1. PICK d \in Orders :
            /\ calls' = [calls EXCEPT ![i] = d]
            /\ d.op = c.op /\ d.mine = c.mine /\ d.stage = answer /\ d.id = a
    BY <1>2, <1>3, <1>6, Replied
  <2> QED
    BY <1>6, <2>1
<1>7. ASSUME Same, Reply(i, "err", c.id)
      PROVE  \E d \in Orders :
                /\ calls' = [calls EXCEPT ![i] = d]
                /\ d.op = c.op /\ d.mine = c.mine
                /\ Same /\ d.stage = "err" /\ d.id = c.id
  <2>1. PICK d \in Orders :
            /\ calls' = [calls EXCEPT ![i] = d]
            /\ d.op = c.op /\ d.mine = c.mine /\ d.stage = "err" /\ d.id = c.id
    BY <1>2, <1>3, <1>7, Replied
  <2> QED
    BY <1>7, <2>1
<1> HIDE DEF c
<1>8. \E d \in Orders :
                /\ calls' = [calls EXCEPT ![i] = d]
                /\ d.op = c.op /\ d.mine = c.mine
                /\ \/ Accepted(c) /\ Done(c) /\ d.id = c.id
                   \/ /\ d.id \in Ids /\ d.stage \in {"ok", "err"}
                      /\ Started(c, d.id, c.mine /\ d.stage = "ok")
                   \/ Same /\ d.stage = "err" /\ d.id = c.id
  <2>1. CASE \E answer \in {"ok", "err"} : Accepted(c) /\ Done(c) /\ Reply(i, answer, c.id)
    BY <2>1, <1>5
  <2>2. CASE \E answer \in {"ok", "err"} : \E a \in Ids :
                 Started(c, a, c.mine /\ answer = "ok") /\ Reply(i, answer, a)
    BY <2>2, <1>6
  <2>3. CASE Same /\ Reply(i, "err", c.id)
    BY <2>3, <1>7
  <2> QED
    BY <1>1, <2>1, <2>2, <2>3
<1> QED
  BY <1>1, <1>3, <1>4, <1>8 DEF c

LEMMA ServeStep ==
  ASSUME IInv, NEW i \in Nat, Serve(i)
  PROVE  IInv'
<1>1. TypeInv /\ calls \in Seq(Orders) /\ Len(calls) <= MaxCalls
  BY DEF IInv, TypeInv
<1>2. /\ i \in DOMAIN calls /\ calls[i] \in Orders
      /\ UNCHANGED <<pane, w, gets, cardLost, listLost, reopened, crossed>> /\ turns' \in Nat
  BY <1>1, ServeCases
<1>3. PICK d \in Orders :
          /\ calls' = [calls EXCEPT ![i] = d]
          /\ d.op = calls[i].op
          /\ \/ Accepted(calls[i]) /\ Done(calls[i])
             \/ d.id \in Ids /\ Started(calls[i], d.id, calls[i].mine /\ d.stage = "ok")
             \/ Same /\ d.stage = "err"
  BY <1>1, ServeCases
<1>4. Served /\ (d.op = "start" /\ d.stage = "ok" => d.id \in Ids /\ home'[d.id] \in Tasks)
  <2>1. CASE Accepted(calls[i]) /\ Done(calls[i])
    BY <1>1, <1>2, <1>3, <2>1, DoneStep
  <2>2. CASE d.id \in Ids /\ Started(calls[i], d.id, calls[i].mine /\ d.stage = "ok")
    BY <1>1, <1>2, <2>2, StartedStep
  <2>3. CASE Same /\ d.stage = "err"
    BY <1>1, <2>3 DEF Same, server, TypeInv, Served
  <2> QED
    BY <1>3, <2>1, <2>2, <2>3
<1>5. /\ calls' \in Seq(Orders) /\ Len(calls') = Len(calls) /\ DOMAIN calls' = DOMAIN calls
      /\ calls'[i] = d /\ \A j \in DOMAIN calls : j # i => calls'[j] = calls[j]
  BY <1>1, <1>2, <1>3
<1>6. StartedKnown'
  <2>1. ASSUME NEW j \in DOMAIN calls, calls'[j].op = "start", calls'[j].stage = "ok"
        PROVE  calls'[j].id \in Ids /\ home'[calls'[j].id] \in Tasks
    <3>1. CASE j = i
      BY <1>4, <1>5, <2>1, <3>1
    <3>2. CASE j # i
      <4>1. calls[j].id \in Ids /\ home[calls[j].id] \in Tasks
        BY <1>5, <2>1, <3>2 DEF IInv, Origins
      <4> QED
        BY <1>4, <1>5, <3>2, <4>1 DEF Served
    <3> QED
      BY <3>1, <3>2
  <2> QED
    BY <1>5, <2>1 DEF StartedKnown
<1> QED
  BY <1>1, <1>2, <1>4, <1>5, <1>6, ServedStep

(* A command from elsewhere is carried out.                                *)
LEMMA ElsewhereCases ==
  ASSUME TypeInv, NEW op \in {"start", "del", "delAttempt"}, NEW t \in Tasks \cup {NoTask},
         NEW a \in Ids \cup {NoId}, Elsewhere(op, t, a)
  PROVE  /\ UNCHANGED <<pane, w, gets, calls, cardLost, listLost, reopened, crossed>>
         /\ turns' \in Nat
         /\ \E c \in Orders :
                /\ c.op = op /\ c.id = a
                /\ \/ Accepted(c) /\ Done(c)
                   \/ \E b \in Ids : Started(c, b, FALSE)
<1> DEFINE c == [Command(op, a, NoTask) EXCEPT !.task = t, !.mine = FALSE]
<1>1. w.taskId \in Tasks \cup {NoTask}
  BY FieldTypes DEF TypeInv
<1>2. c \in Orders /\ c.op = op /\ c.id = a
  BY <1>1 DEF Command, Orders
<1>3. /\ UNCHANGED <<pane, w, gets, calls, cardLost, listLost, reopened, crossed>>
      /\ Turn
      /\ \/ Accepted(c) /\ Done(c)
         \/ \E b \in Ids : Started(c, b, FALSE)
  BY DEF Elsewhere
<1>4. turns' \in Nat
  BY <1>3 DEF Turn, TypeInv
<1> HIDE DEF c
<1> QED
  BY <1>2, <1>3, <1>4

LEMMA FromElsewhere ==
  ASSUME Answers
  PROVE  \/ Notice \/ LoseNotice
         \/ \E i \in 1 .. MaxCalls : Serve(i) \/ Answer(i) \/ CutOff(i)
         \/ \E a \in Ids : Flip(a)
         \/ \E op \in {"start", "del", "delAttempt"} : \E t \in Tasks \cup {NoTask} :
                \E a \in Ids \cup {NoId} : Elsewhere(op, t, a)
<1>1. Archived \subseteq Tasks
  BY ArchivedAssumption
<1> QED
  BY <1>1 DEF Answers

LEMMA ElsewhereStep ==
  ASSUME IInv, NEW op \in {"start", "del", "delAttempt"}, NEW t \in Tasks \cup {NoTask},
         NEW a \in Ids \cup {NoId}, Elsewhere(op, t, a)
  PROVE  IInv'
<1>1. TypeInv /\ calls \in Seq(Orders) /\ Len(calls) <= MaxCalls /\ StartedKnown
  BY DEF IInv, TypeInv, Origins, StartedKnown
<1>2. /\ UNCHANGED <<pane, w, gets, calls, cardLost, listLost, reopened, crossed>>
      /\ turns' \in Nat
  BY <1>1, ElsewhereCases
<1>3. PICK c \in Orders :
          \/ Accepted(c) /\ Done(c)
          \/ \E b \in Ids : Started(c, b, FALSE)
  BY <1>1, ElsewhereCases
<1>4. Served
  BY <1>1, <1>3, DoneStep, StartedStep
<1>5. StartedKnown'
  BY <1>1, <1>2, <1>4 DEF StartedKnown, Served
<1> QED
  BY <1>1, <1>2, <1>4, <1>5, ServedStep

-----------------------------------------------------------------------------
(* Cards are opened and closed, and commands are answered.                 *)

LEMMA OpenStep ==
  ASSUME IInv, NEW t \in Tasks, Open(t)
  PROVE  IInv'
<1> DEFINE v == [Fresh EXCEPT !.taskId = t]
           T == Get("task", w', NoId)
           L == Get("list", w', NoId)
<1>1. /\ Load(v, <<>>) /\ reopened' = FALSE /\ crossed' = FALSE /\ turns' = turns + 1
      /\ UNCHANGED <<pane, cards, home, rows, state, news, calls, overlooked>>
  BY DEF Open, Turn, server
<1>2. TypeInv /\ t # NoTask
  BY IdAssumption DEF IInv
<1>3. v = [taskId |-> t, task |-> NoTask, form |-> NoTask, editing |-> FALSE,
           attempts |-> <<>>, hasMore |-> FALSE, loadingMore |-> FALSE,
           activeAttemptId |-> NoId, stop |-> NoId, del |-> NoTask,
           reconnectAskedFor |-> NoId, sending |-> FALSE, loadSeq |-> 0]
  <2> DEFINE f == Fresh
  <2>1. f = [taskId |-> NoTask, task |-> NoTask, form |-> NoTask, editing |-> FALSE,
             attempts |-> <<>>, hasMore |-> FALSE, loadingMore |-> FALSE,
             activeAttemptId |-> NoId, stop |-> NoId, del |-> NoTask,
             reconnectAskedFor |-> NoId, sending |-> FALSE, loadSeq |-> 0]
    BY DEF Fresh
  <2>2. v = [f EXCEPT !.taskId = t]
    OBVIOUS
  <2> HIDE DEF f, v
  <2> QED
    BY <2>1, <2>2
<1> HIDE DEF v
<1>4. /\ w' = [v EXCEPT !.loadSeq = @ + 1, !.attempts = <<>>, !.hasMore = FALSE]
      /\ gets' = <<>> \o <<T, L>> /\ Len(gets') <= MaxGets
      /\ cardLost' = FALSE /\ listLost' = FALSE
  <2>1. v.taskId # NoTask
    BY <1>2, <1>3
  <2> QED
    BY <1>1, <2>1 DEF Load, Loading
<1>5. w' = [taskId |-> t, task |-> NoTask, form |-> NoTask, editing |-> FALSE,
            attempts |-> <<>>, hasMore |-> FALSE, loadingMore |-> FALSE,
            activeAttemptId |-> NoId, stop |-> NoId, del |-> NoTask,
            reconnectAskedFor |-> NoId, sending |-> FALSE, loadSeq |-> 1]
  <2>1. v.loadSeq + 1 = 1
    BY <1>3
  <2>2. w' = [v EXCEPT !.loadSeq = 1, !.attempts = <<>>, !.hasMore = FALSE]
    BY <1>3, <1>4, <2>1
  <2> QED
    BY <1>3, <2>2
<1>6. w' \in Data
  BY <1>5 DEF Data
<1>7. /\ w'.taskId = t /\ w'.task = NoTask /\ w'.attempts = <<>> /\ w'.loadSeq = 1
      /\ w'.activeAttemptId = NoId
  BY <1>5
<1>8. /\ T \in Requests /\ L \in Requests /\ T.seq = 1 /\ L.seq = 1
      /\ T.task = t /\ L.task = t /\ T.list = <<>> /\ L.list = <<>>
      /\ T.kind = "task" /\ L.kind = "list"
  BY <1>7 DEF Get, Requests
<1> HIDE DEF T, L
<1>9. gets' = <<T, L>> /\ gets' \in Seq(Requests)
  BY <1>4, <1>8
<1>10. /\ DOMAIN gets' = {1, 2} /\ gets'[1] = T /\ gets'[2] = L
  BY <1>9
<1>11. TypeInv'
  <2>1. turns' \in Nat
    BY <1>1, <1>2 DEF TypeInv
  <2>2. /\ cardLost' \in BOOLEAN /\ listLost' \in BOOLEAN /\ reopened' \in BOOLEAN
        /\ crossed' \in BOOLEAN
    BY <1>1, <1>4
  <2> QED
    BY <1>1, <1>2, <1>4, <1>6, <1>9, <2>1, <2>2 DEF TypeInv
<1>12. Numbered'
  BY <1>7, <1>8, <1>10 DEF Numbered
<1>13. Origins'
  BY <1>1, <1>7, <1>8, <1>10 DEF IInv, Origins
<1>14. Own'
  BY <1>7, <1>8, <1>10 DEF Own, Current
<1>15. Sorted' /\ Single'
  BY <1>7, <1>8, <1>10 DEF Sorted, Rising, Single, Current
<1>16. ShownIsSelected' /\ ActiveIsOfSelected'
  BY <1>7 DEF ShownIsSelected, ActiveIsOfSelected
<1> QED
  BY <1>7, <1>11, <1>12, <1>13, <1>14, <1>15, <1>16 DEF IInv

KnownIn(list) ==
    \A i \in DOMAIN list :
        list[i].op = "start" /\ list[i].stage = "ok" =>
            list[i].id \in Ids /\ home[list[i].id] \in Tasks

LEMMA ClosedStep ==
  ASSUME IInv, NEW others \in Seq(Orders), Len(others) <= MaxCalls, KnownIn(others),
         Closed(w, others),
         UNCHANGED <<pane, cards, home, rows, state, news, cardLost, listLost, crossed,
                     overlooked>>,
         turns' \in Nat
  PROVE  IInv'
<1>1. TypeInv /\ w \in Data
  BY DEF IInv, TypeInv
<1>2. CASE pane = "modal"
  <2>1. /\ w' = Fresh /\ gets' = <<>> /\ reopened' = reopened
        /\ calls' = [i \in DOMAIN others |-> [others[i] EXCEPT !.mine = FALSE]]
    BY <1>2 DEF Closed
  <2>2. w' \in Data
    BY <2>1 DEF Fresh, Data
  <2>3. /\ w'.taskId = NoTask /\ w'.task = NoTask /\ w'.attempts = <<>>
        /\ w'.activeAttemptId = NoId
    BY <2>1 DEF Fresh
  <2>4. \A i \in DOMAIN others :
            /\ [others[i] EXCEPT !.mine = FALSE] \in Orders
            /\ [others[i] EXCEPT !.mine = FALSE].op = others[i].op
            /\ [others[i] EXCEPT !.mine = FALSE].stage = others[i].stage
            /\ [others[i] EXCEPT !.mine = FALSE].id = others[i].id
    <3>1. \A i \in DOMAIN others : others[i] \in Orders
      OBVIOUS
    <3> QED
      BY <3>1 DEF Orders
  <2>5. DOMAIN calls' = DOMAIN others /\ calls' \in [DOMAIN others -> Orders]
    BY <2>1, <2>4
  <2>6. calls' \in Seq(Orders) /\ Len(calls') <= MaxCalls
    <3>1. DOMAIN others = 1 .. Len(others) /\ Len(others) \in Nat
      OBVIOUS
    <3>2. calls' \in Seq(Orders)
      BY <2>5, <3>1
    <3>3. Len(calls') = Len(others)
      BY <2>5, <3>1, <3>2
    <3> QED
      BY <3>2, <3>3
  <2>7. StartedKnown'
    BY <2>1, <2>4, <2>5 DEF KnownIn, StartedKnown
  <2>8. gets' \in Seq(Requests) /\ Len(gets') <= MaxGets /\ DOMAIN gets' = {}
    BY <2>1, BoundAssumption
  <2>9. TypeInv'
    BY <1>1, <2>1, <2>2, <2>6, <2>8 DEF TypeInv
  <2>10. Numbered' /\ Own' /\ Sorted' /\ Single'
    BY <2>3, <2>8 DEF Numbered, Own, Sorted, Rising, Single
  <2>11. Origins'
    BY <2>3, <2>7, <2>8 DEF Origins, StartedKnown
  <2>12. ShownIsSelected' /\ ActiveIsOfSelected'
    BY <2>3 DEF ShownIsSelected, ActiveIsOfSelected
  <2> QED
    BY <2>3, <2>9, <2>10, <2>11, <2>12 DEF IInv
<1>3. CASE pane # "modal"
  <2> DEFINE v == [w EXCEPT !.taskId = NoTask]
  <2>1. /\ w' = Loading(v) /\ calls' = others /\ gets' = gets
        /\ reopened' = (reopened \/ Pending("task"))
    BY <1>3 DEF Closed
  <2>2. w' = [v EXCEPT !.task = NoTask]
    <3>1. v.taskId = NoTask
      BY <1>1 DEF Data
    <3> QED
      BY <2>1, <3>1 DEF Loading
  <2>3. /\ w' \in Data /\ w'.taskId = NoTask /\ w'.task = NoTask
        /\ w'.attempts = w.attempts /\ w'.activeAttemptId = w.activeAttemptId
        /\ w'.loadingMore = w.loadingMore /\ w'.loadSeq = w.loadSeq
    BY <1>1, <2>2 DEF Data
  <2>4. reopened' \in BOOLEAN
    BY <2>1
  <2>5. TypeInv'
    BY <1>1, <2>1, <2>3, <2>4 DEF TypeInv
  <2>6. Numbered' /\ Sorted' /\ Single'
    BY <2>1, <2>3 DEF IInv, Numbered, Sorted, Rising, Single, Current
  <2>7. Origins'
    BY <2>1, <2>3 DEF IInv, Origins, KnownIn
  <2>8. Own'
    <3> SUFFICES ASSUME NEW i \in DOMAIN gets, Current(gets[i]), gets[i].kind = "task"
                 PROVE  reopened'
      BY <2>1, <2>3 DEF Own, Current
    <3> QED
      BY <2>1 DEF Pending
  <2>9. ShownIsSelected' /\ ActiveIsOfSelected'
    BY <2>3 DEF ShownIsSelected, ActiveIsOfSelected
  <2> QED
    BY <2>3, <2>5, <2>6, <2>7, <2>8, <2>9 DEF IInv
<1> QED
  BY <1>2, <1>3

LEMMA CloseStep ==
  ASSUME IInv, Close
  PROVE  IInv'
<1>1. Closed(w, calls)
      /\ UNCHANGED <<pane, cards, home, rows, state, news, turns, cardLost, listLost, crossed,
                     overlooked>>
  BY DEF Close, server
<1>2. calls \in Seq(Orders) /\ Len(calls) <= MaxCalls /\ KnownIn(calls) /\ turns \in Nat
  BY DEF IInv, TypeInv, Origins, KnownIn
<1> QED
  BY <1>1, <1>2, ClosedStep

(* An answer, with what is left in flight.                                 *)
LEMMA HandledStep ==
  ASSUME IInv, NEW c, NEW answer, NEW others \in Seq(Orders), Len(others) <= MaxCalls,
         KnownIn(others), c.op = "start" /\ answer = "ok" => c.id \in Ids /\ home[c.id] \in Tasks,
         Handled(c, answer, others) \/ Quietly(w, others),
         UNCHANGED <<pane, cards, home, rows, state, news, overlooked>>, turns' \in Nat
  PROVE  IInv'
<1>1. \/ \E v \in {w, [w EXCEPT !.editing = FALSE]} : Reload(v, others)
      \/ c.op = "start" /\ answer = "ok" /\ Reload([w EXCEPT !.activeAttemptId = c.id], others)
      \/ Closed(w, others) /\ UNCHANGED <<cardLost, listLost, crossed>>
      \/ \E v \in {w, [w EXCEPT !.sending = FALSE]} : Quietly(v, others)
  BY DEF Handled
<1>2. TypeInv /\ w \in Data
  BY DEF IInv, TypeInv
<1>3. CASE \E v \in {w, [w EXCEPT !.editing = FALSE]} : Reload(v, others)
  <2>1. PICK v \in {w, [w EXCEPT !.editing = FALSE]} : Reload(v, others)
    BY <1>3
  <2>2. /\ v \in Data /\ v.taskId = w.taskId /\ v.loadSeq = w.loadSeq /\ v.task = w.task
        /\ v.form = w.form /\ v.attempts = w.attempts /\ v.loadingMore = w.loadingMore
        /\ v.activeAttemptId = w.activeAttemptId
    BY <1>2, <2>1 DEF Data
  <2>3. calls' = others
    BY <2>1 DEF Reload
  <2>4. StartedKnown'
    BY <2>3 DEF KnownIn, StartedKnown
  <2>5. w.activeAttemptId # NoId => home[w.activeAttemptId] \in Tasks
    BY DEF IInv, Origins
  <2> QED
    BY <2>1, <2>2, <2>4, <2>5, ReloadStep
<1>4. CASE c.op = "start" /\ answer = "ok"
           /\ Reload([w EXCEPT !.activeAttemptId = c.id], others)
  <2> DEFINE v == [w EXCEPT !.activeAttemptId = c.id]
  <2>1. c.id \in Ids /\ home[c.id] \in Tasks
    BY <1>4
  <2>2. /\ v \in Data /\ v.taskId = w.taskId /\ v.loadSeq = w.loadSeq /\ v.task = w.task
        /\ v.form = w.form /\ v.attempts = w.attempts /\ v.loadingMore = w.loadingMore
        /\ v.activeAttemptId = c.id
    BY <1>2, <2>1 DEF Data
  <2>3. Reload(v, others)
    BY <1>4
  <2> HIDE DEF v
  <2>4. calls' = others
    BY <2>3 DEF Reload
  <2>5. StartedKnown'
    BY <2>4 DEF KnownIn, StartedKnown
  <2> QED
    BY <2>1, <2>2, <2>3, <2>5, ReloadStep
<1>5. CASE Closed(w, others) /\ UNCHANGED <<cardLost, listLost, crossed>>
  BY <1>5, ClosedStep
<1>6. CASE \E v \in {w, [w EXCEPT !.sending = FALSE]} : Quietly(v, others)
  <2>1. PICK v \in {w, [w EXCEPT !.sending = FALSE]} : Quietly(v, others)
    BY <1>6
  <2>2. Alike(v)
    BY <1>2, <2>1 DEF Alike, Data
  <2>3. w' = v /\ calls' = others /\ UNCHANGED <<gets, cardLost, listLost, reopened, crossed>>
    BY <2>1 DEF Quietly
  <2>4. StartedKnown'
    BY <2>3 DEF KnownIn, StartedKnown
  <2>5. TypeInv'
    BY <1>2, <2>2, <2>3 DEF TypeInv, Alike
  <2> QED
    BY <2>2, <2>3, <2>4, <2>5, Frame DEF Kernel, Alike
<1> QED
  BY <1>1, <1>3, <1>4, <1>5, <1>6

LEMMA AnswerStep ==
  ASSUME IInv, NEW i \in Nat, Answer(i)
  PROVE  IInv'
<1> DEFINE others == Without(calls, i)
<1>1. /\ i \in DOMAIN calls /\ UNCHANGED <<pane, server, news, turns, overlooked>>
      /\ Handled(calls[i], calls[i].stage, others) \/ Quietly(w, others)
  BY DEF Answer
<1>2. /\ calls \in Seq(Orders) /\ Len(calls) <= MaxCalls
      /\ i \in DOMAIN calls /\ MaxCalls \in Nat /\ turns \in Nat
  BY <1>1, BoundAssumption DEF IInv, TypeInv
<1>3. /\ others \in Seq(Orders) /\ Len(others) <= MaxCalls
      /\ \A j \in DOMAIN others : \E k \in DOMAIN calls : others[j] = calls[k]
  <2>1. /\ others \in Seq(Orders) /\ Len(others) = Len(calls) - 1
        /\ \A j \in DOMAIN others : \E k \in DOMAIN calls : others[j] = calls[k]
    BY <1>2, WithoutFacts
  <2>2. Len(calls) \in Nat
    BY <1>2
  <2> HIDE DEF others
  <2> QED
    BY <1>2, <2>1, <2>2
<1> HIDE DEF others
<1>4. KnownIn(others)
  BY <1>3 DEF IInv, Origins, KnownIn
<1>5. calls[i].op = "start" /\ calls[i].stage = "ok" =>
          calls[i].id \in Ids /\ home[calls[i].id] \in Tasks
  BY <1>2 DEF IInv, Origins
<1>6. UNCHANGED <<pane, cards, home, rows, state, news, overlooked>> /\ turns' \in Nat
  BY <1>1, <1>2 DEF server
<1> QED
  BY <1>1, <1>3, <1>4, <1>5, <1>6, HandledStep

LEMMA CutOffStep ==
  ASSUME IInv, NEW i \in Nat, CutOff(i)
  PROVE  IInv'
<1> DEFINE d      == [calls[i] EXCEPT !.mine = FALSE]
           others == [calls EXCEPT ![i].mine = FALSE]
<1>1. /\ i \in DOMAIN calls /\ Turn /\ UNCHANGED <<pane, server, news, overlooked>>
      /\ Handled(calls[i], "err", others)
  BY DEF CutOff
<1>2. /\ calls \in Seq(Orders) /\ Len(calls) <= MaxCalls /\ i \in DOMAIN calls /\ turns \in Nat
  BY <1>1 DEF IInv, TypeInv
<1>3. others = [calls EXCEPT ![i] = d]
  OBVIOUS
<1>4. d \in Orders /\ d.op = calls[i].op /\ d.stage = calls[i].stage /\ d.id = calls[i].id
  <2> DEFINE c == calls[i]
  <2>1. c \in Orders
    BY <1>2
  <2> HIDE DEF c
  <2> QED
    BY <2>1 DEF Orders, c
<1> HIDE DEF d, others
<1>5. /\ others \in Seq(Orders) /\ Len(others) = Len(calls) /\ DOMAIN others = DOMAIN calls
      /\ others[i] = d /\ \A j \in DOMAIN calls : j # i => others[j] = calls[j]
  BY <1>2, <1>3, <1>4
<1>6. KnownIn(others)
  BY <1>4, <1>5 DEF IInv, Origins, KnownIn
<1>7. UNCHANGED <<pane, cards, home, rows, state, news, overlooked>> /\ turns' \in Nat
  BY <1>1, <1>2 DEF server, Turn
<1> QED
  BY <1>1, <1>2, <1>5, <1>6, <1>7, HandledStep

-----------------------------------------------------------------------------
(* The invariant holds at first, and every step keeps it.                  *)

LEMMA InitStep ==
  ASSUME Init
  PROVE  IInv
<1>1. /\ pane \in Panes /\ cards = Tasks /\ rows = DOMAIN Homes
      /\ home = [a \in Ids |-> IF a \in DOMAIN Homes THEN Homes[a] ELSE NoTask]
      /\ state = [a \in Ids |-> "settled"] /\ news = <<>> /\ w = Fresh
      /\ gets = <<>> /\ calls = <<>> /\ turns = 0 /\ overlooked = {}
      /\ cardLost = FALSE /\ listLost = FALSE /\ reopened = FALSE /\ crossed = FALSE
  BY DEF Init
<1>2. w \in Data
  BY <1>1 DEF Fresh, Data
<1>3. /\ w.taskId = NoTask /\ w.task = NoTask /\ w.attempts = <<>> /\ w.activeAttemptId = NoId
  BY <1>1 DEF Fresh
<1>4. /\ rows \subseteq Ids /\ home \in [Ids -> Tasks \cup {NoTask}]
      /\ \A a \in rows : home[a] \in cards
  BY <1>1, HomeAssumption
<1>5. /\ gets \in Seq(Requests) /\ Len(gets) <= MaxGets /\ DOMAIN gets = {}
      /\ calls \in Seq(Orders) /\ Len(calls) <= MaxCalls /\ DOMAIN calls = {}
      /\ news \in Seq(Rows)
  BY <1>1, BoundAssumption
<1>6. TypeInv
  BY <1>1, <1>2, <1>4, <1>5 DEF TypeInv
<1>7. Numbered /\ Origins /\ Own /\ Sorted /\ Single
  BY <1>3, <1>5 DEF Numbered, Origins, Own, Sorted, Rising, Single
<1>8. ShownIsSelected /\ ActiveIsOfSelected
  BY <1>3 DEF ShownIsSelected, ActiveIsOfSelected
<1> QED
  BY <1>3, <1>6, <1>7, <1>8 DEF IInv

LEMMA NextStep ==
  ASSUME IInv, [Next]_vars
  PROVE  IInv'
<1>1. CASE Selecting
  BY <1>1, SelectStep, OpenStep, CloseStep DEF Selecting
<1>2. CASE Loadings
  <2>1. \A i \in 1 .. MaxGets : i \in Nat
    BY BoundAssumption
  <2> QED
    BY <1>2, <2>1, LoadMoreStep, TaskAnswerStep, ListAttemptsStep, ListAnswerStep,
       MoreAnswerStep, GetFailsStep DEF Loadings
<1>3. CASE Clicks
  BY <1>3, ClicksStep, PickStep DEF Clicks
<1>4. CASE Commands
  <2>1. \A i \in 1 .. Cardinality(Ids) : i \in Nat
    BY IdAssumption, FS_CardinalityType
  <2> QED
    BY <1>4, <2>1, CommandsStep, DeleteAttemptStep DEF Commands
<1>5. CASE Answers
  <2>1. \A i \in 1 .. MaxCalls : i \in Nat
    BY BoundAssumption
  <2> QED
    BY <1>5, <2>1, FromElsewhere, NoticeStep, LoseNoticeStep, ServeStep, AnswerStep, CutOffStep,
       FlipStep, ElsewhereStep
<1>6. CASE UNCHANGED vars
  <2>1. /\ UNCHANGED <<pane, cards, home, rows, state, news, w, gets, calls, turns, cardLost,
                       listLost, reopened, crossed, overlooked>>
    BY <1>6 DEF vars, server, ghosts
  <2>2. TypeInv'
    BY <2>1 DEF IInv, TypeInv
  <2>3. StartedKnown'
    BY <2>1 DEF IInv, Origins, StartedKnown
  <2> QED
    BY <2>1, <2>2, <2>3, Frame DEF Kernel
<1> QED
  BY <1>1, <1>2, <1>3, <1>4, <1>5, <1>6 DEF Next

LEMMA Invariant == Spec => []IInv
<1>1. Init => IInv
  BY InitStep
<1>2. IInv /\ [Next]_vars => IInv'
  BY NextStep
<1> QED
  BY <1>1, <1>2, PTL DEF Spec

LEMMA TypesFollow ==
  ASSUME IInv
  PROVE  TypeOK
<1>1. TypeInv /\ w.attempts \in Seq(Rows)
  BY FieldTypes DEF IInv, TypeInv
<1>2. ASSUME Rising(w.attempts)
      PROVE  Distinct(w.attempts)
  <2> SUFFICES ASSUME NEW i \in DOMAIN w.attempts, NEW j \in DOMAIN w.attempts,
                      w.attempts[i].id = w.attempts[j].id, i # j
               PROVE  FALSE
    BY DEF Distinct
  <2>1. i \in Nat /\ j \in Nat /\ w.attempts[i] \in Rows
    BY <1>1
  <2>2. w.attempts[i].id \in Nat
    BY <2>1, IdAssumption DEF Rows
  <2>3. i < j \/ j < i
    BY <2>1
  <2>4. w.attempts[i].id < w.attempts[j].id \/ w.attempts[j].id < w.attempts[i].id
    BY <1>2, <2>3 DEF Rising
  <2> QED
    BY <2>2, <2>4
<1>3. Cardinality({i \in DOMAIN gets : gets[i].kind = "more"}) <= 1
  <2> DEFINE pages == {i \in DOMAIN gets : gets[i].kind = "more"}
  <2>1. \A i, j \in pages : i = j
    BY DEF IInv, Single
  <2>2. CASE pages = {}
    BY <2>2, FS_EmptySet
  <2>3. CASE pages # {}
    <3> HIDE DEF pages
    <3>1. PICK i : pages = {i}
      BY <2>1, <2>3
    <3>2. Cardinality(pages) = 1
      BY <3>1, FS_Singleton
    <3> QED
      BY <3>2 DEF pages
  <2> QED
    BY <2>2, <2>3
<1>4. crossed \/ Distinct(w.attempts)
  BY <1>2 DEF IInv, Sorted
<1> QED
  BY <1>1, <1>3, <1>4 DEF IInv, TypeInv, TypeOK

-----------------------------------------------------------------------------
(* The types of the pane, of the requests and commands in flight and of    *)
(* the server; that an attempt stands once in the list on the screen,      *)
(* unless a page was added to a list it was not asked for; that the fields *)
(* are those of the card shown last; and that one page is asked for at a   *)
(* time (TaskModal and ChatWorkspace in app.js).                           *)
THEOREM TypeCorrect == Spec => []TypeOK
<1>1. IInv => TypeOK
  BY TypesFollow
<1> QED
  BY <1>1, Invariant, PTL

(* The card on the screen, whose fields a save sends, is the one that is   *)
(* selected, for any number of cards, requests and commands in flight, in  *)
(* whatever order load() of TaskModal and ChatWorkspace is answered.       *)
THEOREM ShownCorrect == Spec => []ShownIsSelected
<1>1. IInv => ShownIsSelected
  BY DEF IInv
<1> QED
  BY <1>1, Invariant, PTL

(* A message, a stop or a "continue" goes to an attempt of the selected    *)
(* card, except while its list is awaited or after it failed, and when     *)
(* loadMoreAttempts has added a page to a list it was not asked for.       *)
THEOREM ActiveCorrect == Spec => []ActiveIsOfSelected
<1>1. IInv => ActiveIsOfSelected
  BY DEF IInv
<1> QED
  BY <1>1, Invariant, PTL

-----------------------------------------------------------------------------
(* The list catches up. An attempt is excused when the pane could not see  *)
(* its last change, or when a command of this pane is about to load the    *)
(* list again because of it.                                               *)
Owed(a) ==
    \E i \in DOMAIN calls :
        /\ calls[i].mine /\ calls[i].id = a
        /\ \/ calls[i].op = "start" /\ calls[i].stage = "ok"
           \/ calls[i].op = "delAttempt" /\ calls[i].stage # "ok"

Excused(a) == a \in overlooked \/ Owed(a)

InNews(a) == \E i \in DOMAIN news : news[i].id = a

(* The last message about an attempt has its present state.                *)
Told ==
    \A i \in DOMAIN news :
        (\A j \in DOMAIN news : news[j].id = news[i].id => j <= i) =>
            news[i].state = state[news[i].id]

(* What a list says of an attempt is so, or a message is to come.          *)
Right(r) ==
    \/ r.id \in overlooked
    \/ r.id \in rows /\ (InNews(r.id) \/ r.state = state[r.id])

AllRight(list) == \A i \in DOMAIN list : Right(list[i])

(* No attempt is missing from the first one that is listed on, or at all,  *)
(* of those before a given one.                                            *)
Gapless(list, all, below) ==
    \A a \in Attempts(w.taskId) :
        /\ below # NoId => a < below
        /\ all \/ \E b \in IdsOf(list) : b <= a
        => Excused(a) \/ a \in IdsOf(list)

Complete == ~w.hasMore /\ ~listLost /\ ~Pending("list")

PaneRight == ~crossed => AllRight(w.attempts) /\ Gapless(w.attempts, Complete, NoId)

(* The same of the lists that were read, and no attempt is missing from the*)
(* one on that a page was asked for.                                       *)
AnswersRight ==
    \A i \in DOMAIN gets : Current(gets[i]) =>
        /\ gets[i].kind # "task" /\ gets[i].read =>
               /\ AllRight(gets[i].list)
               /\ Gapless(gets[i].list, ~gets[i].more, gets[i].before)
        /\ gets[i].kind = "more" /\ ~crossed =>
               \A a \in Attempts(w.taskId) :
                   gets[i].before <= a => Excused(a) \/ a \in IdsOf(w.attempts)

WholeLists == \A i \in DOMAIN gets : gets[i].kind = "list" => gets[i].before = NoId

CatchInv ==
    /\ Told /\ WholeLists
    /\ w.taskId \in cards => PaneRight /\ AnswersRight

-----------------------------------------------------------------------------
(* Lists, seen as sets of attempts.                                        *)

LEMMA RowTyped ==
  ASSUME NEW r \in Rows
  PROVE  r.id \in Ids /\ r.id \in Nat /\ r.state \in {"live", "settled"}
BY IdAssumption DEF Rows

LEMMA IdsTyped ==
  ASSUME NEW list \in Seq(Rows)
  PROVE  IdsOf(list) \subseteq Ids /\ IdsOf(list) \subseteq Nat
<1>1. \A i \in DOMAIN list : list[i] \in Rows
  OBVIOUS
<1> QED
  BY <1>1, RowTyped DEF IdsOf

(* The lists of the requests in flight.                                    *)
LEMMA ListsTyped ==
  ASSUME TypeInv
  PROVE  /\ w.attempts \in Seq(Rows) /\ \A i \in DOMAIN w.attempts : w.attempts[i] \in Rows
         /\ \A i \in DOMAIN gets :
                /\ gets[i] \in Requests /\ gets[i].list \in Seq(Rows)
                /\ \A j \in DOMAIN gets[i].list : gets[i].list[j] \in Rows
         /\ Ids \subseteq Nat /\ NoId \notin Ids /\ NoTask \notin cards /\ cards \subseteq Tasks
<1>1. w.attempts \in Seq(Rows) /\ \A i \in DOMAIN gets : gets[i] \in Requests
  BY FieldTypes DEF TypeInv
<1>2. \A i \in DOMAIN gets : gets[i].list \in Seq(Rows)
  BY <1>1 DEF Requests
<1>3. \A list \in Seq(Rows) : \A i \in DOMAIN list : list[i] \in Rows
  OBVIOUS
<1>4. Ids \subseteq Nat /\ NoId \notin Ids /\ NoTask \notin cards /\ cards \subseteq Tasks
  BY IdAssumption DEF NoId, TypeInv
<1> QED
  BY <1>1, <1>2, <1>3, <1>4

(* What the pane shows of the selected card is of that card, and so is what*)
(* it awaits.                                                              *)
LEMMA OfTheCard ==
  ASSUME IInv, w.taskId \in cards
  PROVE  /\ ~crossed => \A i \in DOMAIN w.attempts : home[w.attempts[i].id] = w.taskId
         /\ \A i \in DOMAIN gets : Current(gets[i]) =>
                /\ gets[i].task = w.taskId
                /\ \A j \in DOMAIN gets[i].list : home[gets[i].list[j].id] = w.taskId
<1>1. w.taskId # NoTask
  BY ListsTyped DEF IInv
<1> QED
  BY <1>1 DEF IInv, Origins, Own

-----------------------------------------------------------------------------
(* Steps that leave the lists what they are.                               *)

Listed(r) ==
    \/ \E i \in DOMAIN w.attempts : w.attempts[i] = r
    \/ \E i \in DOMAIN gets : \E j \in DOMAIN gets[i].list : gets[i].list[j] = r

(* What was right of an attempt of the card still is.                      *)
RightKept ==
    \A r \in Rows : home[r.id] = w.taskId /\ Listed(r) /\ Right(r) => Right(r)'

(* An attempt that has come to the card, or is no longer excused, is known.*)
ExcuseKept ==
    \A a \in Ids : a \in rows' /\ home'[a] = w.taskId =>
        Excused(a)' \/ (a \in rows /\ home[a] = w.taskId /\ ~Excused(a))

LEMMA CatchFrame ==
  ASSUME IInv, CatchInv, Told', RightKept, ExcuseKept,
         w'.taskId = w.taskId, w'.loadSeq = w.loadSeq,
         crossed' \in BOOLEAN, ~crossed' => w'.attempts = w.attempts /\ ~crossed,
         \A j \in DOMAIN gets' : \E k \in DOMAIN gets : gets'[j] = gets[k],
         ~crossed' /\ Complete' => Complete, rows' \subseteq Ids,
         w.taskId \in cards' => w.taskId \in cards
  PROVE  CatchInv'
<1>1. WholeLists'
  BY DEF CatchInv, WholeLists
<1> SUFFICES ASSUME w.taskId \in cards'
             PROVE  PaneRight' /\ AnswersRight'
  BY <1>1 DEF CatchInv
<1>2. /\ IInv /\ TypeInv /\ w.taskId \in cards /\ PaneRight /\ AnswersRight
  BY DEF CatchInv, IInv
<1>3. ASSUME NEW r \in Rows, home[r.id] = w.taskId, Listed(r), Right(r)
      PROVE  Right(r)'
  BY <1>3 DEF RightKept
<1>4. ASSUME NEW list, NEW below, NEW all, NEW more, Gapless(list, all, below), more => all
      PROVE  \A a \in Attempts(w.taskId)' :
                 /\ below # NoId => a < below
                 /\ more \/ \E b \in IdsOf(list) : b <= a
                 => Excused(a)' \/ a \in IdsOf(list)
  <2> SUFFICES ASSUME NEW a \in Attempts(w.taskId)', below # NoId => a < below,
                      more \/ \E b \in IdsOf(list) : b <= a, ~Excused(a)'
               PROVE  a \in IdsOf(list)
    OBVIOUS
  <2>1. a \in rows' /\ home'[a] = w.taskId /\ a \in Ids
    BY DEF Attempts
  <2>2. a \in rows /\ home[a] = w.taskId /\ ~Excused(a)
    BY <2>1 DEF ExcuseKept
  <2>3. a \in Attempts(w.taskId)
    BY <2>2 DEF Attempts
  <2> QED
    BY <1>4, <2>2, <2>3 DEF Gapless
<1>5. PaneRight'
  <2> SUFFICES ASSUME ~crossed'
               PROVE  AllRight(w.attempts)' /\ Gapless(w.attempts, Complete, NoId)'
    BY DEF PaneRight
  <2>1. w'.attempts = w.attempts /\ ~crossed
    OBVIOUS
  <2>2. AllRight(w.attempts) /\ Gapless(w.attempts, Complete, NoId)
    BY <1>2, <2>1 DEF PaneRight
  <2>3. \A i \in DOMAIN w.attempts : Right(w.attempts[i])'
    <3> SUFFICES ASSUME NEW i \in DOMAIN w.attempts
                 PROVE  Right(w.attempts[i])'
      OBVIOUS
    <3> DEFINE r == w.attempts[i]
    <3>1. r \in Rows /\ home[r.id] = w.taskId /\ Listed(r) /\ Right(r)
      BY <1>2, <2>1, <2>2, ListsTyped, OfTheCard DEF Listed, AllRight
    <3>2. PICK q \in Rows : q = r
      BY <3>1
    <3>3. Right(q)'
      BY <1>3, <3>1, <3>2
    <3> QED
      BY <2>1, <3>2, <3>3 DEF Right
  <2>4. \A a \in Attempts(w.taskId)' :
            /\ NoId # NoId => a < NoId
            /\ Complete' \/ \E b \in IdsOf(w.attempts) : b <= a
            => Excused(a)' \/ a \in IdsOf(w.attempts)
    <3>1. PICK list, all, more : list = w.attempts /\ all = Complete /\ more = Complete'
      OBVIOUS
    <3> QED
      BY <1>4, <2>2, <3>1
  <2> QED
    BY <2>1, <2>3, <2>4 DEF AllRight, Gapless, IdsOf
<1>6. ASSUME NEW j \in DOMAIN gets', Current(gets[j])'
      PROVE  /\ gets'[j].kind # "task" /\ gets'[j].read =>
                    /\ AllRight(gets[j].list)'
                    /\ Gapless(gets[j].list, ~gets[j].more, gets[j].before)'
             /\ gets'[j].kind = "more" /\ ~crossed' =>
                    \A a \in Attempts(w.taskId)' :
                        gets'[j].before <= a => Excused(a)' \/ a \in IdsOf(w.attempts)'
  <2>1. PICK k \in DOMAIN gets : gets'[j] = gets[k]
    OBVIOUS
  <2>2. Current(gets[k])
    BY <1>6, <2>1 DEF Current
  <2>3. ASSUME gets[k].kind # "task", gets[k].read
        PROVE  /\ AllRight(gets[j].list)'
               /\ Gapless(gets[j].list, ~gets[j].more, gets[j].before)'
    <3>1. /\ AllRight(gets[k].list)
          /\ Gapless(gets[k].list, ~gets[k].more, gets[k].before)
      BY <1>2, <2>2, <2>3 DEF AnswersRight
    <3>2. \A m \in DOMAIN gets[k].list : \E r \in Rows : gets[k].list[m] = r /\ Right(r)'
      <4> SUFFICES ASSUME NEW m \in DOMAIN gets[k].list
                   PROVE  \E r \in Rows : gets[k].list[m] = r /\ Right(r)'
        OBVIOUS
      <4>1. PICK r \in Rows : gets[k].list[m] = r
        BY <1>2, ListsTyped
      <4>2. home[r.id] = w.taskId /\ Listed(r) /\ Right(r)
        BY <1>2, <2>2, <3>1, <4>1, OfTheCard DEF Listed, AllRight
      <4>3. Right(r)'
        BY <1>3, <4>2
      <4> QED
        BY <4>1, <4>3
    <3>3. \A a \in Attempts(w.taskId)' :
              /\ gets[k].before # NoId => a < gets[k].before
              /\ ~gets[k].more \/ \E b \in IdsOf(gets[k].list) : b <= a
              => Excused(a)' \/ a \in IdsOf(gets[k].list)
      <4>1. PICK list, all, below :
                list = gets[k].list /\ all = ~gets[k].more /\ below = gets[k].before
        OBVIOUS
      <4> QED
        BY <1>4, <3>1, <4>1
    <3>4. AllRight(gets[j].list)'
      BY <2>1, <3>2 DEF AllRight, Right
    <3>5. Gapless(gets[j].list, ~gets[j].more, gets[j].before)'
      BY <2>1, <3>3 DEF Gapless, IdsOf
    <3> QED
      BY <3>4, <3>5
  <2>4. ASSUME gets[k].kind = "more", ~crossed', NEW a \in Attempts(w.taskId)',
               gets[k].before <= a, ~Excused(a)'
        PROVE  a \in IdsOf(w.attempts)
    <3>1. a \in rows' /\ home'[a] = w.taskId /\ a \in Ids
      BY <2>4 DEF Attempts
    <3>2. a \in rows /\ home[a] = w.taskId /\ ~Excused(a)
      BY <2>4, <3>1 DEF ExcuseKept
    <3>3. a \in Attempts(w.taskId)
      BY <3>2 DEF Attempts
    <3> QED
      BY <1>2, <2>2, <2>4, <3>2, <3>3 DEF AnswersRight
  <2>5. ~crossed' => IdsOf(w.attempts)' = IdsOf(w.attempts)
    BY DEF IdsOf
  <2> QED
    BY <2>1, <2>3, <2>4, <2>5
<1> QED
  BY <1>5, <1>6 DEF AnswersRight

-----------------------------------------------------------------------------
(* Messages about attempts.                                                *)

LEMMA ToldSame ==
  ASSUME CatchInv, UNCHANGED <<news, state>>
  PROVE  Told'
BY DEF CatchInv, Told

LEMMA ToldBecomes ==
  ASSUME TypeInv, Told, NEW a \in Ids, NEW s \in {"live", "settled"}, Becomes(a, s)
  PROVE  /\ Told' /\ InNews(a)'
         /\ \A b \in Ids : InNews(b) => InNews(b)'
         /\ \A b \in Ids : b # a => state'[b] = state[b]
<1> DEFINE n == Len(news)
<1>1. /\ news \in Seq(Rows) /\ n \in Nat /\ DOMAIN news = 1 .. n
      /\ state \in [Ids -> {"live", "settled"}] /\ [id |-> a, state |-> s] \in Rows
  BY DEF TypeInv, Rows
<1>2. /\ news' = Append(news, [id |-> a, state |-> s])
      /\ state' = [state EXCEPT ![a] = s]
  BY DEF Becomes
<1>3. /\ DOMAIN news' = 1 .. n + 1 /\ news'[n + 1].id = a /\ news'[n + 1].state = s
      /\ \A i \in 1 .. n : news'[i] = news[i]
  BY <1>1, <1>2
<1>4. state'[a] = s /\ \A b \in Ids : b # a => state'[b] = state[b]
  BY <1>1, <1>2
<1>5. \A i \in 1 .. n : news[i].id \in Ids
  BY <1>1, RowTyped
<1> HIDE DEF n
<1>6. n + 1 \in DOMAIN news' /\ 1 .. n \subseteq DOMAIN news' /\ \A i \in 1 .. n : ~(n + 1 <= i)
  BY <1>1, <1>3
<1>7. Told'
  <2> SUFFICES ASSUME NEW i \in DOMAIN news',
                      \A j \in DOMAIN news' : news'[j].id = news'[i].id => j <= i
               PROVE  news'[i].state = state'[news'[i].id]
    BY DEF Told
  <2>1. CASE i = n + 1
    BY <1>3, <1>4, <2>1
  <2>2. CASE i \in 1 .. n
    <3>1. news[i].id # a
      BY <1>3, <1>6, <2>2
    <3>2. \A j \in 1 .. n : news[j].id = news[i].id => j <= i
      BY <1>3, <1>6, <2>2
    <3>3. news[i].state = state[news[i].id]
      BY <1>1, <2>2, <3>2 DEF Told
    <3> QED
      BY <1>3, <1>4, <1>5, <2>2, <3>1, <3>3
  <2>3. i = n + 1 \/ i \in 1 .. n
    BY <1>1, <1>3
  <2> QED
    BY <2>1, <2>2, <2>3
<1>8. InNews(a)'
  BY <1>3, <1>6 DEF InNews
<1>9. ASSUME NEW b \in Ids, InNews(b)
      PROVE  InNews(b)'
  BY <1>1, <1>3, <1>6, <1>9 DEF InNews
<1> QED
  BY <1>4, <1>7, <1>8, <1>9

(* The first message is taken.                                             *)
LEMMA ToldTail ==
  ASSUME TypeInv, Told, news # <<>>, news' = Tail(news), state' = state
  PROVE  /\ Told'
         /\ \A b \in Ids : InNews(b) /\ b # Head(news).id => InNews(b)'
         /\ \A b \in Ids : b = Head(news).id => InNews(b)' \/ Head(news).state = state[b]
<1> DEFINE n == Len(news)
<1>1. /\ news \in Seq(Rows) /\ n \in Nat /\ DOMAIN news = 1 .. n /\ n # 0
  BY EmptySeq DEF TypeInv
<1>2. /\ DOMAIN news' = 1 .. n - 1 /\ Head(news) = news[1]
      /\ \A i \in 1 .. n - 1 : news'[i] = news[i + 1]
  BY <1>1
<1> HIDE DEF n
<1>3. \A i \in 1 .. n : i = 1 \/ (i - 1 \in 1 .. n - 1 /\ (i - 1) + 1 = i)
  BY <1>1
<1>4. \A i \in 1 .. n - 1 : i + 1 \in 1 .. n /\ \A j \in 1 .. n : j - 1 <= i => j <= i + 1
  BY <1>1
<1>5. Told'
  <2> SUFFICES ASSUME NEW i \in 1 .. n - 1,
                      \A j \in 1 .. n - 1 : news'[j].id = news'[i].id => j <= i
               PROVE  news'[i].state = state[news'[i].id]
    BY <1>2 DEF Told
  <2>1. \A j \in 1 .. n : news[j].id = news[i + 1].id => j <= i + 1
    <3> SUFFICES ASSUME NEW j \in 1 .. n, news[j].id = news[i + 1].id
                 PROVE  j <= i + 1
      OBVIOUS
    <3>1. CASE j = 1
      BY <1>1, <3>1
    <3>2. CASE j - 1 \in 1 .. n - 1 /\ (j - 1) + 1 = j
      <4>1. news'[j - 1] = news[j] /\ news'[i] = news[i + 1]
        BY <1>2, <3>2
      <4>2. j - 1 <= i
        BY <3>2, <4>1
      <4> QED
        BY <1>4, <4>2
    <3> QED
      BY <1>3, <3>1, <3>2
  <2>2. news[i + 1].state = state[news[i + 1].id]
    BY <1>1, <1>4, <2>1 DEF Told
  <2> QED
    BY <1>2, <2>2
<1>6. ASSUME NEW b, NEW i \in 1 .. n, news[i].id = b, i # 1
      PROVE  InNews(b)'
  <2>1. i - 1 \in DOMAIN news' /\ news'[i - 1] = news[i]
    BY <1>2, <1>3, <1>6
  <2> QED
    BY <1>6, <2>1 DEF InNews
<1>7. \A b \in Ids : InNews(b) /\ b # Head(news).id => InNews(b)'
  BY <1>1, <1>2, <1>6 DEF InNews
<1>8. ASSUME NEW b \in Ids, b = Head(news).id, ~InNews(b)'
      PROVE  Head(news).state = state[b]
  <2>1. 1 \in 1 .. n /\ \A j \in 1 .. n : news[j].id = news[1].id => j <= 1
    BY <1>1, <1>2, <1>6, <1>8
  <2> QED
    BY <1>1, <1>2, <1>8, <2>1 DEF Told
<1> QED
  BY <1>5, <1>7, <1>8

-----------------------------------------------------------------------------
(* What the browser does.                                                  *)

(* A step of the browser that leaves the list what it is.                  *)
LEMMA CatchPane ==
  ASSUME IInv, CatchInv, UNCHANGED <<cards, rows, home, state, news, overlooked>>,
         w'.taskId = w.taskId, w'.loadSeq = w.loadSeq,
         crossed' \in BOOLEAN, ~crossed' => w'.attempts = w.attempts /\ ~crossed,
         \A j \in DOMAIN gets' : \E k \in DOMAIN gets : gets'[j] = gets[k],
         ~crossed' /\ Complete' => Complete, \A a \in Ids : Owed(a) => Owed(a)'
  PROVE  CatchInv'
<1>1. Told'
  BY ToldSame
<1>2. RightKept
  BY DEF RightKept, Right, InNews
<1>3. ExcuseKept
  BY DEF ExcuseKept, Excused
<1>4. rows' \subseteq Ids
  BY DEF IInv, TypeInv
<1> QED
  BY <1>1, <1>2, <1>3, <1>4, CatchFrame

(* What the invariant says of a step that leaves alone what it speaks of.  *)
LEMMA CatchSame ==
  ASSUME IInv, CatchInv,
         UNCHANGED <<cards, rows, home, state, news, overlooked, gets, listLost, crossed>>,
         w'.taskId = w.taskId, w'.loadSeq = w.loadSeq, w'.attempts = w.attempts,
         w'.hasMore = w.hasMore, \A a \in Ids : Owed(a) => Owed(a)'
  PROVE  CatchInv'
<1>1. Complete' = Complete
  BY DEF Complete, Pending, Current
<1>2. crossed' \in BOOLEAN
  BY DEF IInv, TypeInv
<1> QED
  BY <1>1, <1>2, CatchPane

LEMMA CatchClick ==
  ASSUME IInv, CatchInv, NEW v, Click(v),
         v.taskId = w.taskId, v.loadSeq = w.loadSeq, v.attempts = w.attempts,
         v.hasMore = w.hasMore
  PROVE  CatchInv'
<1>1. /\ w' = v
      /\ UNCHANGED <<cards, rows, home, state, news, overlooked, gets, calls, listLost, crossed>>
  BY DEF Click, server, ghosts
<1>2. \A a \in Ids : Owed(a) => Owed(a)'
  BY <1>1 DEF Owed
<1> QED
  BY <1>1, <1>2, CatchSame

LEMMA CatchClicks ==
  ASSUME IInv, CatchInv, Clicks
  PROVE  CatchInv'
<1>1. w \in Data
  BY DEF IInv, TypeInv
<1>2. ASSUME NEW v, Click(v),
             \/ v = [w EXCEPT !.editing = TRUE] \/ v = [w EXCEPT !.editing = FALSE]
             \/ v = [w EXCEPT !.stop = w.activeAttemptId] \/ v = [w EXCEPT !.stop = NoId]
             \/ v = [w EXCEPT !.del = w.task]
             \/ \E a \in Ids : v = [w EXCEPT !.activeAttemptId = a]
      PROVE  CatchInv'
  <2>1. /\ v.taskId = w.taskId /\ v.loadSeq = w.loadSeq /\ v.attempts = w.attempts
        /\ v.hasMore = w.hasMore
    BY <1>1, <1>2 DEF Data
  <2> QED
    BY <1>2, <2>1, CatchClick
<1> QED
  BY <1>2 DEF Clicks, Edit, CancelEdit, AskStop, StopTimer, AskDelete, Pick

(* A command goes out: whatever was owed still is.                         *)
LEMMA CatchSend ==
  ASSUME IInv, NEW v, NEW op \in Ops, NEW id \in Ids \cup {NoId},
         NEW asked \in Ids \cup {NoId} \cup Tasks \cup {NoTask}, Send(v, op, id, asked)
  PROVE  /\ \A a \in Ids : Owed(a) => Owed(a)'
         /\ op = "delAttempt" => Owed(id)'
         /\ w' = v
         /\ UNCHANGED <<cards, rows, home, state, news, overlooked, gets, listLost, crossed>>
<1> DEFINE n == Len(calls)
           c == Command(op, id, asked)
<1>1. /\ calls' = Append(calls, c) /\ w' = v
      /\ UNCHANGED <<cards, rows, home, state, news, overlooked, gets, listLost, crossed>>
  BY DEF Send, server, ghosts
<1>2. calls \in Seq(Orders) /\ n \in Nat /\ DOMAIN calls = 1 .. n
  BY DEF IInv, TypeInv
<1>3. c.op = op /\ c.id = id /\ c.stage = "sent" /\ c.mine = TRUE
  BY DEF Command
<1>4. c \in Orders
  <2>1. w.taskId \in Tasks \cup {NoTask}
    BY DEF IInv, TypeInv, Data
  <2> QED
    BY <2>1 DEF Command, Orders, Ops
<1> HIDE DEF c
<1>5. /\ DOMAIN calls' = 1 .. n + 1 /\ calls'[n + 1] = c
      /\ \A i \in 1 .. n : calls'[i] = calls[i]
  BY <1>1, <1>2, <1>4
<1>6. n + 1 \in DOMAIN calls' /\ DOMAIN calls \subseteq DOMAIN calls'
  BY <1>2, <1>5
<1> HIDE DEF n
<1>7. ASSUME NEW a, Owed(a)
      PROVE  Owed(a)'
  BY <1>2, <1>5, <1>6, <1>7 DEF Owed
<1>8. op = "delAttempt" => Owed(id)'
  BY <1>3, <1>5, <1>6 DEF Owed
<1> QED
  BY <1>1, <1>7, <1>8

LEMMA CatchSent ==
  ASSUME IInv, CatchInv, NEW v, NEW op \in Ops, NEW id \in Ids \cup {NoId},
         NEW asked \in Ids \cup {NoId} \cup Tasks \cup {NoTask}, Send(v, op, id, asked),
         v.taskId = w.taskId, v.loadSeq = w.loadSeq, v.attempts = w.attempts,
         v.hasMore = w.hasMore
  PROVE  CatchInv'
BY CatchSend, CatchSame

LEMMA CatchCommands ==
  ASSUME IInv, CatchInv,
         \/ Save \/ DeleteTask \/ StartAttempt \/ SendMsg \/ CancelAttempt \/ SendContinue
         \/ Reconnect
  PROVE  CatchInv'
<1>1. /\ w \in Data /\ w.activeAttemptId \in Ids \cup {NoId} /\ w.stop \in Ids \cup {NoId}
      /\ w.del \in Tasks \cup {NoTask} /\ NoId \in Ids \cup {NoId}
  BY ArchivedAssumption DEF IInv, TypeInv, Data
<1>2. ASSUME NEW v,
             \/ v = [w EXCEPT !.stop = NoId] \/ v = [w EXCEPT !.sending = TRUE]
             \/ v = [w EXCEPT !.reconnectAskedFor = w.activeAttemptId]
      PROVE  /\ v.taskId = w.taskId /\ v.loadSeq = w.loadSeq /\ v.attempts = w.attempts
             /\ v.hasMore = w.hasMore
  BY <1>1, <1>2 DEF Data
<1>3. CASE Save \/ DeleteTask \/ StartAttempt \/ SendMsg
  BY <1>1, <1>3, CatchSent DEF Save, DeleteTask, StartAttempt, SendMsg, Ops
<1>4. CASE CancelAttempt
  BY <1>1, <1>2, <1>4, CatchSent DEF CancelAttempt, Ops
<1>5. CASE SendContinue
  BY <1>1, <1>2, <1>5, CatchSent DEF SendContinue, Ops
<1>6. CASE Reconnect
  BY <1>1, <1>2, <1>6, CatchSent DEF Reconnect, Ops
<1> QED
  BY <1>3, <1>4, <1>5, <1>6

(* Answers that change no list on the screen.                              *)
LEMMA CatchTaskAnswer ==
  ASSUME IInv, CatchInv, NEW i \in Nat, TaskAnswer(i)
  PROVE  CatchInv'
<1> DEFINE g == gets[i]
<1>1. /\ i \in DOMAIN gets /\ g.kind = "task" /\ gets' = Without(gets, i)
      /\ w' = IF Current(g) THEN [w EXCEPT !.task = g.task, !.form = g.task] ELSE w
      /\ UNCHANGED <<cards, home, rows, state, news, calls, listLost, crossed, overlooked, reopened>>
  BY DEF TaskAnswer, server, ghosts
<1>2. TypeInv /\ w \in Data
  BY DEF IInv, TypeInv
<1>3. /\ w'.taskId = w.taskId /\ w'.attempts = w.attempts /\ w'.loadSeq = w.loadSeq
      /\ w'.hasMore = w.hasMore /\ w'.loadingMore = w.loadingMore
  BY <1>1, <1>2 DEF Data
<1>4. Remains(i)
  BY <1>1, <1>3, Answered
<1>5. Complete' => Complete
  BY <1>1, <1>3, <1>4 DEF Complete, Remains
<1>6. \A a \in Ids : Owed(a) => Owed(a)'
  BY <1>1 DEF Owed
<1>7. crossed' \in BOOLEAN
  BY <1>1, <1>2 DEF TypeInv
<1> QED
  BY <1>1, <1>3, <1>4, <1>5, <1>6, <1>7, CatchPane DEF Remains

LEMMA CatchGetFails ==
  ASSUME IInv, CatchInv, NEW i \in Nat, GetFails(i)
  PROVE  CatchInv'
<1> DEFINE g == gets[i]
<1>1. /\ i \in DOMAIN gets /\ gets' = Without(gets, i)
      /\ w' = IF g.kind = "more" THEN [w EXCEPT !.loadingMore = FALSE] ELSE w
      /\ listLost' = (listLost \/ (g.kind = "list" /\ Current(g)))
      /\ UNCHANGED <<cards, home, rows, state, news, calls, crossed, overlooked, reopened>>
  BY DEF GetFails, server
<1>2. TypeInv /\ w \in Data
  BY DEF IInv, TypeInv
<1>3. /\ w'.taskId = w.taskId /\ w'.attempts = w.attempts /\ w'.loadSeq = w.loadSeq
      /\ w'.hasMore = w.hasMore /\ (g.kind = "more" \/ w'.loadingMore = w.loadingMore)
  BY <1>1, <1>2 DEF Data
<1>4. Remains(i)
  BY <1>1, <1>3, Answered
<1>5. Complete' => Complete
  BY <1>1, <1>3, <1>4 DEF Complete, Remains
<1>6. \A a \in Ids : Owed(a) => Owed(a)'
  BY <1>1 DEF Owed
<1>7. crossed' \in BOOLEAN
  BY <1>1, <1>2 DEF TypeInv
<1> QED
  BY <1>1, <1>3, <1>4, <1>5, <1>6, <1>7, CatchPane DEF Remains

(* A pane that loads shows nothing, and knows that it does not know.       *)
LEMMA CatchEmptied ==
  ASSUME Told', WholeLists',
         \/ w'.taskId \notin cards'
         \/ /\ w'.attempts = <<>> /\ Pending("list")'
            /\ \A j \in DOMAIN gets' : gets'[j].seq = w'.loadSeq =>
                   gets'[j].read = FALSE /\ gets'[j].kind # "more"
  PROVE  CatchInv'
<1>1. ASSUME w'.attempts = <<>>, Pending("list")',
             \A j \in DOMAIN gets' : gets'[j].seq = w'.loadSeq =>
                 gets'[j].read = FALSE /\ gets'[j].kind # "more"
      PROVE  PaneRight' /\ AnswersRight'
  <2>1. AllRight(w.attempts)'
    BY <1>1 DEF AllRight
  <2>2. ~Complete' /\ IdsOf(w.attempts)' = {}
    BY <1>1 DEF Complete, IdsOf
  <2>3. Gapless(w.attempts, Complete, NoId)'
    BY <2>2 DEF Gapless
  <2>4. AnswersRight'
    BY <1>1 DEF AnswersRight, Current
  <2> QED
    BY <2>1, <2>3, <2>4 DEF PaneRight
<1> QED
  BY <1>1 DEF CatchInv

LEMMA CatchLoad ==
  ASSUME IInv, CatchInv, NEW v \in Data, v.loadSeq = w.loadSeq, Load(v, gets), Told',
         cards' = cards
  PROVE  CatchInv'
<1>1. CASE v.taskId = NoTask
  <2>1. w'.taskId = NoTask /\ gets' = gets
    BY <1>1, LoadNone
  <2>2. w'.taskId \notin cards' /\ WholeLists'
    BY <2>1, ListsTyped DEF IInv, CatchInv, WholeLists
  <2> QED
    BY <2>2, CatchEmptied
<1>2. CASE v.taskId # NoTask
  <2>1. /\ w'.attempts = <<>> /\ DOMAIN gets' = 1 .. Len(gets) + 2
        /\ \A k \in 1 .. Len(gets) : gets'[k] = gets[k] /\ gets'[k].seq < w'.loadSeq
        /\ \A k \in {Len(gets) + 1, Len(gets) + 2} :
               /\ gets'[k].seq = w'.loadSeq /\ gets'[k].before = NoId /\ gets'[k].read = FALSE
               /\ gets'[k].kind = IF k = Len(gets) + 1 THEN "task" ELSE "list"
        /\ w'.loadSeq = w.loadSeq + 1
    BY <1>2, LoadAdds
  <2>2. Len(gets) \in Nat /\ DOMAIN gets = 1 .. Len(gets) /\ w.loadSeq \in Nat
    BY FieldTypes DEF IInv, TypeInv
  <2>3. \A k \in 1 .. Len(gets) + 2 : k \in 1 .. Len(gets) \/ k \in {Len(gets) + 1, Len(gets) + 2}
    <3> DEFINE n == Len(gets)
    <3>1. n \in Nat
      BY <2>2
    <3> HIDE DEF n
    <3>2. \A k \in 1 .. n + 2 : k \in 1 .. n \/ k \in {n + 1, n + 2}
      BY <3>1
    <3> QED
      BY <3>2 DEF n
  <2>4. \A k \in 1 .. Len(gets) : gets'[k].seq # w'.loadSeq
    <3> SUFFICES ASSUME NEW k \in 1 .. Len(gets)
                 PROVE  gets'[k].seq # w'.loadSeq
      OBVIOUS
    <3>1. gets'[k] \in Requests
      BY <2>1, <2>2, ListsTyped DEF IInv
    <3>2. gets'[k].seq \in Nat /\ w'.loadSeq \in Nat /\ gets'[k].seq < w'.loadSeq
      BY <2>1, <2>2, <3>1 DEF Requests
    <3> QED
      BY <3>2
  <2>5. WholeLists'
    <3> SUFFICES ASSUME NEW k \in DOMAIN gets', gets'[k].kind = "list"
                 PROVE  gets'[k].before = NoId
      BY DEF WholeLists
    <3>1. CASE k \in 1 .. Len(gets)
      BY <2>1, <2>2, <3>1 DEF CatchInv, WholeLists
    <3> QED
      BY <2>1, <2>3, <3>1
  <2>6. \A j \in DOMAIN gets' : gets'[j].seq = w'.loadSeq =>
            gets'[j].read = FALSE /\ gets'[j].kind # "more"
    BY <2>1, <2>3, <2>4
  <2>7. Pending("list")'
    <3>1. Len(gets) + 2 \in DOMAIN gets' /\ gets'[Len(gets) + 2].kind = "list"
          /\ gets'[Len(gets) + 2].seq = w'.loadSeq
      BY <2>1, <2>2
    <3> QED
      BY <3>1 DEF Pending, Current
  <2> QED
    BY <2>1, <2>5, <2>6, <2>7, CatchEmptied
<1> QED
  BY <1>1, <1>2

LEMMA CatchSelect ==
  ASSUME IInv, CatchInv, NEW t \in Tasks, Select(t)
  PROVE  CatchInv'
<1> DEFINE v == [w EXCEPT !.taskId = t]
<1>1. Load(v, gets) /\ UNCHANGED <<cards, state, news>>
  BY DEF Select, server
<1>2. w \in Data
  BY DEF IInv, TypeInv
<1>3. v \in Data /\ v.loadSeq = w.loadSeq
  BY <1>2 DEF Data
<1>4. Told'
  BY <1>1, ToldSame
<1> HIDE DEF v
<1> QED
  BY <1>1, <1>3, <1>4, CatchLoad

LEMMA CatchOpen ==
  ASSUME IInv, CatchInv, NEW t \in Tasks, Open(t)
  PROVE  CatchInv'
<1> DEFINE v == [Fresh EXCEPT !.taskId = t]
           T == Get("task", w', NoId)
           L == Get("list", w', NoId)
<1>1. Load(v, <<>>) /\ UNCHANGED <<state, news>>
  BY DEF Open, server
<1>2. Told'
  BY <1>1, ToldSame
<1>3. v.taskId = t /\ t # NoTask
  <2>1. "taskId" \in DOMAIN Fresh
    BY DEF Fresh
  <2> QED
    BY <2>1, IdAssumption
<1>4. w' = [v EXCEPT !.loadSeq = @ + 1, !.attempts = <<>>, !.hasMore = FALSE]
      /\ gets' = <<>> \o <<T, L>>
  BY <1>1, <1>3 DEF Load, Loading
<1>5. w'.attempts = <<>>
  <2>1. "attempts" \in DOMAIN Fresh
    BY DEF Fresh
  <2>2. "attempts" \in DOMAIN v
    BY <2>1
  <2> HIDE DEF v
  <2> QED
    BY <1>4, <2>2
<1>6. /\ T.seq = w'.loadSeq /\ L.seq = w'.loadSeq /\ T.read = FALSE /\ L.read = FALSE
      /\ T.kind = "task" /\ L.kind = "list" /\ L.before = NoId
  BY DEF Get
<1> HIDE DEF T, L
<1>7. gets' = <<T, L>>
  <2>1. T \in {T, L} /\ L \in {T, L}
    OBVIOUS
  <2>2. <<T, L>> \in Seq({T, L})
    BY <2>1
  <2> QED
    BY <1>4, <2>2, ConcatEmptySeq
<1>8. DOMAIN gets' = {1, 2} /\ gets'[1] = T /\ gets'[2] = L
  BY <1>7
<1>9. Pending("list")' /\ WholeLists'
  BY <1>6, <1>8 DEF Pending, Current, WholeLists
<1> QED
  BY <1>2, <1>5, <1>6, <1>8, <1>9, CatchEmptied

LEMMA CatchClosed ==
  ASSUME IInv, CatchInv, NEW others, Closed(w, others), UNCHANGED <<cards, state, news>>
  PROVE  CatchInv'
<1>1. Told'
  BY ToldSame
<1>2. w'.taskId = NoTask /\ (gets' = <<>> \/ gets' = gets)
  <2>1. CASE pane = "modal"
    BY <2>1 DEF Closed, Fresh
  <2>2. CASE pane # "modal"
    <3>1. w' = Loading([w EXCEPT !.taskId = NoTask]) /\ gets' = gets
      BY <2>2 DEF Closed
    <3>2. w \in Data
      BY DEF IInv, TypeInv
    <3>3. [w EXCEPT !.taskId = NoTask] \in Data /\ [w EXCEPT !.taskId = NoTask].taskId = NoTask
      BY <3>2 DEF Data
    <3> QED
      BY <3>1, <3>3 DEF Loading, Data
  <2> QED
    BY <2>1, <2>2
<1>3. WholeLists'
  BY <1>2 DEF CatchInv, WholeLists
<1>4. w'.taskId \notin cards'
  BY <1>2, ListsTyped DEF IInv
<1> QED
  BY <1>1, <1>3, <1>4, CatchEmptied

-----------------------------------------------------------------------------
(* What the server does, and its messages.                                 *)

LEMMA CatchServer ==
  ASSUME IInv, CatchInv, UNCHANGED <<w, gets, listLost, crossed>>,
         Told', RightKept, ExcuseKept, rows' \subseteq Ids,
         w.taskId \in cards' => w.taskId \in cards
  PROVE  CatchInv'
<1>1. Complete' = Complete
  BY DEF Complete, Pending, Current
<1>2. crossed' \in BOOLEAN
  BY DEF IInv, TypeInv
<1> QED
  BY <1>1, <1>2, CatchFrame

(* An attempt changes its state, and a message about it goes out.          *)
LEMMA RightBecomes ==
  ASSUME TypeInv, Told, NEW a \in Ids, NEW s \in {"live", "settled"}, Becomes(a, s),
         rows \subseteq rows', overlooked \subseteq overlooked'
  PROVE  Told' /\ RightKept
<1>1. /\ Told' /\ InNews(a)'
      /\ \A b \in Ids : InNews(b) => InNews(b)'
      /\ \A b \in Ids : b # a => state'[b] = state[b]
  BY ToldBecomes
<1>2. ASSUME NEW r \in Rows, Right(r)
      PROVE  Right(r)'
  <2>1. PICK b \in Ids : b = r.id
    BY RowTyped
  <2>2. CASE b = a
    BY <1>1, <1>2, <2>1, <2>2 DEF Right, InNews
  <2>3. CASE b # a
    BY <1>1, <1>2, <2>1, <2>3 DEF Right, InNews
  <2> QED
    BY <2>2, <2>3
<1> QED
  BY <1>1, <1>2 DEF RightKept

LEMMA CatchFlip ==
  ASSUME IInv, CatchInv, NEW a \in Ids, Flip(a)
  PROVE  CatchInv'
<1>1. /\ Becomes(a, IF state[a] = "live" THEN "settled" ELSE "live")
      /\ UNCHANGED <<cards, home, rows, w, gets, calls, listLost, crossed, overlooked>>
  BY DEF Flip, ghosts
<1>2. TypeInv /\ Told
  BY DEF IInv, CatchInv
<1>3. Told' /\ RightKept
  BY <1>1, <1>2, RightBecomes
<1>4. ExcuseKept
  BY <1>1 DEF ExcuseKept, Excused, Owed
<1>5. rows' \subseteq Ids
  BY <1>1, <1>2 DEF TypeInv
<1> QED
  BY <1>1, <1>3, <1>4, <1>5, CatchServer

LEMMA CatchLoseNotice ==
  ASSUME IInv, CatchInv, LoseNotice
  PROVE  CatchInv'
<1>1. /\ news # <<>> /\ news' = Tail(news) /\ overlooked' = overlooked \cup {Head(news).id}
      /\ UNCHANGED <<cards, home, rows, state, w, gets, calls, listLost, crossed>>
  BY DEF LoseNotice, server
<1>2. TypeInv /\ Told
  BY DEF IInv, CatchInv
<1>3. Told' /\ \A b \in Ids : InNews(b) /\ b # Head(news).id => InNews(b)'
  BY <1>1, <1>2, ToldTail
<1>4. RightKept
  <2> SUFFICES ASSUME NEW r \in Rows, Right(r)
               PROVE  Right(r)'
    BY DEF RightKept
  <2>1. PICK b \in Ids : b = r.id
    BY RowTyped
  <2> QED
    BY <1>1, <1>3, <2>1 DEF Right, InNews
<1>5. ExcuseKept
  BY <1>1 DEF ExcuseKept, Excused, Owed
<1>6. rows' \subseteq Ids
  BY <1>1, <1>2 DEF TypeInv
<1> QED
  BY <1>1, <1>3, <1>4, <1>5, <1>6, CatchServer

(* A command gets its answer: only a deletion that was carried out is no   *)
(* longer owed.                                                            *)
LEMMA OwedServed ==
  ASSUME NEW i \in DOMAIN calls, calls[i].stage = "sent", NEW d,
         calls' = [calls EXCEPT ![i] = d], NEW a \in Ids, Owed(a), ~Owed(a)'
  PROVE  /\ calls[i].op = "delAttempt" /\ calls[i].id = a /\ calls[i].mine
         /\ ~(d.op = "delAttempt" /\ d.id = a /\ d.mine /\ d.stage # "ok")
<1>1. PICK k \in DOMAIN calls :
          /\ calls[k].mine /\ calls[k].id = a
          /\ \/ calls[k].op = "start" /\ calls[k].stage = "ok"
             \/ calls[k].op = "delAttempt" /\ calls[k].stage # "ok"
  BY DEF Owed
<1>2. DOMAIN calls' = DOMAIN calls /\ calls'[i] = d /\ (k # i => calls'[k] = calls[k])
  OBVIOUS
<1>3. k = i
  BY <1>1, <1>2 DEF Owed
<1>4. ~(d.op = "delAttempt" /\ d.id = a /\ d.mine /\ d.stage # "ok")
  BY <1>2 DEF Owed
<1> QED
  BY <1>1, <1>3, <1>4

LEMMA CatchDone ==
  ASSUME IInv, CatchInv, NEW c \in Orders, Accepted(c), Done(c),
         \A a \in Ids : Owed(a) => Owed(a)' \/ (c.op = "delAttempt" /\ c.id = a),
         UNCHANGED <<w, gets, listLost, crossed>>
  PROVE  CatchInv'
<1>1. TypeInv /\ Told
  BY DEF IInv, CatchInv
<1>2. ASSUME NEW a \in Ids, Owed(a), ~Owed(a)'
      PROVE  c.op = "delAttempt" /\ c.id = a
  BY <1>2
<1>3. Served
  BY <1>1, DoneStep
<1>4. CASE c.op = "del"
  <2>1. /\ cards' = cards \ {c.task} /\ rows' = rows \ Attempts(c.task)
        /\ UNCHANGED <<home, state, news, overlooked>>
    BY <1>4 DEF Done
  <2>2. Told'
    BY <2>1, ToldSame
  <2>3. CASE c.task = w.taskId
    <3>1. w'.taskId \notin cards' /\ WholeLists'
      BY <2>1, <2>3 DEF CatchInv, WholeLists
    <3> QED
      BY <2>2, <3>1, CatchEmptied
  <2>4. CASE c.task # w.taskId
    <3>1. RightKept
      <4> SUFFICES ASSUME NEW r \in Rows, home[r.id] = w.taskId, Right(r)
                   PROVE  Right(r)'
        BY DEF RightKept
      <4> QED
        BY <2>1, <2>4 DEF Right, InNews, Attempts
    <3>2. ExcuseKept
      BY <1>2, <1>4, <2>1 DEF ExcuseKept, Excused
    <3> QED
      BY <1>3, <2>1, <2>2, <3>1, <3>2, CatchServer DEF Served
  <2> QED
    BY <2>3, <2>4
<1>5. CASE c.op = "delAttempt"
  <2>1. /\ rows' = rows \ {c.id} /\ overlooked' = Noticed(c.id)
        /\ UNCHANGED <<cards, home, state, news>>
    BY <1>5 DEF Done
  <2>2. overlooked \subseteq overlooked'
    BY <2>1 DEF Noticed
  <2>3. RightKept
    <3> SUFFICES ASSUME NEW r \in Rows, Listed(r), Right(r)
                 PROVE  Right(r)'
      BY DEF RightKept
    <3>1. r.id = c.id => c.id \in overlooked'
      BY <2>1 DEF Noticed, Listed, IdsOf
    <3> QED
      BY <2>1, <2>2, <3>1 DEF Right, InNews
  <2>4. ExcuseKept
    BY <1>2, <2>1, <2>2 DEF ExcuseKept, Excused
  <2>5. Told'
    BY <2>1, ToldSame
  <2> QED
    BY <1>3, <2>1, <2>3, <2>4, <2>5, CatchServer DEF Served
<1>6. CASE \/ c.op \in {"send", "continue"} /\ state[c.id] = "settled"
           \/ c.op = "cancel" /\ state[c.id] = "live"
  <2>1. /\ Becomes(c.id, "live") \/ Becomes(c.id, "settled")
        /\ UNCHANGED <<cards, home, rows, overlooked>>
    BY <1>6 DEF Done
  <2>2. c.id \in Ids
    BY <1>1, <1>6 DEF Accepted, TypeInv
  <2>3. Told' /\ RightKept
    BY <1>1, <2>1, <2>2, RightBecomes
  <2>4. ExcuseKept
    BY <1>2, <1>6, <2>1 DEF ExcuseKept, Excused
  <2> QED
    BY <1>3, <2>1, <2>3, <2>4, CatchServer DEF Served
<1>7. CASE /\ c.op \notin {"del", "delAttempt"}
           /\ ~(c.op \in {"send", "continue"} /\ state[c.id] = "settled")
           /\ ~(c.op = "cancel" /\ state[c.id] = "live")
  <2>1. UNCHANGED <<cards, home, rows, state, news, overlooked>>
    BY <1>7 DEF Done, Same, server
  <2>2. \A a \in Ids : Owed(a) => Owed(a)'
    BY <1>2, <1>7
  <2> QED
    BY <2>1, <2>2, CatchSame
<1> QED
  BY <1>4, <1>5, <1>6, <1>7

LEMMA CatchStarted ==
  ASSUME IInv, CatchInv, NEW c \in Orders, NEW a \in Ids, NEW told \in BOOLEAN,
         Started(c, a, told), told => Owed(a)', \A b \in Ids : Owed(b) => Owed(b)',
         UNCHANGED <<w, gets, listLost, crossed>>
  PROVE  CatchInv'
<1>1. TypeInv /\ Told
  BY DEF IInv, CatchInv
<1>2. /\ home[a] = NoTask /\ home' = [home EXCEPT ![a] = c.task]
      /\ rows' = rows \cup {a} /\ Becomes(a, "live") /\ cards' = cards
      /\ overlooked' = IF told \/ c.task # w.taskId THEN overlooked ELSE overlooked \cup {a}
  BY DEF Started
<1>3. Told' /\ RightKept
  BY <1>1, <1>2, RightBecomes
<1>4. /\ rows' \subseteq Ids /\ home'[a] = c.task
      /\ \A b \in Ids : b # a => home'[b] = home[b]
  BY <1>1, <1>2 DEF TypeInv
<1>5. c.task = w.taskId => Excused(a)'
  BY <1>2 DEF Excused
<1>6. ExcuseKept
  <2> SUFFICES ASSUME NEW b \in Ids, b \in rows', home'[b] = w.taskId, ~Excused(b)'
               PROVE  b \in rows /\ home[b] = w.taskId /\ ~Excused(b)
    BY DEF ExcuseKept
  <2>1. b # a
    BY <1>4, <1>5
  <2>2. ~Excused(b)
    BY <1>2 DEF Excused
  <2> QED
    BY <1>2, <1>4, <2>1, <2>2
<1> QED
  BY <1>2, <1>3, <1>4, <1>6, CatchServer

LEMMA CatchServe ==
  ASSUME IInv, CatchInv, NEW i \in Nat, Serve(i)
  PROVE  CatchInv'
<1>1. TypeInv
  BY DEF IInv
<1>2. /\ i \in DOMAIN calls /\ calls[i] \in Orders /\ calls[i].stage = "sent"
      /\ UNCHANGED <<w, gets, listLost, crossed>>
  BY <1>1, ServeCases
<1>3. PICK d \in Orders :
          /\ calls' = [calls EXCEPT ![i] = d]
          /\ d.op = calls[i].op /\ d.mine = calls[i].mine
          /\ \/ Accepted(calls[i]) /\ Done(calls[i]) /\ d.id = calls[i].id
             \/ /\ d.id \in Ids /\ d.stage \in {"ok", "err"}
                /\ Started(calls[i], d.id, calls[i].mine /\ d.stage = "ok")
             \/ Same /\ d.stage = "err" /\ d.id = calls[i].id
  BY <1>1, ServeCases
<1>4. ASSUME NEW b \in Ids, Owed(b), ~Owed(b)'
      PROVE  /\ calls[i].op = "delAttempt" /\ calls[i].id = b /\ calls[i].mine
             /\ ~(d.op = "delAttempt" /\ d.id = b /\ d.mine /\ d.stage # "ok")
  BY <1>2, <1>3, <1>4, OwedServed
<1>5. CASE Accepted(calls[i]) /\ Done(calls[i]) /\ d.id = calls[i].id
  BY <1>2, <1>4, <1>5, CatchDone
<1>6. CASE /\ d.id \in Ids
           /\ Started(calls[i], d.id, calls[i].mine /\ d.stage = "ok")
  <2>1. calls[i].op = "start"
    BY <1>6 DEF Started
  <2>2. \A b \in Ids : Owed(b) => Owed(b)'
    BY <1>4, <2>1
  <2>3. calls'[i] = d /\ i \in DOMAIN calls'
    BY <1>2, <1>3
  <2>4. ASSUME calls[i].mine /\ d.stage = "ok"
        PROVE  Owed(d.id)'
    BY <1>3, <2>1, <2>3, <2>4 DEF Owed
  <2>5. PICK told \in BOOLEAN : told = (calls[i].mine /\ d.stage = "ok")
    OBVIOUS
  <2> QED
    BY <1>2, <1>6, <2>2, <2>4, <2>5, CatchStarted
<1>7. CASE Same /\ d.stage = "err" /\ d.id = calls[i].id
  <2>1. \A b \in Ids : Owed(b) => Owed(b)'
    BY <1>3, <1>4, <1>7
  <2>2. UNCHANGED <<cards, rows, home, state, news, overlooked>>
    BY <1>7 DEF Same, server
  <2> QED
    BY <1>2, <2>1, <2>2, CatchSame
<1> QED
  BY <1>3, <1>5, <1>6, <1>7

LEMMA CatchElsewhere ==
  ASSUME IInv, CatchInv, NEW op \in {"start", "del", "delAttempt"},
         NEW t \in Tasks \cup {NoTask}, NEW a \in Ids \cup {NoId}, Elsewhere(op, t, a)
  PROVE  CatchInv'
<1>1. TypeInv
  BY DEF IInv
<1>2. UNCHANGED <<w, gets, calls, listLost, crossed>>
  BY <1>1, ElsewhereCases
<1>3. PICK c \in Orders :
          \/ Accepted(c) /\ Done(c)
          \/ \E b \in Ids : Started(c, b, FALSE)
  BY <1>1, ElsewhereCases
<1>4. \A b \in Ids : Owed(b) => Owed(b)'
  BY <1>2 DEF Owed
<1>5. CASE Accepted(c) /\ Done(c)
  BY <1>2, <1>4, <1>5, CatchDone
<1>6. CASE \E b \in Ids : Started(c, b, FALSE)
  BY <1>2, <1>4, <1>6, CatchStarted
<1> QED
  BY <1>3, <1>5, <1>6

(* A message is handled: what it says is set in the list, and a list that  *)
(* was read before and says otherwise is not taken for right.              *)
LEMMA CatchNotice ==
  ASSUME IInv, CatchInv, Notice
  PROVE  CatchInv'
<1> DEFINE n    == Head(news)
           list == Patched(w.attempts, n)
<1>1. /\ news # <<>> /\ news' = Tail(news) /\ w' = [w EXCEPT !.attempts = list]
      /\ overlooked' = IF Missed(n) THEN overlooked \cup {n.id} ELSE overlooked
      /\ UNCHANGED <<cards, home, rows, state, gets, calls, listLost, crossed>>
  BY DEF Notice, server
<1>2. TypeInv /\ Told /\ w \in Data
  BY DEF IInv, CatchInv, TypeInv
<1>3. n \in Rows
  BY <1>1, <1>2, HeadTyped
<1>4. /\ Told'
      /\ \A b \in Ids : b = n.id => InNews(b)' \/ n.state = state[b]
      /\ \A b \in Ids : InNews(b) /\ b # n.id => InNews(b)'
  BY <1>1, <1>2, ToldTail
<1>5. /\ list \in Seq(Rows) /\ DOMAIN list = DOMAIN w.attempts
      /\ \A i \in DOMAIN w.attempts :
             /\ list[i].id = w.attempts[i].id
             /\ list[i].state = IF w.attempts[i].id = n.id THEN n.state ELSE w.attempts[i].state
  BY <1>2, <1>3, PatchedFacts, ListsTyped
<1>6. \A r \in Rows : Right(r) =>
          \A q \in Rows :
              /\ q.id = r.id
              /\ q.state = IF r.id = n.id THEN n.state ELSE r.state
              => Right(q)'
  <2> SUFFICES ASSUME NEW r \in Rows, Right(r), NEW q \in Rows, q.id = r.id,
                      q.state = IF r.id = n.id THEN n.state ELSE r.state
               PROVE  Right(q)'
    OBVIOUS
  <2>1. r.id \in Ids /\ (r.id \in overlooked => r.id \in overlooked')
    BY <1>1, RowTyped
  <2>2. CASE r.id = n.id
    <3>1. InNews(q.id)' \/ q.state = state[q.id]
      BY <1>4, <2>1, <2>2 DEF InNews
    <3> QED
      BY <1>1, <2>1, <3>1 DEF Right
  <2>3. CASE r.id # n.id
    <3>1. InNews(r.id) => InNews(q.id)'
      BY <1>4, <2>1, <2>3 DEF InNews
    <3> QED
      BY <1>1, <2>1, <2>3, <3>1 DEF Right
  <2> QED
    BY <2>2, <2>3
<1> HIDE DEF list, n
<1>7. /\ w'.taskId = w.taskId /\ w'.loadSeq = w.loadSeq /\ w'.hasMore = w.hasMore
      /\ w'.attempts = list
  BY <1>1, <1>2, <1>5 DEF Data
<1>8. IdsOf(w.attempts)' = IdsOf(w.attempts) /\ Complete' = Complete
  BY <1>1, <1>5, <1>7 DEF IdsOf, Complete, Pending, Current
<1>9. WholeLists'
  BY <1>1 DEF CatchInv, WholeLists
<1>10. \A a \in Ids : Excused(a) => Excused(a)'
  BY <1>1 DEF Excused, Owed
<1> SUFFICES ASSUME w.taskId \in cards
             PROVE  PaneRight' /\ AnswersRight'
  BY <1>1, <1>4, <1>7, <1>9 DEF CatchInv
<1>11. PaneRight /\ AnswersRight
  BY DEF CatchInv
<1>12. Attempts(w.taskId)' = Attempts(w.taskId) /\ Attempts(w.taskId) \subseteq Ids
  BY <1>1, <1>2, <1>7 DEF Attempts, TypeInv
<1>13. PaneRight'
  <2> SUFFICES ASSUME ~crossed
               PROVE  AllRight(w.attempts)' /\ Gapless(w.attempts, Complete, NoId)'
    BY <1>1 DEF PaneRight
  <2>1. AllRight(w.attempts) /\ Gapless(w.attempts, Complete, NoId)
    BY <1>11 DEF PaneRight
  <2>2. \A i \in DOMAIN list : \E q \in Rows : q = list[i] /\ Right(q)'
    <3> SUFFICES ASSUME NEW i \in DOMAIN list
                 PROVE  \E q \in Rows : q = list[i] /\ Right(q)'
      OBVIOUS
    <3>1. PICK q \in Rows, r \in Rows : q = list[i] /\ r = w.attempts[i]
      BY <1>2, <1>5, ListsTyped
    <3>2. Right(r)
      BY <1>5, <2>1, <3>1 DEF AllRight
    <3> QED
      BY <1>5, <1>6, <3>1, <3>2
  <2>3. AllRight(w.attempts)'
    BY <1>7, <2>2 DEF AllRight, Right
  <2>4. Gapless(w.attempts, Complete, NoId)'
    BY <1>8, <1>10, <1>12, <2>1 DEF Gapless
  <2> QED
    BY <2>3, <2>4
<1>14. AnswersRight'
  <2> SUFFICES ASSUME NEW i \in DOMAIN gets, Current(gets[i])
               PROVE  /\ gets[i].kind # "task" /\ gets[i].read =>
                             /\ AllRight(gets[i].list)'
                             /\ Gapless(gets[i].list, ~gets[i].more, gets[i].before)'
                      /\ gets[i].kind = "more" /\ ~crossed =>
                             \A a \in Attempts(w.taskId) :
                                 gets[i].before <= a => Excused(a)' \/ a \in IdsOf(w.attempts)
    BY <1>1, <1>7, <1>8, <1>12 DEF AnswersRight, Current
  <2>1. ASSUME gets[i].kind # "task", gets[i].read
        PROVE  /\ AllRight(gets[i].list)'
               /\ Gapless(gets[i].list, ~gets[i].more, gets[i].before)'
    <3>1. AllRight(gets[i].list) /\ Gapless(gets[i].list, ~gets[i].more, gets[i].before)
      BY <1>11, <2>1 DEF AnswersRight
    <3>2. \A j \in DOMAIN gets[i].list : \E r \in Rows : r = gets[i].list[j] /\ Right(r)'
      <4> SUFFICES ASSUME NEW j \in DOMAIN gets[i].list
                   PROVE  \E r \in Rows : r = gets[i].list[j] /\ Right(r)'
        OBVIOUS
      <4>1. PICK r \in Rows : r = gets[i].list[j]
        BY <1>2, ListsTyped
      <4>2. Right(r)
        BY <3>1, <4>1 DEF AllRight
      <4>3. CASE r.id = n.id /\ r.state # n.state
        <5>1. Missed(n)
          BY <4>1, <4>3 DEF Missed
        <5> QED
          BY <1>1, <4>1, <4>3, <5>1 DEF Right
      <4>4. CASE ~(r.id = n.id /\ r.state # n.state)
        BY <1>6, <4>1, <4>2, <4>4
      <4> QED
        BY <4>3, <4>4
    <3>3. AllRight(gets[i].list)'
      BY <1>1, <3>2 DEF AllRight, Right
    <3>4. Gapless(gets[i].list, ~gets[i].more, gets[i].before)'
      BY <1>1, <1>10, <1>12, <3>1 DEF Gapless, IdsOf
    <3> QED
      BY <3>3, <3>4
  <2> QED
    BY <1>10, <1>11, <1>12, <2>1 DEF AnswersRight
<1> QED
  BY <1>13, <1>14

-----------------------------------------------------------------------------
(* Answers to commands.                                                    *)

(* A command that reloads or closes the pane; any other owes nothing.      *)
LEMMA CatchHandled ==
  ASSUME IInv, CatchInv, NEW c, NEW answer, NEW others,
         c.op = "start" /\ answer = "ok" => c.id \in Ids,
         \/ Handled(c, answer, others)
         \/ Quietly(w, others) /\ ~c.mine,
         UNCHANGED <<cards, home, rows, state, news, overlooked>>,
         calls' = others /\ ~(c.mine /\ c.op = "start" /\ answer = "ok")
                         /\ ~(c.mine /\ c.op = "delAttempt" /\ answer # "ok") =>
             \A a \in Ids : Owed(a) => Owed(a)',
         answer \in {"ok", "err"}
  PROVE  CatchInv'
<1>1. \/ \E v \in {w, [w EXCEPT !.editing = FALSE]} : Reload(v, others)
      \/ c.op = "start" /\ answer = "ok" /\ Reload([w EXCEPT !.activeAttemptId = c.id], others)
      \/ Closed(w, others)
      \/ /\ ~c.mine \/ c.op \notin {"start", "delAttempt"} \/ (c.op = "start" /\ answer # "ok")
            \/ (c.op = "delAttempt" /\ answer # "err")
         /\ \E v \in {w, [w EXCEPT !.sending = FALSE]} : Quietly(v, others)
  BY DEF Handled
<1>2. TypeInv /\ w \in Data
  BY DEF IInv, TypeInv
<1>3. Told'
  BY ToldSame
<1>4. CASE \E v \in {w, [w EXCEPT !.editing = FALSE]} : Reload(v, others)
  <2>1. PICK v \in {w, [w EXCEPT !.editing = FALSE]} : Reload(v, others)
    BY <1>4
  <2>2. v \in Data /\ v.loadSeq = w.loadSeq
    BY <1>2, <2>1 DEF Data
  <2> QED
    BY <1>3, <2>1, <2>2, CatchLoad DEF Reload
<1>5. CASE c.op = "start" /\ answer = "ok"
           /\ Reload([w EXCEPT !.activeAttemptId = c.id], others)
  <2> DEFINE v == [w EXCEPT !.activeAttemptId = c.id]
  <2>1. v \in Data /\ v.loadSeq = w.loadSeq
    BY <1>2, <1>5 DEF Data
  <2>2. Load(v, gets)
    BY <1>5 DEF Reload
  <2> HIDE DEF v
  <2> QED
    BY <1>3, <2>1, <2>2, CatchLoad
<1>6. CASE Closed(w, others)
  BY <1>6, CatchClosed
<1>7. CASE /\ ~c.mine \/ c.op \notin {"start", "delAttempt"} \/ (c.op = "start" /\ answer # "ok")
              \/ (c.op = "delAttempt" /\ answer # "err")
           /\ \E v \in {w, [w EXCEPT !.sending = FALSE]} : Quietly(v, others)
  <2>1. PICK v \in {w, [w EXCEPT !.sending = FALSE]} : Quietly(v, others)
    BY <1>7
  <2>2. /\ w'.taskId = w.taskId /\ w'.loadSeq = w.loadSeq /\ w'.attempts = w.attempts
        /\ w'.hasMore = w.hasMore
    <3>1. w' = v
      BY <2>1 DEF Quietly
    <3> QED
      BY <1>2, <2>1, <3>1 DEF Data
  <2>3. calls' = others /\ UNCHANGED <<gets, listLost, crossed>>
    BY <2>1 DEF Quietly
  <2>4. \A a \in Ids : Owed(a) => Owed(a)'
    BY <1>7, <2>3
  <2> QED
    BY <2>2, <2>3, <2>4, CatchSame
<1> QED
  BY <1>1, <1>4, <1>5, <1>6, <1>7

LEMMA CatchAnswer ==
  ASSUME IInv, CatchInv, NEW i \in Nat, Answer(i)
  PROVE  CatchInv'
<1> DEFINE c      == calls[i]
           others == Without(calls, i)
<1>1. /\ i \in DOMAIN calls /\ c.stage # "sent"
      /\ UNCHANGED <<cards, home, rows, state, news, overlooked>>
      /\ \/ Handled(c, c.stage, others)
         \/ Quietly(w, others) /\ ~c.mine
  BY DEF Answer, server
<1>2. calls \in Seq(Orders) /\ i \in DOMAIN calls
  BY <1>1 DEF IInv, TypeInv
<1>3. \A k \in DOMAIN calls : k # i => \E j \in DOMAIN others : others[j] = calls[k]
  BY <1>2, WithoutFacts
<1> HIDE DEF others
<1>4. c.op = "start" /\ c.stage = "ok" => c.id \in Ids
  BY <1>2 DEF IInv, Origins
<1>5. c.stage \in {"ok", "err"}
  <2>1. c \in Orders
    BY <1>2
  <2> HIDE DEF c
  <2> QED
    BY <1>1, <2>1 DEF Orders
<1>6. ASSUME calls' = others, ~(c.mine /\ c.op = "start" /\ c.stage = "ok"),
             ~(c.mine /\ c.op = "delAttempt" /\ c.stage # "ok"),
             NEW a \in Ids, Owed(a)
      PROVE  Owed(a)'
  <2>1. PICK k \in DOMAIN calls :
            /\ calls[k].mine /\ calls[k].id = a
            /\ \/ calls[k].op = "start" /\ calls[k].stage = "ok"
               \/ calls[k].op = "delAttempt" /\ calls[k].stage # "ok"
    BY <1>6 DEF Owed
  <2>2. k # i
    BY <1>6, <2>1
  <2>3. PICK j \in DOMAIN others : others[j] = calls[k]
    BY <1>3, <2>2
  <2> QED
    BY <1>6, <2>1, <2>3 DEF Owed
<1> HIDE DEF c
<1> QED
  BY <1>1, <1>4, <1>5, <1>6, CatchHandled

LEMMA CatchCutOff ==
  ASSUME IInv, CatchInv, NEW i \in Nat, CutOff(i)
  PROVE  CatchInv'
<1> DEFINE c      == calls[i]
           others == [calls EXCEPT ![i].mine = FALSE]
<1>1. /\ i \in DOMAIN calls /\ c.stage = "sent"
      /\ UNCHANGED <<cards, home, rows, state, news, overlooked>>
      /\ Handled(c, "err", others)
  BY DEF CutOff, server
<1>2. calls \in Seq(Orders)
  BY DEF IInv, TypeInv
<1>3. DOMAIN others = DOMAIN calls /\ \A k \in DOMAIN calls : k # i => others[k] = calls[k]
  BY <1>2
<1>4. ASSUME calls' = others, ~(c.mine /\ c.op = "delAttempt"), NEW a \in Ids, Owed(a)
      PROVE  Owed(a)'
  <2>1. PICK k \in DOMAIN calls :
            /\ calls[k].mine /\ calls[k].id = a
            /\ \/ calls[k].op = "start" /\ calls[k].stage = "ok"
               \/ calls[k].op = "delAttempt" /\ calls[k].stage # "ok"
    BY <1>4 DEF Owed
  <2>2. k # i
    BY <1>1, <1>4, <2>1
  <2> HIDE DEF others
  <2> QED
    BY <1>3, <1>4, <2>1, <2>2 DEF Owed
<1> HIDE DEF c, others
<1> QED
  BY <1>1, <1>4, CatchHandled

-----------------------------------------------------------------------------
(* Lists and pages.                                                        *)

(* A page is asked for from the first attempt of the list: the list has all*)
(* that come after.                                                        *)
LEMMA CatchLoadMore ==
  ASSUME IInv, CatchInv, LoadMore
  PROVE  CatchInv'
<1> DEFINE first == w.attempts[1].id
           r     == [Get("more", w, first) EXCEPT !.seq = IF crossed THEN 0 ELSE @]
           n     == Len(gets)
<1>1. /\ w.attempts # <<>> /\ w' = [w EXCEPT !.loadingMore = TRUE] /\ gets' = Append(gets, r)
      /\ UNCHANGED <<cards, home, rows, state, news, calls, listLost, crossed, overlooked>>
  BY DEF LoadMore, MayLoadMore, server, ghosts
<1>2. /\ TypeInv /\ w \in Data /\ gets \in Seq(Requests) /\ n \in Nat /\ DOMAIN gets = 1 .. n
      /\ w.attempts \in Seq(Rows) /\ w.loadSeq \in Nat /\ crossed \in BOOLEAN
  BY FieldTypes DEF IInv, TypeInv
<1>3. 1 \in DOMAIN w.attempts /\ first \in IdsOf(w.attempts) /\ first \in Ids
  <2>1. 1 \in DOMAIN w.attempts /\ w.attempts[1] \in Rows
    BY <1>1, <1>2, EmptySeq, LenProperties
  <2> QED
    BY <2>1 DEF Rows, IdsOf
<1>4. /\ r.kind = "more" /\ r.before = first /\ r.read = FALSE
      /\ r.seq = IF crossed THEN 0 ELSE w.loadSeq
  <2> DEFINE num == IF crossed THEN 0 ELSE w.loadSeq
             G   == Get("more", w, first)
  <2>1. G = [kind |-> "more", seq |-> w.loadSeq, task |-> w.taskId, before |-> first,
             read |-> FALSE, list |-> <<>>, more |-> FALSE]
    BY DEF Get
  <2> HIDE DEF G
  <2>2. r = [G EXCEPT !.seq = num]
    BY <2>1 DEF G
  <2> HIDE DEF r, num, first
  <2>3. r.kind = "more" /\ r.before = first /\ r.read = FALSE /\ r.seq = num
    BY <2>1, <2>2
  <2> QED
    BY <2>3 DEF num
<1> HIDE DEF first, r
<1>5. /\ w'.taskId = w.taskId /\ w'.attempts = w.attempts /\ w'.loadSeq = w.loadSeq
      /\ w'.hasMore = w.hasMore
  BY <1>1, <1>2 DEF Data
<1>6. /\ DOMAIN gets' = 1 .. n + 1 /\ gets'[n + 1] = r
      /\ \A k \in 1 .. n : gets'[k] = gets[k]
  <2>1. PICK q : q = r
    OBVIOUS
  <2>2. gets' = Append(gets, q) /\ gets \in Seq(Requests)
    BY <1>1, <1>2, <2>1
  <2> QED
    BY <1>2, <2>1, <2>2
<1> HIDE DEF n
<1>7. /\ \A k \in DOMAIN gets' : (k \in DOMAIN gets /\ gets'[k] = gets[k]) \/ gets'[k] = r
      /\ DOMAIN gets \subseteq DOMAIN gets' /\ \A k \in DOMAIN gets : gets'[k] = gets[k]
  BY <1>2, <1>6
<1>8. r.seq = w.loadSeq => ~crossed
  <2>1. 0 < w.loadSeq
    BY <1>1 DEF IInv, Numbered
  <2> QED
    BY <1>2, <1>4, <2>1
<1>9. Told' /\ WholeLists'
  BY <1>1, <1>4, <1>7, ToldSame DEF CatchInv, WholeLists
<1> SUFFICES ASSUME w.taskId \in cards
             PROVE  PaneRight' /\ AnswersRight'
  BY <1>1, <1>5, <1>9 DEF CatchInv
<1>10. PaneRight /\ AnswersRight
  BY DEF CatchInv
<1>11. /\ \A a : Excused(a)' <=> Excused(a)
       /\ \A q : Right(q)' <=> Right(q)
       /\ Attempts(w.taskId)' = Attempts(w.taskId) /\ IdsOf(w.attempts)' = IdsOf(w.attempts)
  BY <1>1, <1>5 DEF Excused, Owed, Right, InNews, Attempts, IdsOf
<1>12. Complete' => Complete
  BY <1>1, <1>5, <1>7 DEF Complete, Pending, Current
<1>13. PaneRight'
  <2> SUFFICES ASSUME ~crossed
               PROVE  AllRight(w.attempts)' /\ Gapless(w.attempts, Complete, NoId)'
    BY <1>1 DEF PaneRight
  <2>1. AllRight(w.attempts) /\ Gapless(w.attempts, Complete, NoId)
    BY <1>10 DEF PaneRight
  <2>2. AllRight(w.attempts)'
    BY <1>1, <1>5, <2>1 DEF AllRight, Right, InNews
  <2>3. Gapless(w.attempts, Complete, NoId)'
    BY <1>11, <1>12, <2>1 DEF Gapless
  <2> QED
    BY <2>2, <2>3
<1>14. AnswersRight'
  <2> SUFFICES ASSUME NEW k \in DOMAIN gets', gets'[k].seq = w.loadSeq
               PROVE  /\ gets'[k].kind # "task" /\ gets'[k].read =>
                             /\ AllRight(gets[k].list)'
                             /\ Gapless(gets[k].list, ~gets[k].more, gets[k].before)'
                      /\ gets'[k].kind = "more" /\ ~crossed =>
                             \A a \in Attempts(w.taskId) :
                                 gets'[k].before <= a => Excused(a) \/ a \in IdsOf(w.attempts)
    BY <1>1, <1>5, <1>11 DEF AnswersRight, Current
  <2>1. CASE k \in DOMAIN gets /\ gets'[k] = gets[k]
    <3>1. Current(gets[k])
      BY <2>1 DEF Current
    <3>2. ASSUME gets[k].kind # "task", gets[k].read
          PROVE  /\ AllRight(gets[k].list)'
                 /\ Gapless(gets[k].list, ~gets[k].more, gets[k].before)'
      <4>1. AllRight(gets[k].list) /\ Gapless(gets[k].list, ~gets[k].more, gets[k].before)
        BY <1>10, <2>1, <3>1, <3>2 DEF AnswersRight
      <4>2. AllRight(gets[k].list)'
        BY <1>1, <2>1, <4>1 DEF AllRight, Right, InNews
      <4>3. Gapless(gets[k].list, ~gets[k].more, gets[k].before)'
        BY <1>11, <2>1, <4>1 DEF Gapless, IdsOf
      <4> QED
        BY <4>2, <4>3
    <3> QED
      BY <1>10, <2>1, <3>1, <3>2 DEF AnswersRight
  <2>2. CASE gets'[k] = r
    <3>1. ASSUME ~crossed, NEW a \in Attempts(w.taskId), first <= a
          PROVE  Excused(a) \/ a \in IdsOf(w.attempts)
      BY <1>3, <1>10, <3>1 DEF PaneRight, Gapless
    <3> QED
      BY <1>4, <2>2, <3>1
  <2> QED
    BY <1>7, <2>1, <2>2
<1> QED
  BY <1>13, <1>14

(* The attempts of a page: from any of them on, and all when none is left, *)
(* of those before the given one.                                          *)
LEMMA PageFacts ==
  ASSUME TypeInv, NEW t, NEW before \in Ids \cup {NoId}
  PROVE  /\ Page(t, before) \in SUBSET Ids /\ Page(t, before) \subseteq rows
         /\ \A a \in Attempts(t) :
                /\ before # NoId => a < before
                /\ \/ \E b \in Page(t, before) : b <= a
                   \/ ~\E c \in Attempts(t) \ Page(t, before) : \A b \in Page(t, before) : c < b
                => a \in Page(t, before)
<1> DEFINE older == {a \in Attempts(t) : before = NoId \/ a < before}
           page  == Page(t, before)
           above(a) == {b \in older : b > a}
<1>1. page = {a \in older : Cardinality(above(a)) < PageSize}
  BY DEF Page
<1>2. older \subseteq Ids /\ older \subseteq rows /\ Ids \subseteq Nat /\ IsFiniteSet(older)
  <2>1. older \subseteq Ids /\ older \subseteq rows
    BY DEF Attempts, TypeInv
  <2> QED
    BY <2>1, IdAssumption, FS_Subset
<1>3. page \in SUBSET Ids /\ page \subseteq rows
  BY <1>1, <1>2
<1>4. ASSUME NEW a \in older, NEW b \in page, b <= a
      PROVE  a \in page
  <2>1. b \in older /\ Cardinality(above(b)) < PageSize /\ a \in Nat /\ b \in Nat
    BY <1>1, <1>2, <1>4
  <2>2. above(a) \in SUBSET above(b)
    <3> SUFFICES ASSUME NEW c \in older, c > a
                 PROVE  c > b
      OBVIOUS
    <3>1. c \in Nat
      BY <1>2
    <3> QED
      BY <1>4, <2>1, <3>1
  <2>3. IsFiniteSet(above(b)) /\ IsFiniteSet(above(a))
    BY <1>2, FS_Subset
  <2>4. Cardinality(above(a)) <= Cardinality(above(b))
    BY <2>2, <2>3, FS_Subset
  <2>5. Cardinality(above(a)) \in Nat /\ Cardinality(above(b)) \in Nat /\ PageSize \in Nat
    BY <2>3, FS_CardinalityType, SizeAssumption
  <2> HIDE DEF above
  <2>6. Cardinality(above(a)) < PageSize
    BY <2>1, <2>4, <2>5
  <2> QED
    BY <1>1, <2>6
<1>5. ASSUME NEW a \in older, a \notin page
      PROVE  a \in Attempts(t) \ page /\ \A b \in page : a < b
  <2> SUFFICES ASSUME NEW b \in page
               PROVE  a < b
    BY <1>5
  <2>1. ~(b <= a)
    BY <1>4, <1>5
  <2>2. a \in Nat /\ b \in Nat
    BY <1>2, <1>3
  <2> QED
    BY <2>1, <2>2
<1> HIDE DEF page
<1>6. \A a \in Attempts(t) : (before # NoId => a < before) => a \in older
  OBVIOUS
<1> HIDE DEF older
<1>7. \A a \in Attempts(t) :
          /\ before # NoId => a < before
          /\ \/ \E b \in page : b <= a
             \/ ~\E c \in Attempts(t) \ page : \A b \in page : c < b
          => a \in page
  BY <1>4, <1>5, <1>6
<1> QED
  BY <1>3, <1>7 DEF page

(* The server reads a list: it has the present states, and what the pane   *)
(* had overlooked of it.                                                   *)
LEMMA CatchListAttempts ==
  ASSUME IInv, CatchInv, NEW i \in Nat, ListAttempts(i)
  PROVE  CatchInv'
<1> DEFINE g    == gets[i]
           page == Page(g.task, g.before)
           more == \E a \in Attempts(g.task) \ page : \A b \in page : a < b
           list == Listing(page)
           h    == [g EXCEPT !.read = TRUE, !.list = list, !.more = more]
<1>1. /\ i \in DOMAIN gets /\ g.kind # "task" /\ ~g.read /\ gets' = [gets EXCEPT ![i] = h]
      /\ overlooked' = IF g.kind = "list" /\ Current(g) THEN overlooked \ page ELSE overlooked
      /\ UNCHANGED <<cards, home, rows, state, news, w, calls, listLost, crossed>>
  BY DEF ListAttempts, server
<1>2. TypeInv /\ g \in Requests /\ g.before \in Ids \cup {NoId}
  <2>1. TypeInv /\ g \in Requests
    BY <1>1, ListsTyped DEF IInv
  <2> QED
    BY <2>1 DEF Requests
<1>3. /\ page \in SUBSET Ids /\ page \subseteq rows
      /\ \A a \in Attempts(g.task) :
             /\ g.before # NoId => a < g.before
             /\ (\E b \in page : b <= a) \/ ~more
             => a \in page
  BY <1>2, PageFacts
<1> HIDE DEF page, more
<1>4. /\ list \in Seq(Rows) /\ IdsOf(list) = page
      /\ \A j \in DOMAIN list : list[j].id \in page /\ list[j].state = state[list[j].id]
  BY <1>2, <1>3, ListingFacts
<1> HIDE DEF list
<1>5. /\ h.kind = g.kind /\ h.seq = g.seq /\ h.before = g.before /\ h.list = list
      /\ h.more = more
  <2> HIDE DEF g
  <2> QED
    BY <1>2 DEF Requests
<1> HIDE DEF h
<1>6. /\ DOMAIN gets' = DOMAIN gets /\ gets'[i] = h
      /\ \A k \in DOMAIN gets : k # i => gets'[k] = gets[k]
  BY <1>1
<1>7. \A k \in DOMAIN gets : gets'[k].kind = gets[k].kind /\ gets'[k].seq = gets[k].seq
                             /\ gets'[k].before = gets[k].before
  BY <1>5, <1>6
<1>8. Told' /\ WholeLists' /\ Complete' = Complete
  BY <1>1, <1>6, <1>7, ToldSame DEF CatchInv, WholeLists, Complete, Pending, Current
<1> SUFFICES ASSUME w.taskId \in cards
             PROVE  PaneRight' /\ AnswersRight'
  BY <1>1, <1>8 DEF CatchInv
<1>9. PaneRight /\ AnswersRight
  BY DEF CatchInv
<1>10. /\ Attempts(w.taskId)' = Attempts(w.taskId)
       /\ Current(g) => g.task = w.taskId
  BY <1>1, OfTheCard DEF Attempts
<1>11. AllRight(gets[i].list)'
  <2>1. gets'[i].list = list
    BY <1>5, <1>6
  <2> QED
    BY <1>1, <1>3, <1>4, <2>1 DEF AllRight, Right
<1>12. Current(g) => Gapless(gets[i].list, ~gets[i].more, gets[i].before)'
  <2> SUFFICES ASSUME Current(g), NEW a \in Attempts(w.taskId),
                      g.before # NoId => a < g.before,
                      ~more \/ \E b \in page : b <= a
               PROVE  a \in page
    <3>1. gets'[i].list = list /\ gets'[i].more = more /\ gets'[i].before = g.before
      BY <1>5, <1>6
    <3>2. IdsOf(gets[i].list)' = page
      BY <1>4, <3>1 DEF IdsOf
    <3> QED
      BY <1>10, <3>1, <3>2 DEF Gapless
  <2> QED
    BY <1>3, <1>10
<1>13. CASE g.kind = "list" /\ Current(g)
  <2>1. w.attempts = <<>> \/ crossed
    BY <1>1, <1>13 DEF IInv, Single
  <2>2. ~Complete'
    BY <1>1, <1>8, <1>13 DEF Complete, Pending
  <2>3. PaneRight'
    <3> SUFFICES ASSUME w.attempts = <<>>
                 PROVE  AllRight(w.attempts)' /\ Gapless(w.attempts, Complete, NoId)'
      BY <1>1, <2>1 DEF PaneRight
    <3>1. AllRight(w.attempts)'
      BY <1>1 DEF AllRight
    <3>2. IdsOf(w.attempts)' = {}
      BY <1>1 DEF IdsOf
    <3> QED
      BY <2>2, <3>1, <3>2 DEF Gapless
  <2>4. ASSUME NEW k \in DOMAIN gets, gets[k].seq = w.loadSeq, gets[k].kind # "task"
        PROVE  k = i
    <3>1. gets[k] \in Requests
      BY <1>2, ListsTyped
    <3>2. gets[k].kind \in {"list", "more"}
      BY <2>4, <3>1 DEF Requests
    <3> QED
      BY <1>1, <1>13, <2>4, <3>2 DEF IInv, Single, Current
  <2>5. AnswersRight'
    <3> SUFFICES ASSUME NEW k \in DOMAIN gets', gets'[k].seq = w.loadSeq
                 PROVE  /\ gets'[k].kind # "task" /\ gets'[k].read =>
                               /\ AllRight(gets[k].list)'
                               /\ Gapless(gets[k].list, ~gets[k].more, gets[k].before)'
                        /\ gets'[k].kind # "more"
      BY <1>1 DEF AnswersRight, Current
    <3>1. CASE gets'[k].kind = "task"
      BY <3>1
    <3>2. CASE gets'[k].kind # "task"
      <4>1. k = i
        BY <1>6, <1>7, <2>4, <3>2
      <4> QED
        BY <1>7, <1>11, <1>12, <1>13, <1>1, <4>1
    <3> QED
      BY <3>1, <3>2
  <2> QED
    BY <2>3, <2>5
<1>14. CASE ~(g.kind = "list" /\ Current(g))
  <2>1. overlooked' = overlooked
    BY <1>1, <1>14
  <2>2. /\ \A a : Excused(a)' <=> Excused(a)
        /\ \A q : Right(q)' <=> Right(q)
        /\ IdsOf(w.attempts)' = IdsOf(w.attempts)
    BY <1>1, <2>1 DEF Excused, Owed, Right, InNews, IdsOf
  <2>3. PaneRight'
    <3> SUFFICES ASSUME ~crossed
                 PROVE  AllRight(w.attempts)' /\ Gapless(w.attempts, Complete, NoId)'
      BY <1>1 DEF PaneRight
    <3>1. AllRight(w.attempts) /\ Gapless(w.attempts, Complete, NoId)
      BY <1>9 DEF PaneRight
    <3>2. AllRight(w.attempts)'
      BY <1>1, <2>1, <3>1 DEF AllRight, Right, InNews
    <3>3. Gapless(w.attempts, Complete, NoId)'
      BY <1>8, <1>10, <2>2, <3>1 DEF Gapless
    <3> QED
      BY <3>2, <3>3
  <2>4. AnswersRight'
    <3> SUFFICES ASSUME NEW k \in DOMAIN gets', gets'[k].seq = w.loadSeq
                 PROVE  /\ gets'[k].kind # "task" /\ gets'[k].read =>
                               /\ AllRight(gets[k].list)'
                               /\ Gapless(gets[k].list, ~gets[k].more, gets[k].before)'
                        /\ gets'[k].kind = "more" /\ ~crossed =>
                               \A a \in Attempts(w.taskId) :
                                   gets'[k].before <= a => Excused(a) \/ a \in IdsOf(w.attempts)
      BY <1>1, <1>10, <2>2 DEF AnswersRight, Current
    <3>1. k \in DOMAIN gets /\ Current(gets[k])
      BY <1>6, <1>7 DEF Current
    <3>2. ASSUME gets'[k].kind # "task", gets'[k].read
          PROVE  /\ AllRight(gets[k].list)'
                 /\ Gapless(gets[k].list, ~gets[k].more, gets[k].before)'
      <4>1. CASE k = i
        BY <1>11, <1>12, <3>1, <4>1
      <4>2. CASE k # i
        <5>1. gets'[k] = gets[k]
          BY <1>6, <3>1, <4>2
        <5>2. AllRight(gets[k].list) /\ Gapless(gets[k].list, ~gets[k].more, gets[k].before)
          BY <1>9, <3>1, <3>2, <5>1 DEF AnswersRight
        <5>3. AllRight(gets[k].list)'
          BY <1>1, <2>1, <5>1, <5>2 DEF AllRight, Right, InNews
        <5>4. Gapless(gets[k].list, ~gets[k].more, gets[k].before)'
          BY <1>10, <2>2, <5>1, <5>2 DEF Gapless, IdsOf
        <5> QED
          BY <5>3, <5>4
      <4> QED
        BY <4>1, <4>2
    <3> QED
      BY <1>7, <1>9, <3>1, <3>2 DEF AnswersRight
  <2> QED
    BY <2>3, <2>4
<1> QED
  BY <1>13, <1>14

(* The list of the last load is answered, or one that nobody waits for.    *)
LEMMA CatchListAnswer ==
  ASSUME IInv, CatchInv, NEW i \in Nat, ListAnswer(i)
  PROVE  CatchInv'
<1> DEFINE g == gets[i]
<1>1. /\ i \in DOMAIN gets /\ g.kind = "list" /\ g.read
      /\ gets' = Without(gets, i)
      /\ w' = IF Current(g)
              THEN [w EXCEPT !.attempts = g.list, !.hasMore = g.more,
                             !.activeAttemptId = Chosen(w, g.list)]
              ELSE w
      /\ crossed' = (crossed /\ ~Current(g))
      /\ UNCHANGED <<cards, home, rows, state, news, calls, listLost, reopened, overlooked>>
  BY DEF ListAnswer, server
<1>2. TypeInv /\ w \in Data /\ g \in Requests /\ crossed \in BOOLEAN
  <2>1. g \in Requests
    BY <1>1, ListsTyped DEF IInv
  <2> QED
    BY <2>1 DEF IInv, TypeInv
<1>3. /\ w'.taskId = w.taskId /\ w'.loadingMore = w.loadingMore /\ w'.loadSeq = w.loadSeq
      /\ w'.attempts = IF Current(g) THEN g.list ELSE w.attempts
      /\ w'.hasMore = IF Current(g) THEN g.more ELSE w.hasMore
  <2> DEFINE next == Chosen(w, g.list)
  <2> HIDE DEF next
  <2>1. w' = IF Current(g)
             THEN [w EXCEPT !.attempts = g.list, !.hasMore = g.more, !.activeAttemptId = next]
             ELSE w
    BY <1>1 DEF next
  <2> HIDE DEF g
  <2>2. CASE Current(g)
    BY <1>2, <2>1, <2>2 DEF Data
  <2>3. CASE ~Current(g)
    BY <2>1, <2>3
  <2> QED
    BY <2>2, <2>3
<1>4. Remains(i)
  BY <1>1, <1>3, Answered
<1>5. \A a : Owed(a)' <=> Owed(a)
  BY <1>1 DEF Owed
<1>6. crossed' \in BOOLEAN
  BY <1>1
<1>7. CASE ~Current(g)
  <2>1. Complete' => Complete
    BY <1>1, <1>3, <1>4, <1>7 DEF Complete, Remains
  <2>2. ~crossed' => w'.attempts = w.attempts /\ ~crossed
    BY <1>1, <1>3, <1>7
  <2> QED
    BY <1>1, <1>3, <1>4, <1>5, <1>6, <2>1, <2>2, CatchPane DEF Remains
<1>8. CASE Current(g)
  <2>1. Told' /\ WholeLists'
    BY <1>1, <1>4, ToldSame DEF CatchInv, WholeLists, Remains
  <2> SUFFICES ASSUME w.taskId \in cards
               PROVE  PaneRight' /\ AnswersRight'
    BY <1>1, <1>3, <2>1 DEF CatchInv
  <2>2. AllRight(g.list) /\ Gapless(g.list, ~g.more, NoId)
    BY <1>1, <1>8 DEF CatchInv, AnswersRight, WholeLists
  <2>3. w'.attempts = g.list /\ w'.hasMore = g.more
    BY <1>3, <1>8
  <2>4. AllRight(w.attempts)'
    BY <1>1, <2>2, <2>3 DEF AllRight, Right, InNews
  <2>5. Gapless(w.attempts, Complete, NoId)'
    <3>1. IdsOf(w.attempts)' = IdsOf(g.list)
      BY <2>3 DEF IdsOf
    <3>2. Complete' => ~g.more
      BY <2>3 DEF Complete
    <3>3. Attempts(w.taskId)' = Attempts(w.taskId) /\ \A a : Excused(a)' <=> Excused(a)
      BY <1>1, <1>3, <1>5 DEF Attempts, Excused
    <3> QED
      BY <2>2, <3>1, <3>2, <3>3 DEF Gapless
  <2>6. AnswersRight'
    <3> SUFFICES ASSUME NEW j \in DOMAIN gets', gets'[j].seq = w.loadSeq
                 PROVE  gets'[j].kind = "task"
      BY <1>3 DEF AnswersRight, Current
    <3>1. PICK k \in DOMAIN gets : k # i /\ gets'[j] = gets[k]
      BY <1>4 DEF Remains
    <3>2. gets[k].kind # "more" /\ gets[k].kind # "list"
      BY <1>1, <1>8, <3>1 DEF IInv, Single, Current
    <3>3. gets[k] \in Requests
      BY <1>2, ListsTyped
    <3> QED
      BY <3>1, <3>2, <3>3 DEF Requests
  <2> QED
    BY <2>4, <2>5, <2>6 DEF PaneRight
<1> QED
  BY <1>7, <1>8

(* A page goes before the list it was asked for, which has all from there  *)
(* on, or crosses.                                                         *)
LEMMA CatchMoreAnswer ==
  ASSUME IInv, CatchInv, NEW i \in Nat, MoreAnswer(i)
  PROVE  CatchInv'
<1> DEFINE g    == gets[i]
           list == g.list \o w.attempts
<1>1. /\ i \in DOMAIN gets /\ g.kind = "more" /\ g.read
      /\ gets' = Without(gets, i)
      /\ w' = [w EXCEPT !.attempts = list, !.hasMore = g.more, !.loadingMore = FALSE]
      /\ crossed' = (crossed \/ ~Current(g))
      /\ UNCHANGED <<cards, home, rows, state, news, calls, listLost, reopened, overlooked>>
  BY DEF MoreAnswer, server
<1>2. TypeInv /\ w \in Data /\ g \in Requests /\ g.list \in Seq(Rows) /\ w.attempts \in Seq(Rows)
  BY <1>1, ListsTyped DEF IInv, TypeInv
<1>3. /\ \A k \in DOMAIN list : \/ \E m \in DOMAIN g.list : list[k] = g.list[m]
                                \/ \E m \in DOMAIN w.attempts : list[k] = w.attempts[m]
      /\ IdsOf(list) = IdsOf(g.list) \cup IdsOf(w.attempts)
  <2>1. /\ \A k \in DOMAIN list : \/ \E m \in DOMAIN g.list : list[k] = g.list[m]
                                  \/ \E m \in DOMAIN w.attempts : list[k] = w.attempts[m]
        /\ \A m \in DOMAIN g.list : \E k \in DOMAIN list : list[k] = g.list[m]
        /\ \A m \in DOMAIN w.attempts : \E k \in DOMAIN list : list[k] = w.attempts[m]
    BY <1>2, Joined
  <2> HIDE DEF list
  <2>2. IdsOf(list) \subseteq IdsOf(g.list) \cup IdsOf(w.attempts)
    BY <2>1 DEF IdsOf
  <2>3. IdsOf(g.list) \subseteq IdsOf(list) /\ IdsOf(w.attempts) \subseteq IdsOf(list)
    BY <2>1 DEF IdsOf
  <2> QED
    BY <2>1, <2>2, <2>3
<1> HIDE DEF list
<1>4. /\ w'.taskId = w.taskId /\ w'.loadSeq = w.loadSeq /\ w'.attempts = list
      /\ w'.hasMore = g.more
  BY <1>1, <1>2 DEF Data
<1>5. Remains(i)
  BY <1>1, <1>4, Answered
<1>6. Told' /\ WholeLists'
  BY <1>1, <1>5, ToldSame DEF CatchInv, WholeLists, Remains
<1> SUFFICES ASSUME w.taskId \in cards
             PROVE  PaneRight' /\ AnswersRight'
  BY <1>1, <1>4, <1>6 DEF CatchInv
<1>7. PaneRight /\ AnswersRight
  BY DEF CatchInv
<1>8. /\ Attempts(w.taskId)' = Attempts(w.taskId) /\ Attempts(w.taskId) \subseteq Ids
      /\ \A a : Excused(a)' <=> Excused(a)
  BY <1>1, <1>2, <1>4 DEF Attempts, Excused, Owed, TypeInv
<1>9. PaneRight'
  <2> SUFFICES ASSUME ~crossed'
               PROVE  AllRight(w.attempts)' /\ Gapless(w.attempts, Complete, NoId)'
    BY DEF PaneRight
  <2>1. ~crossed /\ Current(g)
    BY <1>1, <1>2 DEF TypeInv
  <2>2. /\ AllRight(w.attempts) /\ Gapless(w.attempts, Complete, NoId)
        /\ AllRight(g.list) /\ Gapless(g.list, ~g.more, g.before)
        /\ \A a \in Attempts(w.taskId) :
               g.before <= a => Excused(a) \/ a \in IdsOf(w.attempts)
    BY <1>1, <1>7, <2>1 DEF PaneRight, AnswersRight
  <2>3. AllRight(w.attempts)'
    <3>1. \A k \in DOMAIN list : Right(list[k])
      BY <1>3, <2>2 DEF AllRight
    <3> QED
      BY <1>1, <1>4, <3>1 DEF AllRight, Right, InNews
  <2>4. Gapless(w.attempts, Complete, NoId)'
    <3> SUFFICES ASSUME NEW a \in Attempts(w.taskId), ~g.more \/ \E b \in IdsOf(list) : b <= a,
                        ~Excused(a)
                 PROVE  a \in IdsOf(list)
      <4>1. IdsOf(w.attempts)' = IdsOf(list) /\ (Complete' => ~g.more)
        BY <1>4 DEF IdsOf, Complete
      <4> QED
        BY <1>8, <4>1 DEF Gapless
    <3>1. a \in Nat /\ g.before \in Nat /\ g.before # NoId
      BY <1>1, <1>8, IdAssumption DEF IInv, Sorted, NoId
    <3>2. CASE g.before <= a
      BY <1>3, <2>2, <3>2
    <3>3. CASE a < g.before /\ (~g.more \/ \E b \in IdsOf(g.list) : b <= a)
      BY <1>3, <2>2, <3>1, <3>3 DEF Gapless
    <3>4. CASE \E b \in IdsOf(w.attempts) : b <= a
      BY <1>3, <2>2, <3>4 DEF Gapless
    <3> QED
      BY <1>3, <3>1, <3>2, <3>3, <3>4
  <2> QED
    BY <2>3, <2>4
<1>10. AnswersRight'
  <2> SUFFICES ASSUME NEW j \in DOMAIN gets', gets'[j].seq = w.loadSeq,
                      gets'[j].kind # "task", gets'[j].read
               PROVE  /\ AllRight(gets[j].list)'
                      /\ Gapless(gets[j].list, ~gets[j].more, gets[j].before)'
    <3>1. \A j \in DOMAIN gets' : gets'[j].kind # "more"
      BY <1>1, <1>5 DEF Remains
    <3> QED
      BY <1>4, <3>1 DEF AnswersRight, Current
  <2>1. PICK k \in DOMAIN gets : gets'[j] = gets[k]
    BY <1>5 DEF Remains
  <2>2. AllRight(gets[k].list) /\ Gapless(gets[k].list, ~gets[k].more, gets[k].before)
    BY <1>7, <2>1 DEF AnswersRight, Current
  <2>3. AllRight(gets[j].list)'
    BY <1>1, <2>1, <2>2 DEF AllRight, Right, InNews
  <2>4. Gapless(gets[j].list, ~gets[j].more, gets[j].before)'
    BY <1>8, <2>1, <2>2 DEF Gapless, IdsOf
  <2> QED
    BY <2>3, <2>4
<1> QED
  BY <1>9, <1>10

LEMMA KeptRows ==
  ASSUME NEW s \in Seq(Rows), NEW places \in SUBSET DOMAIN s
  PROVE  /\ \A j \in DOMAIN Kept(s, places) : \E k \in places : Kept(s, places)[j] = s[k]
         /\ \A k \in places : \E j \in DOMAIN Kept(s, places) : Kept(s, places)[j] = s[k]
<1> DEFINE t == Kept(s, places)
<1>1. PICK at \in [1 .. Len(t) -> places] :
          /\ t \in Seq(Rows)
          /\ \A j \in 1 .. Len(t) : t[j] = s[at[j]]
          /\ \A k \in places : \E j \in 1 .. Len(t) : at[j] = k
  BY KeptFacts
<1> HIDE DEF t
<1>2. DOMAIN t = 1 .. Len(t)
  BY <1>1
<1>3. /\ \A j \in DOMAIN t : \E k \in places : t[j] = s[k]
      /\ \A k \in places : \E j \in DOMAIN t : t[j] = s[k]
  BY <1>1, <1>2
<1> QED
  BY <1>3 DEF t

(* An attempt is taken off the list before the server has deleted it.      *)
LEMMA CatchDeleteAttempt ==
  ASSUME IInv, CatchInv, NEW n \in Nat, DeleteAttempt(n)
  PROVE  CatchInv'
<1> DEFINE id     == w.attempts[n].id
           places == {j \in DOMAIN w.attempts : w.attempts[j].id # id}
           list   == Kept(w.attempts, places)
           v      == [w EXCEPT !.attempts = list,
                               !.activeAttemptId = IF @ = id THEN LastId(list) ELSE @]
<1>1. Send(v, "delAttempt", id, NoTask) /\ n \in DOMAIN w.attempts
  BY DEF DeleteAttempt
<1>2. TypeInv /\ w \in Data /\ w.attempts \in Seq(Rows)
  BY ListsTyped DEF IInv, TypeInv
<1>3. id \in Ids
  BY <1>1, <1>2, ListsTyped, RowTyped
<1>4. /\ \A j \in DOMAIN list : \E k \in DOMAIN w.attempts : list[j] = w.attempts[k]
      /\ \A k \in places : \E j \in DOMAIN list : list[j] = w.attempts[k]
  <2> HIDE DEF id
  <2>1. places \in SUBSET DOMAIN w.attempts
    OBVIOUS
  <2>2. /\ \A j \in DOMAIN list : \E k \in places : list[j] = w.attempts[k]
        /\ \A k \in places : \E j \in DOMAIN list : list[j] = w.attempts[k]
    <3> HIDE DEF places
    <3> QED
      BY <1>2, <2>1, KeptRows
  <2> QED
    BY <2>1, <2>2
<1>5. \A a \in IdsOf(w.attempts) : a = id \/ a \in IdsOf(list)
  <2> SUFFICES ASSUME NEW k \in DOMAIN w.attempts, w.attempts[k].id # id
               PROVE  w.attempts[k].id \in IdsOf(list)
    BY DEF IdsOf
  <2>1. PICK j \in DOMAIN list : list[j] = w.attempts[k]
    BY <1>4
  <2> QED
    BY <2>1 DEF IdsOf
<1>6. IdsOf(list) \subseteq IdsOf(w.attempts)
  BY <1>4 DEF IdsOf
<1>7. PICK a \in Ids : a = id
  BY <1>3
<1> HIDE DEF list, places
<1>8. /\ \A b \in Ids : Owed(b) => Owed(b)'
      /\ Owed(a)' /\ w' = v
      /\ UNCHANGED <<cards, rows, home, state, news, overlooked, gets, listLost, crossed>>
  <2>1. Send(v, "delAttempt", a, NoTask)
    BY <1>1, <1>7
  <2> HIDE DEF v
  <2> QED
    BY <2>1, CatchSend DEF Ops
<1>9. /\ w'.taskId = w.taskId /\ w'.loadSeq = w.loadSeq /\ w'.hasMore = w.hasMore
      /\ w'.attempts = list
  <2> DEFINE next == IF w.activeAttemptId = id THEN LastId(list) ELSE w.activeAttemptId
  <2>1. v = [w EXCEPT !.attempts = list, !.activeAttemptId = next]
    BY <1>2 DEF Data
  <2> HIDE DEF next, v
  <2> QED
    BY <1>2, <1>8, <2>1 DEF Data
<1> HIDE DEF v, id
<1>10. Told' /\ WholeLists' /\ Complete' = Complete
  BY <1>8, <1>9, ToldSame DEF CatchInv, WholeLists, Complete, Pending, Current
<1> SUFFICES ASSUME w.taskId \in cards
             PROVE  PaneRight' /\ AnswersRight'
  BY <1>8, <1>9, <1>10 DEF CatchInv
<1>11. PaneRight /\ AnswersRight
  BY DEF CatchInv
<1>12. /\ Attempts(w.taskId)' = Attempts(w.taskId) /\ Attempts(w.taskId) \subseteq Ids
       /\ IdsOf(w.attempts)' = IdsOf(list)
       /\ \A b \in Ids : Excused(b) => Excused(b)'
       /\ Excused(a)'
  BY <1>2, <1>8, <1>9 DEF Attempts, Excused, TypeInv, IdsOf
<1>13. \A b \in Ids : Excused(b) \/ b \in IdsOf(w.attempts) => Excused(b)' \/ b \in IdsOf(list)
  BY <1>5, <1>7, <1>12
<1>14. PaneRight'
  <2> SUFFICES ASSUME ~crossed
               PROVE  AllRight(w.attempts)' /\ Gapless(w.attempts, Complete, NoId)'
    BY <1>8 DEF PaneRight
  <2>1. AllRight(w.attempts) /\ Gapless(w.attempts, Complete, NoId)
    BY <1>11 DEF PaneRight
  <2>2. AllRight(w.attempts)'
    <3>1. \A j \in DOMAIN list : Right(list[j])
      BY <1>4, <2>1 DEF AllRight
    <3> QED
      BY <1>8, <1>9, <3>1 DEF AllRight, Right, InNews
  <2>3. Gapless(w.attempts, Complete, NoId)'
    <3> SUFFICES ASSUME NEW b \in Attempts(w.taskId),
                        Complete \/ \E c \in IdsOf(list) : c <= b
                 PROVE  Excused(b)' \/ b \in IdsOf(list)
      BY <1>10, <1>12 DEF Gapless
    <3>1. Excused(b) \/ b \in IdsOf(w.attempts)
      BY <1>6, <2>1 DEF Gapless
    <3> QED
      BY <1>12, <1>13, <3>1
  <2> QED
    BY <2>2, <2>3
<1>15. AnswersRight'
  <2> SUFFICES ASSUME NEW k \in DOMAIN gets, Current(gets[k])
               PROVE  /\ gets[k].kind # "task" /\ gets[k].read =>
                             /\ AllRight(gets[k].list)'
                             /\ Gapless(gets[k].list, ~gets[k].more, gets[k].before)'
                      /\ gets[k].kind = "more" /\ ~crossed =>
                             \A b \in Attempts(w.taskId) :
                                 gets[k].before <= b => Excused(b)' \/ b \in IdsOf(list)
    BY <1>8, <1>9, <1>12 DEF AnswersRight, Current
  <2>1. ASSUME gets[k].kind # "task", gets[k].read
        PROVE  /\ AllRight(gets[k].list)'
               /\ Gapless(gets[k].list, ~gets[k].more, gets[k].before)'
    <3>1. AllRight(gets[k].list) /\ Gapless(gets[k].list, ~gets[k].more, gets[k].before)
      BY <1>11, <2>1 DEF AnswersRight
    <3>2. AllRight(gets[k].list)'
      BY <1>8, <3>1 DEF AllRight, Right, InNews
    <3>3. Gapless(gets[k].list, ~gets[k].more, gets[k].before)'
      BY <1>8, <1>12, <3>1 DEF Gapless, IdsOf
    <3> QED
      BY <3>2, <3>3
  <2>2. ASSUME gets[k].kind = "more", ~crossed, NEW b \in Attempts(w.taskId),
               gets[k].before <= b
        PROVE  Excused(b)' \/ b \in IdsOf(list)
    <3>1. Excused(b) \/ b \in IdsOf(w.attempts)
      BY <1>11, <2>2 DEF AnswersRight
    <3> QED
      BY <1>12, <1>13, <3>1
  <2> QED
    BY <2>1, <2>2
<1> QED
  BY <1>14, <1>15

-----------------------------------------------------------------------------
(* The invariant holds at first, and every step keeps it.                  *)

LEMMA CatchInit ==
  ASSUME Init
  PROVE  CatchInv
<1>1. news = <<>> /\ gets = <<>> /\ w = Fresh /\ cards = Tasks
  BY DEF Init
<1>2. w.taskId = NoTask
  BY <1>1 DEF Fresh
<1> QED
  BY <1>1, <1>2, IdAssumption DEF CatchInv, Told, WholeLists

LEMMA CatchNext ==
  ASSUME IInv, CatchInv, [Next]_vars
  PROVE  CatchInv'
<1>1. CASE Selecting
  <2>1. CASE Close
    <3>1. Closed(w, calls) /\ UNCHANGED <<cards, state, news>>
      BY <2>1 DEF Close, server
    <3> QED
      BY <3>1, CatchClosed
  <2> QED
    BY <1>1, <2>1, CatchSelect, CatchOpen DEF Selecting
<1>2. CASE Loadings
  <2>1. \A i \in 1 .. MaxGets : i \in Nat
    BY BoundAssumption
  <2> QED
    BY <1>2, <2>1, CatchLoadMore, CatchTaskAnswer, CatchListAttempts, CatchListAnswer,
       CatchMoreAnswer, CatchGetFails DEF Loadings
<1>3. CASE Clicks
  BY <1>3, CatchClicks
<1>4. CASE Commands
  <2>1. \A i \in 1 .. Cardinality(Ids) : i \in Nat
    BY IdAssumption, FS_CardinalityType
  <2> QED
    BY <1>4, <2>1, CatchCommands, CatchDeleteAttempt DEF Commands
<1>5. CASE Answers
  <2>1. \A i \in 1 .. MaxCalls : i \in Nat
    BY BoundAssumption
  <2> QED
    BY <1>5, <2>1, FromElsewhere, CatchNotice, CatchLoseNotice, CatchServe, CatchAnswer,
       CatchCutOff, CatchFlip, CatchElsewhere
<1>6. CASE UNCHANGED vars
  <2>1. UNCHANGED <<cards, home, rows, state, news, w, gets, calls, listLost, crossed, overlooked>>
    BY <1>6 DEF vars, server, ghosts
  <2>2. \A a \in Ids : Owed(a) => Owed(a)'
    BY <2>1 DEF Owed
  <2> QED
    BY <2>1, <2>2, CatchSame
<1> QED
  BY <1>1, <1>2, <1>3, <1>4, <1>5, <1>6 DEF Next

LEMMA Catching == Spec => [](IInv /\ CatchInv)
<1>1. Init => IInv /\ CatchInv
  BY InitStep, CatchInit
<1>2. IInv /\ CatchInv /\ [Next]_vars => IInv' /\ CatchInv'
  BY NextStep, CatchNext
<1> QED
  BY <1>1, <1>2, PTL DEF Spec

(* With nothing under way nothing is owed and no message is to come.       *)
LEMMA CaughtUp ==
  ASSUME IInv, CatchInv
  PROVE  AttemptsCatchUp
<1> SUFFICES ASSUME Quiet, w.taskId \in cards, ~crossed
             PROVE  LET shown == IdsOf(w.attempts)
                        there == {a \in Attempts(w.taskId) :
                                     (~w.hasMore /\ ~listLost) \/ \E b \in shown : b <= a}
                    IN  /\ shown \ overlooked \subseteq Attempts(w.taskId)
                        /\ there \ overlooked \subseteq shown
                        /\ \A i \in DOMAIN w.attempts :
                               LET a == w.attempts[i]
                               IN  a.id \in overlooked \/ a.state = state[a.id]
  BY DEF AttemptsCatchUp
<1>1. gets = <<>> /\ calls = <<>> /\ news = <<>>
  BY DEF Quiet
<1>2. /\ \A a : ~Owed(a) /\ ~InNews(a)
      /\ ~Pending("list")
  BY <1>1 DEF Owed, InNews, Pending
<1>3. AllRight(w.attempts) /\ Gapless(w.attempts, Complete, NoId)
  BY DEF CatchInv, PaneRight
<1>4. \A i \in DOMAIN w.attempts : home[w.attempts[i].id] = w.taskId
  BY OfTheCard
<1>5. \A i \in DOMAIN w.attempts :
          \/ w.attempts[i].id \in overlooked
          \/ w.attempts[i].id \in Attempts(w.taskId) /\ w.attempts[i].state = state[w.attempts[i].id]
  BY <1>2, <1>3, <1>4 DEF AllRight, Right, Attempts
<1>6. IdsOf(w.attempts) \ overlooked \subseteq Attempts(w.taskId)
  BY <1>5 DEF IdsOf
<1>7. ASSUME NEW a \in Attempts(w.taskId), a \notin overlooked,
             (~w.hasMore /\ ~listLost) \/ \E b \in IdsOf(w.attempts) : b <= a
      PROVE  a \in IdsOf(w.attempts)
  BY <1>2, <1>3, <1>7 DEF Gapless, Complete, Excused
<1> QED
  BY <1>5, <1>6, <1>7

(* When nothing is under way the list of attempts on the screen is a       *)
(* gapless end of those of the selected card in their present states, and  *)
(* all of them when no more are on offer, for any number of cards,         *)
(* attempts, pages, requests and commands in flight, except for what the   *)
(* pane could not have seen (load(), loadMoreAttempts, deleteAttempt and   *)
(* the handling of attempt.state_changed in app.js, attempts.go).          *)
THEOREM CatchUpCorrect == Spec => []AttemptsCatchUp
<1>1. IInv /\ CatchInv => AttemptsCatchUp
  BY CaughtUp
<1> QED
  BY <1>1, Catching, PTL

=============================================================================
