------------------------- MODULE EventStream_proofs -------------------------
(***************************************************************************)
(* Proofs about EventStream, for any attempts, logs, goroutines, buffers   *)
(* and limits. What the pane has got and what its stream still brings are  *)
(* one list of numbers, the pipeline, and each invariant compares it with  *)
(* the file: an event is in both, or held by a goroutine and beyond what   *)
(* the pipeline has, or in one of the windows. A step of the server or of  *)
(* the pane appends to the pipeline, puts a page before it, or cuts its    *)
(* end off when a stream breaks; the lemmas on lists say that each of these*)
(* keeps the relation to the file. For the cards, the walk over the whole  *)
(* log and the walk over its last events are run side by side (Alike).     *)
(* Induction over a log is the choice of the least entry at which a claim  *)
(* fails (LeastNumber), where the provers need no operator parameter.      *)
(***************************************************************************)
EXTENDS EventStream, FiniteSetTheorems, FunctionTheorems, SequenceTheorems, TLAPS

-----------------------------------------------------------------------------
(* A least number, and what the loop of a filter keeps.                    *)

(* A set of numbers has a least one: induction, as the provers can use it. *)
LEMMA LeastNumber ==
  ASSUME NEW S, S \subseteq Nat, S # {}
  PROVE  \E n \in S : \A m \in S : n <= m
<1> DEFINE Less == {ss \in Nat \X Nat : ss[1] < ss[2]}
<1>1. IsWellFoundedOn(Less, Nat)
  BY NatLessThanWellFounded DEF OpToRel
<1> HIDE DEF Less
<1>2. PICK n \in S : \A m \in S : ~(<<m, n>> \in Less)
  BY <1>1, WFMin
<1>3. \A m \in S : ~(m < n)
  BY <1>2 DEF Less
<1> QED
  BY <1>3

(* The filter's loop, up to the n-th entry of s.                           *)
Keeping(f, s, places, n) ==
    f = [i \in 0 .. n |-> IF i = 0 THEN <<>>
                          ELSE IF i \in places THEN Append(f[i - 1], s[i]) ELSE f[i - 1]]

LEMMA KeepingExists ==
  ASSUME NEW s, NEW places, NEW n \in Nat
  PROVE  \E f : Keeping(f, s, places, n)
<1> DEFINE T == {k \in Nat : ~ \E f : Keeping(f, s, places, k)}
<1> SUFFICES ASSUME T # {} PROVE FALSE
  OBVIOUS
<1>1. PICK k \in T : \A m \in T : k <= m
  BY LeastNumber
<1>2. k # 0
  <2>1. Keeping([i \in 0 .. 0 |-> <<>>], s, places, 0)
    BY DEF Keeping
  <2> QED
    BY <2>1
<1>3. k - 1 \in Nat /\ k - 1 \notin T
  BY <1>1, <1>2
<1>4. PICK f : Keeping(f, s, places, k - 1)
  BY <1>3
<1> DEFINE g == [i \in 0 .. k |->
                    IF i = 0 THEN <<>>
                    ELSE IF i \in places THEN Append(f[i - 1], s[i]) ELSE f[i - 1]]
<1>5. \A i \in 0 .. k - 1 : g[i] = f[i]
  <2> SUFFICES ASSUME NEW i \in 0 .. k - 1 PROVE g[i] = f[i]
    OBVIOUS
  <2>1. i \in 0 .. k
    BY <1>3
  <2>2. f[i] = IF i = 0 THEN <<>>
               ELSE IF i \in places THEN Append(f[i - 1], s[i]) ELSE f[i - 1]
    BY <1>4 DEF Keeping
  <2> QED
    BY <2>1, <2>2
<1>6. \A i \in 0 .. k : i # 0 => g[i - 1] = f[i - 1]
  <2>1. \A i \in 0 .. k : i # 0 => i - 1 \in 0 .. k - 1
    BY <1>3
  <2> QED
    BY <1>5, <2>1
<1>7. Keeping(g, s, places, k)
  <2>1. \A i \in 0 .. k : g[i] = IF i = 0 THEN <<>>
                     ELSE IF i \in places THEN Append(g[i - 1], s[i]) ELSE g[i - 1]
    BY <1>6
  <2> QED
    BY <2>1 DEF Keeping
<1> QED
  BY <1>7

(* A filtered list has the entries at the kept places, in their order.     *)
Picking(S, s, places, t) ==
    /\ t \in Seq(S)
    /\ \E at \in [1 .. Len(t) -> places] :
           /\ \A j \in 1 .. Len(t) : t[j] = s[at[j]]
           /\ \A j, k \in 1 .. Len(t) : j < k => at[j] < at[k]
           /\ \A k \in places : \E j \in 1 .. Len(t) : at[j] = k

LEMMA KeptFacts ==
  ASSUME NEW S, NEW s \in Seq(S), NEW places \in SUBSET DOMAIN s
  PROVE  Picking(S, s, places, Kept(s, places))
<1> DEFINE n == Len(s)
           Picks(t, i) ==
             /\ t \in Seq(S)
             /\ \E at \in [1 .. Len(t) -> places \cap 1 .. i] :
                    /\ \A j \in 1 .. Len(t) : t[j] = s[at[j]]
                    /\ \A j, k \in 1 .. Len(t) : j < k => at[j] < at[k]
                    /\ \A k \in places \cap 1 .. i : \E j \in 1 .. Len(t) : at[j] = k
<1>1. n \in Nat /\ DOMAIN s = 1 .. n /\ \A i \in 1 .. n : s[i] \in S
  BY LenProperties
<1>2. PICK f : Keeping(f, s, places, n) /\ Kept(s, places) = f[n]
  <2>1. \E f : Keeping(f, s, places, n)
    BY <1>1, KeepingExists
  <2> QED
    BY <2>1 DEF Kept, Keeping
<1>3. f[0] = <<>>
  BY <1>1, <1>2 DEF Keeping
<1>4. \A i \in 1 .. n : f[i] = IF i \in places THEN Append(f[i - 1], s[i]) ELSE f[i - 1]
  <2>1. \A i \in 1 .. n : i \in 0 .. n /\ i # 0
    BY <1>1
  <2>2. \A i \in 0 .. n : f[i] = IF i = 0 THEN <<>>
                     ELSE IF i \in places THEN Append(f[i - 1], s[i]) ELSE f[i - 1]
    BY <1>2 DEF Keeping
  <2> QED
    BY <2>1, <2>2
<1>5. Picks(<<>>, 0)
  <2>1. <<>> \in Seq(S) /\ Len(<<>>) = 0 /\ 1 .. 0 = {}
    OBVIOUS
  <2> DEFINE at == [j \in 1 .. 0 |-> 0]
  <2>2. at \in [1 .. 0 -> places \cap 1 .. 0]
    BY <2>1
  <2> QED
    BY <2>1, <2>2
<1>6. ASSUME NEW i \in 1 .. n, NEW t, Picks(t, i - 1)
      PROVE  Picks(IF i \in places THEN Append(t, s[i]) ELSE t, i)
  <2>1. t \in Seq(S) /\ Len(t) \in Nat /\ i \in Nat
    BY <1>1, <1>6
  <2>2. PICK at \in [1 .. Len(t) -> places \cap 1 .. (i - 1)] :
                    /\ \A j \in 1 .. Len(t) : t[j] = s[at[j]]
                    /\ \A j, k \in 1 .. Len(t) : j < k => at[j] < at[k]
                    /\ \A k \in places \cap 1 .. (i - 1) : \E j \in 1 .. Len(t) : at[j] = k
    BY <1>6
  <2>3. CASE i \notin places
    <3>1. places \cap 1 .. i = places \cap 1 .. (i - 1)
      BY <2>1, <2>3
    <3> QED
      BY <1>6, <2>3, <3>1
  <2>4. CASE i \in places
    <3> DEFINE u == Append(t, s[i])
               to == [j \in 1 .. Len(t) + 1 |-> IF j = Len(t) + 1 THEN i ELSE at[j]]
    <3>1. /\ u \in Seq(S) /\ Len(u) = Len(t) + 1 /\ u[Len(t) + 1] = s[i]
          /\ \A j \in 1 .. Len(t) : u[j] = t[j]
      BY <1>1, <2>1
    <3>2. \A j \in 1 .. Len(t) : at[j] \in places /\ at[j] \in 1 .. (i - 1)
      BY <2>2
    <3>3. \A j \in 1 .. Len(t) : to[j] = at[j] /\ at[j] < i /\ at[j] \in places \cap 1 .. i
      BY <2>1, <3>2
    <3>4. to[Len(t) + 1] = i /\ i \in places \cap 1 .. i
      BY <2>1, <2>4
    <3>5. to \in [1 .. Len(u) -> places \cap 1 .. i]
      BY <2>1, <3>1, <3>3, <3>4
    <3>6. \A j \in 1 .. Len(u) : j \in 1 .. Len(t) \/ j = Len(t) + 1
      BY <2>1, <3>1
    <3>7. \A k \in places \cap 1 .. i : k = i \/ k \in places \cap 1 .. (i - 1)
      BY <2>1
    <3> HIDE DEF u, to
    <3>8. \A j \in 1 .. Len(u) : u[j] = s[to[j]]
      BY <2>2, <3>1, <3>3, <3>4, <3>6
    <3>9. ASSUME NEW j \in 1 .. Len(u), NEW k \in 1 .. Len(u), j < k
          PROVE  to[j] < to[k]
      <4>1. j \in 1 .. Len(t)
        BY <2>1, <3>6, <3>9
      <4>2. CASE k \in 1 .. Len(t)
        <5>1. at[j] < at[k]
          BY <2>2, <3>9, <4>1, <4>2
        <5> QED
          BY <3>3, <4>1, <4>2, <5>1
      <4>3. CASE k = Len(t) + 1
        BY <3>3, <3>4, <4>1, <4>3
      <4> QED
        BY <3>6, <4>2, <4>3
    <3>10. ASSUME NEW k \in places \cap 1 .. i
           PROVE  \E j \in 1 .. Len(u) : to[j] = k
      <4>1. CASE k = i
        <5>1. Len(t) + 1 \in 1 .. Len(u)
          BY <2>1, <3>1
        <5> QED
          BY <3>4, <4>1, <5>1
      <4>2. CASE k \in places \cap 1 .. (i - 1)
        <5>1. PICK j \in 1 .. Len(t) : at[j] = k
          BY <2>2, <4>2
        <5>2. j \in 1 .. Len(u) /\ to[j] = k
          BY <2>1, <3>1, <3>3, <5>1
        <5> QED
          BY <5>2
      <4> QED
        BY <3>7, <4>1, <4>2
    <3>11. Picks(u, i)
      BY <3>1, <3>5, <3>8, <3>9, <3>10
    <3> QED
      BY <2>4, <3>11 DEF u
  <2> QED
    BY <2>3, <2>4
<1> HIDE DEF Picks
<1>7. \A i \in 0 .. n : Picks(f[i], i)
  <2> DEFINE T == {i \in 0 .. n : ~Picks(f[i], i)}
  <2> SUFFICES ASSUME T # {} PROVE FALSE
    OBVIOUS
  <2>1. PICK i \in T : \A j \in T : i <= j
    <3>1. T \subseteq Nat
      BY <1>1
    <3> QED
      BY <3>1, LeastNumber
  <2>2. i \in 1 .. n /\ i - 1 \in 0 .. n /\ i - 1 \notin T
    BY <1>1, <1>3, <1>5, <2>1
  <2>3. Picks(f[i - 1], i - 1)
    BY <2>2
  <2> QED
    BY <1>4, <1>6, <2>1, <2>2, <2>3
<1>8. Picks(Kept(s, places), n)
  BY <1>1, <1>2, <1>7
<1>9. places \cap 1 .. n = places
  BY <1>1
<1> QED
  BY <1>8, <1>9 DEF Picks, Picking

-----------------------------------------------------------------------------
(* Lists of numbers: F is the file, S what is shown, P the pipeline.       *)

Climbing(s) == \A i, j \in DOMAIN s : i < j => s[i] < s[j]

LastOr0(s) == IF s = <<>> THEN 0 ELSE s[Len(s)]

LEMMA SeqFacts ==
  ASSUME NEW T, NEW s \in Seq(T)
  PROVE  /\ Len(s) \in Nat /\ DOMAIN s = 1 .. Len(s)
         /\ \A i \in 1 .. Len(s) : s[i] \in T
         /\ Values(s) \subseteq T
         /\ s = <<>> <=> Len(s) = 0
         /\ s = <<>> <=> Values(s) = {}
<1>1. Len(s) \in Nat /\ DOMAIN s = 1 .. Len(s) /\ \A i \in 1 .. Len(s) : s[i] \in T
  BY LenProperties
<1>2. s = <<>> <=> Len(s) = 0
  BY EmptySeq
<1>3. Values(s) \subseteq T
  BY <1>1 DEF Values
<1>4. Len(s) # 0 => s[1] \in Values(s)
  <2>1. Len(s) # 0 => 1 \in 1 .. Len(s)
    BY <1>1
  <2> QED
    BY <1>1, <2>1 DEF Values
<1>5. Len(s) = 0 => Values(s) = {}
  BY <1>1 DEF Values
<1> QED
  BY <1>1, <1>2, <1>3, <1>4, <1>5

LEMMA AppendFacts ==
  ASSUME NEW T, NEW s \in Seq(T), NEW x \in T
  PROVE  /\ Append(s, x) \in Seq(T) /\ Append(s, x) # <<>>
         /\ Len(Append(s, x)) = Len(s) + 1
         /\ \A i \in 1 .. Len(s) : Append(s, x)[i] = s[i]
         /\ Append(s, x)[Len(s) + 1] = x
         /\ Values(Append(s, x)) = Values(s) \cup {x}
<1> DEFINE t == Append(s, x)
<1>1. Len(s) \in Nat /\ DOMAIN s = 1 .. Len(s)
  BY LenProperties
<1>2. /\ t \in Seq(T) /\ Len(t) = Len(s) + 1 /\ t # <<>>
      /\ \A i \in 1 .. Len(s) : t[i] = s[i]
      /\ t[Len(s) + 1] = x
  BY <1>1, AppendProperties
<1>3. DOMAIN t = 1 .. Len(s) + 1
  BY <1>2, LenProperties
<1> HIDE DEF t
<1>4. \A i \in 1 .. Len(s) + 1 : i \in 1 .. Len(s) \/ i = Len(s) + 1
  BY <1>1
<1>5. Len(s) + 1 \in 1 .. Len(s) + 1 /\ \A i \in 1 .. Len(s) : i \in 1 .. Len(s) + 1
  BY <1>1
<1>6. Values(t) = Values(s) \cup {x}
  BY <1>1, <1>2, <1>3, <1>4, <1>5 DEF Values
<1> QED
  BY <1>2, <1>6 DEF t

LEMMA CatFacts ==
  ASSUME NEW T, NEW s \in Seq(T), NEW t \in Seq(T)
  PROVE  /\ s \o t \in Seq(T)
         /\ Len(s \o t) = Len(s) + Len(t)
         /\ \A i \in 1 .. Len(s) : (s \o t)[i] = s[i]
         /\ \A i \in 1 .. Len(t) : (s \o t)[Len(s) + i] = t[i]
         /\ Values(s \o t) = Values(s) \cup Values(t)
         /\ s \o t = <<>> <=> s = <<>> /\ t = <<>>
<1> DEFINE u == s \o t
<1>1. Len(s) \in Nat /\ DOMAIN s = 1 .. Len(s) /\ Len(t) \in Nat /\ DOMAIN t = 1 .. Len(t)
  BY LenProperties
<1>2. /\ u \in Seq(T) /\ Len(u) = Len(s) + Len(t)
      /\ \A i \in 1 .. Len(s) + Len(t) : u[i] = IF i <= Len(s) THEN s[i] ELSE t[i - Len(s)]
  BY ConcatProperties
<1>3. DOMAIN u = 1 .. Len(s) + Len(t)
  BY <1>2, LenProperties
<1> HIDE DEF u
<1>4. \A i \in 1 .. Len(s) : i \in 1 .. Len(s) + Len(t) /\ u[i] = s[i]
  BY <1>1, <1>2
<1>5. \A i \in 1 .. Len(t) : Len(s) + i \in 1 .. Len(s) + Len(t) /\ u[Len(s) + i] = t[i]
  <2> SUFFICES ASSUME NEW i \in 1 .. Len(t)
               PROVE  Len(s) + i \in 1 .. Len(s) + Len(t) /\ u[Len(s) + i] = t[i]
    OBVIOUS
  <2>1. /\ Len(s) + i \in 1 .. Len(s) + Len(t) /\ ~(Len(s) + i <= Len(s))
        /\ (Len(s) + i) - Len(s) = i
    BY <1>1
  <2> QED
    BY <1>2, <2>1
<1>6. \A i \in 1 .. Len(s) + Len(t) :
          i \in 1 .. Len(s) \/ \E j \in 1 .. Len(t) : i = Len(s) + j
  <2> SUFFICES ASSUME NEW i \in 1 .. Len(s) + Len(t), i \notin 1 .. Len(s)
               PROVE  \E j \in 1 .. Len(t) : i = Len(s) + j
    OBVIOUS
  <2>1. i - Len(s) \in 1 .. Len(t) /\ i = Len(s) + (i - Len(s))
    BY <1>1
  <2> QED
    BY <2>1
<1>7. Values(u) = Values(s) \cup Values(t)
  <2>1. \A i \in DOMAIN u : u[i] \in Values(s) \cup Values(t)
    BY <1>1, <1>3, <1>4, <1>5, <1>6 DEF Values
  <2>2. \A i \in DOMAIN s : s[i] \in Values(u)
    BY <1>1, <1>3, <1>4 DEF Values
  <2>3. \A i \in DOMAIN t : t[i] \in Values(u)
    BY <1>1, <1>3, <1>5 DEF Values
  <2> QED
    BY <2>1, <2>2, <2>3 DEF Values
<1>8. u = <<>> <=> s = <<>> /\ t = <<>>
  BY <1>1, <1>2, EmptySeq
<1> QED
  BY <1>2, <1>4, <1>5, <1>7, <1>8 DEF u

(* The places of a list that is joined of two.                             *)
LEMMA CatPlaces ==
  ASSUME NEW T, NEW s \in Seq(T), NEW t \in Seq(T), NEW i \in DOMAIN (s \o t)
  PROVE  \/ i \in 1 .. Len(s) /\ (s \o t)[i] = s[i]
         \/ /\ i - Len(s) \in 1 .. Len(t) /\ i = Len(s) + (i - Len(s))
            /\ (s \o t)[i] = t[i - Len(s)]
<1>1. /\ s \o t \in Seq(T) /\ Len(s \o t) = Len(s) + Len(t)
      /\ \A k \in 1 .. Len(s) : (s \o t)[k] = s[k]
      /\ \A k \in 1 .. Len(t) : (s \o t)[Len(s) + k] = t[k]
  BY CatFacts
<1>2. i \in 1 .. Len(s) + Len(t) /\ Len(s) \in Nat /\ Len(t) \in Nat
  BY <1>1, LenProperties
<1>3. i \in 1 .. Len(s) \/ (i - Len(s) \in 1 .. Len(t) /\ i = Len(s) + (i - Len(s)))
  BY <1>2
<1> QED
  BY <1>1, <1>3

-----------------------------------------------------------------------------
(* Nothing twice: y after x in the pipeline, or both read before they were *)
(* published.                                                              *)
Back(x, y, F, echo) ==
    \/ x < y
    \/ y = 0
    \/ y \in echo /\ \A n \in Values(F) : y <= n /\ n <= x => n \in echo

(* held: the numbers that are written and not yet published.               *)
NoneTwice(F, P, held, echo) ==
    /\ \A i, j \in DOMAIN P : i < j => Back(P[i], P[j], F, echo)
    /\ \A s \in held, x \in Values(P), n \in Values(F) : s <= n /\ n <= x => n \in echo

(* A line is written, with the greatest number so far.                     *)
LEMMA TwiceWrite ==
  ASSUME NEW F \in Seq(Nat), NEW P \in Seq(Nat), NEW held \in SUBSET Nat, NEW echo,
         NEW n \in Nat, \A v \in Values(F) : v < n,
         Values(P) \subseteq Values(F), NoneTwice(F, P, held, echo)
  PROVE  NoneTwice(Append(F, n), P, held \cup {n}, echo)
<1> DEFINE G == Append(F, n)
<1>1. Values(G) = Values(F) \cup {n} /\ Values(F) \subseteq Nat
  <2>1. Values(G) = Values(F) \cup {n}
    BY AppendFacts
  <2>2. Values(F) \subseteq Nat
    BY SeqFacts
  <2> QED
    BY <2>1, <2>2
<1> HIDE DEF G
<1>2. \A x \in Values(P) : x < n /\ x \in Nat
  BY <1>1
<1>3. \A i \in DOMAIN P : P[i] \in Values(P)
  BY DEF Values
<1>4. ASSUME NEW i \in DOMAIN P, NEW j \in DOMAIN P, i < j
      PROVE  Back(P[i], P[j], G, echo)
  <2>1. Back(P[i], P[j], F, echo) /\ P[i] < n /\ P[i] \in Nat
    BY <1>2, <1>3, <1>4 DEF NoneTwice
  <2>2. ~(n <= P[i])
    BY <2>1
  <2> QED
    BY <1>1, <2>1, <2>2 DEF Back
<1>5. ASSUME NEW s \in held \cup {n}, NEW x \in Values(P), NEW v \in Values(G),
             s <= v, v <= x
      PROVE  v \in echo
  <2>1. x < n /\ x \in Nat /\ v \in Nat
    BY <1>1, <1>2
  <2>2. v # n
    BY <1>5, <2>1
  <2>3. s # n
    BY <1>5, <2>1
  <2> QED
    BY <1>1, <1>5, <2>2, <2>3 DEF NoneTwice
<1> QED
  BY <1>4, <1>5 DEF NoneTwice, G

(* The least number that is held is published.                             *)
LEMMA TwicePublish ==
  ASSUME NEW F \in Seq(Nat), NEW P \in Seq(Nat), NEW held \in SUBSET Nat, NEW echo,
         NEW n \in held, \A s \in held \ {n} : n < s, n \in Values(F),
         NoneTwice(F, P, held, echo)
  PROVE  NoneTwice(F, Append(P, n), held \ {n}, echo)
<1> DEFINE Q == Append(P, n)
           m == Len(P)
<1>1. /\ m \in Nat /\ DOMAIN P = 1 .. m /\ \A i \in 1 .. m : P[i] \in Nat
      /\ n \in Nat /\ Q \in Seq(Nat) /\ Len(Q) = m + 1 /\ Q[m + 1] = n
      /\ \A i \in 1 .. m : Q[i] = P[i]
      /\ Values(Q) = Values(P) \cup {n} /\ Values(P) \subseteq Nat /\ Values(F) \subseteq Nat
  BY AppendFacts, SeqFacts
<1>2. DOMAIN Q = 1 .. m + 1
  BY <1>1, SeqFacts
<1> HIDE DEF Q, m
<1>3. ASSUME NEW x \in Values(P)
      PROVE  Back(x, n, F, echo)
  <2>1. \A v \in Values(F) : n <= v /\ v <= x => v \in echo
    BY <1>3 DEF NoneTwice
  <2>2. x \in Nat /\ (n <= x => n \in echo)
    BY <1>1, <2>1
  <2>3. x < n \/ n <= x
    BY <1>1, <2>2
  <2> QED
    BY <2>1, <2>2, <2>3 DEF Back
<1>4. ASSUME NEW i \in DOMAIN Q, NEW j \in DOMAIN Q, i < j
      PROVE  Back(Q[i], Q[j], F, echo)
  <2>1. i \in 1 .. m
    BY <1>1, <1>2, <1>4
  <2>2. Q[i] = P[i] /\ P[i] \in Values(P)
    BY <1>1, <2>1 DEF Values
  <2>3. CASE j \in 1 .. m
    BY <1>1, <1>4, <2>1, <2>2, <2>3 DEF NoneTwice
  <2>4. CASE j = m + 1
    BY <1>1, <1>3, <2>2, <2>4
  <2> QED
    BY <1>1, <1>2, <2>3, <2>4
<1>5. ASSUME NEW s \in held \ {n}, NEW x \in Values(Q), NEW v \in Values(F), s <= v, v <= x
      PROVE  v \in echo
  <2>1. n < s /\ s \in Nat /\ v \in Nat /\ n \in Nat
    BY <1>1
  <2>2. x # n
    BY <1>5, <2>1
  <2> QED
    BY <1>1, <1>5, <2>2 DEF NoneTwice
<1> QED
  BY <1>4, <1>5 DEF NoneTwice, Q

(* A stream is served: the replay starts behind the last number.           *)
LEMMA TwiceServe ==
  ASSUME NEW F \in Seq(Nat), NEW S \in Seq(Nat), NEW held, NEW echo, NEW more,
         NEW wire \in Seq(Nat), Climbing(wire), Values(wire) \subseteq Values(F),
         \A y \in Values(wire) : LastOr0(S) < y,
         \A x \in Values(S) : x # 0,
         \A s \in held, n \in Values(F) : s <= n => n \in more,
         NoneTwice(F, S, held, echo)
  PROVE  NoneTwice(F, S \o wire, held, echo \cup more)
<1> DEFINE Q == S \o wire
           m == Len(S)
<1>1. /\ m \in Nat /\ DOMAIN S = 1 .. m /\ \A i \in 1 .. m : S[i] \in Nat
      /\ DOMAIN wire = 1 .. Len(wire) /\ Len(wire) \in Nat
      /\ Values(F) \subseteq Nat
  BY SeqFacts
<1>2. ASSUME NEW i \in DOMAIN Q
      PROVE  \/ i \in 1 .. m /\ Q[i] = S[i]
             \/ \E j \in 1 .. Len(wire) : i = m + j /\ Q[i] = wire[j]
  <2>1. \/ i \in 1 .. m /\ Q[i] = S[i]
        \/ i - m \in 1 .. Len(wire) /\ i = m + (i - m) /\ Q[i] = wire[i - m]
    BY CatPlaces
  <2> QED
    BY <2>1
<1> HIDE DEF Q
<1>3. ASSUME NEW i \in 1 .. m, NEW y \in Values(wire)
      PROVE  Back(S[i], y, F, echo)
  <2>1. m \in 1 .. m /\ LastOr0(S) = S[m] /\ S[m] < y /\ S[m] # 0 /\ y \in Values(F)
    <3>1. S # <<>> /\ m \in 1 .. m
      BY <1>1, SeqFacts
    <3>2. LastOr0(S) = S[m]
      BY <3>1 DEF LastOr0, m
    <3>3. S[m] \in Values(S)
      BY <1>1, <3>1 DEF Values
    <3> QED
      BY <3>1, <3>2, <3>3
  <2>2. S[i] \in Nat /\ S[m] \in Nat /\ y \in Nat
    BY <1>1, <2>1
  <2>3. CASE i = m
    BY <2>1, <2>3 DEF Back
  <2>4. CASE i # m
    <3>1. Back(S[i], S[m], F, echo)
      <4>1. i < m
        <5> HIDE DEF m
        <5> QED
          BY <1>1, <2>4
      <4> QED
        BY <1>1, <2>1, <4>1 DEF NoneTwice
    <3>2. CASE S[i] < S[m]
      <4>1. S[i] < y
        BY <2>1, <2>2, <3>2
      <4> QED
        BY <4>1 DEF Back
    <3>3. CASE \A n \in Values(F) : S[m] <= n /\ n <= S[i] => n \in echo
      <4>1. \A n \in Values(F) : y <= n /\ n <= S[i] => n \in echo
        <5> SUFFICES ASSUME NEW n \in Values(F), y <= n, n <= S[i]
                     PROVE  n \in echo
          OBVIOUS
        <5>1. S[m] <= n
          BY <1>1, <2>1, <2>2
        <5> QED
          BY <3>3, <5>1
      <4>2. S[i] < y \/ y <= S[i]
        BY <2>2
      <4>3. y <= S[i] => y \in echo
        <5>1. y <= y
          BY <2>2
        <5> QED
          BY <2>1, <4>1, <5>1
      <4> QED
        BY <4>1, <4>2, <4>3 DEF Back
    <3> QED
      BY <2>1, <3>1, <3>2, <3>3 DEF Back
  <2> QED
    BY <2>3, <2>4
<1>4. \A x, y : Back(x, y, F, echo) => Back(x, y, F, echo \cup more)
  BY DEF Back
<1>5. ASSUME NEW i \in DOMAIN Q, NEW j \in DOMAIN Q, i < j
      PROVE  Back(Q[i], Q[j], F, echo \cup more)
  <2>1. CASE j \in 1 .. m /\ Q[j] = S[j]
    <3>1. i \in 1 .. m /\ Q[i] = S[i]
      BY <1>1, <1>2, <1>5, <2>1
    <3> QED
      BY <1>1, <1>4, <1>5, <2>1, <3>1 DEF NoneTwice
  <2>2. ASSUME NEW k \in 1 .. Len(wire), j = m + k, Q[j] = wire[k]
        PROVE  Back(Q[i], Q[j], F, echo \cup more)
    <3>1. Q[j] \in Values(wire)
      BY <1>1, <2>2 DEF Values
    <3>2. CASE i \in 1 .. m /\ Q[i] = S[i]
      BY <1>3, <1>4, <3>1, <3>2
    <3>3. ASSUME NEW l \in 1 .. Len(wire), i = m + l, Q[i] = wire[l]
          PROVE  Back(Q[i], Q[j], F, echo \cup more)
      <4>1. l < k
        BY <1>1, <1>5, <2>2, <3>3
      <4>2. wire[l] < wire[k]
        BY <1>1, <4>1 DEF Climbing
      <4> QED
        BY <2>2, <3>3, <4>2 DEF Back
    <3> QED
      BY <1>2, <3>2, <3>3
  <2> QED
    BY <1>2, <2>1, <2>2
<1>6. \A s \in held, x \in Values(Q), n \in Values(F) : s <= n /\ n <= x => n \in echo \cup more
  OBVIOUS
<1> QED
  BY <1>5, <1>6 DEF NoneTwice, Q

(* The tail of the file is all there is.                                   *)
LEMMA TwiceTail ==
  ASSUME NEW F, NEW P, NEW held, NEW echo, NEW more, Climbing(P),
         \A s \in held, n \in Values(F) : s <= n => n \in more
  PROVE  NoneTwice(F, P, held, echo \cup more)
BY DEF NoneTwice, Climbing, Back

(* A page goes before everything else.                                     *)
LEMMA TwicePage ==
  ASSUME NEW F \in Seq(Nat), NEW P \in Seq(Nat), NEW held, NEW echo, NEW more,
         NEW O \in Seq(Nat), Climbing(O), Values(O) \subseteq Values(F),
         P # <<>>, \A x \in Values(O) : x < P[1],
         \A s \in held, n \in Values(F) : s <= n => n \in more,
         NoneTwice(F, P, held, echo)
  PROVE  NoneTwice(F, O \o P, held, echo \cup more)
<1> DEFINE Q == O \o P
           m == Len(O)
<1>1. /\ m \in Nat /\ DOMAIN O = 1 .. m /\ \A i \in 1 .. m : O[i] \in Nat
      /\ DOMAIN P = 1 .. Len(P) /\ Len(P) \in Nat /\ \A i \in 1 .. Len(P) : P[i] \in Nat
      /\ Values(F) \subseteq Nat /\ 1 \in DOMAIN P
  BY SeqFacts
<1>2. ASSUME NEW i \in DOMAIN Q
      PROVE  \/ i \in 1 .. m /\ Q[i] = O[i]
             \/ \E j \in 1 .. Len(P) : i = m + j /\ Q[i] = P[j]
  <2>1. \/ i \in 1 .. m /\ Q[i] = O[i]
        \/ i - m \in 1 .. Len(P) /\ i = m + (i - m) /\ Q[i] = P[i - m]
    BY CatPlaces
  <2> QED
    BY <2>1
<1> HIDE DEF Q
<1>3. ASSUME NEW x \in Values(O), NEW k \in DOMAIN P
      PROVE  Back(x, P[k], F, echo)
  <2>1. x < P[1] /\ x \in Nat /\ P[1] \in Nat /\ P[k] \in Nat /\ x \in Values(F)
    BY <1>1
  <2>2. CASE k = 1
    BY <2>1, <2>2 DEF Back
  <2>3. CASE k # 1
    <3>1. Back(P[1], P[k], F, echo)
      <4>1. 1 < k
        BY <1>1, <2>3
      <4> QED
        BY <1>1, <4>1 DEF NoneTwice
    <3>2. CASE P[1] < P[k]
      <4>1. x < P[k]
        BY <2>1, <3>2
      <4> QED
        BY <4>1 DEF Back
    <3>3. CASE P[k] \in echo /\ \A n \in Values(F) : P[k] <= n /\ n <= P[1] => n \in echo
      <4>1. \A n \in Values(F) : P[k] <= n /\ n <= x => n \in echo
        <5> SUFFICES ASSUME NEW n \in Values(F), P[k] <= n, n <= x
                     PROVE  n \in echo
          OBVIOUS
        <5>1. n <= P[1]
          BY <1>1, <2>1
        <5> QED
          BY <3>3, <5>1
      <4> QED
        BY <3>3, <4>1 DEF Back
    <3> QED
      BY <3>1, <3>2, <3>3 DEF Back
  <2> QED
    BY <2>2, <2>3
<1>4. \A x, y : Back(x, y, F, echo) => Back(x, y, F, echo \cup more)
  BY DEF Back
<1>5. ASSUME NEW i \in DOMAIN Q, NEW j \in DOMAIN Q, i < j
      PROVE  Back(Q[i], Q[j], F, echo \cup more)
  <2>1. CASE j \in 1 .. m /\ Q[j] = O[j]
    <3>1. i \in 1 .. m /\ Q[i] = O[i]
      BY <1>1, <1>2, <1>5, <2>1
    <3>2. O[i] < O[j]
      BY <1>1, <1>5, <2>1, <3>1 DEF Climbing
    <3> QED
      BY <2>1, <3>1, <3>2 DEF Back
  <2>2. ASSUME NEW k \in 1 .. Len(P), j = m + k, Q[j] = P[k]
        PROVE  Back(Q[i], Q[j], F, echo \cup more)
    <3>1. CASE i \in 1 .. m /\ Q[i] = O[i]
      <4>1. Q[i] \in Values(O)
        BY <1>1, <3>1 DEF Values
      <4> QED
        BY <1>1, <1>3, <1>4, <2>2, <4>1
    <3>2. ASSUME NEW l \in 1 .. Len(P), i = m + l, Q[i] = P[l]
          PROVE  Back(Q[i], Q[j], F, echo \cup more)
      <4>1. l < k
        BY <1>1, <1>5, <2>2, <3>2
      <4> QED
        BY <1>1, <1>4, <2>2, <3>2, <4>1 DEF NoneTwice
    <3> QED
      BY <1>2, <3>1, <3>2
  <2> QED
    BY <1>2, <2>1, <2>2
<1>6. \A s \in held, x \in Values(Q), n \in Values(F) : s <= n /\ n <= x => n \in echo \cup more
  OBVIOUS
<1> QED
  BY <1>5, <1>6 DEF NoneTwice, Q

(* A stream breaks, a goroutine ends, an event is read early.              *)
LEMMA TwiceLess ==
  ASSUME NEW F, NEW P, NEW Q, NEW held, NEW kept \in SUBSET held, NEW echo, NEW more,
         DOMAIN Q \subseteq DOMAIN P, \A i \in DOMAIN Q : Q[i] = P[i],
         NoneTwice(F, P, held, echo)
  PROVE  NoneTwice(F, Q, kept, echo \cup more)
<1>1. Values(Q) \subseteq Values(P)
  BY DEF Values
<1> QED
  BY <1>1 DEF NoneTwice, Back

-----------------------------------------------------------------------------
(* Nothing lost. S is the part of the pipeline P that the pane has.        *)

(* The lines of a file, in the order of their numbers but for those in out.*)
Straight(F, out) ==
    \A i, j \in DOMAIN F :
        i < j => F[i] # F[j] /\ (F[i] < F[j] \/ (F[i] \in out /\ F[j] \in out))

(* Event n needs nothing more.                                             *)
Fine(n, S, more, lost) ==
    \/ n \in Values(S)
    \/ S # <<>> /\ n < S[1] /\ more
    \/ n \in lost

(* read: how many lines of the file a replay has been read from that is not*)
(* subscribed yet.                                                         *)
NoneLost(F, S, P, more, opening, held, read, lost) ==
    /\ \A n \in Values(F) :
          \/ Fine(n, S, more, lost)
          \/ n \in Values(P)
          \/ (\A x \in Values(P) : x < n) /\ (opening \/ n \in held)
    /\ \A q \in DOMAIN P :
          \/ Fine(P[q], S, more, lost)
          \/ \A p \in 1 .. q - 1 : P[p] < P[q] \/ \E r \in 1 .. p : P[r] = P[q]
    /\ read \in 0 .. Len(F)
    /\ \A i \in 1 .. read : Fine(F[i], S, more, lost) \/ F[i] \in Values(P)

(* A line is written: beyond all others, or out of order.                  *)
LEMMA LostWrite ==
  ASSUME NEW F \in Seq(Nat), NEW S, NEW P \in Seq(Nat), NEW more, NEW opening,
         NEW held, NEW read, NEW lost, NEW lost2, lost \subseteq lost2,
         NEW n \in Nat, n \in lost2 \/ \A v \in Values(F) : v < n,
         Values(P) \subseteq Values(F),
         NoneLost(F, S, P, more, opening, held, read, lost)
  PROVE  NoneLost(Append(F, n), S, P, more, opening, held \cup {n}, read, lost2)
<1> DEFINE G == Append(F, n)
<1>1. /\ Values(G) = Values(F) \cup {n} /\ Len(G) = Len(F) + 1 /\ Len(F) \in Nat
      /\ \A i \in 1 .. Len(F) : G[i] = F[i]
  BY AppendFacts, SeqFacts
<1> HIDE DEF G
<1>2. \A x : Fine(x, S, more, lost) => Fine(x, S, more, lost2)
  BY DEF Fine
<1>3. ASSUME NEW x \in Values(G)
      PROVE  \/ Fine(x, S, more, lost2)
             \/ x \in Values(P)
             \/ (\A y \in Values(P) : y < x) /\ (opening \/ x \in held \cup {n})
  <2>1. CASE x \in Values(F)
    BY <1>2, <2>1 DEF NoneLost
  <2>2. CASE x = n /\ n \in lost2
    BY <2>2 DEF Fine
  <2>3. CASE x = n /\ \A v \in Values(F) : v < n
    BY <2>3
  <2> QED
    BY <1>1, <2>1, <2>2, <2>3
<1>4. /\ \A q \in DOMAIN P :
          \/ Fine(P[q], S, more, lost2)
          \/ \A p \in 1 .. q - 1 : P[p] < P[q] \/ \E r \in 1 .. p : P[r] = P[q]
  BY <1>2 DEF NoneLost
<1>5. read \in 0 .. Len(F) /\ read \in 0 .. Len(G)
  BY <1>1 DEF NoneLost
<1>6. \A i \in 1 .. read : Fine(G[i], S, more, lost2) \/ G[i] \in Values(P)
  <2>1. \A i \in 1 .. read : i \in 1 .. Len(F)
    BY <1>1, <1>5
  <2> QED
    BY <1>1, <1>2, <2>1 DEF NoneLost
<1> QED
  BY <1>3, <1>4, <1>5, <1>6 DEF NoneLost, G

(* An event is published and reaches the stream.                           *)
LEMMA LostReached ==
  ASSUME NEW F \in Seq(Nat), NEW S, NEW P \in Seq(Nat), NEW more,
         NEW held \in SUBSET Nat, NEW read, NEW lost, NEW lost2, lost \subseteq lost2,
         NEW n \in Nat, n \in Values(F), \A s \in held \ {n} : n < s \/ s \in lost2,
         NoneLost(F, S, P, more, FALSE, held, read, lost)
  PROVE  NoneLost(F, S, Append(P, n), more, FALSE, held \ {n}, read, lost2)
<1> DEFINE Q == Append(P, n)
           m == Len(P)
<1>1. /\ m \in Nat /\ DOMAIN P = 1 .. m /\ \A i \in 1 .. m : P[i] \in Nat
      /\ Q \in Seq(Nat) /\ Len(Q) = m + 1 /\ Q[m + 1] = n
      /\ \A i \in 1 .. m : Q[i] = P[i]
      /\ Values(Q) = Values(P) \cup {n} /\ Values(P) \subseteq Nat
  BY AppendFacts, SeqFacts
<1>2. DOMAIN Q = 1 .. m + 1
  BY <1>1, SeqFacts
<1> HIDE DEF Q, m
<1>3. \A x : Fine(x, S, more, lost) => Fine(x, S, more, lost2)
  BY DEF Fine
<1>4. ASSUME NEW x \in Values(F)
      PROVE  \/ Fine(x, S, more, lost2)
             \/ x \in Values(Q)
             \/ (\A y \in Values(Q) : y < x) /\ x \in held \ {n}
  <2>1. CASE Fine(x, S, more, lost) \/ x \in Values(P) \/ x = n
    BY <1>1, <1>3, <2>1
  <2>2. CASE (\A y \in Values(P) : y < x) /\ x \in held /\ x # n
    <3>1. n < x \/ Fine(x, S, more, lost2)
      BY <2>2 DEF Fine
    <3> QED
      BY <1>1, <2>2, <3>1
  <2> QED
    BY <2>1, <2>2 DEF NoneLost
<1>5. ASSUME NEW q \in DOMAIN Q
      PROVE  \/ Fine(Q[q], S, more, lost2)
             \/ \A p \in 1 .. q - 1 : Q[p] < Q[q] \/ \E r \in 1 .. p : Q[r] = Q[q]
  <2>1. CASE q \in 1 .. m
    <3>1. \A p \in 1 .. q - 1 : p \in 1 .. m /\ \A r \in 1 .. p : r \in 1 .. m
      BY <1>1, <2>1
    <3>2. Q[q] = P[q] /\ \A p \in 1 .. q - 1 : Q[p] = P[p] /\ \A r \in 1 .. p : Q[r] = P[r]
      BY <1>1, <2>1, <3>1
    <3>3. \/ Fine(P[q], S, more, lost)
          \/ \A p \in 1 .. q - 1 : P[p] < P[q] \/ \E r \in 1 .. p : P[r] = P[q]
      BY <1>1, <2>1 DEF NoneLost
    <3> QED
      BY <1>3, <3>2, <3>3
  <2>2. CASE q = m + 1
    <3>1. Q[q] = n /\ q - 1 = m
      BY <1>1, <2>2
    <3>2. ASSUME NEW p \in 1 .. m
          PROVE  Q[p] = P[p] /\ P[p] \in Values(P) /\ \A r \in 1 .. p : r \in 1 .. m
      <4>1. \A r \in 1 .. p : r \in 1 .. m
        BY <1>1
      <4> QED
        BY <1>1, <4>1 DEF Values
    <3>3. CASE Fine(n, S, more, lost)
      BY <1>3, <3>1, <3>3
    <3>4. CASE n \in Values(P)
      <4>1. PICK k \in 1 .. m : P[k] = n
        BY <1>1, <3>4 DEF Values
      <4>2. CASE Fine(P[k], S, more, lost)
        BY <1>3, <3>1, <4>1, <4>2
      <4>3. CASE \A p \in 1 .. k - 1 : P[p] < P[k] \/ \E r \in 1 .. p : P[r] = P[k]
        <5> SUFFICES ASSUME NEW p \in 1 .. m
                     PROVE  Q[p] < n \/ \E r \in 1 .. p : Q[r] = n
          BY <3>1
        <5>1. CASE p < k
          <6>1. p \in 1 .. k - 1
            BY <1>1, <5>1
          <6>2. \A r \in 1 .. p : Q[r] = P[r]
            BY <3>2
          <6> QED
            BY <3>2, <4>1, <4>3, <6>1, <6>2
        <5>2. CASE k <= p
          <6>1. k \in 1 .. p /\ Q[k] = n
            BY <1>1, <3>2, <4>1, <5>2
          <6> QED
            BY <6>1
        <5> QED
          BY <1>1, <5>1, <5>2
      <4> QED
        BY <1>1, <4>1, <4>2, <4>3 DEF NoneLost
    <3>5. CASE \A x \in Values(P) : x < n
      BY <3>1, <3>2, <3>5
    <3> QED
      BY <3>3, <3>4, <3>5 DEF NoneLost
  <2> QED
    BY <1>1, <1>2, <2>1, <2>2
<1>6. /\ read \in 0 .. Len(F)
      /\ \A i \in 1 .. read : Fine(F[i], S, more, lost2) \/ F[i] \in Values(Q)
  BY <1>1, <1>3 DEF NoneLost
<1> QED
  BY <1>4, <1>5, <1>6 DEF NoneLost, Q

(* An event is published and does not reach the stream.                    *)
LEMMA LostMissed ==
  ASSUME NEW F \in Seq(Nat), NEW S, NEW P, NEW more, NEW opening,
         NEW held, NEW read, NEW lost, NEW lost2, lost \subseteq lost2, NEW n,
         n \in lost2 \/ opening \/ \E i \in 1 .. read : F[i] = n,
         NoneLost(F, S, P, more, opening, held, read, lost)
  PROVE  NoneLost(F, S, P, more, opening, held \ {n}, read, lost2)
<1>1. \A x : Fine(x, S, more, lost) => Fine(x, S, more, lost2)
  BY DEF Fine
<1>2. opening \/ Fine(n, S, more, lost2) \/ n \in Values(P)
  BY <1>1 DEF Fine, NoneLost
<1>3. ASSUME NEW x \in Values(F)
      PROVE  \/ Fine(x, S, more, lost2)
             \/ x \in Values(P)
             \/ (\A y \in Values(P) : y < x) /\ (opening \/ x \in held \ {n})
  BY <1>1, <1>2 DEF NoneLost
<1>4. /\ \A q \in DOMAIN P :
          \/ Fine(P[q], S, more, lost2)
          \/ \A p \in 1 .. q - 1 : P[p] < P[q] \/ \E r \in 1 .. p : P[r] = P[q]
      /\ read \in 0 .. Len(F)
      /\ \A i \in 1 .. read : Fine(F[i], S, more, lost2) \/ F[i] \in Values(P)
  BY <1>1 DEF NoneLost
<1> QED
  BY <1>3, <1>4 DEF NoneLost

(* A stream is served: what the replay does not have, though it is above   *)
(* the last number, is known to be lost.                                   *)
LEMMA LostServe ==
  ASSUME NEW F \in Seq(Nat), NEW S \in Seq(Nat), NEW wire \in Seq(Nat),
         NEW at \in [1 .. Len(wire) -> DOMAIN F],
         \A j \in 1 .. Len(wire) : wire[j] = F[at[j]],
         \A j, k \in 1 .. Len(wire) : j < k => at[j] < at[k],
         NEW more, NEW held, NEW read, NEW lost, NEW lost2, lost \subseteq lost2,
         Straight(F, lost), \A n \in Values(F) : n # 0,
         \A n \in Values(F) : LastOr0(S) < n => n \in Values(wire) \cup lost2,
         NoneLost(F, S, S, more, TRUE, held, read, lost)
  PROVE  NoneLost(F, S, S \o wire, more, FALSE, held, Len(F), lost2)
<1> DEFINE Q == S \o wire
           m == Len(S)
<1>1. /\ m \in Nat /\ DOMAIN S = 1 .. m /\ \A i \in 1 .. m : S[i] \in Nat
      /\ DOMAIN wire = 1 .. Len(wire) /\ Len(wire) \in Nat
      /\ DOMAIN F = 1 .. Len(F) /\ Len(F) \in Nat /\ Values(F) \subseteq Nat
      /\ \A i \in 1 .. Len(F) : F[i] \in Nat
  BY SeqFacts
<1>2. /\ Q \in Seq(Nat) /\ Values(Q) = Values(S) \cup Values(wire)
      /\ \A i \in 1 .. m : Q[i] = S[i]
  BY CatFacts
<1>3. ASSUME NEW i \in DOMAIN Q
      PROVE  \/ i \in 1 .. m /\ Q[i] = S[i]
             \/ i - m \in 1 .. Len(wire) /\ i = m + (i - m) /\ Q[i] = wire[i - m]
  BY CatPlaces
<1>4. DOMAIN Q = 1 .. Len(Q) /\ Len(Q) \in Nat
  BY <1>2, SeqFacts
<1> HIDE DEF Q
<1>5. \A x : Fine(x, S, more, lost) => Fine(x, S, more, lost2)
  BY DEF Fine
<1>6. ASSUME NEW n \in Values(F), \A x \in Values(S) : x < n
      PROVE  LastOr0(S) < n
  <2>1. CASE S = <<>>
    <3>1. n \in Nat /\ n # 0
      BY <1>1
    <3> QED
      BY <2>1, <3>1 DEF LastOr0
  <2>2. CASE S # <<>>
    <3>1. S[Len(S)] \in Values(S)
      <4>1. Len(S) # 0
        BY <2>2, SeqFacts
      <4>2. m \in 1 .. m
        BY <1>1, <4>1
      <4> QED
        BY <1>1, <4>2 DEF Values
    <3> QED
      BY <1>6, <2>2, <3>1 DEF LastOr0
  <2> QED
    BY <2>1, <2>2
<1>7. ASSUME NEW n \in Values(F)
      PROVE  Fine(n, S, more, lost2) \/ n \in Values(Q)
  <2>1. CASE \A x \in Values(S) : x < n
    BY <1>2, <1>6, <2>1 DEF Fine
  <2>2. CASE Fine(n, S, more, lost) \/ n \in Values(S)
    BY <1>2, <1>5, <2>2
  <2> QED
    BY <2>1, <2>2 DEF NoneLost
<1>8. ASSUME NEW q \in DOMAIN Q
      PROVE  \/ Fine(Q[q], S, more, lost2)
             \/ \A p \in 1 .. q - 1 : Q[p] < Q[q] \/ \E r \in 1 .. p : Q[r] = Q[q]
  <2>1. CASE q \in 1 .. m /\ Q[q] = S[q]
    BY <1>1, <2>1 DEF Fine, Values
  <2>2. CASE q - m \in 1 .. Len(wire) /\ q = m + (q - m) /\ Q[q] = wire[q - m]
    <3>1. PICK k \in 1 .. Len(wire) : k = q - m
      BY <2>2
    <3>2. Q[q] = wire[k] /\ wire[k] = F[at[k]] /\ at[k] \in 1 .. Len(F) /\ wire[k] \in Values(F)
      BY <1>1, <2>2, <3>1 DEF Values
    <3>3. \/ Fine(wire[k], S, more, lost)
          \/ wire[k] \in Values(S)
          \/ \A x \in Values(S) : x < wire[k]
      BY <3>2 DEF NoneLost
    <3>4. CASE Fine(wire[k], S, more, lost) \/ wire[k] \in Values(S)
      BY <1>5, <3>2, <3>4 DEF Fine
    <3>5. CASE \A x \in Values(S) : x < wire[k]
      <4> SUFFICES ASSUME wire[k] \notin lost, NEW p \in 1 .. q - 1
                   PROVE  Q[p] < Q[q]
        BY <3>2 DEF Fine
      <4>1. q \in 1 .. Len(Q) /\ p \in DOMAIN Q /\ p < q
        BY <1>4
      <4>2. CASE p \in 1 .. m /\ Q[p] = S[p]
        BY <1>1, <3>2, <3>5, <4>2 DEF Values
      <4>3. CASE p - m \in 1 .. Len(wire) /\ p = m + (p - m) /\ Q[p] = wire[p - m]
        <5>1. PICK l \in 1 .. Len(wire) : l = p - m
          BY <4>3
        <5>2. l < k
          BY <1>1, <1>4, <3>1, <4>1, <5>1
        <5>3. at[l] < at[k] /\ at[l] \in DOMAIN F /\ at[k] \in DOMAIN F
          BY <1>1, <3>2, <5>2
        <5>4. F[at[l]] < F[at[k]]
          BY <3>2, <5>3 DEF Straight
        <5> QED
          BY <3>2, <4>3, <5>1, <5>4
      <4> QED
        BY <1>3, <4>1, <4>2, <4>3
    <3> QED
      BY <3>3, <3>4, <3>5
  <2> QED
    BY <1>3, <2>1, <2>2
<1>9. \A i \in 1 .. Len(F) : Fine(F[i], S, more, lost2) \/ F[i] \in Values(Q)
  BY <1>1, <1>7 DEF Values
<1>10. Len(F) \in 0 .. Len(F)
  BY <1>1
<1> QED
  BY <1>7, <1>8, <1>9, <1>10 DEF NoneLost, Q

(* The tail of the file is loaded, and the stream asked for.               *)
LEMMA LostTail ==
  ASSUME NEW F \in Seq(Nat), NEW T \in Seq(Nat), T # <<>>, NEW d \in Nat,
         Len(F) = d + Len(T), \A j \in 1 .. Len(T) : T[j] = F[d + j],
         NEW held, NEW lost, NEW lost2, lost \subseteq lost2,
         Straight(F, lost), \A n \in Values(F) : n # 0
  PROVE  NoneLost(F, T, T, T[1] > 1, TRUE, held, 0, lost2)
<1> DEFINE more == T[1] > 1
<1>1. /\ DOMAIN F = 1 .. Len(F) /\ Len(F) \in Nat /\ \A i \in 1 .. Len(F) : F[i] \in Nat
      /\ DOMAIN T = 1 .. Len(T) /\ Len(T) \in Nat /\ Len(T) # 0 /\ T[1] \in Nat
  <2>1. DOMAIN F = 1 .. Len(F) /\ Len(F) \in Nat /\ \A i \in 1 .. Len(F) : F[i] \in Nat
    BY SeqFacts
  <2>2. DOMAIN T = 1 .. Len(T) /\ Len(T) \in Nat /\ \A i \in 1 .. Len(T) : T[i] \in Nat
    BY SeqFacts
  <2>3. Len(T) # 0
    BY SeqFacts
  <2> QED
    BY <2>1, <2>2
<1>2. ASSUME NEW i \in 1 .. Len(F)
      PROVE  Fine(F[i], T, more, lost2)
  <2>1. CASE d < i
    <3>1. i - d \in 1 .. Len(T) /\ d + (i - d) = i
      BY <1>1, <2>1
    <3>2. T[i - d] = F[i]
      BY <3>1
    <3> QED
      BY <1>1, <3>1, <3>2 DEF Fine, Values
  <2>2. CASE i <= d
    <3>1. d + 1 \in 1 .. Len(F) /\ i < d + 1 /\ 1 \in 1 .. Len(T)
      BY <1>1, <2>2
    <3>2. T[1] = F[d + 1]
      BY <3>1
    <3>3. F[i] < T[1] \/ F[i] \in lost
      BY <1>1, <3>1, <3>2 DEF Straight
    <3>4. F[i] \in Nat /\ F[i] # 0
      BY <1>1 DEF Values
    <3>5. F[i] < T[1] => more
      BY <1>1, <3>4
    <3> HIDE DEF more
    <3> QED
      BY <3>3, <3>5 DEF Fine
  <2> QED
    BY <1>1, <2>1, <2>2
<1>3. \A n \in Values(F) : Fine(n, T, more, lost2)
  BY <1>1, <1>2 DEF Values
<1>4. \A q \in DOMAIN T : Fine(T[q], T, more, lost2)
  BY DEF Fine, Values
<1>5. 0 \in 0 .. Len(F) /\ 1 .. 0 = {}
  BY <1>1
<1> HIDE DEF more
<1>6. NoneLost(F, T, T, more, TRUE, held, 0, lost2)
  BY <1>3, <1>4, <1>5 DEF NoneLost
<1> QED
  BY <1>6 DEF more

(* There is nothing to load, or it failed.                                 *)
LEMMA LostNothing ==
  ASSUME NEW F \in Seq(Nat), NEW more, NEW held, NEW lost
  PROVE  NoneLost(F, <<>>, <<>>, more, TRUE, held, 0, lost)
<1>1. Values(<<>>) = {} /\ DOMAIN <<>> = {}
  BY DEF Values
<1>2. 0 \in 0 .. Len(F) /\ 1 .. 0 = {}
  BY SeqFacts
<1> QED
  BY <1>1, <1>2 DEF NoneLost

(* A page is loaded: the last of the lines below the first event.          *)
LEMMA LostPage ==
  ASSUME NEW F \in Seq(Nat), NEW S \in Seq(Nat), NEW P \in Seq(Nat), NEW O \in Seq(Nat),
         NEW more, NEW opening, NEW held, NEW read, NEW lost, NEW lost2,
         lost \subseteq lost2, S # <<>>, P # <<>>, P[1] = S[1], O # <<>>,
         \A n \in Values(F) : n < S[1] => n \in Values(O) \/ n < O[1] \/ n \in lost,
         \A x \in Values(O) : x < S[1],
         Values(P) \subseteq Values(F), \A n \in Values(F) : n # 0,
         NoneLost(F, S, P, more, opening, held, read, lost)
  PROVE  NoneLost(F, O \o S, O \o P, O[1] > 1, opening, held, read, lost2)
<1> DEFINE now == O \o S
           Q == O \o P
           more2 == O[1] > 1
           m == Len(O)
<1>1. /\ m \in Nat /\ DOMAIN O = 1 .. m /\ \A i \in 1 .. m : O[i] \in Nat
      /\ DOMAIN P = 1 .. Len(P) /\ Len(P) \in Nat /\ \A i \in 1 .. Len(P) : P[i] \in Nat
      /\ Values(F) \subseteq Nat /\ 1 \in DOMAIN P /\ 1 \in DOMAIN O /\ m # 0
      /\ S[1] \in Values(P) /\ S[1] \in Nat /\ O[1] \in Nat
      /\ DOMAIN F = 1 .. Len(F) /\ Len(F) \in Nat
      /\ Values(O) \subseteq Nat
  <2>1. /\ m \in Nat /\ DOMAIN O = 1 .. m /\ \A i \in 1 .. m : O[i] \in Nat
        /\ DOMAIN P = 1 .. Len(P) /\ Len(P) \in Nat /\ \A i \in 1 .. Len(P) : P[i] \in Nat
        /\ m # 0 /\ Len(P) # 0 /\ Values(O) \subseteq Nat
    BY SeqFacts
  <2>2. DOMAIN F = 1 .. Len(F) /\ Len(F) \in Nat /\ Values(F) \subseteq Nat
    BY SeqFacts
  <2>3. 1 \in DOMAIN P /\ 1 \in DOMAIN O
    BY <2>1
  <2> HIDE DEF m
  <2> QED
    BY <2>1, <2>2, <2>3 DEF Values
<1>2. /\ now \in Seq(Nat) /\ Values(now) = Values(O) \cup Values(S) /\ now # <<>>
      /\ now[1] = O[1]
      /\ Values(Q) = Values(O) \cup Values(P)
      /\ \A i \in 1 .. Len(P) : Q[m + i] = P[i]
  BY <1>1, CatFacts
<1>3. ASSUME NEW i \in DOMAIN Q
      PROVE  \/ i \in 1 .. m /\ Q[i] = O[i]
             \/ i - m \in 1 .. Len(P) /\ i = m + (i - m) /\ Q[i] = P[i - m]
  BY CatPlaces
<1>4. \A n \in Nat : n # 0 /\ n < O[1] => more2
  BY <1>1
<1> HIDE DEF now, Q, more2, m
<1>5. ASSUME NEW n \in Values(F), Fine(n, S, more, lost)
      PROVE  Fine(n, now, more2, lost2)
  <2>1. n \in Nat /\ n # 0
    BY <1>1
  <2>2. CASE n \in Values(S) \/ n \in lost
    BY <1>2, <2>2 DEF Fine
  <2>3. CASE n < S[1]
    <3>1. CASE n \in Values(O) \/ n \in lost
      BY <1>2, <3>1 DEF Fine
    <3>2. CASE n < O[1]
      BY <1>2, <1>4, <2>1, <3>2 DEF Fine
    <3> QED
      BY <2>3, <3>1, <3>2
  <2> QED
    BY <1>5, <2>2, <2>3 DEF Fine
<1>6. ASSUME NEW n \in Nat, \A x \in Values(P) : x < n
      PROVE  \A x \in Values(Q) : x < n
  <2> SUFFICES ASSUME NEW x \in Values(O) PROVE x < n
    BY <1>2, <1>6
  <2>1. x < S[1] /\ S[1] < n /\ x \in Nat
    BY <1>1, <1>6
  <2> QED
    BY <1>1, <2>1
<1>7. ASSUME NEW n \in Values(F)
      PROVE  \/ Fine(n, now, more2, lost2)
             \/ n \in Values(Q)
             \/ (\A x \in Values(Q) : x < n) /\ (opening \/ n \in held)
  BY <1>1, <1>2, <1>5, <1>6 DEF NoneLost
<1>8. ASSUME NEW q \in DOMAIN Q
      PROVE  \/ Fine(Q[q], now, more2, lost2)
             \/ \A p \in 1 .. q - 1 : Q[p] < Q[q] \/ \E r \in 1 .. p : Q[r] = Q[q]
  <2>1. CASE q \in 1 .. m /\ Q[q] = O[q]
    <3>1. Q[q] \in Values(O)
      BY <1>1, <2>1 DEF Values
    <3> QED
      BY <1>2, <3>1 DEF Fine
  <2>2. CASE q - m \in 1 .. Len(P) /\ q = m + (q - m) /\ Q[q] = P[q - m]
    <3>1. PICK k \in 1 .. Len(P) : k = q - m
      BY <2>2
    <3>2. Q[q] = P[k] /\ P[k] \in Values(F) /\ q = m + k /\ P[k] \in Nat
      BY <1>1, <2>2, <3>1 DEF Values
    <3>3. CASE Fine(P[k], S, more, lost)
      BY <1>5, <3>2, <3>3
    <3>4. CASE \A p \in 1 .. k - 1 : P[p] < P[k] \/ \E r \in 1 .. p : P[r] = P[k]
      <4>1. CASE k = 1
        <5>1. Fine(P[k], now, more2, lost2)
          <6>1. P[k] = S[1] /\ S[1] \in Values(S)
            <7>1. 1 \in DOMAIN S
              BY SeqFacts
            <7> QED
              BY <4>1, <7>1 DEF Values
          <6> QED
            BY <1>2, <6>1 DEF Fine
        <5> QED
          BY <3>2, <5>1
      <4>2. CASE k # 1
        <5>1. 1 \in 1 .. k - 1 /\ 1 .. 1 = {1}
          BY <4>2
        <5>2. P[1] < P[k] \/ P[1] = P[k]
          BY <3>4, <5>1
        <5> SUFFICES ASSUME NEW p \in 1 .. q - 1
                     PROVE  Q[p] < Q[q] \/ \E r \in 1 .. p : Q[r] = Q[q]
          OBVIOUS
        <5>3. p \in DOMAIN Q /\ p \in Nat /\ q \in Nat /\ p < q
          <6>1. DOMAIN Q = 1 .. Len(Q) /\ Len(Q) \in Nat
            <7>1. Q \in Seq(Nat)
              BY CatFacts DEF Q
            <7> QED
              BY <7>1, SeqFacts
          <6>2. PICK l \in Nat : l = Len(Q)
            BY <6>1
          <6>3. q \in 1 .. l
            BY <6>1, <6>2
          <6>4. p \in 1 .. l /\ p \in Nat /\ q \in Nat /\ p < q
            BY <6>3
          <6> QED
            BY <6>1, <6>2, <6>4
        <5>4. CASE p \in 1 .. m /\ Q[p] = O[p]
          <6>1. Q[p] < S[1] /\ Q[p] \in Nat
            BY <1>1, <5>4 DEF Values
          <6>2. S[1] \in Nat /\ P[k] \in Nat /\ S[1] <= P[k]
            <7>1. S[1] \in Nat /\ P[1] = S[1]
              BY <1>1
            <7>2. P[k] \in Nat
              BY <1>1, <3>2
            <7> QED
              BY <5>2, <7>1, <7>2
          <6>3. \A x, y, z \in Nat : x < y /\ y <= z => x < z
            OBVIOUS
          <6>4. Q[p] < P[k]
            BY <6>1, <6>2, <6>3
          <6> QED
            BY <3>2, <6>4
        <5>5. CASE p - m \in 1 .. Len(P) /\ p = m + (p - m) /\ Q[p] = P[p - m]
          <6>1. PICK l \in 1 .. Len(P) : l = p - m
            BY <5>5
          <6>2. l \in 1 .. k - 1 /\ p = m + l
            BY <1>1, <3>2, <5>3, <5>5, <6>1
          <6>3. CASE P[l] < P[k]
            BY <3>2, <5>5, <6>1, <6>3
          <6>4. ASSUME NEW r \in 1 .. l, P[r] = P[k]
                PROVE  \E u \in 1 .. p : Q[u] = Q[q]
            <7>1. m + r \in 1 .. p /\ r \in 1 .. Len(P)
              BY <1>1, <6>2
            <7>2. Q[m + r] = P[r]
              BY <1>2, <7>1
            <7> QED
              BY <3>2, <6>4, <7>1, <7>2
          <6> QED
            BY <3>4, <6>2, <6>3, <6>4
        <5> QED
          BY <1>3, <5>3, <5>4, <5>5
      <4> QED
        BY <4>1, <4>2
    <3> QED
      BY <1>1, <3>3, <3>4 DEF NoneLost
  <2> QED
    BY <1>3, <2>1, <2>2
<1>9. read \in 0 .. Len(F)
  BY DEF NoneLost
<1>10. \A i \in 1 .. read : Fine(F[i], now, more2, lost2) \/ F[i] \in Values(Q)
  <2> SUFFICES ASSUME NEW i \in 1 .. read
               PROVE  Fine(F[i], now, more2, lost2) \/ F[i] \in Values(Q)
    OBVIOUS
  <2>1. i \in DOMAIN F
    BY <1>1, <1>9
  <2>2. F[i] \in Values(F)
    BY <2>1 DEF Values
  <2> QED
    BY <1>2, <1>5, <2>2 DEF NoneLost
<1>11. NoneLost(F, now, Q, more2, opening, held, read, lost2)
  BY <1>7, <1>8, <1>9, <1>10 DEF NoneLost
<1> QED
  BY <1>11 DEF now, Q, more2

(* There is no older page.                                                 *)
LEMMA LostNoPage ==
  ASSUME NEW F \in Seq(Nat), NEW S \in Seq(Nat), NEW P, S # <<>>,
         \A n \in Values(F) : ~(n < S[1]), Values(P) \subseteq Values(F),
         NEW more, NEW more2, NEW opening, NEW held, NEW read, NEW lost, NEW lost2,
         lost \subseteq lost2, NoneLost(F, S, P, more, opening, held, read, lost)
  PROVE  NoneLost(F, S, P, more2, opening, held, read, lost2)
<1>1. \A n \in Values(F) : Fine(n, S, more, lost) => Fine(n, S, more2, lost2)
  BY DEF Fine
<1>2. \A q \in DOMAIN P : P[q] \in Values(F)
  BY DEF Values
<1>3. read \in 0 .. Len(F) /\ \A i \in 1 .. read : F[i] \in Values(F)
  <2>1. Len(F) \in Nat /\ DOMAIN F = 1 .. Len(F)
    BY SeqFacts
  <2>2. read \in 0 .. Len(F)
    BY DEF NoneLost
  <2>3. \A i \in 1 .. read : i \in DOMAIN F
    BY <2>1, <2>2
  <2> QED
    BY <2>2, <2>3 DEF Values
<1> QED
  BY <1>1, <1>2, <1>3 DEF NoneLost

(* An event is received.                                                   *)
LEMMA LostDeliver ==
  ASSUME NEW F, NEW S \in Seq(Nat), NEW P, NEW n \in Nat,
         NEW more, NEW opening, NEW held, NEW read, NEW lost,
         NoneLost(F, S, P, more, opening, held, read, lost)
  PROVE  NoneLost(F, Append(S, n), P, more, opening, held, read, lost)
<1>1. Values(S) \subseteq Values(Append(S, n)) /\ Append(S, n) # <<>>
  BY AppendFacts
<1>2. S # <<>> => Append(S, n)[1] = S[1]
  <2>1. S # <<>> => 1 \in 1 .. Len(S)
    BY SeqFacts
  <2> QED
    BY <2>1, AppendFacts
<1>3. \A x : Fine(x, S, more, lost) => Fine(x, Append(S, n), more, lost)
  BY <1>1, <1>2 DEF Fine
<1> QED
  BY <1>3 DEF NoneLost

(* A stream breaks: what it was to bring is above what the pane has.       *)
LEMMA LostDrop ==
  ASSUME NEW F \in Seq(Nat), NEW S \in Seq(Nat), NEW P, NEW more, NEW opening,
         NEW held, NEW held2, NEW read, NEW lost,
         DOMAIN S \subseteq DOMAIN P, \A i \in DOMAIN S : P[i] = S[i],
         DOMAIN P = 1 .. Len(P), Len(P) \in Nat,
         NoneLost(F, S, P, more, opening, held, read, lost)
  PROVE  NoneLost(F, S, S, more, TRUE, held2, 0, lost)
<1>1. Len(S) \in Nat /\ DOMAIN S = 1 .. Len(S) /\ Len(F) \in Nat
  BY SeqFacts
<1>2. Values(S) \subseteq Values(P)
  BY DEF Values
<1>3. ASSUME NEW n \in Values(F)
      PROVE  Fine(n, S, more, lost) \/ \A x \in Values(S) : x < n
  <2>1. CASE n \in Values(P)
    <3>1. PICK q \in DOMAIN P : P[q] = n
      BY <2>1 DEF Values
    <3>2. CASE q \in DOMAIN S
      BY <3>1, <3>2 DEF Fine, Values
    <3>3. CASE q \notin DOMAIN S /\ \A p \in 1 .. q - 1 : P[p] < P[q] \/ \E r \in 1 .. p : P[r] = P[q]
      <4> SUFFICES ASSUME n \notin Values(S), NEW i \in DOMAIN S
                   PROVE  S[i] < n
        BY DEF Fine, Values
      <4>1. i \in 1 .. q - 1 /\ \A r \in 1 .. i : r \in DOMAIN S
        BY <1>1, <3>3
      <4>2. \A r \in 1 .. i : P[r] # n
        BY <4>1 DEF Values
      <4> QED
        BY <3>1, <3>3, <4>1, <4>2
    <3> QED
      BY <3>1, <3>2, <3>3 DEF NoneLost
  <2>2. CASE n \notin Values(P)
    BY <1>2, <2>2 DEF NoneLost
  <2> QED
    BY <2>1, <2>2
<1>4. \A q \in DOMAIN S : Fine(S[q], S, more, lost)
  BY DEF Fine, Values
<1>5. 0 \in 0 .. Len(F) /\ 1 .. 0 = {}
  BY <1>1
<1> QED
  BY <1>3, <1>4, <1>5 DEF NoneLost

(* A stream is subscribed; more is known to be lost.                       *)
LEMMA LostMore ==
  ASSUME NEW F \in Seq(Nat), NEW S, NEW P, NEW more, NEW opening, NEW held, NEW read,
         NEW read2 \in {0, read}, NEW lost, NEW lost2, lost \subseteq lost2,
         NoneLost(F, S, P, more, opening, held, read, lost)
  PROVE  NoneLost(F, S, P, more, opening, held, read2, lost2)
<1>1. \A x : Fine(x, S, more, lost) => Fine(x, S, more, lost2)
  BY DEF Fine
<1>2. read2 \in 0 .. Len(F) /\ \A i \in 1 .. read2 : i \in 1 .. read
  <2>1. read \in 0 .. Len(F) /\ Len(F) \in Nat
    BY SeqFacts DEF NoneLost
  <2> QED
    BY <2>1
<1> QED
  BY <1>1, <1>2 DEF NoneLost

-----------------------------------------------------------------------------
(* What the server reads from the file.                                    *)

LEMMA LastOfFacts ==
  ASSUME NEW T, NEW s \in Seq(T), NEW n \in Nat \ {0}
  PROVE  /\ LastOf(s, n) \in Seq(T)
         /\ LastOf(s, n) = <<>> <=> s = <<>>
         /\ \E d \in Nat : /\ Len(s) = d + Len(LastOf(s, n))
                           /\ \A j \in 1 .. Len(LastOf(s, n)) : LastOf(s, n)[j] = s[d + j]
<1> DEFINE u == LastOf(s, n)
           l == Len(s)
           d == IF l > n THEN l - n ELSE 0
<1>1. l \in Nat /\ DOMAIN s = 1 .. l /\ (\A i \in 1 .. l : s[i] \in T) /\ n \in Nat /\ n # 0
  BY SeqFacts
<1>2. u = SubSeq(s, IF l > n THEN l - n + 1 ELSE 1, l)
  BY DEF LastOf
<1> HIDE DEF u, l
<1>3. d \in Nat /\ d <= l /\ (d = l <=> l = 0)
  BY <1>1
<1>4. u = SubSeq(s, d + 1, l)
  BY <1>1, <1>2
<1> HIDE DEF d
<1>5. \A i \in d + 1 .. l : s[i] \in T
  <2>1. \A i \in d + 1 .. l : i \in 1 .. l
    BY <1>1, <1>3
  <2> QED
    BY <1>1, <2>1
<1>6. /\ u \in Seq(T)
      /\ Len(u) = IF d + 1 <= l THEN l - (d + 1) + 1 ELSE 0
      /\ \A i \in 1 .. l - (d + 1) + 1 : u[i] = s[(d + 1) + i - 1]
  <2>1. d + 1 \in Int /\ l \in Int
    BY <1>1, <1>3
  <2> QED
    BY <1>4, <1>5, <2>1, SubSeqProperties
<1>7. Len(u) \in Nat /\ l = d + Len(u)
  BY <1>1, <1>3, <1>6
<1>8. \A i \in 1 .. Len(u) : u[i] = s[d + i]
  <2> SUFFICES ASSUME NEW i \in 1 .. Len(u) PROVE u[i] = s[d + i]
    OBVIOUS
  <2>1. i \in 1 .. l - (d + 1) + 1 /\ (d + 1) + i - 1 = d + i
    BY <1>1, <1>3, <1>7
  <2> QED
    BY <1>6, <2>1
<1>9. u = <<>> <=> s = <<>>
  <2>1. (u = <<>> <=> Len(u) = 0) /\ (s = <<>> <=> l = 0)
    BY <1>6, SeqFacts DEF l
  <2> QED
    BY <1>1, <1>3, <1>7, <2>1
<1> QED
  BY <1>3, <1>6, <1>7, <1>8, <1>9 DEF u, l

(* A replay has lines of the file, in their order, above the number that   *)
(* the stream resumes at.                                                  *)
LEMMA ReplayFacts ==
  ASSUME NEW a, file[a] \in Seq(Nat), NEW since \in Nat
  PROVE  /\ Replay(a, since) \in Seq(Nat)
         /\ \E at \in [1 .. Len(Replay(a, since)) -> DOMAIN file[a]] :
                /\ \A j \in 1 .. Len(Replay(a, since)) :
                      Replay(a, since)[j] = file[a][at[j]] /\ since < Replay(a, since)[j]
                /\ \A j, k \in 1 .. Len(Replay(a, since)) : j < k => at[j] < at[k]
<1> DEFINE F == file[a]
           places == {i \in DOMAIN F : Above(since, F[i])}
           newer == Kept(F, places)
           n == IF Len(newer) < ReplayLimit THEN Len(newer) ELSE ReplayLimit
           r == Replay(a, since)
<1>1. places \in SUBSET DOMAIN F /\ \A i \in places : since < F[i]
  <2>1. \A i \in DOMAIN F : F[i] \in Nat
    BY SeqFacts
  <2> QED
    BY <2>1 DEF Above
<1>2. CASE since = 0
  <2>1. r = <<>>
    BY <1>2 DEF Replay
  <2>2. <<>> \in Seq(Nat) /\ Len(<<>>) = 0 /\ 1 .. 0 = {}
    OBVIOUS
  <2> DEFINE at == [j \in 1 .. 0 |-> 0]
  <2>3. at \in [1 .. 0 -> DOMAIN F]
    BY <2>2
  <2> HIDE DEF at, F, r
  <2>4. /\ r \in Seq(Nat)
        /\ \E to \in [1 .. Len(r) -> DOMAIN F] :
              /\ \A j \in 1 .. Len(r) : r[j] = F[to[j]] /\ since < r[j]
              /\ \A j, k \in 1 .. Len(r) : j < k => to[j] < to[k]
    BY <2>1, <2>2, <2>3
  <2> QED
    BY <2>4 DEF r, F
<1>3. CASE since # 0
  <2>1. r = SubSeq(newer, 1, n)
    BY <1>3 DEF Replay
  <2> HIDE DEF places, newer
  <2>2. PICK at \in [1 .. Len(newer) -> places] :
            /\ newer \in Seq(Nat)
            /\ \A j \in 1 .. Len(newer) : newer[j] = F[at[j]]
            /\ \A j, k \in 1 .. Len(newer) : j < k => at[j] < at[k]
    <3> HIDE DEF F
    <3>1. F \in Seq(Nat)
      BY DEF F
    <3> QED
      BY <1>1, <3>1, KeptFacts DEF newer, Picking
  <2>3. Len(newer) \in Nat /\ \A i \in 1 .. Len(newer) : newer[i] \in Nat
    BY <2>2, SeqFacts
  <2>4. n \in Nat /\ n <= Len(newer)
    BY <2>3, LimitAssumption
  <2> HIDE DEF n, F, r
  <2>5. \A i \in 1 .. n : i \in 1 .. Len(newer) /\ 1 + i - 1 = i
    BY <2>3, <2>4
  <2>6. r \in Seq(Nat) /\ Len(r) = n /\ \A i \in 1 .. n : r[i] = newer[i]
    <3>1. /\ r \in Seq(Nat)
          /\ Len(r) = IF 1 <= n THEN n - 1 + 1 ELSE 0
          /\ \A i \in 1 .. n - 1 + 1 : r[i] = newer[1 + i - 1]
      BY <2>1, <2>3, <2>4, <2>5, SubSeqProperties
    <3>2. Len(r) = n /\ n - 1 + 1 = n
      BY <2>4, <3>1
    <3> QED
      BY <2>5, <3>1, <3>2
  <2> DEFINE to == [j \in 1 .. n |-> at[j]]
  <2>7. \A j \in 1 .. n : to[j] = at[j] /\ at[j] \in places /\ at[j] \in DOMAIN F
    BY <1>1, <2>2, <2>5
  <2>8. to \in [1 .. Len(r) -> DOMAIN F]
    BY <2>6, <2>7
  <2> HIDE DEF to
  <2>9. /\ \A j \in 1 .. Len(r) : r[j] = F[to[j]] /\ since < r[j]
        /\ \A j, k \in 1 .. Len(r) : j < k => to[j] < to[k]
    BY <1>1, <2>2, <2>5, <2>6, <2>7
  <2> QED
    BY <2>6, <2>8, <2>9 DEF r, F
<1> QED
  BY <1>2, <1>3

(* The numbers of events.                                                  *)
NumbersOf(evts) == [i \in DOMAIN evts |-> evts[i].seq]

LEMMA NumbersFacts ==
  ASSUME NEW evts \in Seq(Event)
  PROVE  /\ NumbersOf(evts) \in Seq(Nat)
         /\ Len(NumbersOf(evts)) = Len(evts)
         /\ DOMAIN NumbersOf(evts) = DOMAIN evts
         /\ \A i \in DOMAIN evts : NumbersOf(evts)[i] = evts[i].seq
         /\ Values(NumbersOf(evts)) = {e.seq : e \in Values(evts)}
         /\ NumbersOf(evts) = <<>> <=> evts = <<>>
         /\ evts # <<>> => NumbersOf(evts)[1] = First(evts)
         /\ LastOr0(NumbersOf(evts)) = Last(evts)
<1> DEFINE s == NumbersOf(evts)
<1>1. /\ Len(evts) \in Nat /\ DOMAIN evts = 1 .. Len(evts)
      /\ \A i \in 1 .. Len(evts) : evts[i] \in Event
      /\ evts = <<>> <=> Len(evts) = 0
  BY SeqFacts
<1>2. DOMAIN s = 1 .. Len(evts) /\ \A i \in 1 .. Len(evts) : s[i] = evts[i].seq /\ s[i] \in Nat
  BY <1>1 DEF NumbersOf, Event
<1>3. s \in Seq(Nat) /\ Len(s) = Len(evts)
  <2>1. s \in [1 .. Len(evts) -> Nat]
    BY <1>1, <1>2 DEF NumbersOf
  <2> HIDE DEF s
  <2> QED
    BY <1>1, <2>1
<1> HIDE DEF s
<1>4. s = <<>> <=> Len(s) = 0
  BY <1>3, SeqFacts
<1>5. Values(s) = {e.seq : e \in Values(evts)}
  BY <1>1, <1>2 DEF Values
<1>6. evts # <<>> => s[1] = First(evts) /\ s[Len(s)] = evts[Len(evts)].seq
  <2>1. evts # <<>> => 1 \in 1 .. Len(evts) /\ Len(evts) \in 1 .. Len(evts)
    BY <1>1
  <2> QED
    BY <1>2, <1>3, <2>1 DEF First
<1>7. LastOr0(s) = Last(evts)
  BY <1>1, <1>3, <1>4, <1>6 DEF LastOr0, Last
<1> QED
  BY <1>1, <1>2, <1>3, <1>4, <1>5, <1>6, <1>7 DEF s

LEMMA NumbersAppend ==
  ASSUME NEW evts \in Seq(Event), NEW e \in Event
  PROVE  NumbersOf(Append(evts, e)) = Append(NumbersOf(evts), e.seq)
<1> DEFINE t == Append(evts, e)
           s == NumbersOf(evts)
<1>1. /\ t \in Seq(Event) /\ Len(t) = Len(evts) + 1 /\ t[Len(evts) + 1] = e
      /\ \A i \in 1 .. Len(evts) : t[i] = evts[i]
      /\ Len(evts) \in Nat /\ DOMAIN evts = 1 .. Len(evts)
  BY AppendFacts, SeqFacts
<1>2. /\ NumbersOf(t) \in Seq(Nat) /\ Len(NumbersOf(t)) = Len(t) /\ DOMAIN t = 1 .. Len(t)
      /\ \A i \in DOMAIN t : NumbersOf(t)[i] = t[i].seq
      /\ s \in Seq(Nat) /\ Len(s) = Len(evts) /\ e.seq \in Nat
      /\ \A i \in DOMAIN evts : s[i] = evts[i].seq
  <2>1. e.seq \in Nat
    BY DEF Event
  <2> QED
    BY <1>1, <2>1, NumbersFacts, SeqFacts
<1> HIDE DEF t, s
<1>3. /\ Append(s, e.seq) \in Seq(Nat) /\ Len(Append(s, e.seq)) = Len(evts) + 1
      /\ Append(s, e.seq)[Len(evts) + 1] = e.seq
      /\ \A i \in 1 .. Len(evts) : Append(s, e.seq)[i] = s[i]
  BY <1>2, AppendFacts
<1>4. \A i \in 1 .. Len(evts) + 1 : NumbersOf(t)[i] = Append(s, e.seq)[i]
  <2> SUFFICES ASSUME NEW i \in 1 .. Len(evts) + 1
               PROVE  NumbersOf(t)[i] = Append(s, e.seq)[i]
    OBVIOUS
  <2>1. NumbersOf(t)[i] = t[i].seq
    BY <1>1, <1>2
  <2>2. CASE i \in 1 .. Len(evts)
    BY <1>1, <1>2, <1>3, <2>1, <2>2
  <2>3. CASE i = Len(evts) + 1
    BY <1>1, <1>3, <2>1, <2>3
  <2>4. i \in 1 .. Len(evts) \/ i = Len(evts) + 1
    <3>1. Len(evts) \in Nat
      BY <1>1
    <3> QED
      BY <3>1
  <2> QED
    BY <2>2, <2>3, <2>4
<1>5. NumbersOf(t) = Append(s, e.seq)
  BY <1>1, <1>2, <1>3, <1>4, SeqEqual
<1> QED
  BY <1>5 DEF t, s

LEMMA CatEqual ==
  ASSUME NEW r \in Seq(Nat), NEW s \in Seq(Nat), NEW t \in Seq(Nat),
         Len(t) = Len(r) + Len(s), \A i \in 1 .. Len(r) : t[i] = r[i],
         \A i \in 1 .. Len(s) : t[Len(r) + i] = s[i]
  PROVE  t = r \o s
<1>1. /\ r \o s \in Seq(Nat) /\ Len(r \o s) = Len(r) + Len(s)
      /\ \A i \in 1 .. Len(r) + Len(s) : (r \o s)[i] = IF i <= Len(r) THEN r[i] ELSE s[i - Len(r)]
  BY ConcatProperties
<1> DEFINE m == Len(r)
           k == Len(s)
<1>2. m \in Nat /\ k \in Nat
  OBVIOUS
<1>3. ASSUME NEW i \in 1 .. Len(t)
      PROVE  t[i] = (r \o s)[i]
  <2>1. i \in 1 .. m + k
    OBVIOUS
  <2> HIDE DEF m, k
  <2>2. CASE i <= m
    <3>1. i \in 1 .. m
      BY <1>2, <2>1, <2>2
    <3> QED
      BY <1>1, <2>1, <2>2, <3>1 DEF m, k
  <2>3. CASE ~(i <= m)
    <3>1. i - m \in 1 .. k /\ m + (i - m) = i
      BY <1>2, <2>1, <2>3
    <3>2. t[m + (i - m)] = s[i - m]
      BY <3>1 DEF m, k
    <3> QED
      BY <1>1, <2>1, <2>3, <3>1, <3>2 DEF m, k
  <2> QED
    BY <2>2, <2>3
<1> QED
  BY <1>1, <1>3, SeqEqual

LEMMA NumbersCat ==
  ASSUME NEW older \in Seq(Event), NEW evts \in Seq(Event)
  PROVE  NumbersOf(older \o evts) = NumbersOf(older) \o NumbersOf(evts)
<1> DEFINE t == older \o evts
           m == Len(older)
           k == Len(evts)
<1>0. PICK r \in Seq(Nat), s \in Seq(Nat) : r = NumbersOf(older) /\ s = NumbersOf(evts)
  BY NumbersFacts
<1>1. /\ t \in Seq(Event) /\ Len(t) = m + k
      /\ m \in Nat /\ k \in Nat
      /\ DOMAIN older = 1 .. m /\ DOMAIN evts = 1 .. k
      /\ \A i \in 1 .. m : t[i] = older[i]
      /\ \A i \in 1 .. k : t[m + i] = evts[i]
  BY CatFacts, SeqFacts
<1>2. /\ NumbersOf(t) \in Seq(Nat) /\ Len(NumbersOf(t)) = Len(t) /\ DOMAIN t = 1 .. Len(t)
      /\ \A i \in DOMAIN t : NumbersOf(t)[i] = t[i].seq
      /\ s \in Seq(Nat) /\ Len(s) = k /\ r \in Seq(Nat) /\ Len(r) = m
      /\ \A i \in DOMAIN evts : s[i] = evts[i].seq
      /\ \A i \in DOMAIN older : r[i] = older[i].seq
  <2>1. DOMAIN t = 1 .. Len(t)
    BY <1>1, SeqFacts
  <2>2. /\ NumbersOf(t) \in Seq(Nat) /\ Len(NumbersOf(t)) = Len(t)
        /\ \A i \in DOMAIN t : NumbersOf(t)[i] = t[i].seq
    BY <1>1, NumbersFacts
  <2>3. Len(s) = k /\ \A i \in DOMAIN evts : s[i] = evts[i].seq
    BY <1>0, NumbersFacts
  <2>4. Len(r) = m /\ \A i \in DOMAIN older : r[i] = older[i].seq
    BY <1>0, NumbersFacts
  <2> QED
    BY <1>0, <2>1, <2>2, <2>3, <2>4
<1> HIDE DEF t, m, k
<1>3. m \in Nat /\ k \in Nat /\ DOMAIN t = 1 .. m + k
  BY <1>1, <1>2
<1>4. ASSUME NEW i \in 1 .. m
      PROVE  NumbersOf(t)[i] = r[i]
  <2>1. i \in 1 .. m + k
    BY <1>3
  <2>2. i \in DOMAIN t /\ t[i] = older[i] /\ i \in DOMAIN older
    BY <1>1, <1>3, <2>1
  <2> QED
    BY <1>2, <2>2
<1>5. ASSUME NEW i \in 1 .. k
      PROVE  NumbersOf(t)[m + i] = s[i]
  <2>1. m + i \in 1 .. m + k
    BY <1>3
  <2>2. m + i \in DOMAIN t /\ t[m + i] = evts[i] /\ i \in DOMAIN evts
    BY <1>1, <1>3, <2>1
  <2> QED
    BY <1>2, <2>2
<1>6. NumbersOf(t) \in Seq(Nat) /\ Len(NumbersOf(t)) = m + k /\ Len(r) = m /\ Len(s) = k
  BY <1>1, <1>2
<1>7. NumbersOf(t) = r \o s
  <2>1. /\ Len(NumbersOf(t)) = Len(r) + Len(s)
        /\ \A i \in 1 .. Len(r) : NumbersOf(t)[i] = r[i]
        /\ \A i \in 1 .. Len(s) : NumbersOf(t)[Len(r) + i] = s[i]
    BY <1>4, <1>5, <1>6
  <2> QED
    BY <1>6, <2>1, CatEqual
<1> QED
  BY <1>0, <1>7 DEF t

(* The lines of an answer, without the attempt they are of.                *)
Lines(request) ==
    IF request.kind = "tail" THEN LastOf(file[request.att], TailSize)
    ELSE LastOf(Kept(file[request.att],
                     {i \in DOMAIN file[request.att] : file[request.att][i] < request.before}),
                PageSize)

LEMMA AnswerFacts ==
  ASSUME NEW request, request.att \in Attempts, Lines(request) \in Seq(Nat)
  PROVE  /\ Answer(request) \in Seq(Event)
         /\ NumbersOf(Answer(request)) = Lines(request)
         /\ \A e \in Values(Answer(request)) : e.att = request.att
<1> DEFINE lines == Lines(request)
           A == Answer(request)
<1>1. A = [i \in DOMAIN lines |-> [att |-> request.att, seq |-> lines[i]]]
  BY DEF Answer, Lines
<1> HIDE DEF lines, A
<1>2. /\ Len(lines) \in Nat /\ DOMAIN lines = 1 .. Len(lines)
      /\ \A i \in 1 .. Len(lines) : lines[i] \in Nat
      /\ lines = [i \in 1 .. Len(lines) |-> lines[i]]
  BY SeqFacts DEF lines
<1>3. A \in [1 .. Len(lines) -> Event]
  BY <1>1, <1>2 DEF Event
<1>4. A \in Seq(Event) /\ DOMAIN A = 1 .. Len(lines)
  BY <1>2, <1>3
<1>5. \A i \in 1 .. Len(lines) : A[i].seq = lines[i] /\ A[i].att = request.att
  BY <1>1, <1>2
<1>6. NumbersOf(A) = lines
  BY <1>2, <1>4, <1>5 DEF NumbersOf
<1>7. \A e \in Values(A) : e.att = request.att
  BY <1>4, <1>5 DEF Values
<1> QED
  BY <1>4, <1>6, <1>7 DEF A, lines

(* The tail is the end of the file.                                        *)
LEMMA TailFacts ==
  ASSUME NEW request, request.kind = "tail", file[request.att] \in Seq(Nat)
  PROVE  /\ Lines(request) \in Seq(Nat)
         /\ Lines(request) = <<>> <=> file[request.att] = <<>>
         /\ \E d \in Nat : /\ Len(file[request.att]) = d + Len(Lines(request))
                           /\ \A j \in 1 .. Len(Lines(request)) :
                                 Lines(request)[j] = file[request.att][d + j]
<1>1. Lines(request) = LastOf(file[request.att], TailSize)
  BY DEF Lines
<1> DEFINE l == Lines(request)
           F == file[request.att]
<1> HIDE DEF l, F
<1>2. l = LastOf(F, TailSize) /\ F \in Seq(Nat) /\ TailSize \in Nat \ {0}
  BY <1>1, SizeAssumption DEF l, F
<1>3. /\ l \in Seq(Nat) /\ (l = <<>> <=> F = <<>>)
      /\ \E d \in Nat : Len(F) = d + Len(l) /\ \A j \in 1 .. Len(l) : l[j] = F[d + j]
  BY <1>2, LastOfFacts
<1> QED
  BY <1>3 DEF l, F

(* A page has lines below its bound, and leaves only lines before its first*)
(* one.                                                                    *)
LEMMA PageFacts ==
  ASSUME NEW request, request.kind # "tail", file[request.att] \in Seq(Nat)
  PROVE  LET l == Lines(request)
             F == file[request.att]
         IN  /\ l \in Seq(Nat)
             /\ \E at \in [1 .. Len(l) -> DOMAIN F] :
                   /\ \A j \in 1 .. Len(l) : l[j] = F[at[j]] /\ l[j] < request.before
                   /\ \A j, k \in 1 .. Len(l) : j < k => at[j] < at[k]
                   /\ \A i \in DOMAIN F :
                         F[i] < request.before =>
                            /\ l # <<>>
                            /\ F[i] \in Values(l) \/ i < at[1]
<1> DEFINE l == Lines(request)
           F == file[request.att]
           places == {i \in DOMAIN F : F[i] < request.before}
           older == Kept(F, places)
<1>1. l = LastOf(older, PageSize)
  BY DEF Lines
<1>2. places \in SUBSET DOMAIN F /\ \A i \in places : F[i] < request.before
  OBVIOUS
<1>3. \A i \in DOMAIN F : F[i] < request.before => i \in places
  OBVIOUS
<1>4. F \in Seq(Nat)
  OBVIOUS
<1> HIDE DEF places, F, l
<1>21. older = Kept(F, places)
  OBVIOUS
<1>22. PICK old : old = older
  OBVIOUS
<1>23. l = LastOf(old, PageSize) /\ old = Kept(F, places)
  BY <1>1, <1>21, <1>22
<1> HIDE DEF older
<1>24. Picking(Nat, F, places, old)
  BY <1>2, <1>4, <1>23, KeptFacts
<1>5. PICK at \in [1 .. Len(old) -> places] :
          /\ \A j \in 1 .. Len(old) : old[j] = F[at[j]]
          /\ \A j, k \in 1 .. Len(old) : j < k => at[j] < at[k]
          /\ \A k \in places : \E j \in 1 .. Len(old) : at[j] = k
  BY <1>24 DEF Picking
<1>25. old \in Seq(Nat)
  BY <1>24 DEF Picking
<1>6. l = LastOf(old, PageSize) /\ old \in Seq(Nat) /\ PageSize \in Nat \ {0}
  BY <1>23, <1>25, SizeAssumption
<1>7. /\ l \in Seq(Nat) /\ (l = <<>> <=> old = <<>>)
      /\ \E d \in Nat : Len(old) = d + Len(l) /\ \A j \in 1 .. Len(l) : l[j] = old[d + j]
  <2>1. PICK n \in Nat \ {0} : n = PageSize
    BY <1>6
  <2>2. /\ LastOf(old, n) \in Seq(Nat) /\ (LastOf(old, n) = <<>> <=> old = <<>>)
        /\ \E d \in Nat : /\ Len(old) = d + Len(LastOf(old, n))
                          /\ \A j \in 1 .. Len(LastOf(old, n)) : LastOf(old, n)[j] = old[d + j]
    BY <1>6, LastOfFacts
  <2> QED
    BY <1>6, <2>1, <2>2
<1>20. PICK d \in Nat : Len(old) = d + Len(l) /\ \A j \in 1 .. Len(l) : l[j] = old[d + j]
  BY <1>7
<1> DEFINE m == Len(l)
           n == Len(old)
<1>8. m \in Nat /\ n \in Nat /\ n = d + m
  BY <1>25, <1>7, <1>20, SeqFacts
<1>9. /\ \A j \in 1 .. n : old[j] = F[at[j]] /\ at[j] \in places
      /\ \A j, k \in 1 .. n : j < k => at[j] < at[k]
      /\ \A k \in places : \E j \in 1 .. n : at[j] = k
      /\ \A j \in 1 .. m : l[j] = old[d + j]
  BY <1>5, <1>20
<1>10. (l = <<>> <=> m = 0) /\ (old = <<>> <=> n = 0)
  BY <1>25, <1>7, SeqFacts
<1>11. DOMAIN l = 1 .. m
  BY <1>7, SeqFacts
<1> HIDE DEF m, n
<1>12. \A j \in 1 .. m : d + j \in 1 .. n
  BY <1>8
<1> DEFINE to == [j \in 1 .. m |-> at[d + j]]
<1>13. \A j \in 1 .. m : to[j] = at[d + j]
  OBVIOUS
<1>14. to \in [1 .. m -> DOMAIN F]
  BY <1>2, <1>9, <1>12
<1> HIDE DEF to
<1>15. \A j \in 1 .. m : l[j] = F[to[j]] /\ l[j] < request.before
  BY <1>2, <1>9, <1>12, <1>13
<1>16. ASSUME NEW j \in 1 .. m, NEW k \in 1 .. m, j < k
       PROVE  to[j] < to[k]
  <2>1. d + j \in 1 .. n /\ d + k \in 1 .. n /\ d + j < d + k
    BY <1>8, <1>12, <1>16
  <2> QED
    BY <1>9, <1>13, <2>1
<1>17. ASSUME NEW i \in DOMAIN F, F[i] < request.before
       PROVE  l # <<>> /\ (F[i] \in Values(l) \/ i < to[1])
  <2>1. PICK j \in 1 .. n : at[j] = i
    BY <1>3, <1>9, <1>17
  <2>2. l # <<>> /\ m # 0 /\ 1 \in 1 .. m
    BY <1>7, <1>8, <1>10, <2>1
  <2>3. CASE d < j
    <3>1. j - d \in 1 .. m /\ d + (j - d) = j
      BY <1>8, <2>1, <2>3
    <3>2. l[j - d] = F[i]
      BY <1>9, <2>1, <3>1
    <3> QED
      BY <1>11, <2>2, <3>1, <3>2 DEF Values
  <2>4. CASE ~(d < j)
    <3>1. d + 1 \in 1 .. n /\ j < d + 1
      BY <1>8, <2>1, <2>2, <2>4
    <3>2. at[j] < at[d + 1]
      BY <1>9, <2>1, <3>1
    <3> QED
      BY <1>13, <2>1, <2>2, <3>2
  <2> QED
    BY <2>3, <2>4
<1>18. /\ l \in Seq(Nat)
       /\ \E aa \in [1 .. Len(l) -> DOMAIN F] :
             /\ \A j \in 1 .. Len(l) : l[j] = F[aa[j]] /\ l[j] < request.before
             /\ \A j, k \in 1 .. Len(l) : j < k => aa[j] < aa[k]
             /\ \A i \in DOMAIN F :
                   F[i] < request.before => l # <<>> /\ (F[i] \in Values(l) \/ i < aa[1])
  BY <1>7, <1>14, <1>15, <1>16, <1>17 DEF m
<1> QED
  BY <1>18 DEF l, F

-----------------------------------------------------------------------------
(* The server: the numbers, the lines and the goroutines.                  *)

Slots == [stage : {"idle", "numbered", "written"}, att : Attempts \cup {NoAttempt}, seq : Nat]

Of(S, a) == {n \in Nat : <<a, n>> \in S}

ServerType ==
    /\ script \in Scripts
    /\ seqs \in [Attempts -> Nat]
    /\ file \in [Attempts -> Seq(Nat)]
    /\ gone \subseteq Attempts
    /\ writer \in [Writers -> Slots]
    /\ crossed \subseteq Attempts \X Nat
    /\ \A w \in Writers : IF writer[w].stage = "idle" THEN writer[w] = Idle
                          ELSE writer[w].att \in Attempts \ gone

(* The lines have numbers that were given out, and are in their order but  *)
(* for those that are known to have crossed.                               *)
LogInv ==
    \A a \in Attempts :
        /\ \A v \in Values(file[a]) : v \in 1 .. seqs[a]
        /\ Straight(file[a], Of(crossed, a))
        /\ seqs[a] <= Len(script[a])
        /\ a \in gone => file[a] = <<>>

(* Each goroutine has a number of its own.                                 *)
WriterInv ==
    \A w \in Writers :
        writer[w].stage # "idle" =>
            /\ writer[w].seq \in 1 .. seqs[writer[w].att]
            /\ \A x \in Writers \ {w} :
                  writer[x].att = writer[w].att => writer[x].seq # writer[w].seq
            /\ writer[w].stage = "written" => writer[w].seq \in Values(file[writer[w].att])
            /\ writer[w].stage = "numbered" =>
                  \A v \in Values(file[writer[w].att]) :
                      /\ v # writer[w].seq
                      /\ writer[w].seq < v => /\ <<writer[w].att, writer[w].seq>> \in crossed
                                              /\ <<writer[w].att, v>> \in crossed

(* While nothing has crossed, all that is behind a line that waits to be   *)
(* published waits too.                                                    *)
PubOrder ==
    crossed = {} =>
        \A w \in Writers :
            writer[w].stage = "written" =>
                \A v \in Values(file[writer[w].att]) :
                    writer[w].seq < v =>
                        \E x \in Writers : /\ writer[x].stage = "written"
                                           /\ writer[x].att = writer[w].att
                                           /\ writer[x].seq = v

ServerInv == ServerType /\ LogInv /\ WriterInv /\ PubOrder

LEMMA SlotFacts ==
  ASSUME ServerType, NEW w \in Writers
  PROVE  /\ writer[w].stage \in {"idle", "numbered", "written"}
         /\ writer[w].att \in Attempts \cup {NoAttempt}
         /\ writer[w].seq \in Nat
         /\ writer[w].stage # "idle" => /\ writer[w].att \in Attempts /\ writer[w].att \notin gone
                                        /\ writer[w].att # NoAttempt
         /\ writer[w].att \in Attempts => writer[w].stage # "idle"
<1>1. writer[w] \in Slots
  BY DEF ServerType
<1>2. writer[w].stage = "idle" => writer[w].att = NoAttempt
  BY DEF ServerType, Idle
<1> QED
  BY <1>1, <1>2, IdAssumption DEF ServerType, Slots

LEMMA FileFacts ==
  ASSUME ServerType, NEW a \in Attempts
  PROVE  /\ file[a] \in Seq(Nat) /\ Values(file[a]) \subseteq Nat
         /\ seqs[a] \in Nat /\ script[a] \in Seq(Contents) /\ Len(script[a]) \in Nat
<1>1. file[a] \in Seq(Nat) /\ seqs[a] \in Nat
  BY DEF ServerType
<1>2. script[a] \in Seq(Contents)
  BY ScriptAssumption DEF ServerType
<1> QED
  BY <1>1, <1>2, SeqFacts

LEMMA TakeSeqServer ==
  ASSUME ServerInv, NEW w \in Writers, NEW a \in Attempts, TakeSeq(w, a)
  PROVE  ServerInv'
<1> DEFINE n == seqs[a] + 1
<1>1. /\ writer[w].stage = "idle" /\ a \notin gone /\ seqs[a] < Len(script[a])
      /\ seqs' = [seqs EXCEPT ![a] = n]
      /\ writer' = [writer EXCEPT ![w] = [stage |-> "numbered", att |-> a, seq |-> n]]
      /\ script' = script /\ file' = file /\ gone' = gone /\ crossed' = crossed
  BY DEF TakeSeq, server, ghosts, n
<1>12. file' = file /\ crossed' = crossed
  BY <1>1
<1>2. ServerType /\ LogInv /\ WriterInv /\ PubOrder
  BY DEF ServerInv
<1>3. n \in Nat /\ seqs[a] \in Nat /\ n = seqs[a] + 1 /\ Len(script[a]) \in Nat
  BY <1>2, FileFacts
<1> HIDE DEF n
<1>4. seqs \in [Attempts -> Nat] /\ writer \in [Writers -> Slots]
  BY <1>2 DEF ServerType
<1>5. seqs'[a] = n /\ \A b \in Attempts : b # a => seqs'[b] = seqs[b]
  BY <1>1, <1>4
<1>6. /\ writer'[w] = [stage |-> "numbered", att |-> a, seq |-> n]
      /\ \A x \in Writers : x # w => writer'[x] = writer[x]
  BY <1>1, <1>4
<1>7. ServerType'
  <2>1. seqs' \in [Attempts -> Nat]
    BY <1>1, <1>3, <1>4
  <2>2. [stage |-> "numbered", att |-> a, seq |-> n] \in Slots
    BY <1>3 DEF Slots
  <2>3. writer' \in [Writers -> Slots]
    BY <1>1, <1>4, <2>2
  <2>4. ASSUME NEW x \in Writers
        PROVE  IF writer'[x].stage = "idle" THEN writer'[x] = Idle
               ELSE writer'[x].att \in Attempts \ gone
    BY <1>1, <1>2, <1>6 DEF ServerType
  <2> QED
    BY <1>1, <1>2, <2>1, <2>3, <2>4 DEF ServerType
<1>8. \A b \in Attempts : seqs'[b] \in Nat /\ seqs[b] \in Nat /\ seqs[b] <= seqs'[b]
  BY <1>2, <1>3, <1>5, FileFacts
<1>9. LogInv'
  <2> SUFFICES ASSUME NEW b \in Attempts
               PROVE  /\ \A v \in Values(file[b]) : v \in 1 .. seqs'[b]
                      /\ Straight(file[b], Of(crossed, b))
                      /\ seqs'[b] <= Len(script[b])
                      /\ b \in gone => file[b] = <<>>
    <3>1. file' = file /\ crossed' = crossed /\ script' = script /\ gone' = gone
      BY <1>1
    <3> QED
      BY <3>1 DEF LogInv, Straight, Of, Values
  <2>1. /\ \A v \in Values(file[b]) : v \in 1 .. seqs[b]
        /\ Straight(file[b], Of(crossed, b))
        /\ seqs[b] <= Len(script[b])
        /\ b \in gone => file[b] = <<>>
    BY <1>2 DEF LogInv
  <2>2. \A v \in Values(file[b]) : v \in 1 .. seqs'[b]
    BY <1>8, <2>1
  <2>3. seqs'[b] <= Len(script[b])
    BY <1>1, <1>3, <1>5, <2>1
  <2> QED
    BY <2>1, <2>2, <2>3
<1>10. WriterInv'
  <2> SUFFICES ASSUME NEW x \in Writers, writer'[x].stage # "idle"
               PROVE  /\ writer'[x].seq \in 1 .. seqs'[writer'[x].att]
                      /\ \A y \in Writers \ {x} :
                            writer'[y].att = writer'[x].att => writer'[y].seq # writer'[x].seq
                      /\ writer'[x].stage = "written" =>
                            writer'[x].seq \in Values(file[writer'[x].att])
                      /\ writer'[x].stage = "numbered" =>
                            \A v \in Values(file[writer'[x].att]) :
                                /\ v # writer'[x].seq
                                /\ writer'[x].seq < v =>
                                      /\ <<writer'[x].att, writer'[x].seq>> \in crossed
                                      /\ <<writer'[x].att, v>> \in crossed
    BY <1>12 DEF WriterInv, Values
  <2>1. ASSUME NEW y \in Writers, y # w, writer[y].att = a
        PROVE  writer[y].seq \in Nat /\ writer[y].seq < n
    <3>1. writer[y].stage # "idle"
      BY <1>2, <2>1, SlotFacts
    <3>2. writer[y].seq \in 1 .. seqs[a]
      BY <1>2, <2>1, <3>1 DEF WriterInv
    <3> QED
      BY <1>3, <3>2
  <2>2. CASE x = w
    <3>1. \A y \in Writers \ {w} : writer'[y].att = a => writer'[y].seq # n
      BY <1>3, <1>6, <2>1
    <3>2. \A v \in Values(file[a]) : v \in Nat /\ v < n
      BY <1>2, <1>3 DEF LogInv
    <3>3. \A v \in Values(file[a]) : v # n /\ ~(n < v)
      BY <1>3, <3>2
    <3>4. n \in 1 .. seqs'[a]
      BY <1>3, <1>5
    <3> QED
      BY <1>6, <2>2, <3>1, <3>3, <3>4
  <2>3. CASE x # w
    <3>1. writer'[x] = writer[x]
      BY <1>6, <2>3
    <3>2. writer[x].att \in Attempts /\ writer[x].seq \in 1 .. seqs[writer[x].att]
      BY <1>2, <3>1, SlotFacts DEF WriterInv
    <3>3. writer[x].seq \in 1 .. seqs'[writer[x].att]
      BY <1>8, <3>2
    <3>4. \A y \in Writers \ {x} : writer'[y].att = writer[x].att => writer'[y].seq # writer[x].seq
      <4> SUFFICES ASSUME NEW y \in Writers \ {x}, writer'[y].att = writer[x].att
                   PROVE  writer'[y].seq # writer[x].seq
        OBVIOUS
      <4>1. CASE y = w
        BY <1>3, <1>6, <2>1, <2>3, <4>1
      <4>2. CASE y # w
        BY <1>2, <1>6, <3>1, <4>2 DEF WriterInv
      <4> QED
        BY <4>1, <4>2
    <3> QED
      BY <1>2, <3>1, <3>3, <3>4 DEF WriterInv
  <2> QED
    BY <2>2, <2>3
<1>11. PubOrder'
  <2> SUFFICES ASSUME crossed = {}, NEW x \in Writers, writer'[x].stage = "written",
                      NEW v \in Values(file[writer'[x].att]), writer'[x].seq < v
               PROVE  \E y \in Writers : /\ writer'[y].stage = "written"
                                         /\ writer'[y].att = writer'[x].att
                                         /\ writer'[y].seq = v
    BY <1>12 DEF PubOrder, Values
  <2>1. x # w
    BY <1>6
  <2>2. PICK y \in Writers : /\ writer[y].stage = "written"
                             /\ writer[y].att = writer[x].att /\ writer[y].seq = v
    BY <1>2, <1>6, <2>1 DEF PubOrder
  <2>3. y # w
    BY <1>1, <2>2
  <2> QED
    BY <1>6, <2>1, <2>2, <2>3
<1> QED
  BY <1>7, <1>9, <1>10, <1>11 DEF ServerInv

(* What an append does to one file, and to the events that have crossed.   *)
LEMMA CrossingFacts ==
  ASSUME ServerType, NEW a \in Attempts, NEW n \in Nat
  PROVE  /\ Crossing(a, n) \subseteq Attempts \X Nat
         /\ \A w \in Writers : writer[w].att = a /\ writer[w].seq < n =>
                <<a, n>> \in Crossing(a, n) /\ <<a, writer[w].seq>> \in Crossing(a, n)
<1>1. \A w \in Writers : writer[w].seq \in Nat
  BY SlotFacts
<1> QED
  BY <1>1 DEF Crossing

LEMMA StraightAppend ==
  ASSUME NEW F \in Seq(Nat), NEW n \in Nat, NEW out, NEW out2, out \subseteq out2,
         Straight(F, out),
         \A v \in Values(F) : v # n /\ (n < v => n \in out2 /\ v \in out2)
  PROVE  Straight(Append(F, n), out2)
<1> DEFINE G == Append(F, n)
           m == Len(F)
<1>1. /\ m \in Nat /\ DOMAIN F = 1 .. m /\ \A i \in 1 .. m : F[i] \in Nat
      /\ G \in Seq(Nat) /\ Len(G) = m + 1 /\ G[m + 1] = n
      /\ \A i \in 1 .. m : G[i] = F[i]
  BY AppendFacts, SeqFacts
<1>2. DOMAIN G = 1 .. m + 1
  BY <1>1, SeqFacts
<1> HIDE DEF G, m
<1> SUFFICES ASSUME NEW i \in 1 .. m + 1, NEW j \in 1 .. m + 1, i < j
             PROVE  G[i] # G[j] /\ (G[i] < G[j] \/ (G[i] \in out2 /\ G[j] \in out2))
  BY <1>2 DEF Straight, G
<1>3. i \in 1 .. m /\ G[i] = F[i] /\ F[i] \in Nat /\ F[i] \in Values(F)
  <2>1. i \in 1 .. m
    BY <1>1
  <2> QED
    BY <1>1, <2>1 DEF Values
<1>4. CASE j \in 1 .. m
  BY <1>1, <1>3, <1>4 DEF Straight
<1>5. CASE j = m + 1
  BY <1>1, <1>3, <1>5
<1> QED
  BY <1>1, <1>4, <1>5

LEMMA WriteLineServer ==
  ASSUME ServerInv, NEW w \in Writers, WriteLine(w)
  PROVE  ServerInv'
<1> DEFINE a == writer[w].att
           n == writer[w].seq
<1>1. /\ writer[w].stage = "numbered"
      /\ file' = [file EXCEPT ![a] = Append(@, n)]
      /\ writer' = [writer EXCEPT ![w].stage = "written"]
      /\ crossed' = crossed \cup Crossing(a, n)
      /\ script' = script /\ seqs' = seqs /\ gone' = gone
  BY DEF WriteLine, a, n
<1>2. ServerType /\ LogInv /\ WriterInv /\ PubOrder
  BY DEF ServerInv
<1>3. /\ a \in Attempts /\ a \notin gone /\ a # NoAttempt /\ n \in Nat
      /\ writer[w] \in Slots /\ writer \in [Writers -> Slots]
      /\ file \in [Attempts -> Seq(Nat)] /\ file[a] \in Seq(Nat)
  BY <1>1, <1>2, SlotFacts, FileFacts DEF ServerType
<1>4. /\ n \in 1 .. seqs[a]
      /\ \A x \in Writers \ {w} : writer[x].att = a => writer[x].seq # n
      /\ \A v \in Values(file[a]) : v # n /\ (n < v => <<a, n>> \in crossed /\ <<a, v>> \in crossed)
  BY <1>1, <1>2 DEF WriterInv
<1>5. writer'[w].stage = "written" /\ writer'[w].att = a /\ writer'[w].seq = n /\ writer'[w] \in Slots
  BY <1>1, <1>3 DEF Slots
<1>6. \A x \in Writers : x # w => writer'[x] = writer[x]
  BY <1>1, <1>3
<1> HIDE DEF a, n
<1>7. \A x \in Writers : writer'[x].att = writer[x].att /\ writer'[x].seq = writer[x].seq
  BY <1>5, <1>6 DEF a, n
<1>8. file'[a] = Append(file[a], n) /\ \A b \in Attempts : b # a => file'[b] = file[b]
  BY <1>1, <1>3
<1>9. Values(file'[a]) = Values(file[a]) \cup {n} /\ file'[a] \in Seq(Nat)
  BY <1>3, <1>8, AppendFacts
<1>10. /\ crossed \subseteq crossed'
       /\ \A x \in Writers : writer[x].att = a /\ writer[x].seq < n =>
              <<a, n>> \in crossed' /\ <<a, writer[x].seq>> \in crossed'
  BY <1>1, <1>2, <1>3, CrossingFacts
<1>11. ServerType'
  <2>1. file' \in [Attempts -> Seq(Nat)]
    BY <1>1, <1>3, <1>8, <1>9
  <2>2. writer' \in [Writers -> Slots]
    BY <1>1, <1>3, <1>5
  <2>3. crossed' \subseteq Attempts \X Nat
    BY <1>1, <1>2, <1>3, CrossingFacts DEF ServerType
  <2>4. ASSUME NEW x \in Writers
        PROVE  IF writer'[x].stage = "idle" THEN writer'[x] = Idle
               ELSE writer'[x].att \in Attempts \ gone
    <3>1. CASE x = w
      BY <1>3, <1>5, <3>1
    <3>2. CASE x # w
      BY <1>2, <1>6, <3>2 DEF ServerType
    <3> QED
      BY <3>1, <3>2
  <2> QED
    BY <1>1, <1>2, <2>1, <2>2, <2>3, <2>4 DEF ServerType
<1>12. ASSUME NEW b \in Attempts
       PROVE  Of(crossed, b) \subseteq Of(crossed', b)
  BY <1>10 DEF Of
<1>13. LogInv'
  <2> SUFFICES ASSUME NEW b \in Attempts
               PROVE  /\ \A v \in Values(file'[b]) : v \in 1 .. seqs[b]
                      /\ Straight(file'[b], Of(crossed', b))
                      /\ seqs[b] <= Len(script[b])
                      /\ b \in gone => file'[b] = <<>>
    BY <1>1 DEF LogInv
  <2>1. /\ \A v \in Values(file[b]) : v \in 1 .. seqs[b]
        /\ Straight(file[b], Of(crossed, b))
        /\ seqs[b] <= Len(script[b])
        /\ b \in gone => file[b] = <<>>
    BY <1>2 DEF LogInv
  <2>2. CASE b = a
    <3>1. \A v \in Values(file[a]) : v \in Nat
      BY <1>2, <1>3, FileFacts
    <3>2. \A v \in Values(file[a]) : v # n /\ (n < v => n \in Of(crossed', a) /\ v \in Of(crossed', a))
      BY <1>3, <1>4, <1>10, <3>1 DEF Of
    <3>3. Straight(Append(file[a], n), Of(crossed', a))
      BY <1>3, <1>12, <2>1, <2>2, <3>2, StraightAppend
    <3> QED
      BY <1>3, <1>4, <1>8, <1>9, <2>1, <2>2, <3>3
  <2>3. CASE b # a
    <3>1. Straight(file[b], Of(crossed', b))
      BY <1>12, <2>1 DEF Straight
    <3> QED
      BY <1>8, <2>1, <2>3, <3>1
  <2> QED
    BY <2>2, <2>3
<1>14. \A x \in Writers : x # w /\ writer[x].stage # "idle" => writer[x].att \in Attempts
  BY <1>2, SlotFacts
<1>15. ASSUME NEW x \in Writers, x # w, writer[x].stage # "idle"
       PROVE  /\ writer[x].stage = "written" => writer[x].seq \in Values(file'[writer[x].att])
              /\ writer[x].stage = "numbered" =>
                    \A v \in Values(file'[writer[x].att]) :
                        /\ v # writer[x].seq
                        /\ writer[x].seq < v => /\ <<writer[x].att, writer[x].seq>> \in crossed'
                                                /\ <<writer[x].att, v>> \in crossed'
  <2>1. /\ writer[x].stage = "written" => writer[x].seq \in Values(file[writer[x].att])
        /\ writer[x].stage = "numbered" =>
              \A v \in Values(file[writer[x].att]) :
                  /\ v # writer[x].seq
                  /\ writer[x].seq < v => /\ <<writer[x].att, writer[x].seq>> \in crossed
                                          /\ <<writer[x].att, v>> \in crossed
    BY <1>2, <1>15 DEF WriterInv
  <2>2. CASE writer[x].att = a
    BY <1>4, <1>9, <1>10, <1>15, <2>1, <2>2
  <2>3. CASE writer[x].att # a
    BY <1>8, <1>10, <1>14, <1>15, <2>1, <2>3
  <2> QED
    BY <2>2, <2>3
<1>16. WriterInv'
  <2> SUFFICES ASSUME NEW x \in Writers, writer'[x].stage # "idle"
               PROVE  /\ writer'[x].seq \in 1 .. seqs[writer'[x].att]
                      /\ \A y \in Writers \ {x} :
                            writer'[y].att = writer'[x].att => writer'[y].seq # writer'[x].seq
                      /\ writer'[x].stage = "written" =>
                            writer'[x].seq \in Values(file'[writer'[x].att])
                      /\ writer'[x].stage = "numbered" =>
                            \A v \in Values(file'[writer'[x].att]) :
                                /\ v # writer'[x].seq
                                /\ writer'[x].seq < v =>
                                      /\ <<writer'[x].att, writer'[x].seq>> \in crossed'
                                      /\ <<writer'[x].att, v>> \in crossed'
    <3>1. seqs' = seqs
      BY <1>1
    <3> QED
      BY <3>1 DEF WriterInv
  <2>1. writer[x].stage # "idle"
    BY <1>1, <1>6
  <2>2. /\ writer[x].seq \in 1 .. seqs[writer[x].att]
        /\ \A y \in Writers \ {x} : writer[y].att = writer[x].att => writer[y].seq # writer[x].seq
    BY <1>2, <2>1 DEF WriterInv
  <2>3. CASE x = w
    <3>1. writer'[x].stage = "written" /\ n \in Values(file'[a])
      BY <1>5, <1>9, <2>3
    <3> QED
      BY <1>5, <1>7, <2>2, <2>3, <3>1 DEF a, n
  <2>4. CASE x # w
    <3>1. writer'[x] = writer[x]
      BY <1>6, <2>4
    <3> QED
      BY <1>7, <1>15, <2>1, <2>2, <2>4, <3>1
  <2> QED
    BY <2>3, <2>4
<1>17. PubOrder'
  <2> SUFFICES ASSUME crossed' = {}, NEW x \in Writers, writer'[x].stage = "written",
                      NEW v \in Values(file'[writer'[x].att]), writer'[x].seq < v
               PROVE  \E y \in Writers : /\ writer'[y].stage = "written"
                                         /\ writer'[y].att = writer'[x].att
                                         /\ writer'[y].seq = v
    BY DEF PubOrder
  <2>1. x # w
    <3> SUFFICES ASSUME x = w PROVE FALSE
      OBVIOUS
    <3>1. v \in Values(file[a]) \cup {n} /\ n < v
      BY <1>5, <1>9
    <3>2. v # n
      BY <1>3, <3>1
    <3> QED
      BY <1>4, <1>10, <3>1, <3>2
  <2>2. writer'[x] = writer[x] /\ writer[x].stage = "written" /\ writer[x].att \in Attempts
    BY <1>6, <1>14, <2>1
  <2>3. CASE v \in Values(file[writer[x].att])
    <3>1. PICK y \in Writers : /\ writer[y].stage = "written"
                               /\ writer[y].att = writer[x].att /\ writer[y].seq = v
      BY <1>2, <1>10, <2>2, <2>3 DEF PubOrder
    <3>2. y # w
      BY <1>1, <3>1
    <3> QED
      BY <1>6, <2>2, <3>1, <3>2
  <2>4. CASE v \notin Values(file[writer[x].att])
    <3>1. writer[x].att = a /\ v = n
      BY <1>8, <1>9, <2>2, <2>4
    <3> QED
      BY <1>5, <2>2, <3>1
  <2> QED
    BY <2>3, <2>4
<1> QED
  BY <1>11, <1>13, <1>16, <1>17 DEF ServerInv

LEMMA PublishServer ==
  ASSUME ServerInv, NEW w \in Writers, Publish(w)
  PROVE  ServerInv'
<1> DEFINE a == writer[w].att
           n == writer[w].seq
<1>1. /\ writer[w].stage = "written"
      /\ writer' = [writer EXCEPT ![w] = Idle]
      /\ crossed' = crossed \cup Crossing(a, n)
  BY DEF Publish, a, n
<1>2. script' = script /\ seqs' = seqs /\ file' = file /\ gone' = gone
  BY DEF Publish
<1>3. ServerType /\ LogInv /\ WriterInv /\ PubOrder
  BY DEF ServerInv
<1>4. /\ a \in Attempts /\ n \in Nat /\ writer \in [Writers -> Slots] /\ Idle \in Slots
      /\ Idle.stage = "idle" /\ Idle.att = NoAttempt
  BY <1>1, <1>3, SlotFacts DEF ServerType, Idle, Slots
<1>5. writer'[w] = Idle /\ \A x \in Writers : x # w => writer'[x] = writer[x]
  BY <1>1, <1>4
<1>6. /\ crossed \subseteq crossed' /\ crossed' \subseteq Attempts \X Nat
      /\ \A x \in Writers : writer[x].att = a /\ writer[x].seq < n => <<a, n>> \in crossed'
  BY <1>1, <1>3, <1>4, CrossingFacts DEF ServerType
<1> HIDE DEF a, n
<1>7. ServerType'
  <2>1. writer' \in [Writers -> Slots]
    BY <1>1, <1>4
  <2>2. ASSUME NEW x \in Writers
        PROVE  IF writer'[x].stage = "idle" THEN writer'[x] = Idle
               ELSE writer'[x].att \in Attempts \ gone
    BY <1>3, <1>4, <1>5 DEF ServerType
  <2> QED
    BY <1>2, <1>3, <1>6, <2>1, <2>2 DEF ServerType
<1>8. LogInv'
  <2> SUFFICES ASSUME NEW b \in Attempts
               PROVE  /\ \A v \in Values(file[b]) : v \in 1 .. seqs[b]
                      /\ Straight(file[b], Of(crossed', b))
                      /\ seqs[b] <= Len(script[b])
                      /\ b \in gone => file[b] = <<>>
    BY <1>2 DEF LogInv
  <2>1. Of(crossed, b) \subseteq Of(crossed', b)
    BY <1>6 DEF Of
  <2>2. /\ \A v \in Values(file[b]) : v \in 1 .. seqs[b]
        /\ Straight(file[b], Of(crossed, b))
        /\ seqs[b] <= Len(script[b])
        /\ b \in gone => file[b] = <<>>
    BY <1>3 DEF LogInv
  <2> QED
    BY <2>1, <2>2 DEF Straight
<1>9. WriterInv'
  <2> SUFFICES ASSUME NEW x \in Writers, writer'[x].stage # "idle"
               PROVE  /\ writer'[x].seq \in 1 .. seqs[writer'[x].att]
                      /\ \A y \in Writers \ {x} :
                            writer'[y].att = writer'[x].att => writer'[y].seq # writer'[x].seq
                      /\ writer'[x].stage = "written" =>
                            writer'[x].seq \in Values(file[writer'[x].att])
                      /\ writer'[x].stage = "numbered" =>
                            \A v \in Values(file[writer'[x].att]) :
                                /\ v # writer'[x].seq
                                /\ writer'[x].seq < v =>
                                      /\ <<writer'[x].att, writer'[x].seq>> \in crossed'
                                      /\ <<writer'[x].att, v>> \in crossed'
    BY <1>2 DEF WriterInv
  <2>1. x # w /\ writer'[x] = writer[x] /\ writer[x].stage # "idle"
    BY <1>4, <1>5
  <2>2. writer[x].att # NoAttempt
    BY <1>3, <2>1, SlotFacts
  <2>3. \A y \in Writers \ {x} : writer'[y].att = writer[x].att => writer'[y].seq # writer[x].seq
    BY <1>3, <1>4, <1>5, <2>1, <2>2 DEF WriterInv
  <2>4. /\ writer[x].seq \in 1 .. seqs[writer[x].att]
        /\ writer[x].stage = "written" => writer[x].seq \in Values(file[writer[x].att])
        /\ writer[x].stage = "numbered" =>
              \A v \in Values(file[writer[x].att]) :
                  /\ v # writer[x].seq
                  /\ writer[x].seq < v => /\ <<writer[x].att, writer[x].seq>> \in crossed
                                          /\ <<writer[x].att, v>> \in crossed
    BY <1>3, <2>1 DEF WriterInv
  <2> QED
    BY <1>6, <2>1, <2>3, <2>4
<1>10. PubOrder'
  <2> SUFFICES ASSUME crossed' = {}, NEW x \in Writers, writer'[x].stage = "written",
                      NEW v \in Values(file[writer'[x].att]), writer'[x].seq < v
               PROVE  \E y \in Writers : /\ writer'[y].stage = "written"
                                         /\ writer'[y].att = writer'[x].att
                                         /\ writer'[y].seq = v
    BY <1>2 DEF PubOrder
  <2>1. x # w /\ writer'[x] = writer[x] /\ crossed = {}
    BY <1>4, <1>5, <1>6
  <2>2. PICK y \in Writers : /\ writer[y].stage = "written"
                             /\ writer[y].att = writer[x].att /\ writer[y].seq = v
    BY <1>3, <2>1 DEF PubOrder
  <2>3. y # w
    <3> SUFFICES ASSUME y = w PROVE FALSE
      OBVIOUS
    <3>1. writer[x].att = a /\ writer[x].seq < n
      BY <2>1, <2>2 DEF a, n
    <3> QED
      BY <1>6, <3>1
  <2> QED
    BY <1>5, <2>1, <2>2, <2>3
<1> QED
  BY <1>7, <1>8, <1>9, <1>10 DEF ServerInv

LEMMA NoValues == Values(<<>>) = {} /\ <<>> \in Seq(Nat)
BY DEF Values

LEMMA NoStraight == \A out : Straight(<<>>, out)
BY DEF Straight

LEMMA DeleteServer ==
  ASSUME ServerInv, NEW a \in Attempts, Delete(a)
  PROVE  ServerInv'
<1>1. /\ \A w \in Writers : writer[w].att # a
      /\ gone' = gone \cup {a}
      /\ file' = [file EXCEPT ![a] = <<>>]
  BY DEF Delete
<1>2. script' = script /\ seqs' = seqs /\ writer' = writer /\ crossed' = crossed
  BY DEF Delete, ghosts
<1>3. ServerType /\ LogInv /\ WriterInv /\ PubOrder
  BY DEF ServerInv
<1>4. file \in [Attempts -> Seq(Nat)] /\ writer \in [Writers -> Slots]
  BY <1>3 DEF ServerType
<1>5. file'[a] = <<>> /\ \A b \in Attempts : b # a => file'[b] = file[b]
  BY <1>1, <1>4
<1>6. \A w \in Writers : writer[w].stage # "idle" =>
          writer[w].att \in Attempts /\ writer[w].att # a /\ file'[writer[w].att] = file[writer[w].att]
  BY <1>1, <1>3, <1>5, SlotFacts
<1>7. ServerType'
  <2>1. file' \in [Attempts -> Seq(Nat)]
    BY <1>1, <1>4, NoValues
  <2>2. ASSUME NEW x \in Writers
        PROVE  IF writer[x].stage = "idle" THEN writer[x] = Idle
               ELSE writer[x].att \in Attempts \ gone'
    BY <1>1, <1>3, <1>6 DEF ServerType
  <2> QED
    BY <1>1, <1>2, <1>3, <2>1, <2>2 DEF ServerType
<1>8. LogInv'
  <2> SUFFICES ASSUME NEW b \in Attempts
               PROVE  /\ \A v \in Values(file'[b]) : v \in 1 .. seqs[b]
                      /\ Straight(file'[b], Of(crossed, b))
                      /\ seqs[b] <= Len(script[b])
                      /\ b \in gone' => file'[b] = <<>>
    BY <1>2 DEF LogInv
  <2>1. CASE b = a
    BY <1>3, <1>5, <2>1, NoValues, NoStraight DEF LogInv
  <2>2. CASE b # a
    BY <1>1, <1>3, <1>5, <2>2 DEF LogInv
  <2> QED
    BY <2>1, <2>2
<1>9. WriterInv'
  <2> SUFFICES ASSUME NEW x \in Writers, writer[x].stage # "idle"
               PROVE  /\ writer[x].seq \in 1 .. seqs[writer[x].att]
                      /\ \A y \in Writers \ {x} :
                            writer[y].att = writer[x].att => writer[y].seq # writer[x].seq
                      /\ writer[x].stage = "written" =>
                            writer[x].seq \in Values(file'[writer[x].att])
                      /\ writer[x].stage = "numbered" =>
                            \A v \in Values(file'[writer[x].att]) :
                                /\ v # writer[x].seq
                                /\ writer[x].seq < v =>
                                      /\ <<writer[x].att, writer[x].seq>> \in crossed
                                      /\ <<writer[x].att, v>> \in crossed
    BY <1>2 DEF WriterInv
  <2> QED
    BY <1>3, <1>6 DEF WriterInv
<1>10. PubOrder'
  <2> SUFFICES ASSUME crossed = {}, NEW x \in Writers, writer[x].stage = "written",
                      NEW v \in Values(file'[writer[x].att]), writer[x].seq < v
               PROVE  \E y \in Writers : /\ writer[y].stage = "written"
                                         /\ writer[y].att = writer[x].att
                                         /\ writer[y].seq = v
    BY <1>2 DEF PubOrder
  <2> QED
    BY <1>3, <1>6 DEF PubOrder
<1> QED
  BY <1>7, <1>8, <1>9, <1>10 DEF ServerInv

(* The number a restart goes on from.                                      *)
LEMMA GreatestValue ==
  ASSUME NEW F \in Seq(Nat), F # <<>>, NEW top \in Nat, \A v \in Values(F) : v <= top
  PROVE  \E m \in Values(F) : \A v \in Values(F) : v <= m
<1> DEFINE T == {t \in Nat : \A v \in Values(F) : v <= t}
<1>1. Values(F) \subseteq Nat /\ Values(F) # {}
  BY SeqFacts
<1>2. T # {} /\ T \subseteq Nat
  OBVIOUS
<1>3. PICK t \in T : \A m \in T : t <= m
  <2> HIDE DEF T
  <2> QED
    BY <1>2, LeastNumber
<1>4. t \in Nat /\ \A v \in Values(F) : v <= t
  BY <1>3
<1>5. t \in Values(F)
  <2> SUFFICES ASSUME t \notin Values(F) PROVE FALSE
    OBVIOUS
  <2>1. \A v \in Values(F) : v <= t - 1
    BY <1>1, <1>4
  <2>2. t - 1 \in Nat
    BY <1>1, <2>1
  <2>3. t - 1 \in T
    BY <2>1, <2>2
  <2> QED
    BY <1>3, <1>4, <2>3
<1> QED
  BY <1>4, <1>5

LEMMA RestartServer ==
  ASSUME ServerInv, Restart
  PROVE  ServerInv'
<1>1. /\ writer' = [w \in Writers |-> Idle]
      /\ seqs' = [a \in Attempts |->
                    IF file[a] = <<>> THEN 0
                    ELSE CHOOSE m \in Values(file[a]) : \A n \in Values(file[a]) : n <= m]
  BY DEF Restart
<1>2. script' = script /\ file' = file /\ gone' = gone /\ crossed' = crossed
  BY DEF Restart
<1>3. ServerType /\ LogInv
  BY DEF ServerInv
<1>4. \A w \in Writers : writer'[w] = Idle
  BY <1>1
<1>5. ASSUME NEW a \in Attempts
      PROVE  /\ seqs'[a] \in Nat /\ seqs'[a] <= seqs[a]
             /\ \A v \in Values(file[a]) : v \in 1 .. seqs'[a]
  <2>1. file[a] \in Seq(Nat) /\ seqs[a] \in Nat /\ \A v \in Values(file[a]) : v \in 1 .. seqs[a]
    BY <1>3, FileFacts DEF LogInv
  <2>2. CASE file[a] = <<>>
    <3>1. seqs'[a] = 0
      BY <1>1, <2>2
    <3> QED
      BY <2>1, <2>2, <3>1, NoValues
  <2>3. CASE file[a] # <<>>
    <3>1. seqs'[a] = CHOOSE m \in Values(file[a]) : \A n \in Values(file[a]) : n <= m
      BY <1>1, <2>3
    <3>2. \A v \in Values(file[a]) : v <= seqs[a]
      BY <2>1
    <3>3. \E m \in Values(file[a]) : \A v \in Values(file[a]) : v <= m
      BY <2>1, <2>3, <3>2, GreatestValue
    <3>4. seqs'[a] \in Values(file[a]) /\ \A n \in Values(file[a]) : n <= seqs'[a]
      BY <3>1, <3>3
    <3> QED
      BY <2>1, <3>4
  <2> QED
    BY <2>2, <2>3
<1>6. ServerType'
  <2>1. seqs' \in [Attempts -> Nat]
    BY <1>1, <1>5
  <2>2. writer' \in [Writers -> Slots]
    BY <1>1 DEF Idle, Slots
  <2> QED
    BY <1>2, <1>3, <1>4, <2>1, <2>2 DEF ServerType, Idle
<1>7. LogInv'
  <2> SUFFICES ASSUME NEW b \in Attempts
               PROVE  /\ \A v \in Values(file[b]) : v \in 1 .. seqs'[b]
                      /\ Straight(file[b], Of(crossed, b))
                      /\ seqs'[b] <= Len(script[b])
                      /\ b \in gone => file[b] = <<>>
    BY <1>2 DEF LogInv
  <2>1. seqs[b] <= Len(script[b]) /\ seqs[b] \in Nat /\ Len(script[b]) \in Nat
    BY <1>3, FileFacts DEF LogInv
  <2>2. seqs'[b] <= Len(script[b])
    BY <1>5, <2>1
  <2> QED
    BY <1>3, <1>5, <2>2 DEF LogInv
<1>8. WriterInv'
  BY <1>4 DEF WriterInv, Idle
<1>9. PubOrder'
  BY <1>4 DEF PubOrder, Idle
<1> QED
  BY <1>6, <1>7, <1>8, <1>9 DEF ServerInv

LEMMA StillServer ==
  ASSUME ServerInv, UNCHANGED <<script, seqs, file, gone, writer, crossed>>
  PROVE  ServerInv'
<1>1. /\ script' = script /\ seqs' = seqs /\ file' = file /\ gone' = gone /\ writer' = writer
      /\ crossed' = crossed
  OBVIOUS
<1> QED
  BY <1>1 DEF ServerInv, ServerType, LogInv, WriterInv, PubOrder

LEMMA InitServer ==
  ASSUME Init
  PROVE  ServerInv
<1>1. /\ script \in Scripts
      /\ seqs = [a \in Attempts |-> IF History < Len(script[a]) THEN History ELSE Len(script[a])]
      /\ file = [a \in Attempts |-> [i \in 1 .. seqs[a] |-> i]]
      /\ gone = {} /\ crossed = {}
      /\ writer = [w \in Writers |-> Idle]
  BY DEF Init
<1>2. ASSUME NEW a \in Attempts
      PROVE  seqs[a] \in Nat /\ seqs[a] <= Len(script[a])
  <2>1. script[a] \in Seq(Contents)
    BY <1>1, ScriptAssumption
  <2>2. Len(script[a]) \in Nat
    BY <2>1, LenProperties
  <2> QED
    BY <1>1, <2>2, CountAssumption
<1>3. ASSUME NEW a \in Attempts
      PROVE  /\ file[a] \in Seq(Nat) /\ DOMAIN file[a] = 1 .. seqs[a]
             /\ \A i \in 1 .. seqs[a] : file[a][i] = i
  <2> DEFINE F == file[a]
             n == seqs[a]
  <2>1. F = [i \in 1 .. n |-> i] /\ n \in Nat
    BY <1>1, <1>2
  <2> HIDE DEF F, n
  <2>2. F \in [1 .. n -> Nat]
    BY <2>1
  <2>3. F \in Seq(Nat)
    BY <2>1, <2>2
  <2> QED
    BY <2>1, <2>3 DEF F, n
<1>4. ServerType
  <2>1. seqs \in [Attempts -> Nat] /\ file \in [Attempts -> Seq(Nat)]
    BY <1>1, <1>2, <1>3
  <2> QED
    BY <1>1, <2>1 DEF ServerType, Idle, Slots
<1>5. LogInv
  <2> SUFFICES ASSUME NEW a \in Attempts
               PROVE  /\ \A v \in Values(file[a]) : v \in 1 .. seqs[a]
                      /\ Straight(file[a], Of(crossed, a))
    BY <1>1, <1>2 DEF LogInv
  <2>1. \A v \in Values(file[a]) : v \in 1 .. seqs[a]
    BY <1>3 DEF Values
  <2>2. Straight(file[a], Of(crossed, a))
    <3> SUFFICES ASSUME NEW i \in DOMAIN file[a], NEW j \in DOMAIN file[a], i < j
                 PROVE  file[a][i] # file[a][j] /\ file[a][i] < file[a][j]
      BY DEF Straight
    <3>1. file[a][i] = i /\ file[a][j] = j /\ i \in Nat /\ j \in Nat
      BY <1>2, <1>3
    <3> QED
      BY <3>1
  <2> QED
    BY <2>1, <2>2
<1> QED
  BY <1>1, <1>4, <1>5 DEF ServerInv, WriterInv, PubOrder, Idle

-----------------------------------------------------------------------------
(* The streams and the requests of the pane.                               *)

Streams == [stage : {"closed", "opening", "replayed", "live"},
            att : Attempts \cup {NoAttempt}, since : Nat, upto : Nat,
            wire : Seq(Nat), chan : Seq(Nat)]

Requests == [kind : {"none", "tail", "page"}, att : Attempts \cup {NoAttempt}, before : Nat]

StreamOK(r) ==
    /\ r \in Streams
    /\ r.stage \in {"replayed", "live"} => r.att \in Attempts
    /\ r.stage # "live" => r.chan = <<>>
    /\ r.stage \in {"closed", "opening"} => r.wire = <<>>

RequestOK(r) == r \in Requests /\ (r.kind # "none" => r.att \in Attempts)

ConnType == conn \in [Conns -> Streams] /\ \A c \in Conns : StreamOK(conn[c])

PaneType ==
    /\ ConnType
    /\ get \in [Gets -> Requests] /\ \A g \in Gets : RequestOK(get[g])
    /\ attemptId \in Attempts \cup {NoAttempt}
    /\ events \in Seq(Event)
    /\ hasMore \in BOOLEAN /\ loadingMore \in BOOLEAN /\ timer \in BOOLEAN
    /\ unsub \in Conns \cup {NoConn}
    /\ mounted \in BOOLEAN
    /\ switches \in 0 .. MaxSwitches /\ faults \in 0 .. MaxFaults
    /\ overlapped \in BOOLEAN
    /\ excused \subseteq Attempts \X Nat
    /\ echoed \subseteq Attempts \X Nat

LEMMA StreamFacts ==
  ASSUME ConnType, NEW c \in Conns
  PROVE  /\ conn[c] \in Streams /\ StreamOK(conn[c])
         /\ conn[c].stage \in {"closed", "opening", "replayed", "live"}
         /\ conn[c].att \in Attempts \cup {NoAttempt}
         /\ conn[c].since \in Nat /\ conn[c].upto \in Nat
         /\ conn[c].wire \in Seq(Nat) /\ conn[c].chan \in Seq(Nat)
         /\ Ahead(c) \in Seq(Nat)
<1>1. conn[c] \in Streams /\ StreamOK(conn[c])
  BY DEF ConnType
<1>2. conn[c].wire \in Seq(Nat) /\ conn[c].chan \in Seq(Nat)
  BY <1>1 DEF Streams
<1>3. Ahead(c) \in Seq(Nat)
  BY <1>2, CatFacts DEF Ahead
<1> QED
  BY <1>1, <1>2, <1>3 DEF Streams

LEMMA ClosedOK == StreamOK(Closed) /\ Closed \in Streams
BY DEF Closed, StreamOK, Streams

(* One stream is replaced.                                                 *)
LEMMA OneStream ==
  ASSUME ConnType, NEW c \in Conns, NEW r, StreamOK(r), conn' = [conn EXCEPT ![c] = r]
  PROVE  ConnType' /\ conn'[c] = r /\ \A d \in Conns : d # c => conn'[d] = conn[d]
BY DEF ConnType, StreamOK

LEMMA BroadcastFacts ==
  ASSUME ConnType, NEW a, NEW n \in Nat, conn' = Broadcast(a, n)
  PROVE  /\ ConnType'
         /\ \A c \in Conns :
                /\ conn'[c].stage = conn[c].stage /\ conn'[c].att = conn[c].att
                /\ conn'[c].since = conn[c].since /\ conn'[c].upto = conn[c].upto
                /\ conn'[c].wire = conn[c].wire
                /\ conn'[c].chan = IF /\ conn[c].stage = "live" /\ conn[c].att = a
                                      /\ Len(conn[c].chan) < Buffer
                                   THEN Append(conn[c].chan, n) ELSE conn[c].chan
<1>1. ASSUME NEW c \in Conns
      PROVE  /\ StreamOK(conn'[c])
             /\ conn'[c].stage = conn[c].stage /\ conn'[c].att = conn[c].att
             /\ conn'[c].since = conn[c].since /\ conn'[c].upto = conn[c].upto
             /\ conn'[c].wire = conn[c].wire
             /\ conn'[c].chan = IF /\ conn[c].stage = "live" /\ conn[c].att = a
                                   /\ Len(conn[c].chan) < Buffer
                                THEN Append(conn[c].chan, n) ELSE conn[c].chan
  <2>1. conn[c] \in Streams /\ StreamOK(conn[c]) /\ conn[c].chan \in Seq(Nat)
    BY StreamFacts
  <2>2. conn'[c] = IF c \in Subscribers(a) /\ Len(conn[c].chan) < Buffer
                   THEN [conn[c] EXCEPT !.chan = Append(@, n)] ELSE conn[c]
    BY DEF Broadcast
  <2>3. c \in Subscribers(a) <=> conn[c].stage = "live" /\ conn[c].att = a
    BY DEF Subscribers
  <2>4. Append(conn[c].chan, n) \in Seq(Nat)
    BY <2>1, AppendFacts
  <2>5. CASE c \in Subscribers(a) /\ Len(conn[c].chan) < Buffer
    <3>1. conn'[c] = [conn[c] EXCEPT !.chan = Append(conn[c].chan, n)]
      BY <2>2, <2>5
    <3> QED
      BY <2>1, <2>3, <2>4, <2>5, <3>1 DEF Streams, StreamOK
  <2>6. CASE ~(c \in Subscribers(a) /\ Len(conn[c].chan) < Buffer)
    BY <2>1, <2>2, <2>3, <2>6
  <2> QED
    BY <2>5, <2>6
<1>2. conn' \in [Conns -> Streams]
  BY <1>1 DEF Broadcast, StreamOK
<1> QED
  BY <1>1, <1>2 DEF ConnType

LEMMA BrokenFacts ==
  ASSUME ConnType, NEW c \in Conns, conn[c].stage # "closed"
  PROVE  /\ StreamOK(Broken(c)) /\ Broken(c).stage = "opening"
         /\ Broken(c).att = conn[c].att /\ Broken(c).since = conn[c].since
         /\ Broken(c).wire = <<>> /\ Broken(c).chan = <<>>
<1>1. conn[c] \in Streams
  BY StreamFacts
<1>2. Broken(c) = [conn[c] EXCEPT !.stage = "opening", !.wire = <<>>, !.chan = <<>>]
  BY DEF Broken
<1> QED
  BY <1>1, <1>2, NoValues DEF StreamOK, Streams

LEMMA ReplayType ==
  ASSUME ServerType, NEW a \in Attempts, NEW since \in Nat
  PROVE  Replay(a, since) \in Seq(Nat)
BY FileFacts, ReplayFacts

LEMMA ServeFacts ==
  ASSUME ServerType, ConnType, NEW c \in Conns, Serve(c)
  PROVE  /\ ConnType' /\ conn[c].stage = "opening"
         /\ \A d \in Conns : d # c => conn'[d] = conn[d]
         /\ conn[c].att \notin Attempts \ gone => conn'[c] = Closed
         /\ conn[c].att \in Attempts \ gone =>
                /\ conn'[c].stage = "replayed" /\ conn'[c].att = conn[c].att
                /\ conn'[c].since = conn[c].since
                /\ conn'[c].upto = Len(file[conn[c].att])
                /\ conn'[c].wire = Replay(conn[c].att, conn[c].since)
                /\ conn'[c].chan = <<>>
<1>1. /\ conn[c] \in Streams /\ StreamOK(conn[c]) /\ conn[c].since \in Nat
      /\ conn[c].stage = "opening"
  BY StreamFacts DEF Serve
<1>2. CASE conn[c].att \in Attempts \ gone
  <2> DEFINE a == conn[c].att
             r == [conn[c] EXCEPT !.stage = "replayed", !.upto = Len(file[a]),
                                  !.wire = Replay(a, conn[c].since)]
  <2>1. conn' = [conn EXCEPT ![c].stage = "replayed", ![c].upto = Len(file[a]),
                             ![c].wire = Replay(a, conn[c].since)]
    BY <1>2 DEF Serve
  <2>2. conn' = [conn EXCEPT ![c] = r]
    BY <2>1 DEF ConnType
  <2>3. Replay(a, conn[c].since) \in Seq(Nat) /\ Len(file[a]) \in Nat
    BY <1>1, <1>2, ReplayType, FileFacts, LenProperties
  <2>4. /\ r \in Streams /\ r.stage = "replayed" /\ r.att = a /\ r.since = conn[c].since
        /\ r.upto = Len(file[a]) /\ r.wire = Replay(a, conn[c].since) /\ r.chan = conn[c].chan
    <3> HIDE DEF a
    <3>1. r = [conn[c] EXCEPT !.stage = "replayed", !.upto = Len(file[a]),
                              !.wire = Replay(a, conn[c].since)]
      OBVIOUS
    <3> HIDE DEF r
    <3> QED
      BY <1>1, <2>3, <3>1 DEF Streams, a
  <2>5. conn[c].chan = <<>>
    BY <1>1 DEF StreamOK
  <2> HIDE DEF r
  <2>6. StreamOK(r)
    BY <1>1, <1>2, <2>4, <2>5 DEF StreamOK
  <2> QED
    BY <1>1, <1>2, <2>2, <2>4, <2>5, <2>6, OneStream
<1>3. CASE conn[c].att \notin Attempts \ gone
  <2>1. conn' = [conn EXCEPT ![c] = Closed]
    BY <1>3 DEF Serve
  <2> QED
    BY <1>1, <1>3, <2>1, ClosedOK, OneStream
<1> QED
  BY <1>2, <1>3

LEMMA SubscribeFacts ==
  ASSUME ConnType, NEW c \in Conns, Subscribe(c)
  PROVE  /\ ConnType' /\ conn[c].stage = "replayed"
         /\ \A d \in Conns : d # c => conn'[d] = conn[d]
         /\ conn'[c].stage = "live" /\ conn'[c].att = conn[c].att
         /\ conn'[c].since = conn[c].since /\ conn'[c].upto = conn[c].upto
         /\ conn'[c].wire = conn[c].wire /\ conn'[c].chan = conn[c].chan
<1> DEFINE r == [conn[c] EXCEPT !.stage = "live"]
<1>1. /\ conn[c] \in Streams /\ StreamOK(conn[c]) /\ conn[c].stage = "replayed"
      /\ conn' = [conn EXCEPT ![c].stage = "live"]
  BY StreamFacts DEF Subscribe
<1>2. conn' = [conn EXCEPT ![c] = r]
  BY <1>1 DEF ConnType
<1>3. /\ r \in Streams /\ r.stage = "live" /\ r.att = conn[c].att /\ r.since = conn[c].since
      /\ r.upto = conn[c].upto /\ r.wire = conn[c].wire /\ r.chan = conn[c].chan
  BY <1>1 DEF Streams
<1> HIDE DEF r
<1>4. StreamOK(r)
  BY <1>1, <1>3 DEF StreamOK
<1> QED
  BY <1>1, <1>2, <1>3, <1>4, OneStream

LEMMA OneFacts ==
  ASSUME NEW n \in Nat
  PROVE  /\ <<n>> \in Seq(Nat) /\ Len(<<n>>) = 1 /\ <<n>>[1] = n /\ <<n>> # <<>>
         /\ Values(<<n>>) = {n}
<1>1. <<n>> \in Seq(Nat) /\ Len(<<n>>) = 1 /\ <<n>>[1] = n /\ <<n>> # <<>>
  OBVIOUS
<1>2. DOMAIN <<n>> = 1 .. 1
  OBVIOUS
<1> QED
  BY <1>1, <1>2 DEF Values

LEMMA HeadFirst ==
  ASSUME NEW s \in Seq(Nat), s # <<>>
  PROVE  /\ Head(s) \in Nat /\ Tail(s) \in Seq(Nat)
         /\ s = <<Head(s)>> \o Tail(s)
<1>1. /\ Head(s) \in Nat /\ Tail(s) \in Seq(Nat) /\ Len(Tail(s)) = Len(s) - 1
      /\ \A i \in 1 .. Len(Tail(s)) : Tail(s)[i] = s[i + 1]
  BY HeadTailProperties
<1>2. Head(s) = s[1]
  OBVIOUS
<1> DEFINE h == Head(s)
           t == Tail(s)
<1> HIDE DEF h, t
<1>3. h \in Nat /\ t \in Seq(Nat) /\ Len(t) = Len(s) - 1 /\ Len(s) \in Nat
  BY <1>1, SeqFacts DEF h, t
<1>4. Len(s) = 1 + Len(t)
  BY <1>3
<1>5. \A i \in 1 .. 1 : s[i] = <<h>>[i]
  BY <1>2 DEF h
<1>6. \A i \in 1 .. Len(t) : s[1 + i] = t[i]
  BY <1>1 DEF t
<1>7. <<h>> \in Seq(Nat) /\ Len(<<h>>) = 1
  BY <1>3, OneFacts
<1>8. s = <<h>> \o t
  BY <1>3, <1>4, <1>5, <1>6, <1>7, CatEqual
<1> QED
  BY <1>1, <1>8 DEF h, t

LEMMA HeadOfCat ==
  ASSUME NEW h \in Nat, NEW t \in Seq(Nat)
  PROVE  <<h>> \o t # <<>> /\ Head(<<h>> \o t) = h
<1>1. /\ <<h>> \in Seq(Nat) /\ Len(<<h>>) = 1 /\ <<h>>[1] = h /\ <<h>> # <<>>
  BY OneFacts
<1>2. /\ <<h>> \o t \in Seq(Nat) /\ <<h>> \o t # <<>>
      /\ \A i \in 1 .. Len(<<h>>) : (<<h>> \o t)[i] = <<h>>[i]
  BY <1>1, CatFacts
<1>3. (<<h>> \o t)[1] = h
  BY <1>1, <1>2
<1> QED
  BY <1>2, <1>3

LEMMA AppendIsCat ==
  ASSUME NEW s \in Seq(Nat), NEW n \in Nat
  PROVE  Append(s, n) = s \o <<n>>
<1>1. <<n>> \in Seq(Nat) /\ Len(<<n>>) = 1 /\ <<n>>[1] = n
  BY OneFacts
<1>2. /\ Append(s, n) \in Seq(Nat) /\ Len(Append(s, n)) = Len(s) + 1
      /\ \A i \in 1 .. Len(s) : Append(s, n)[i] = s[i]
      /\ Append(s, n)[Len(s) + 1] = n
  BY AppendFacts
<1>3. \A i \in 1 .. Len(<<n>>) : Append(s, n)[Len(s) + i] = <<n>>[i]
  BY <1>1, <1>2
<1> QED
  BY <1>1, <1>2, <1>3, CatEqual

(* The next frame moves from what is ahead to what is shown.               *)
LEMMA DeliverFacts ==
  ASSUME ConnType, NEW c \in Conns, Deliver(c)
  PROVE  /\ ConnType' /\ conn[c].stage \in {"replayed", "live"}
         /\ \A d \in Conns : d # c => conn'[d] = conn[d]
         /\ conn'[c].stage = conn[c].stage /\ conn'[c].att = conn[c].att
         /\ conn'[c].upto = conn[c].upto
         /\ \E n \in Nat : /\ Ahead(c) = <<n>> \o (conn'[c].wire \o conn'[c].chan)
                           /\ conn'[c].since = LastEventId(conn[c].since, n)
                           /\ events' = Append(events, [att |-> conn[c].att, seq |-> n])
<1> DEFINE n == Head(Ahead(c))
           r == [Popped(c) EXCEPT !.since = LastEventId(@, n)]
           w == conn[c].wire
           h == conn[c].chan
<1>1. /\ conn[c] \in Streams /\ StreamOK(conn[c]) /\ conn[c].since \in Nat
      /\ w \in Seq(Nat) /\ h \in Seq(Nat)
      /\ conn[c].stage \in {"replayed", "live"}
      /\ conn' = [conn EXCEPT ![c] = r]
      /\ events' = Append(events, [att |-> conn[c].att, seq |-> n])
      /\ Ahead(c) # <<>> /\ Ahead(c) = w \o h
  BY StreamFacts DEF Deliver, Ahead
<1> DEFINE w2 == IF w # <<>> THEN Tail(w) ELSE w
           h2 == IF w # <<>> THEN h ELSE Tail(h)
<1>2. Popped(c) = [conn[c] EXCEPT !.wire = w2, !.chan = h2]
  <2>1. conn[c] = [conn[c] EXCEPT !.wire = w, !.chan = h]
    BY <1>1 DEF Streams
  <2> QED
    BY <1>1, <2>1 DEF Popped, Streams
<1>3. w2 \in Seq(Nat) /\ h2 \in Seq(Nat) /\ n \in Nat /\ w \o h = <<n>> \o (w2 \o h2)
  <2> HIDE DEF w, h
  <2>1. CASE w # <<>>
    <3>1. Head(w) \in Nat /\ Tail(w) \in Seq(Nat) /\ w = <<Head(w)>> \o Tail(w)
      BY <1>1, <2>1, HeadFirst
    <3>2. <<Head(w)>> \in Seq(Nat)
      BY <3>1, OneFacts
    <3>3. w \o h = <<Head(w)>> \o (Tail(w) \o h)
      BY <1>1, <3>1, <3>2, ConcatAssociative
    <3>4. n = Head(w)
      BY <1>1, <3>1, <3>3, HeadOfCat, CatFacts
    <3> QED
      BY <1>1, <2>1, <3>1, <3>3, <3>4
  <2>2. CASE w = <<>>
    <3>1. w \o h = h /\ h # <<>>
      BY <1>1, <2>2, ConcatEmptySeq
    <3>2. Head(h) \in Nat /\ Tail(h) \in Seq(Nat) /\ h = <<Head(h)>> \o Tail(h)
      BY <1>1, <3>1, HeadFirst
    <3>3. <<>> \o Tail(h) = Tail(h)
      BY <3>2, ConcatEmptySeq
    <3> QED
      BY <1>1, <2>2, <3>1, <3>2, <3>3
  <2> QED
    BY <2>1, <2>2
<1>4. w = <<>> \/ conn[c].wire # <<>>
  OBVIOUS
<1>5. h2 = <<>> \/ conn[c].stage = "live"
  <2>1. CASE conn[c].stage = "live"
    BY <2>1
  <2>2. CASE conn[c].stage # "live"
    <3>1. h = <<>>
      BY <1>1, <2>2 DEF StreamOK
    <3>2. w # <<>>
      BY <1>1, <3>1, CatFacts
    <3> QED
      BY <3>1, <3>2
  <2> QED
    BY <2>1, <2>2
<1> HIDE DEF w, h, w2, h2, n
<1>6. LastEventId(conn[c].since, n) \in Nat
  BY <1>1, <1>3 DEF LastEventId
<1>7. r = [[conn[c] EXCEPT !.wire = w2, !.chan = h2] EXCEPT !.since = LastEventId(conn[c].since, n)]
  BY <1>1, <1>2 DEF Streams
<1> HIDE DEF r
<1>8. /\ r \in Streams /\ r.stage = conn[c].stage /\ r.att = conn[c].att /\ r.upto = conn[c].upto
      /\ r.wire = w2 /\ r.chan = h2 /\ r.since = LastEventId(conn[c].since, n)
  BY <1>1, <1>3, <1>6, <1>7 DEF Streams
<1>9. StreamOK(r)
  BY <1>1, <1>5, <1>8 DEF StreamOK
<1>10. ConnType' /\ conn'[c] = r /\ \A d \in Conns : d # c => conn'[d] = conn[d]
  BY <1>1, <1>9, OneStream
<1> QED
  BY <1>1, <1>3, <1>8, <1>10

LEMMA UnsubscribeFacts ==
  ASSUME ConnType, conn' = Unsubscribe
  PROVE  /\ ConnType'
         /\ \A c \in Conns : conn'[c] = IF c = unsub THEN Closed ELSE conn[c]
<1>1. \A c \in Conns : conn'[c] = IF c = unsub THEN Closed ELSE conn[c]
  BY DEF Unsubscribe
<1>2. \A c \in Conns : StreamOK(conn'[c])
  BY <1>1, ClosedOK DEF ConnType
<1>3. conn' \in [Conns -> Streams]
  BY <1>2 DEF Unsubscribe, StreamOK
<1> QED
  BY <1>1, <1>2, <1>3 DEF ConnType

(* A new stream for the attempt that is selected.                          *)
LEMMA OpenFacts ==
  ASSUME ConnType, attemptId \in Attempts \cup {NoAttempt}, NEW since \in Nat,
         NEW c \in Conns,
         conn' = [conn EXCEPT ![c] = [Closed EXCEPT !.stage = "opening",
                                                    !.att = attemptId, !.since = since]]
  PROVE  /\ ConnType' /\ \A d \in Conns : d # c => conn'[d] = conn[d]
         /\ conn'[c].stage = "opening" /\ conn'[c].att = attemptId /\ conn'[c].since = since
         /\ conn'[c].wire = <<>> /\ conn'[c].chan = <<>>
<1> DEFINE r == [Closed EXCEPT !.stage = "opening", !.att = attemptId, !.since = since]
<1>1. /\ r \in Streams /\ r.stage = "opening" /\ r.att = attemptId /\ r.since = since
      /\ r.wire = <<>> /\ r.chan = <<>>
  BY NoValues DEF Closed, Streams
<1>2. conn' = [conn EXCEPT ![c] = r]
  OBVIOUS
<1> HIDE DEF r
<1>3. StreamOK(r)
  BY <1>1 DEF StreamOK
<1> QED
  BY <1>1, <1>2, <1>3, OneStream

LEMMA DropFacts ==
  ASSUME ConnType, NEW c \in Conns, Drop(c)
  PROVE  /\ ConnType' /\ \A d \in Conns : d # c => conn'[d] = conn[d]
         /\ conn[c].stage # "closed"
         /\ conn'[c].stage = "opening" /\ conn'[c].att = conn[c].att
         /\ conn'[c].since = conn[c].since /\ conn'[c].wire = <<>> /\ conn'[c].chan = <<>>
<1>1. conn' = [conn EXCEPT ![c] = Broken(c)] /\ conn[c].stage # "closed"
  BY DEF Drop
<1>2. PICK r : r = Broken(c)
  OBVIOUS
<1>3. /\ StreamOK(r) /\ r.stage = "opening" /\ r.att = conn[c].att
      /\ r.since = conn[c].since /\ r.wire = <<>> /\ r.chan = <<>>
  BY <1>1, <1>2, BrokenFacts
<1>4. ConnType' /\ conn'[c] = r /\ \A d \in Conns : d # c => conn'[d] = conn[d]
  BY <1>1, <1>2, <1>3, OneStream
<1> QED
  BY <1>1, <1>3, <1>4

LEMMA RestartFacts ==
  ASSUME ConnType, Restart
  PROVE  /\ ConnType'
         /\ \A c \in Conns :
               /\ conn[c].stage = "closed" => conn'[c] = conn[c]
               /\ conn[c].stage # "closed" =>
                     /\ conn'[c].stage = "opening" /\ conn'[c].att = conn[c].att
                     /\ conn'[c].since = conn[c].since
                     /\ conn'[c].wire = <<>> /\ conn'[c].chan = <<>>
<1>1. conn' = [c \in Conns |-> IF conn[c].stage = "closed" THEN conn[c] ELSE Broken(c)]
  BY DEF Restart
<1>2. \A c \in Conns : conn'[c] = IF conn[c].stage = "closed" THEN conn[c] ELSE Broken(c)
  BY <1>1
<1>3. \A c \in Conns : StreamOK(conn'[c])
  BY <1>2, BrokenFacts DEF ConnType
<1>4. conn' \in [Conns -> Streams]
  BY <1>1, <1>3 DEF StreamOK
<1> QED
  BY <1>2, <1>3, <1>4, BrokenFacts DEF ConnType

LEMMA AnswerType ==
  ASSUME ServerType, NEW request, RequestOK(request), request.kind # "none"
  PROVE  /\ Answer(request) \in Seq(Event)
         /\ NumbersOf(Answer(request)) = Lines(request) /\ Lines(request) \in Seq(Nat)
         /\ \A e \in Values(Answer(request)) : e.att = request.att
<1>1. request.att \in Attempts /\ file[request.att] \in Seq(Nat)
  BY FileFacts DEF RequestOK
<1>2. Lines(request) \in Seq(Nat)
  <2>1. CASE request.kind = "tail"
    BY <1>1, <2>1, TailFacts
  <2>2. CASE request.kind # "tail"
    BY <1>1, <2>2, PageFacts
  <2> QED
    BY <2>1, <2>2
<1> QED
  BY <1>1, <1>2, AnswerFacts

LEMMA EndsType ==
  ASSUME NEW evts \in Seq(Event)
  PROVE  Last(evts) \in Nat /\ (evts # <<>> => First(evts) \in Nat)
<1> DEFINE s == NumbersOf(evts)
<1>1. /\ s \in Seq(Nat) /\ (s = <<>> <=> evts = <<>>) /\ LastOr0(s) = Last(evts)
      /\ evts # <<>> => s[1] = First(evts)
  BY NumbersFacts
<1> HIDE DEF s
<1>2. /\ Len(s) \in Nat /\ (s = <<>> <=> Len(s) = 0) /\ \A i \in 1 .. Len(s) : s[i] \in Nat
  BY <1>1, SeqFacts
<1>3. s # <<>> => 1 \in 1 .. Len(s) /\ Len(s) \in 1 .. Len(s)
  BY <1>2
<1>4. LastOr0(s) \in Nat
  BY <1>2, <1>3 DEF LastOr0
<1> QED
  BY <1>1, <1>2, <1>3, <1>4

LEMMA UnpublishedType ==
  ASSUME ServerType, NEW a \in Attempts
  PROVE  Unpublished(a) \subseteq Attempts \X Nat
<1>1. \A w \in Writers : writer[w].seq \in Nat
  BY SlotFacts
<1> QED
  BY <1>1 DEF Unpublished

LEMMA FaultType ==
  ASSUME faults \in 0 .. MaxFaults, NEW ok, Fault \/ Outcome(ok)
  PROVE  faults' \in 0 .. MaxFaults
BY CountAssumption DEF Fault, Outcome

LEMMA SendFacts ==
  ASSUME get \in [Gets -> Requests], NEW request, Send(request)
  PROVE  \E g \in Gets : /\ get[g].kind = "none" /\ get'[g] = request
                         /\ \A h \in Gets : h # g => get'[h] = get[h]
                         /\ get' = [get EXCEPT ![g] = request]
<1> DEFINE free == Gets \ InFlight
           g == CHOOSE x \in free : TRUE
<1>1. free # {} /\ get' = [get EXCEPT ![g] = request]
  BY DEF Send
<1>2. g \in free
  BY <1>1
<1> HIDE DEF g
<1>3. g \in Gets /\ get[g].kind = "none"
  BY <1>2 DEF InFlight
<1> QED
  BY <1>1, <1>3

LEMMA SentType ==
  ASSUME get \in [Gets -> Requests], \A g \in Gets : RequestOK(get[g]),
         NEW request, RequestOK(request), Send(request)
  PROVE  get' \in [Gets -> Requests] /\ \A g \in Gets : RequestOK(get'[g])
<1>1. PICK g \in Gets : /\ get'[g] = request /\ \A h \in Gets : h # g => get'[h] = get[h]
                        /\ get' = [get EXCEPT ![g] = request]
  BY SendFacts
<1>2. \A h \in Gets : RequestOK(get'[h])
  BY <1>1
<1>3. request \in Requests
  BY DEF RequestOK
<1>4. get' \in [Gets -> Requests]
  BY <1>1, <1>3
<1> QED
  BY <1>2, <1>4

LEMMA AnsweredFacts ==
  ASSUME get \in [Gets -> Requests], \A g \in Gets : RequestOK(get[g]),
         NEW g \in Gets, get' = [get EXCEPT ![g] = NoGet]
  PROVE  /\ get' \in [Gets -> Requests] /\ \A h \in Gets : RequestOK(get'[h])
         /\ get'[g] = NoGet /\ \A h \in Gets : h # g => get'[h] = get[h]
<1>1. get'[g] = NoGet /\ \A h \in Gets : h # g => get'[h] = get[h]
  OBVIOUS
<1>2. NoGet \in Requests /\ RequestOK(NoGet)
  BY DEF NoGet, Requests, RequestOK
<1>3. \A h \in Gets : RequestOK(get'[h])
  BY <1>1, <1>2
<1>4. get' \in [Gets -> Requests]
  BY <1>2
<1> QED
  BY <1>1, <1>3, <1>4

LEMMA ServerPane ==
  ASSUME ServerInv, PaneType,
         \/ \E w \in Writers, a \in Attempts : TakeSeq(w, a)
         \/ \E w \in Writers : WriteLine(w) \/ Publish(w)
         \/ \E a \in Attempts : Delete(a)
         \/ Restart
  PROVE  PaneType'
<1>1. ServerType /\ ConnType /\ PaneType
  BY DEF ServerInv, PaneType
<1>2. ASSUME NEW w \in Writers, NEW a \in Attempts, TakeSeq(w, a)
      PROVE  PaneType'
  BY <1>1, <1>2 DEF PaneType, ConnType, TakeSeq, pane, ghosts
<1>3. ASSUME NEW w \in Writers, WriteLine(w)
      PROVE  PaneType'
  BY <1>1, <1>3 DEF PaneType, ConnType, WriteLine, pane
<1>4. ASSUME NEW w \in Writers, Publish(w)
      PROVE  PaneType'
  <2>1. writer[w].att \in Attempts /\ writer[w].seq \in Nat
    BY <1>1, <1>4, SlotFacts DEF Publish
  <2>2. ConnType'
    BY <1>1, <1>4, <2>1, BroadcastFacts DEF Publish
  <2>3. excused' \subseteq Attempts \X Nat
    BY <1>1, <1>4, <2>1 DEF Publish, PaneType
  <2> QED
    BY <1>1, <1>4, <2>2, <2>3 DEF PaneType, Publish, pane
<1>5. ASSUME NEW a \in Attempts, Delete(a)
      PROVE  PaneType'
  <2>1. ConnType'
    BY <1>1, <1>5, BroadcastFacts DEF Delete
  <2> QED
    BY <1>1, <1>5, <2>1 DEF PaneType, Delete, pane, ghosts
<1>6. ASSUME Restart
      PROVE  PaneType'
  <2>1. ConnType'
    BY <1>1, <1>6, RestartFacts
  <2>2. faults' \in 0 .. MaxFaults
    BY <1>1, <1>6, FaultType DEF Restart, PaneType
  <2> QED
    BY <1>1, <1>6, <2>1, <2>2 DEF PaneType, Restart, pane
<1> QED
  BY <1>2, <1>3, <1>4, <1>5, <1>6

LEMMA ConnPane ==
  ASSUME ServerInv, PaneType, NEW c \in Conns, Serve(c) \/ Subscribe(c) \/ Deliver(c) \/ Drop(c)
  PROVE  PaneType'
<1>1. ServerType /\ ConnType /\ PaneType
  BY DEF ServerInv, PaneType
<1>2. CASE Serve(c)
  <2>1. ConnType'
    BY <1>1, <1>2, ServeFacts
  <2>2. /\ excused' \subseteq Attempts \X Nat
        /\ echoed' \subseteq Attempts \X Nat
    <3>1. CASE conn[c].att \in Attempts \ gone
      <4> DEFINE a == conn[c].att
      <4>1. Values(file[a]) \subseteq Nat /\ Unpublished(a) \subseteq Attempts \X Nat
        BY <1>1, <3>1, FileFacts, UnpublishedType
      <4> DEFINE more == {<<a, n>> : n \in {m \in Values(file[a]) :
                                        /\ Above(conn[c].since, m)
                                        /\ m \notin Values(Replay(a, conn[c].since))}}
      <4>2. more \subseteq Attempts \X Nat
        BY <3>1, <4>1
      <4>3. excused' = excused \cup more /\ echoed' = echoed \cup Unpublished(a)
        BY <1>2, <3>1 DEF Serve
      <4> QED
        BY <1>1, <4>1, <4>2, <4>3 DEF PaneType
    <3>2. CASE conn[c].att \notin Attempts \ gone
      BY <1>1, <1>2, <3>2 DEF Serve, PaneType
    <3> QED
      BY <3>1, <3>2
  <2> QED
    BY <1>1, <1>2, <2>1, <2>2 DEF PaneType, Serve, pane
<1>3. CASE Subscribe(c)
  <2>1. ConnType'
    BY <1>1, <1>3, SubscribeFacts
  <2> QED
    BY <1>1, <1>3, <2>1 DEF PaneType, Subscribe, pane, ghosts
<1>4. CASE Deliver(c)
  <2>1. ConnType'
    BY <1>1, <1>4, DeliverFacts
  <2>2. events' \in Seq(Event)
    <3>1. PICK n \in Nat : events' = Append(events, [att |-> conn[c].att, seq |-> n])
      BY <1>1, <1>4, DeliverFacts
    <3>2. conn[c].att \in Attempts
      BY <1>1, <1>4, StreamFacts DEF StreamOK, Deliver
    <3>3. [att |-> conn[c].att, seq |-> n] \in Event /\ events \in Seq(Event)
      BY <1>1, <3>2 DEF Event, PaneType
    <3> QED
      BY <3>1, <3>3, AppendFacts
  <2> QED
    BY <1>1, <1>4, <2>1, <2>2 DEF PaneType, Deliver, ghosts
<1>5. CASE Drop(c)
  <2>1. ConnType'
    BY <1>1, <1>5, DropFacts
  <2>2. faults' \in 0 .. MaxFaults
    BY <1>1, <1>5, FaultType DEF Drop, PaneType
  <2> QED
    BY <1>1, <1>5, <2>1, <2>2 DEF PaneType, Drop, pane
<1> QED
  BY <1>2, <1>3, <1>4, <1>5

(* The stream that reload opens.                                           *)
LEMMA LoadedFacts ==
  ASSUME ServerType, PaneType, NEW g \in Gets, NEW ok \in BOOLEAN, Loaded(g, ok)
  PROVE  /\ get[g].kind = "tail" /\ get[g].att \in Attempts /\ events' \in Seq(Event)
         /\ events' = IF ok THEN Answer(get[g]) ELSE events
         /\ unsub' \in Conns /\ conn[unsub'].stage = "closed" /\ ConnType'
         /\ \A d \in Conns : d # unsub' => conn'[d] = conn[d]
         /\ conn'[unsub'].stage = "opening" /\ conn'[unsub'].att = attemptId
         /\ conn'[unsub'].since = Last(events')
         /\ conn'[unsub'].wire = <<>> /\ conn'[unsub'].chan = <<>>
         /\ get'[g] = NoGet /\ \A h \in Gets : h # g => get'[h] = get[h]
         /\ hasMore' = IF ok THEN events' # <<>> /\ First(events') > 1 ELSE hasMore
<1> DEFINE now == IF ok THEN Answer(get[g]) ELSE events
           free == {c \in Conns : conn[c].stage = "closed"}
<1>1. get[g].kind = "tail" /\ RequestOK(get[g]) /\ ConnType
  BY DEF Loaded, PaneType
<1>2. get[g].att \in Attempts /\ Answer(get[g]) \in Seq(Event)
  BY <1>1, AnswerType DEF RequestOK
<1>3. now \in Seq(Event)
  BY <1>2 DEF PaneType
<1>4. events' = now
  BY DEF Loaded
<1>5. free # {} /\ unsub' = CHOOSE c \in free : TRUE
  BY DEF Loaded
<1>6. PICK c \in free : unsub' = c
  BY <1>5
<1>7. conn' = [conn EXCEPT ![c] = [Closed EXCEPT !.stage = "opening", !.att = attemptId,
                                                  !.since = Last(now)]]
  BY <1>6 DEF Loaded
<1>8. get' = [get EXCEPT ![g] = NoGet]
      /\ hasMore' = IF ok THEN now # <<>> /\ First(now) > 1 ELSE hasMore
  BY DEF Loaded
<1> HIDE DEF now
<1>9. Last(now) \in Nat
  BY <1>3, EndsType
<1>10. /\ ConnType' /\ \A d \in Conns : d # c => conn'[d] = conn[d]
       /\ conn'[c].stage = "opening" /\ conn'[c].att = attemptId /\ conn'[c].since = Last(now)
       /\ conn'[c].wire = <<>> /\ conn'[c].chan = <<>>
  BY <1>1, <1>6, <1>7, <1>9, OpenFacts DEF PaneType
<1>11. get'[g] = NoGet /\ \A h \in Gets : h # g => get'[h] = get[h]
  BY <1>8, AnsweredFacts DEF PaneType
<1> QED
  BY <1>1, <1>2, <1>3, <1>4, <1>6, <1>8, <1>10, <1>11 DEF now

LEMMA MoreLoadedFacts ==
  ASSUME ServerType, PaneType, NEW g \in Gets, NEW ok \in BOOLEAN, MoreLoaded(g, ok)
  PROVE  /\ get[g].kind = "page" /\ get[g].att \in Attempts
         /\ events' \in Seq(Event) /\ Answer(get[g]) \in Seq(Event)
         /\ get'[g] = NoGet /\ \A h \in Gets : h # g => get'[h] = get[h]
         /\ ~ok => events' = events /\ messages' = messages /\ hasMore' = hasMore
         /\ ok /\ Answer(get[g]) = <<>> => /\ events' = events /\ messages' = messages
                                           /\ hasMore' = FALSE
         /\ ok /\ Answer(get[g]) # <<>> => /\ events' = Answer(get[g]) \o events
                                           /\ messages' = Rebuild(events')
                                           /\ hasMore' = (First(Answer(get[g])) > 1)
<1>1. get[g].kind = "page" /\ RequestOK(get[g]) /\ get' = [get EXCEPT ![g] = NoGet]
  BY DEF MoreLoaded, PaneType
<1>2. get[g].att \in Attempts /\ Answer(get[g]) \in Seq(Event)
  BY <1>1, AnswerType DEF RequestOK
<1>3. get'[g] = NoGet /\ \A h \in Gets : h # g => get'[h] = get[h]
  BY <1>1, AnsweredFacts DEF PaneType
<1>4. /\ ~ok => events' = events /\ messages' = messages /\ hasMore' = hasMore
      /\ ok /\ Answer(get[g]) = <<>> => /\ events' = events /\ messages' = messages
                                        /\ hasMore' = FALSE
      /\ ok /\ Answer(get[g]) # <<>> => /\ events' = Answer(get[g]) \o events
                                        /\ messages' = Rebuild(Answer(get[g]) \o events)
                                        /\ hasMore' = (First(Answer(get[g])) > 1)
  BY DEF MoreLoaded, Join
<1>5. events' \in Seq(Event)
  <2>1. events \in Seq(Event) /\ Answer(get[g]) \o events \in Seq(Event)
    BY <1>2, CatFacts DEF PaneType
  <2> QED
    BY <1>4, <2>1
<1> QED
  BY <1>1, <1>2, <1>3, <1>4, <1>5

LEMMA LoadPane ==
  ASSUME ServerInv, PaneType, NEW g \in Gets, NEW ok \in BOOLEAN,
         Loaded(g, ok) \/ MoreLoaded(g, ok)
  PROVE  PaneType'
<1>1. ServerType /\ ConnType /\ PaneType
  BY DEF ServerInv, PaneType
<1>2. ASSUME get[g].kind # "none"
      PROVE  Unpublished(get[g].att) \subseteq Attempts \X Nat
  <2>1. RequestOK(get[g])
    BY <1>1 DEF PaneType
  <2> QED
    BY <1>1, <1>2, <2>1, UnpublishedType DEF RequestOK
<1>3. CASE Loaded(g, ok)
  <2>1. get' \in [Gets -> Requests] /\ \A h \in Gets : RequestOK(get'[h])
    BY <1>1, <1>3, AnsweredFacts DEF PaneType, Loaded
  <2>2. faults' \in 0 .. MaxFaults
    BY <1>1, <1>3, FaultType DEF Loaded, PaneType
  <2>3. /\ ConnType' /\ events' \in Seq(Event) /\ unsub' \in Conns /\ hasMore' \in BOOLEAN
    BY <1>1, <1>3, LoadedFacts DEF PaneType
  <2>4. echoed' \subseteq Attempts \X Nat
    BY <1>1, <1>2, <1>3 DEF Loaded, PaneType
  <2> QED
    BY <1>1, <1>3, <2>1, <2>2, <2>3, <2>4 DEF PaneType, Loaded
<1>4. CASE MoreLoaded(g, ok)
  <2>1. get' \in [Gets -> Requests] /\ \A h \in Gets : RequestOK(get'[h])
    BY <1>1, <1>4, AnsweredFacts DEF PaneType, MoreLoaded
  <2>2. faults' \in 0 .. MaxFaults
    BY <1>1, <1>4, FaultType DEF MoreLoaded, PaneType
  <2>3. events' \in Seq(Event) /\ hasMore' \in BOOLEAN
    <3>1. /\ events' \in Seq(Event)
          /\ ~ok => hasMore' = hasMore
          /\ ok /\ Answer(get[g]) = <<>> => hasMore' = FALSE
          /\ ok /\ Answer(get[g]) # <<>> => hasMore' = (First(Answer(get[g])) > 1)
      BY <1>1, <1>4, MoreLoadedFacts
    <3>2. hasMore \in BOOLEAN
      BY <1>1 DEF PaneType
    <3>3. CASE ~ok
      BY <3>1, <3>2, <3>3
    <3>4. CASE ok /\ Answer(get[g]) = <<>>
      BY <3>1, <3>4
    <3>5. CASE ok /\ Answer(get[g]) # <<>>
      BY <3>1, <3>5
    <3> QED
      BY <3>1, <3>3, <3>4, <3>5
  <2>4. echoed' \subseteq Attempts \X Nat
    BY <1>1, <1>2, <1>4 DEF MoreLoaded, PaneType
  <2>5. loadingMore' = FALSE /\ UNCHANGED <<conn, attemptId, timer, unsub, mounted,
                                            switches, overlapped, excused>>
    BY <1>4 DEF MoreLoaded
  <2> QED
    BY <1>1, <2>1, <2>2, <2>3, <2>4, <2>5 DEF PaneType, ConnType
<1> QED
  BY <1>3, <1>4

LEMMA UserPane ==
  ASSUME ServerInv, PaneType,
         (\E a \in Attempts \cup {NoAttempt} : Switch(a)) \/ LoadMore \/ Tick \/ Unmount
  PROVE  PaneType'
<1>1. ServerType /\ ConnType /\ PaneType
  BY DEF ServerInv, PaneType
<1>2. ASSUME NEW a \in Attempts \cup {NoAttempt}, Switch(a)
      PROVE  PaneType'
  <2>1. ConnType'
    BY <1>1, <1>2, UnsubscribeFacts DEF Switch
  <2>2. get' \in [Gets -> Requests] /\ \A h \in Gets : RequestOK(get'[h])
    <3>1. CASE a = NoAttempt
      BY <1>1, <1>2, <3>1 DEF Switch, PaneType
    <3>2. CASE a # NoAttempt
      <4> DEFINE r == [kind |-> "tail", att |-> a, before |-> 0]
      <4>1. RequestOK(r)
        BY <3>2 DEF RequestOK, Requests
      <4>2. Send(r)
        BY <1>2, <3>2 DEF Switch
      <4> HIDE DEF r
      <4> QED
        BY <1>1, <4>1, <4>2, SentType DEF PaneType
    <3> QED
      BY <3>1, <3>2
  <2>3. switches' \in 0 .. MaxSwitches
    BY <1>1, <1>2, CountAssumption DEF Switch, PaneType
  <2>4. /\ attemptId' = a /\ unsub' = NoConn /\ events' = <<>>
        /\ hasMore' = FALSE /\ loadingMore' = FALSE /\ timer' = FALSE
        /\ overlapped' = (overlapped \/ InFlight # {})
        /\ UNCHANGED <<mounted, faults, excused, echoed>>
    BY <1>2 DEF Switch
  <2>5. events' \in Seq(Event) /\ overlapped' \in BOOLEAN
    BY <1>1, <2>4 DEF PaneType
  <2> QED
    BY <1>1, <2>1, <2>2, <2>3, <2>4, <2>5 DEF PaneType
<1>3. CASE LoadMore
  <2> DEFINE r == [kind |-> "page", att |-> attemptId, before |-> First(events)]
  <2>1. RequestOK(r)
    <3>1. attemptId \in Attempts /\ First(events) \in Nat
      BY <1>1, <1>3, EndsType DEF LoadMore, PaneType
    <3> QED
      BY <3>1 DEF RequestOK, Requests
  <2>2. Send(r)
    BY <1>3 DEF LoadMore
  <2> HIDE DEF r
  <2>3. get' \in [Gets -> Requests] /\ \A h \in Gets : RequestOK(get'[h])
    BY <1>1, <2>1, <2>2, SentType DEF PaneType
  <2> QED
    BY <1>1, <1>3, <2>3 DEF PaneType, ConnType, LoadMore, ghosts
<1>4. CASE Tick
  BY <1>1, <1>4 DEF PaneType, ConnType, Tick, ghosts
<1>5. CASE Unmount
  <2>1. ConnType'
    BY <1>1, <1>5, UnsubscribeFacts DEF Unmount
  <2>2. overlapped' \in BOOLEAN
    BY <1>1, <1>5 DEF Unmount, PaneType
  <2> QED
    BY <1>1, <1>5, <2>1, <2>2 DEF PaneType, Unmount
<1> QED
  BY <1>2, <1>3, <1>4, <1>5

-----------------------------------------------------------------------------
(* The cards: the walk over the events.                                    *)

Walking(f, evts, n) ==
    f = [i \in 0 .. n |-> IF i = 0 THEN Blank ELSE Absorb(f[i - 1], evts[i])]

LEMMA WalkingExists ==
  ASSUME NEW evts, NEW n \in Nat
  PROVE  \E f : Walking(f, evts, n)
<1> DEFINE T == {k \in Nat : ~ \E f : Walking(f, evts, k)}
<1> SUFFICES ASSUME T # {} PROVE FALSE
  OBVIOUS
<1>1. PICK k \in T : \A m \in T : k <= m
  BY LeastNumber
<1>2. k # 0
  <2>1. Walking([i \in 0 .. 0 |-> Blank], evts, 0)
    BY DEF Walking
  <2> QED
    BY <2>1
<1>3. k - 1 \in Nat /\ k - 1 \notin T
  BY <1>1, <1>2
<1>4. PICK f : Walking(f, evts, k - 1)
  BY <1>3
<1> DEFINE g == [i \in 0 .. k |-> IF i = 0 THEN Blank ELSE Absorb(f[i - 1], evts[i])]
<1>5. \A i \in 0 .. k - 1 : g[i] = f[i]
  <2> SUFFICES ASSUME NEW i \in 0 .. k - 1 PROVE g[i] = f[i]
    OBVIOUS
  <2>1. i \in 0 .. k
    BY <1>3
  <2>2. f[i] = IF i = 0 THEN Blank ELSE Absorb(f[i - 1], evts[i])
    BY <1>4 DEF Walking
  <2> QED
    BY <2>1, <2>2
<1>6. \A i \in 0 .. k : i # 0 => g[i - 1] = f[i - 1]
  <2>1. \A i \in 0 .. k : i # 0 => i - 1 \in 0 .. k - 1
    BY <1>3
  <2> QED
    BY <1>5, <2>1
<1>7. Walking(g, evts, k)
  <2>1. \A i \in 0 .. k : g[i] = IF i = 0 THEN Blank ELSE Absorb(g[i - 1], evts[i])
    BY <1>6
  <2> QED
    BY <2>1 DEF Walking
<1> QED
  BY <1>7

LEMMA WalkFacts ==
  ASSUME NEW evts, Len(evts) \in Nat
  PROVE  \E f : /\ f[0] = Blank /\ Walk(evts) = f[Len(evts)]
                /\ \A i \in 1 .. Len(evts) : f[i] = Absorb(f[i - 1], evts[i])
<1> DEFINE n == Len(evts)
<1>1. PICK f : Walking(f, evts, n) /\ Walk(evts) = f[n]
  <2>1. \E f : Walking(f, evts, n)
    BY WalkingExists
  <2> QED
    BY <2>1 DEF Walk, Walking
<1>2. \A i \in 0 .. n : f[i] = IF i = 0 THEN Blank ELSE Absorb(f[i - 1], evts[i])
  BY <1>1 DEF Walking
<1>3. 0 \in 0 .. n /\ \A i \in 1 .. n : i \in 0 .. n /\ i # 0
  OBVIOUS
<1>4. f[0] = Blank /\ \A i \in 1 .. n : f[i] = Absorb(f[i - 1], evts[i])
  BY <1>2, <1>3
<1> QED
  BY <1>1, <1>4

(* The cards depend on the events only: what is said never changes.        *)
LEMMA SameCards ==
  ASSUME script' = script, NEW evts
  PROVE  Rebuild(evts)' = Rebuild(evts)
<1>1. ASSUME NEW e
      PROVE  Content(e)' = Content(e)
  BY DEF Content
<1>2. ASSUME NEW acc, NEW e
      PROVE  Absorb(acc, e)' = Absorb(acc, e)
  BY <1>1 DEF Absorb
<1>3. Walk(evts)' = Walk(evts)
  BY <1>2 DEF Walk
<1> QED
  BY <1>3 DEF Rebuild

LEMMA NothingRebuilt == Rebuild(<<>>) = <<>>
<1>1. Len(<<>>) = 0
  OBVIOUS
<1>2. Walk(<<>>) = Blank
  BY <1>1, WalkFacts
<1> QED
  BY <1>2 DEF Rebuild, Flush, Blank

-----------------------------------------------------------------------------
(* One stream and one request, both for the attempt that is selected.      *)

Following == mounted /\ ~overlapped /\ attemptId \in Attempts \ gone

OwnStreams ==
    /\ \A c \in Conns :
          conn[c].stage # "closed" => mounted /\ c = unsub /\ conn[c].att = attemptId
    /\ mounted /\ unsub # NoConn => attemptId \in Attempts
    /\ Following /\ unsub # NoConn => conn[unsub].stage # "closed"

OwnRequests ==
    \A g \in Gets :
        get[g].kind # "none" =>
            /\ mounted /\ get[g].att = attemptId
            /\ \A h \in Gets : h # g => get[h].kind = "none"
            /\ get[g].kind = "tail" => unsub = NoConn /\ ~hasMore /\ ~loadingMore /\ ~timer
            /\ get[g].kind = "page" => /\ loadingMore /\ unsub # NoConn /\ events # <<>>
                                       /\ get[g].before = First(events) /\ First(events) # 0

OwnShown ==
    mounted => /\ \A e \in Values(events) : e.att = attemptId
               /\ unsub = NoConn => events = <<>> /\ messages = <<>> /\ ~hasMore
               /\ timer \/ messages = Rebuild(events)

Owning == ~overlapped => OwnStreams /\ OwnRequests /\ OwnShown

(* A step that leaves the pane alone and opens and closes no stream.       *)
LEMMA QuietOwn ==
  ASSUME Owning, UNCHANGED <<get, pane, overlapped, script>>, gone \subseteq gone',
         \A c \in Conns : /\ conn'[c].att = conn[c].att
                          /\ conn'[c].stage = "closed" <=> conn[c].stage = "closed",
         unsub \in Conns \cup {NoConn}
  PROVE  Owning'
<1> SUFFICES ASSUME ~overlapped
             PROVE  OwnStreams' /\ OwnRequests' /\ OwnShown'
  BY DEF Owning
<1>1. OwnStreams /\ OwnRequests /\ OwnShown
  BY DEF Owning
<1>2. /\ attemptId' = attemptId /\ events' = events /\ messages' = messages /\ hasMore' = hasMore
      /\ loadingMore' = loadingMore /\ timer' = timer /\ unsub' = unsub /\ mounted' = mounted
      /\ get' = get /\ overlapped' = overlapped /\ script' = script
  BY DEF pane
<1>3. OwnStreams'
  <2>1. Following' => Following
    BY <1>2 DEF Following
  <2> QED
    BY <1>1, <1>2, <2>1 DEF OwnStreams
<1>4. OwnRequests'
  BY <1>1, <1>2 DEF OwnRequests, First
<1>5. OwnShown'
  <2>1. PICK e : e = events
    OBVIOUS
  <2>2. Rebuild(events)' = Rebuild(events)
    BY <1>2, <2>1, SameCards
  <2>3. mounted => /\ \A x \in Values(events) : x.att = attemptId
                   /\ unsub = NoConn => events = <<>> /\ messages = <<>> /\ ~hasMore
                   /\ timer \/ messages = Rebuild(events)
    BY <1>1 DEF OwnShown
  <2> QED
    BY <1>2, <2>2, <2>3 DEF OwnShown
<1> QED
  BY <1>3, <1>4, <1>5

LEMMA OwnParts ==
  ASSUME Owning, ~overlapped
  PROVE  OwnStreams /\ OwnRequests /\ OwnShown
BY DEF Owning

LEMMA ServerOwn ==
  ASSUME ServerInv, PaneType, Owning,
         \/ \E w \in Writers, a \in Attempts : TakeSeq(w, a)
         \/ \E w \in Writers : WriteLine(w) \/ Publish(w)
         \/ \E a \in Attempts : Delete(a)
         \/ Restart
  PROVE  Owning'
<1>1. ServerType /\ ConnType /\ unsub \in Conns \cup {NoConn}
  BY DEF ServerInv, PaneType
<1>2. UNCHANGED <<get, pane, overlapped, script>> /\ gone \subseteq gone'
  BY DEF TakeSeq, WriteLine, Publish, Delete, Restart, ghosts
<1>3. \A c \in Conns : /\ conn'[c].att = conn[c].att
                       /\ conn'[c].stage = "closed" <=> conn[c].stage = "closed"
  <2>1. ASSUME NEW w \in Writers, NEW a \in Attempts, TakeSeq(w, a)
        PROVE  conn' = conn
    BY <2>1 DEF TakeSeq
  <2>2. ASSUME NEW w \in Writers, WriteLine(w)
        PROVE  conn' = conn
    BY <2>2 DEF WriteLine
  <2>3. ASSUME NEW w \in Writers, Publish(w), NEW c \in Conns
        PROVE  conn'[c].att = conn[c].att /\ conn'[c].stage = conn[c].stage
    <3>1. writer[w].seq \in Nat /\ conn' = Broadcast(writer[w].att, writer[w].seq)
      BY <1>1, <2>3, SlotFacts DEF Publish
    <3> QED
      BY <1>1, <3>1, BroadcastFacts
  <2>4. ASSUME NEW a \in Attempts, Delete(a), NEW c \in Conns
        PROVE  conn'[c].att = conn[c].att /\ conn'[c].stage = conn[c].stage
    <3>1. conn' = Broadcast(a, 0)
      BY <2>4 DEF Delete
    <3> QED
      BY <1>1, <3>1, BroadcastFacts
  <2>5. ASSUME Restart, NEW c \in Conns
        PROVE  /\ conn'[c].att = conn[c].att
               /\ conn'[c].stage = "closed" <=> conn[c].stage = "closed"
    BY <1>1, <2>5, RestartFacts
  <2> QED
    BY <2>1, <2>2, <2>3, <2>4, <2>5
<1> QED
  BY <1>1, <1>2, <1>3, QuietOwn

LEMMA ServeOwn ==
  ASSUME ServerInv, PaneType, Owning, NEW c \in Conns, Serve(c)
  PROVE  Owning'
<1>1. ServerType /\ ConnType /\ unsub \in Conns \cup {NoConn}
  BY DEF ServerInv, PaneType
<1>2. UNCHANGED <<get, pane, overlapped, script, gone>>
  BY DEF Serve, server
<1>3. CASE conn[c].att \in Attempts \ gone
  <2>1. /\ conn'[c].att = conn[c].att /\ conn'[c].stage = "replayed" /\ conn[c].stage = "opening"
        /\ \A d \in Conns : d # c => conn'[d] = conn[d]
    BY <1>1, <1>3, ServeFacts
  <2>2. \A d \in Conns : /\ conn'[d].att = conn[d].att
                         /\ conn'[d].stage = "closed" <=> conn[d].stage = "closed"
    BY <2>1
  <2> QED
    BY <1>1, <1>2, <2>2, QuietOwn
<1>4. CASE conn[c].att \notin Attempts \ gone
  <2>1. /\ conn'[c] = Closed /\ conn[c].stage = "opening" /\ Closed.stage = "closed"
        /\ \A d \in Conns : d # c => conn'[d] = conn[d]
    BY <1>1, <1>4, ServeFacts DEF Closed
  <2> SUFFICES ASSUME ~overlapped PROVE OwnStreams' /\ OwnRequests' /\ OwnShown'
    BY <1>2 DEF Owning
  <2>2. OwnStreams /\ OwnRequests /\ OwnShown
    BY OwnParts
  <2>3. /\ attemptId' = attemptId /\ events' = events /\ messages' = messages
        /\ hasMore' = hasMore /\ loadingMore' = loadingMore /\ timer' = timer
        /\ unsub' = unsub /\ mounted' = mounted /\ get' = get /\ overlapped' = overlapped
        /\ script' = script /\ gone' = gone
    BY <1>2 DEF pane
  <2>4. conn[c].att = attemptId
    BY <2>1, <2>2 DEF OwnStreams
  <2>5. ~Following'
    BY <1>4, <2>3, <2>4 DEF Following
  <2>6. OwnStreams'
    BY <2>1, <2>2, <2>3, <2>5 DEF OwnStreams
  <2>7. OwnRequests'
    BY <2>2, <2>3 DEF OwnRequests, First
  <2>8. OwnShown'
    <3>1. PICK e : e = events
      OBVIOUS
    <3>2. Rebuild(events)' = Rebuild(events)
      BY <2>3, <3>1, SameCards
    <3> QED
      BY <2>2, <2>3, <3>2 DEF OwnShown
  <2> QED
    BY <2>6, <2>7, <2>8
<1> QED
  BY <1>3, <1>4

LEMMA QuietConnOwn ==
  ASSUME ServerInv, PaneType, Owning, NEW c \in Conns, Subscribe(c) \/ Drop(c)
  PROVE  Owning'
<1>1. ServerType /\ ConnType /\ unsub \in Conns \cup {NoConn}
  BY DEF ServerInv, PaneType
<1>2. UNCHANGED <<get, pane, overlapped, script, gone>>
  BY DEF Subscribe, Drop, server, ghosts
<1>3. CASE Subscribe(c)
  <2>1. \A d \in Conns : /\ conn'[d].att = conn[d].att
                         /\ conn'[d].stage = "closed" <=> conn[d].stage = "closed"
    BY <1>1, <1>3, SubscribeFacts
  <2> QED
    BY <1>1, <1>2, <2>1, QuietOwn
<1>4. CASE Drop(c)
  <2>1. \A d \in Conns : /\ conn'[d].att = conn[d].att
                         /\ conn'[d].stage = "closed" <=> conn[d].stage = "closed"
    BY <1>1, <1>4, DropFacts
  <2> QED
    BY <1>1, <1>2, <2>1, QuietOwn
<1> QED
  BY <1>3, <1>4

LEMMA DeliverOwn ==
  ASSUME ServerInv, PaneType, Owning, NEW c \in Conns, Deliver(c)
  PROVE  Owning'
<1>1. ServerType /\ ConnType /\ unsub \in Conns \cup {NoConn} /\ events \in Seq(Event)
  BY DEF ServerInv, PaneType
<1>2. /\ get' = get /\ attemptId' = attemptId /\ messages' = messages /\ hasMore' = hasMore
      /\ loadingMore' = loadingMore /\ unsub' = unsub /\ mounted' = mounted
      /\ overlapped' = overlapped /\ gone' = gone /\ timer' = TRUE
  BY DEF Deliver, server, ghosts
<1> SUFFICES ASSUME ~overlapped PROVE OwnStreams' /\ OwnRequests' /\ OwnShown'
  BY <1>2 DEF Owning
<1>3. OwnStreams /\ OwnRequests /\ OwnShown
  BY OwnParts
<1>4. PICK n \in Nat : events' = Append(events, [att |-> conn[c].att, seq |-> n])
  BY <1>1, DeliverFacts
<1>5. /\ conn[c].stage \in {"replayed", "live"} /\ conn'[c].stage = conn[c].stage
      /\ conn'[c].att = conn[c].att /\ \A d \in Conns : d # c => conn'[d] = conn[d]
  BY <1>1, DeliverFacts
<1>6. mounted /\ c = unsub /\ conn[c].att = attemptId /\ unsub # NoConn
  BY <1>3, <1>5, IdAssumption DEF OwnStreams
<1> DEFINE e == [att |-> conn[c].att, seq |-> n]
<1>7. e \in Event /\ e.att = attemptId
  <2>1. conn[c].att \in Attempts
    BY <1>1, <1>5, StreamFacts DEF StreamOK
  <2> QED
    BY <1>6, <2>1 DEF Event
<1>8. events' = Append(events, e)
  BY <1>4
<1> HIDE DEF e
<1>9. /\ events' # <<>> /\ Values(events') = Values(events) \cup {e}
      /\ \A i \in 1 .. Len(events) : events'[i] = events[i]
  BY <1>1, <1>7, <1>8, AppendFacts
<1>10. events # <<>> => First(events)' = First(events)
  <2>1. events # <<>> => 1 \in 1 .. Len(events)
    BY <1>1, SeqFacts
  <2> QED
    BY <1>9, <2>1 DEF First
<1>11. OwnStreams'
  BY <1>2, <1>3, <1>5 DEF OwnStreams, Following
<1>12. OwnRequests'
  <2> SUFFICES ASSUME NEW g \in Gets, get[g].kind # "none"
               PROVE  /\ mounted /\ get[g].att = attemptId
                      /\ \A h \in Gets : h # g => get[h].kind = "none"
                      /\ get[g].kind # "tail"
                      /\ get[g].kind = "page" => /\ loadingMore /\ unsub # NoConn /\ events' # <<>>
                                                 /\ get[g].before = First(events)'
                                                 /\ First(events)' # 0
    BY <1>2 DEF OwnRequests
  <2> QED
    BY <1>3, <1>6, <1>9, <1>10 DEF OwnRequests
<1>13. OwnShown'
  BY <1>2, <1>3, <1>6, <1>7, <1>9 DEF OwnShown
<1> QED
  BY <1>11, <1>12, <1>13

LEMMA LoadedOwn ==
  ASSUME ServerInv, PaneType, Owning, NEW g \in Gets, NEW ok \in BOOLEAN, Loaded(g, ok)
  PROVE  Owning'
<1>1. ServerType /\ ConnType /\ unsub \in Conns \cup {NoConn} /\ events \in Seq(Event) /\ PaneType
  BY DEF ServerInv, PaneType
<1>2. /\ get[g].kind = "tail" /\ get[g].att \in Attempts
      /\ events' = IF ok THEN Answer(get[g]) ELSE events
      /\ unsub' \in Conns
      /\ \A d \in Conns : d # unsub' => conn'[d] = conn[d]
      /\ conn'[unsub'].stage = "opening" /\ conn'[unsub'].att = attemptId
      /\ get'[g] = NoGet /\ \A h \in Gets : h # g => get'[h] = get[h]
  BY <1>1, LoadedFacts
<1>3. /\ attemptId' = attemptId /\ timer' = timer /\ mounted' = mounted
      /\ overlapped' = overlapped /\ gone' = gone /\ script' = script
      /\ messages' = IF ok THEN Rebuild(IF ok THEN Answer(get[g]) ELSE events) ELSE messages
  BY DEF Loaded, server
<1> SUFFICES ASSUME ~overlapped PROVE OwnStreams' /\ OwnRequests' /\ OwnShown'
  BY <1>3 DEF Owning
<1>4. OwnStreams /\ OwnRequests /\ OwnShown
  BY OwnParts
<1>5. /\ mounted /\ get[g].att = attemptId /\ unsub = NoConn
      /\ \A h \in Gets : h # g => get[h].kind = "none"
  BY <1>2, <1>4 DEF OwnRequests
<1>6. OwnStreams'
  <2>1. \A d \in Conns : conn[d].stage = "closed"
    BY <1>4, <1>5, IdAssumption DEF OwnStreams
  <2> QED
    BY <1>2, <1>3, <1>5, <2>1 DEF OwnStreams
<1>7. OwnRequests'
  BY <1>2, <1>5 DEF OwnRequests, NoGet
<1>8. OwnShown'
  <2>1. unsub' # NoConn
    BY <1>2, IdAssumption
  <2>2. RequestOK(get[g])
    BY <1>1 DEF PaneType
  <2>3. \A e \in Values(events') : e.att = attemptId
    <3>1. CASE ok
      BY <1>1, <1>2, <1>5, <2>2, <3>1, AnswerType
    <3>2. CASE ~ok
      BY <1>2, <1>4, <1>5, <3>2 DEF OwnShown
    <3> QED
      BY <3>1, <3>2
  <2>4. timer \/ messages' = Rebuild(events)'
    <3>1. PICK e : e = events'
      OBVIOUS
    <3>2. Rebuild(e)' = Rebuild(e)
      BY <1>3, SameCards
    <3>3. timer \/ messages' = Rebuild(e)
      <4>1. CASE ok
        BY <1>2, <1>3, <3>1, <4>1
      <4>2. CASE ~ok
        BY <1>2, <1>3, <1>4, <1>5, <3>1, <4>2 DEF OwnShown
      <4> QED
        BY <4>1, <4>2
    <3> QED
      BY <3>1, <3>2, <3>3
  <2> QED
    BY <1>3, <2>1, <2>3, <2>4 DEF OwnShown
<1> QED
  BY <1>6, <1>7, <1>8

LEMMA MoreLoadedOwn ==
  ASSUME ServerInv, PaneType, Owning, NEW g \in Gets, NEW ok \in BOOLEAN, MoreLoaded(g, ok)
  PROVE  Owning'
<1>1. ServerType /\ ConnType /\ unsub \in Conns \cup {NoConn} /\ events \in Seq(Event) /\ PaneType
  BY DEF ServerInv, PaneType
<1>2. /\ get[g].kind = "page" /\ get[g].att \in Attempts
      /\ events' \in Seq(Event) /\ Answer(get[g]) \in Seq(Event)
      /\ get'[g] = NoGet /\ \A h \in Gets : h # g => get'[h] = get[h]
      /\ ~ok => events' = events /\ messages' = messages /\ hasMore' = hasMore
      /\ ok /\ Answer(get[g]) = <<>> => /\ events' = events /\ messages' = messages
                                        /\ hasMore' = FALSE
      /\ ok /\ Answer(get[g]) # <<>> => /\ events' = Answer(get[g]) \o events
                                        /\ messages' = Rebuild(events')
                                        /\ hasMore' = (First(Answer(get[g])) > 1)
  BY <1>1, MoreLoadedFacts
<1>3. /\ attemptId' = attemptId /\ timer' = timer /\ mounted' = mounted /\ conn' = conn
      /\ overlapped' = overlapped /\ gone' = gone /\ script' = script /\ unsub' = unsub
  BY DEF MoreLoaded, server
<1> SUFFICES ASSUME ~overlapped PROVE OwnStreams' /\ OwnRequests' /\ OwnShown'
  BY <1>3 DEF Owning
<1>4. OwnStreams /\ OwnRequests /\ OwnShown
  BY OwnParts
<1>5. /\ mounted /\ get[g].att = attemptId /\ unsub # NoConn
      /\ \A h \in Gets : h # g => get[h].kind = "none"
  BY <1>2, <1>4 DEF OwnRequests
<1>6. OwnStreams'
  BY <1>3, <1>4 DEF OwnStreams, Following
<1>7. OwnRequests'
  BY <1>2, <1>5 DEF OwnRequests, NoGet
<1>8. OwnShown'
  <2>1. RequestOK(get[g])
    BY <1>1 DEF PaneType
  <2>2. \A e \in Values(Answer(get[g])) : e.att = attemptId
    BY <1>1, <1>2, <1>5, <2>1, AnswerType
  <2>3. \A e \in Values(events) : e.att = attemptId
    BY <1>4, <1>5 DEF OwnShown
  <2>4. Values(Answer(get[g]) \o events) = Values(Answer(get[g])) \cup Values(events)
    BY <1>1, <1>2, CatFacts
  <2>5. \A e \in Values(events') : e.att = attemptId
    BY <1>2, <2>2, <2>3, <2>4
  <2>6. timer \/ messages' = Rebuild(events)'
    <3>1. PICK e : e = events'
      OBVIOUS
    <3>2. Rebuild(e)' = Rebuild(e)
      BY <1>3, SameCards
    <3>3. timer \/ messages' = Rebuild(e)
      BY <1>2, <1>4, <1>5, <3>1 DEF OwnShown
    <3> QED
      BY <3>1, <3>2, <3>3
  <2> QED
    BY <1>3, <1>5, <2>5, <2>6 DEF OwnShown
<1> QED
  BY <1>6, <1>7, <1>8

LEMMA SwitchOwn ==
  ASSUME ServerInv, PaneType, Owning, NEW a \in Attempts \cup {NoAttempt}, Switch(a)
  PROVE  Owning'
<1>1. ConnType /\ unsub \in Conns \cup {NoConn} /\ get \in [Gets -> Requests]
  BY DEF PaneType
<1>2. /\ mounted /\ attemptId' = a /\ conn' = Unsubscribe /\ unsub' = NoConn
      /\ events' = <<>> /\ messages' = <<>>
      /\ hasMore' = FALSE /\ loadingMore' = FALSE /\ timer' = FALSE
      /\ overlapped' = (overlapped \/ InFlight # {}) /\ mounted' = mounted
      /\ script' = script
      /\ IF a = NoAttempt THEN get' = get ELSE Send([kind |-> "tail", att |-> a, before |-> 0])
  BY DEF Switch, server
<1> SUFFICES ASSUME ~overlapped, InFlight = {} PROVE OwnStreams' /\ OwnRequests' /\ OwnShown'
  BY <1>2 DEF Owning
<1>3. OwnStreams
  BY OwnParts
<1>4. \A g \in Gets : get[g].kind = "none"
  BY DEF InFlight
<1>5. \A c \in Conns : conn'[c].stage = "closed"
  <2>1. \A c \in Conns : conn'[c] = IF c = unsub THEN Closed ELSE conn[c]
    BY <1>1, <1>2, UnsubscribeFacts
  <2> QED
    BY <1>3, <2>1 DEF OwnStreams, Closed
<1>6. OwnStreams'
  BY <1>2, <1>5 DEF OwnStreams
<1>7. OwnRequests'
  <2>1. CASE a = NoAttempt
    BY <1>2, <1>4, <2>1 DEF OwnRequests
  <2>2. CASE a # NoAttempt
    <3> DEFINE r == [kind |-> "tail", att |-> a, before |-> 0]
    <3>1. PICK g \in Gets : get'[g] = r /\ \A h \in Gets : h # g => get'[h] = get[h]
      <4>1. Send(r)
        BY <1>2, <2>2
      <4> HIDE DEF r
      <4> QED
        BY <1>1, <4>1, SendFacts
    <3>2. r.kind = "tail" /\ r.att = a
      OBVIOUS
    <3> HIDE DEF r
    <3> QED
      BY <1>2, <1>4, <3>1, <3>2 DEF OwnRequests
  <2> QED
    BY <2>1, <2>2
<1>8. OwnShown'
  <2>1. Rebuild(<<>>)' = <<>>
    BY <1>2, SameCards, NothingRebuilt
  <2> QED
    BY <1>2, <2>1, NoValues DEF OwnShown
<1> QED
  BY <1>6, <1>7, <1>8

LEMMA LoadMoreOwn ==
  ASSUME ServerInv, PaneType, Owning, LoadMore
  PROVE  Owning'
<1>1. ConnType /\ unsub \in Conns \cup {NoConn} /\ get \in [Gets -> Requests]
  BY DEF PaneType
<1> DEFINE r == [kind |-> "page", att |-> attemptId, before |-> First(events)]
<1>2. /\ mounted /\ hasMore /\ ~loadingMore /\ events # <<>> /\ First(events) # 0
      /\ loadingMore' = TRUE /\ Send(r)
      /\ attemptId' = attemptId /\ events' = events /\ messages' = messages
      /\ hasMore' = hasMore /\ timer' = timer /\ unsub' = unsub /\ mounted' = mounted
      /\ overlapped' = overlapped /\ conn' = conn /\ script' = script /\ gone' = gone
  BY DEF LoadMore, server, ghosts
<1> SUFFICES ASSUME ~overlapped PROVE OwnStreams' /\ OwnRequests' /\ OwnShown'
  BY <1>2 DEF Owning
<1>3. OwnStreams /\ OwnRequests /\ OwnShown
  BY OwnParts
<1>4. ASSUME NEW g \in Gets
      PROVE  get[g].kind = "none"
  <2>1. get[g].kind \in {"none", "tail", "page"}
    BY <1>1 DEF Requests
  <2> QED
    BY <1>2, <1>3, <2>1 DEF OwnRequests
<1>5. unsub # NoConn
  BY <1>2, <1>3 DEF OwnShown
<1>6. r.kind = "page" /\ r.att = attemptId /\ r.before = First(events)
  OBVIOUS
<1> HIDE DEF r
<1>7. PICK g \in Gets : get'[g] = r /\ \A h \in Gets : h # g => get'[h] = get[h]
  BY <1>1, <1>2, SendFacts
<1>8. OwnStreams'
  BY <1>2, <1>3 DEF OwnStreams, Following
<1>9. OwnRequests'
  BY <1>2, <1>4, <1>5, <1>6, <1>7 DEF OwnRequests, First
<1>10. OwnShown'
  <2>1. PICK e : e = events
    OBVIOUS
  <2>2. Rebuild(events)' = Rebuild(events)
    BY <1>2, <2>1, SameCards
  <2> QED
    BY <1>2, <1>3, <2>2 DEF OwnShown
<1> QED
  BY <1>8, <1>9, <1>10

LEMMA TickOwn ==
  ASSUME ServerInv, PaneType, Owning, Tick
  PROVE  Owning'
<1>1. /\ timer /\ timer' = FALSE /\ messages' = Rebuild(events)
      /\ attemptId' = attemptId /\ events' = events /\ loadingMore' = loadingMore
      /\ hasMore' = hasMore /\ unsub' = unsub /\ mounted' = mounted /\ get' = get
      /\ overlapped' = overlapped /\ conn' = conn /\ script' = script /\ gone' = gone
  BY DEF Tick, server, ghosts
<1> SUFFICES ASSUME ~overlapped PROVE OwnStreams' /\ OwnRequests' /\ OwnShown'
  BY <1>1 DEF Owning
<1>2. OwnStreams /\ OwnRequests /\ OwnShown
  BY OwnParts
<1>3. OwnStreams'
  BY <1>1, <1>2 DEF OwnStreams, Following
<1>4. OwnRequests'
  BY <1>1, <1>2 DEF OwnRequests, First
<1>5. OwnShown'
  <2>1. PICK e : e = events
    OBVIOUS
  <2>2. Rebuild(events)' = Rebuild(events)
    BY <1>1, <2>1, SameCards
  <2>3. mounted /\ unsub = NoConn => messages' = <<>>
    BY <1>1, <1>2, NothingRebuilt DEF OwnShown
  <2> QED
    BY <1>1, <1>2, <2>2, <2>3 DEF OwnShown
<1> QED
  BY <1>3, <1>4, <1>5

LEMMA UnmountOwn ==
  ASSUME ServerInv, PaneType, Owning, Unmount
  PROVE  Owning'
<1>1. ConnType
  BY DEF PaneType
<1>2. /\ mounted' = FALSE /\ conn' = Unsubscribe /\ get' = get
      /\ overlapped' = (overlapped \/ InFlight # {})
  BY DEF Unmount
<1> SUFFICES ASSUME ~overlapped, InFlight = {} PROVE OwnStreams' /\ OwnRequests' /\ OwnShown'
  BY <1>2 DEF Owning
<1>3. OwnStreams
  BY OwnParts
<1>4. \A g \in Gets : get[g].kind = "none"
  BY DEF InFlight
<1>5. \A c \in Conns : conn'[c].stage = "closed"
  <2>1. \A c \in Conns : conn'[c] = IF c = unsub THEN Closed ELSE conn[c]
    BY <1>1, <1>2, UnsubscribeFacts
  <2> QED
    BY <1>3, <2>1 DEF OwnStreams, Closed
<1> QED
  BY <1>2, <1>4, <1>5 DEF OwnStreams, OwnRequests, OwnShown, Following

BaseInv == ServerInv /\ PaneType /\ Owning

LEMMA StillBase ==
  ASSUME BaseInv, UNCHANGED vars
  PROVE  BaseInv'
<1>1. /\ UNCHANGED <<script, seqs, file, gone, writer, crossed>>
      /\ conn' = conn /\ get' = get /\ UNCHANGED pane /\ UNCHANGED ghosts
      /\ overlapped' = overlapped
  BY DEF vars, server, ghosts
<1>2. ServerInv /\ PaneType /\ Owning
  BY DEF BaseInv
<1>3. ServerInv'
  BY <1>1, <1>2, StillServer
<1>4. PaneType'
  BY <1>1, <1>2 DEF PaneType, ConnType, pane, ghosts
<1>5. Owning'
  <2>1. unsub \in Conns \cup {NoConn}
    BY <1>2 DEF PaneType
  <2> QED
    BY <1>1, <1>2, <2>1, QuietOwn
<1> QED
  BY <1>3, <1>4, <1>5 DEF BaseInv

LEMMA NextBase ==
  ASSUME BaseInv, Next
  PROVE  BaseInv'
<1>1. ServerInv /\ PaneType /\ Owning
  BY DEF BaseInv
<1>2. ASSUME NEW w \in Writers, NEW a \in Attempts, TakeSeq(w, a)
      PROVE  BaseInv'
  BY <1>1, <1>2, TakeSeqServer, ServerPane, ServerOwn DEF BaseInv
<1>3. ASSUME NEW w \in Writers, WriteLine(w)
      PROVE  BaseInv'
  BY <1>1, <1>3, WriteLineServer, ServerPane, ServerOwn DEF BaseInv
<1>4. ASSUME NEW w \in Writers, Publish(w)
      PROVE  BaseInv'
  BY <1>1, <1>4, PublishServer, ServerPane, ServerOwn DEF BaseInv
<1>5. ASSUME NEW a \in Attempts, Delete(a)
      PROVE  BaseInv'
  BY <1>1, <1>5, DeleteServer, ServerPane, ServerOwn DEF BaseInv
<1>6. CASE Restart
  BY <1>1, <1>6, RestartServer, ServerPane, ServerOwn DEF BaseInv
<1>7. ASSUME NEW c \in Conns, Serve(c) \/ Subscribe(c) \/ Deliver(c) \/ Drop(c)
      PROVE  BaseInv'
  <2>1. ServerInv'
    BY <1>1, <1>7, StillServer DEF Serve, Subscribe, Deliver, Drop, server, ghosts
  <2>2. PaneType'
    BY <1>1, <1>7, ConnPane
  <2>3. Owning'
    BY <1>1, <1>7, ServeOwn, QuietConnOwn, DeliverOwn
  <2> QED
    BY <2>1, <2>2, <2>3 DEF BaseInv
<1>8. ASSUME NEW g \in Gets, NEW ok \in BOOLEAN, Loaded(g, ok) \/ MoreLoaded(g, ok)
      PROVE  BaseInv'
  <2>1. UNCHANGED <<script, seqs, file, gone, writer, crossed>>
    <3>1. CASE Loaded(g, ok)
      BY <3>1 DEF Loaded, server
    <3>2. CASE MoreLoaded(g, ok)
      BY <3>2 DEF MoreLoaded, server
    <3> QED
      BY <1>8, <3>1, <3>2
  <2>2. ServerInv'
    BY <1>1, <2>1, StillServer
  <2>3. PaneType'
    BY <1>1, <1>8, LoadPane
  <2>4. Owning'
    BY <1>1, <1>8, LoadedOwn, MoreLoadedOwn
  <2> QED
    BY <2>2, <2>3, <2>4 DEF BaseInv
<1>9. ASSUME NEW a \in Attempts \cup {NoAttempt}, Switch(a)
      PROVE  BaseInv'
  <2>1. ServerInv'
    BY <1>1, <1>9, StillServer DEF Switch, server
  <2> QED
    BY <1>1, <1>9, <2>1, UserPane, SwitchOwn DEF BaseInv
<1>10. ASSUME LoadMore \/ Tick \/ Unmount
       PROVE  BaseInv'
  <2>1. UNCHANGED <<script, seqs, file, gone, writer, crossed>>
    <3>1. CASE LoadMore
      BY <3>1 DEF LoadMore, server, ghosts
    <3>2. CASE Tick
      BY <3>2 DEF Tick, server, ghosts
    <3>3. CASE Unmount
      BY <3>3 DEF Unmount, server
    <3> QED
      BY <1>10, <3>1, <3>2, <3>3
  <2>2. ServerInv'
    BY <1>1, <2>1, StillServer
  <2> QED
    BY <1>1, <1>10, <2>2, UserPane, LoadMoreOwn, TickOwn, UnmountOwn DEF BaseInv
<1> QED
  BY <1>2, <1>3, <1>4, <1>5, <1>6, <1>7, <1>8, <1>9, <1>10 DEF Next

LEMMA InitBase ==
  ASSUME Init
  PROVE  BaseInv
<1>1. ServerInv
  BY InitServer
<1>2. /\ conn = [c \in Conns |-> Closed] /\ get = [g \in Gets |-> NoGet]
      /\ attemptId = NoAttempt /\ events = <<>> /\ messages = <<>>
      /\ hasMore = FALSE /\ loadingMore = FALSE /\ timer = FALSE
      /\ unsub = NoConn /\ mounted = TRUE /\ switches = 0 /\ faults = 0
      /\ overlapped = FALSE /\ excused = {} /\ echoed = {}
  BY DEF Init
<1>3. PaneType
  <2>1. ConnType
    BY <1>2, ClosedOK DEF ConnType
  <2>2. get \in [Gets -> Requests] /\ \A g \in Gets : RequestOK(get[g])
    BY <1>2 DEF NoGet, Requests, RequestOK
  <2>3. switches \in 0 .. MaxSwitches /\ faults \in 0 .. MaxFaults
    BY <1>2, CountAssumption
  <2>4. events \in Seq(Event)
    BY <1>2
  <2> QED
    BY <1>2, <2>1, <2>2, <2>3, <2>4 DEF PaneType
<1>4. Owning
  BY <1>2, NothingRebuilt, NoValues DEF Owning, OwnStreams, OwnRequests, OwnShown, Closed, NoGet
<1> QED
  BY <1>1, <1>3, <1>4 DEF BaseInv

LEMMA TypeHolds ==
  ASSUME BaseInv
  PROVE  TypeOK
BY DEF BaseInv, ServerInv, ServerType, PaneType, ConnType, Slots, Streams, Requests, TypeOK

LEMMA OwnHolds ==
  ASSUME BaseInv
  PROVE  OwnEventsOnly
<1>1. Owning
  BY DEF BaseInv
<1> SUFFICES ASSUME ~overlapped
             PROVE  /\ mounted => \A e \in Values(events) : e.att = attemptId
                    /\ Open \subseteq IF mounted THEN {unsub} ELSE {}
  BY DEF OwnEventsOnly
<1>2. OwnStreams /\ OwnShown
  BY <1>1, OwnParts
<1>3. Open \subseteq IF mounted THEN {unsub} ELSE {}
  BY <1>2 DEF OwnStreams, Open
<1> QED
  BY <1>2, <1>3 DEF OwnShown

-----------------------------------------------------------------------------
(* The pipeline of the pane, against the file.                             *)

Shown == NumbersOf(events)

HeldOf(a) == {writer[w].seq : w \in {x \in Writers : /\ writer[x].stage = "written"
                                                     /\ writer[x].att = a}}

ReadUpTo == IF conn[unsub].stage = "replayed" THEN conn[unsub].upto ELSE 0

Flow(F, S, H, since, more, opening, held, read, lost) ==
    /\ F \in Seq(Nat) /\ S \in Seq(Nat) /\ H \in Seq(Nat)
    /\ Values(S \o H) \subseteq Values(F)
    /\ since = LastOr0(S)
    /\ NoneLost(F, S, S \o H, more, opening, held, read, lost)

FlowNow ==
    Flow(file[attemptId], Shown, Ahead(unsub), conn[unsub].since, hasMore,
         conn[unsub].stage = "opening", HeldOf(attemptId), ReadUpTo,
         Of(excused \cup crossed, attemptId))

FlowInv == Following /\ unsub # NoConn => FlowNow

(* The state of the pipeline after a step, by its parts.                   *)
LEMMA FlowNext ==
  ASSUME NEW a, attemptId' = a, NEW F, file'[a] = F, NEW S, Shown' = S,
         NEW H, conn'[unsub'].wire \o conn'[unsub'].chan = H,
         NEW since, conn'[unsub'].since = since, NEW more, hasMore' = more,
         NEW opening, (conn'[unsub'].stage = "opening") = opening,
         NEW held, HeldOf(a)' = held,
         NEW read, (IF conn'[unsub'].stage = "replayed" THEN conn'[unsub'].upto ELSE 0) = read,
         NEW lost, Of(excused' \cup crossed', a) = lost,
         Flow(F, S, H, since, more, opening, held, read, lost)
  PROVE  FlowNow'
<1>1. HeldOf(attemptId)' = held
  BY DEF HeldOf
<1>2. Ahead(unsub)' = H /\ ReadUpTo' = read
  BY DEF Ahead, ReadUpTo
<1> QED
  BY <1>1, <1>2 DEF FlowNow

(* What the pipeline is for, while the pane follows an attempt.            *)
LEMMA FollowFacts ==
  ASSUME BaseInv, Following, unsub # NoConn
  PROVE  /\ unsub \in Conns /\ attemptId \in Attempts /\ attemptId \notin gone
         /\ conn[unsub].stage # "closed" /\ conn[unsub].att = attemptId
         /\ Shown \in Seq(Nat) /\ Ahead(unsub) \in Seq(Nat)
         /\ Ahead(unsub) = conn[unsub].wire \o conn[unsub].chan
         /\ file[attemptId] \in Seq(Nat)
<1>1. ServerType /\ PaneType /\ ConnType /\ Owning
  BY DEF BaseInv, ServerInv, PaneType
<1>2. unsub \in Conns /\ attemptId \in Attempts /\ attemptId \notin gone /\ events \in Seq(Event)
  BY <1>1 DEF PaneType, Following
<1>3. OwnStreams
  BY <1>1, OwnParts DEF Following
<1>4. conn[unsub].stage # "closed" /\ conn[unsub].att = attemptId
  BY <1>2, <1>3 DEF OwnStreams
<1>5. Shown \in Seq(Nat)
  BY <1>2, NumbersFacts DEF Shown
<1>6. Ahead(unsub) \in Seq(Nat) /\ file[attemptId] \in Seq(Nat)
  BY <1>1, <1>2, StreamFacts, FileFacts
<1> QED
  BY <1>2, <1>4, <1>5, <1>6 DEF Ahead

LEMMA HeldFacts ==
  ASSUME ServerInv, NEW a
  PROVE  /\ HeldOf(a) \subseteq Nat
         /\ a \in Attempts => HeldOf(a) \subseteq Values(file[a])
<1>1. ServerType /\ WriterInv
  BY DEF ServerInv
<1>2. \A w \in Writers : writer[w].seq \in Nat
  BY <1>1, SlotFacts
<1>3. \A w \in Writers : writer[w].stage = "written" => writer[w].seq \in Values(file[writer[w].att])
  BY <1>1 DEF WriterInv
<1> QED
  BY <1>2, <1>3 DEF HeldOf

LEMMA HeldWrite ==
  ASSUME ServerInv, NEW w \in Writers, WriteLine(w), NEW a
  PROVE  HeldOf(a)' = IF writer[w].att = a THEN HeldOf(a) \cup {writer[w].seq} ELSE HeldOf(a)
<1>1. writer \in [Writers -> Slots] /\ writer[w].stage = "numbered" /\ writer[w] \in Slots
  BY DEF ServerInv, ServerType, WriteLine
<1>2. writer' = [writer EXCEPT ![w].stage = "written"]
  BY DEF WriteLine
<1>3. /\ writer'[w].stage = "written" /\ writer'[w].att = writer[w].att
      /\ writer'[w].seq = writer[w].seq
      /\ \A x \in Writers : x # w => writer'[x] = writer[x]
  BY <1>1, <1>2 DEF Slots
<1>4. HeldOf(a)' = {writer'[x].seq : x \in {y \in Writers : /\ writer'[y].stage = "written"
                                                            /\ writer'[y].att = a}}
  BY DEF HeldOf
<1>5. CASE writer[w].att = a
  <2>1. \A n : n \in HeldOf(a)' => n \in HeldOf(a) \cup {writer[w].seq}
    BY <1>3, <1>4, <1>5 DEF HeldOf
  <2>2. \A n : n \in HeldOf(a) \cup {writer[w].seq} => n \in HeldOf(a)'
    BY <1>1, <1>3, <1>4, <1>5 DEF HeldOf
  <2> QED
    BY <1>5, <2>1, <2>2
<1>6. CASE writer[w].att # a
  <2>1. \A x \in Writers : writer'[x].stage = "written" /\ writer'[x].att = a <=>
                           writer[x].stage = "written" /\ writer[x].att = a
    BY <1>3, <1>6
  <2>2. \A n : n \in HeldOf(a)' <=> n \in HeldOf(a)
    BY <1>3, <1>4, <1>6, <2>1 DEF HeldOf
  <2> QED
    BY <1>6, <2>2
<1> QED
  BY <1>5, <1>6

LEMMA HeldPublish ==
  ASSUME ServerInv, NEW w \in Writers, Publish(w), NEW a
  PROVE  /\ HeldOf(a)' = IF writer[w].att = a THEN HeldOf(a) \ {writer[w].seq} ELSE HeldOf(a)
         /\ writer[w].att = a => writer[w].seq \in HeldOf(a)
<1>1. writer \in [Writers -> Slots] /\ writer[w].stage = "written" /\ WriterInv
  BY DEF ServerInv, ServerType, Publish
<1>2. writer' = [writer EXCEPT ![w] = Idle]
  BY DEF Publish
<1>3. writer'[w].stage = "idle" /\ \A x \in Writers : x # w => writer'[x] = writer[x]
  BY <1>1, <1>2 DEF Idle
<1>4. \A x \in Writers : x # w /\ writer[x].att = writer[w].att => writer[x].seq # writer[w].seq
  BY <1>1 DEF WriterInv
<1>5. HeldOf(a)' = {writer'[x].seq : x \in {y \in Writers : /\ writer'[y].stage = "written"
                                                            /\ writer'[y].att = a}}
  BY DEF HeldOf
<1>6. CASE writer[w].att = a
  <2>1. \A n : n \in HeldOf(a)' => n \in HeldOf(a) \ {writer[w].seq}
    BY <1>3, <1>4, <1>5, <1>6 DEF HeldOf
  <2>2. \A n : n \in HeldOf(a) \ {writer[w].seq} => n \in HeldOf(a)'
    BY <1>3, <1>5 DEF HeldOf
  <2>3. writer[w].seq \in HeldOf(a)
    BY <1>1, <1>6 DEF HeldOf
  <2> QED
    BY <1>6, <2>1, <2>2, <2>3
<1>7. CASE writer[w].att # a
  <2>1. \A x \in Writers : writer'[x].stage = "written" /\ writer'[x].att = a <=>
                           writer[x].stage = "written" /\ writer[x].att = a
    BY <1>3, <1>7
  <2>2. \A n : n \in HeldOf(a)' <=> n \in HeldOf(a)
    BY <1>3, <1>5, <1>7, <2>1 DEF HeldOf
  <2> QED
    BY <1>7, <2>2
<1> QED
  BY <1>6, <1>7

LEMMA HeldSame ==
  ASSUME NEW a, \A w \in Writers : /\ writer'[w].stage = "written" <=> writer[w].stage = "written"
                                   /\ writer[w].stage = "written" => writer'[w] = writer[w]
  PROVE  HeldOf(a)' = HeldOf(a)
<1>1. HeldOf(a)' = {writer'[x].seq : x \in {y \in Writers : /\ writer'[y].stage = "written"
                                                            /\ writer'[y].att = a}}
  BY DEF HeldOf
<1>2. \A n : n \in HeldOf(a)' <=> n \in HeldOf(a)
  BY <1>1 DEF HeldOf
<1> QED
  BY <1>2

(* Steps that move nothing: the windows known so far may only grow.        *)
LEMMA FlowSame ==
  ASSUME BaseInv, FlowNow, Following, unsub # NoConn, NEW a, a = attemptId,
         UNCHANGED <<attemptId, events, hasMore, unsub>>, file'[a] = file[a],
         conn'[unsub].wire = conn[unsub].wire, conn'[unsub].chan = conn[unsub].chan,
         conn'[unsub].since = conn[unsub].since,
         conn'[unsub].stage = "opening" <=> conn[unsub].stage = "opening",
         conn'[unsub].stage = "replayed" => /\ conn[unsub].stage = "replayed"
                                            /\ conn'[unsub].upto = conn[unsub].upto,
         HeldOf(a)' = HeldOf(a),
         excused \subseteq excused', crossed \subseteq crossed'
  PROVE  FlowNow'
<1> DEFINE F == file[a]
           S == Shown
           H == Ahead(unsub)
           since == conn[unsub].since
           opening == conn[unsub].stage = "opening"
           held == HeldOf(a)
           read == ReadUpTo
           read2 == IF conn'[unsub'].stage = "replayed" THEN conn'[unsub'].upto ELSE 0
           lost == Of(excused \cup crossed, a)
           lost2 == Of(excused' \cup crossed', a)
<1>2. Flow(F, S, H, since, hasMore, opening, held, read, lost)
  BY DEF FlowNow
<1>3. a \in Attempts /\ attemptId' = a /\ file'[a] = F /\ conn'[unsub'].since = since
  BY FollowFacts
<1>4. Shown' = S
  BY DEF Shown
<1>5. conn'[unsub'].wire \o conn'[unsub'].chan = H
  BY DEF Ahead
<1>6. (conn'[unsub'].stage = "opening") = opening
  OBVIOUS
<1>7. HeldOf(a)' = held
  BY <1>3
<1>8. read2 \in {0, read}
  BY DEF ReadUpTo
<1>9. lost \subseteq lost2
  BY DEF Of
<1>10. hasMore' = hasMore
  OBVIOUS
<1> HIDE DEF F, S, H, since, opening, held, read, lost, lost2, read2
<1>11. Flow(F, S, H, since, hasMore, opening, held, read2, lost2)
  <2>1. NoneLost(F, S, S \o H, hasMore, opening, held, read2, lost2)
    <3>1. F \in Seq(Nat) /\ NoneLost(F, S, S \o H, hasMore, opening, held, read, lost)
      BY <1>2 DEF Flow
    <3> QED
      BY <1>8, <1>9, <3>1, LostMore
  <2> QED
    BY <1>2, <2>1 DEF Flow
<1> QED
  BY <1>3, <1>4, <1>5, <1>6, <1>7, <1>10, <1>11, FlowNext DEF read2, lost2

LEMMA WriteLineFlow ==
  ASSUME BaseInv, FlowNow, Following, unsub # NoConn, NEW w \in Writers, WriteLine(w)
  PROVE  FlowNow'
<1>1. PICK a : a = attemptId
  OBVIOUS
<1>2. /\ UNCHANGED <<attemptId, events, hasMore, unsub, conn, excused>>
      /\ crossed' = crossed \cup Crossing(writer[w].att, writer[w].seq)
      /\ file' = [file EXCEPT ![writer[w].att] = Append(@, writer[w].seq)]
      /\ writer[w].stage = "numbered"
  BY DEF WriteLine, pane
<1>3. ServerInv /\ ServerType /\ WriterInv /\ a \in Attempts
  BY <1>1, FollowFacts DEF BaseInv, ServerInv
<1>4. CASE writer[w].att # a
  <2>1. file'[a] = file[a]
    BY <1>2, <1>3, <1>4 DEF ServerType
  <2>2. HeldOf(a)' = HeldOf(a)
    BY <1>3, <1>4, HeldWrite
  <2> QED
    BY <1>1, <1>2, <2>1, <2>2, FlowSame
<1>5. CASE writer[w].att = a
  <2> DEFINE n == writer[w].seq
             F == file[a]
             S == Shown
             H == Ahead(unsub)
             since == conn[unsub].since
             opening == conn[unsub].stage = "opening"
             held == HeldOf(a)
             read == ReadUpTo
             lost == Of(excused \cup crossed, a)
             lost2 == Of(excused' \cup crossed', a)
  <2>1. Flow(F, S, H, since, hasMore, opening, held, read, lost)
    BY <1>1 DEF FlowNow
  <2>2. file'[a] = Append(F, n)
    BY <1>2, <1>3, <1>5 DEF ServerType
  <2>3. HeldOf(a)' = held \cup {n}
    BY <1>3, <1>5, HeldWrite
  <2>4. /\ attemptId' = a /\ Shown' = S /\ conn'[unsub'].since = since
        /\ conn'[unsub'].wire \o conn'[unsub'].chan = H /\ hasMore' = hasMore
        /\ (conn'[unsub'].stage = "opening") = opening
        /\ (IF conn'[unsub'].stage = "replayed" THEN conn'[unsub'].upto ELSE 0) = read
    BY <1>1, <1>2 DEF Shown, Ahead, ReadUpTo
  <2>5. lost \subseteq lost2
    BY <1>2 DEF Of
  <2>6. n \in Nat /\ (n \in lost2 \/ \A v \in Values(F) : v < n)
    <3>1. n \in Nat /\ Values(F) \subseteq Nat
      BY <1>3, SlotFacts, FileFacts
    <3>2. \A v \in Values(F) : v # n /\ (n < v => <<a, n>> \in crossed)
      BY <1>2, <1>3, <1>5 DEF WriterInv
    <3>3. <<a, n>> \in crossed => n \in lost2
      BY <1>2, <3>1 DEF Of
    <3> HIDE DEF n, lost2, F
    <3> QED
      BY <3>1, <3>2, <3>3
  <2> HIDE DEF n, F, S, H, since, opening, held, read, lost, lost2
  <2>7. Flow(Append(F, n), S, H, since, hasMore, opening, held \cup {n}, read, lost2)
    <3>1. /\ F \in Seq(Nat) /\ S \in Seq(Nat) /\ H \in Seq(Nat) /\ S \o H \in Seq(Nat)
          /\ Values(S \o H) \subseteq Values(F) /\ since = LastOr0(S)
          /\ NoneLost(F, S, S \o H, hasMore, opening, held, read, lost)
      BY <2>1, CatFacts DEF Flow
    <3>2. Append(F, n) \in Seq(Nat) /\ Values(Append(F, n)) = Values(F) \cup {n}
      <4>1. F \in Seq(Nat) /\ n \in Nat
        BY <2>6, <3>1
      <4> QED
        BY <4>1, AppendFacts
    <3>3. NoneLost(Append(F, n), S, S \o H, hasMore, opening, held \cup {n}, read, lost2)
      BY <2>5, <2>6, <3>1, LostWrite
    <3> QED
      BY <3>1, <3>2, <3>3 DEF Flow
  <2> QED
    BY <2>2, <2>3, <2>4, <2>7, FlowNext DEF lost2
<1> QED
  BY <1>4, <1>5

LEMMA AppendNumber ==
  ASSUME NEW s \in Seq(Nat), NEW n \in Nat
  PROVE  Append(s, n) \in Seq(Nat) /\ Values(Append(s, n)) = Values(s) \cup {n}
BY AppendFacts

LEMMA AppendCat ==
  ASSUME NEW s \in Seq(Nat), NEW t \in Seq(Nat), NEW n \in Nat
  PROVE  s \o Append(t, n) = Append(s \o t, n)
<1>1. <<n>> \in Seq(Nat) /\ s \o t \in Seq(Nat)
  BY OneFacts, CatFacts
<1>2. Append(t, n) = t \o <<n>> /\ Append(s \o t, n) = (s \o t) \o <<n>>
  BY <1>1, AppendIsCat
<1>3. (s \o t) \o <<n>> = s \o (t \o <<n>>)
  BY <1>1, ConcatAssociative
<1> QED
  BY <1>2, <1>3

(* Whether a stream gets the event that is published.                      *)
Reached(c, a) == conn[c].stage = "live" /\ conn[c].att = a /\ Len(conn[c].chan) < Buffer

LEMMA PublishFacts ==
  ASSUME BaseInv, NEW w \in Writers, Publish(w), unsub \in Conns
  PROVE  LET a == writer[w].att
             n == writer[w].seq
         IN  /\ a \in Attempts /\ a \notin gone /\ n \in Nat /\ n \in Values(file[a])
             /\ conn'[unsub].stage = conn[unsub].stage /\ conn'[unsub].att = conn[unsub].att
             /\ conn'[unsub].since = conn[unsub].since /\ conn'[unsub].upto = conn[unsub].upto
             /\ conn'[unsub].wire = conn[unsub].wire
             /\ Reached(unsub, a) => conn'[unsub].chan = Append(conn[unsub].chan, n)
             /\ ~Reached(unsub, a) => conn'[unsub].chan = conn[unsub].chan
             /\ crossed \subseteq crossed' /\ excused \subseteq excused'
             /\ \A x \in Writers : writer[x].att = a /\ writer[x].seq < n =>
                    <<a, writer[x].seq>> \in crossed'
<1> DEFINE a == writer[w].att
           n == writer[w].seq
<1>1. ServerType /\ ConnType /\ WriterInv
  BY DEF BaseInv, ServerInv, PaneType
<1>2. /\ writer[w].stage = "written" /\ conn' = Broadcast(a, n)
      /\ crossed' = crossed \cup Crossing(a, n)
      /\ excused' = IF Missed(a, n) # {} THEN excused \cup {<<a, n>>} ELSE excused
  BY DEF Publish
<1>3. a \in Attempts /\ a \notin gone /\ n \in Nat /\ n \in Values(file[a])
  BY <1>1, <1>2, SlotFacts DEF WriterInv
<1> HIDE DEF a, n
<1>4. \A c \in Conns :
          /\ conn'[c].stage = conn[c].stage /\ conn'[c].att = conn[c].att
          /\ conn'[c].since = conn[c].since /\ conn'[c].upto = conn[c].upto
          /\ conn'[c].wire = conn[c].wire
          /\ conn'[c].chan = IF Reached(c, a) THEN Append(conn[c].chan, n) ELSE conn[c].chan
  BY <1>1, <1>2, <1>3, BroadcastFacts DEF Reached
<1>5. \A x \in Writers : writer[x].att = a /\ writer[x].seq < n => <<a, writer[x].seq>> \in crossed'
  BY <1>1, <1>2, <1>3, CrossingFacts
<1> QED
  BY <1>2, <1>3, <1>4, <1>5 DEF a, n

LEMMA PublishFlow ==
  ASSUME BaseInv, FlowNow, Following, unsub # NoConn, NEW w \in Writers, Publish(w)
  PROVE  FlowNow'
<1>1. PICK a : a = attemptId
  OBVIOUS
<1>2. /\ UNCHANGED <<attemptId, events, hasMore, unsub, file>>
      /\ excused' = IF Missed(writer[w].att, writer[w].seq) # {}
                    THEN excused \cup {<<writer[w].att, writer[w].seq>>} ELSE excused
  BY DEF Publish, pane
<1>3. /\ ServerInv /\ a \in Attempts /\ unsub \in Conns /\ conn[unsub].att = a
      /\ ConnType /\ ServerType /\ PaneType
  BY <1>1, FollowFacts DEF BaseInv, PaneType, ServerInv
<1>4. CASE writer[w].att # a
  <2>1. ~Reached(unsub, writer[w].att)
    BY <1>3, <1>4 DEF Reached
  <2>2. HeldOf(a)' = HeldOf(a)
    BY <1>3, <1>4, HeldPublish
  <2> QED
    BY <1>1, <1>2, <1>3, <2>1, <2>2, PublishFacts, FlowSame
<1>5. CASE writer[w].att = a
  <2> DEFINE n == writer[w].seq
             F == file[a]
             S == Shown
             H == Ahead(unsub)
             since == conn[unsub].since
             opening == conn[unsub].stage = "opening"
             held == HeldOf(a)
             read == ReadUpTo
             lost == Of(excused \cup crossed, a)
             lost2 == Of(excused' \cup crossed', a)
  <2>1. /\ Flow(F, S, H, since, hasMore, opening, held, read, lost)
        /\ H = conn[unsub].wire \o conn[unsub].chan
        /\ conn[unsub].wire \in Seq(Nat) /\ conn[unsub].chan \in Seq(Nat)
    BY <1>1, <1>3, StreamFacts DEF FlowNow, Ahead
  <2>2. HeldOf(a)' = held \ {n} /\ held \subseteq Nat
    BY <1>3, <1>5, HeldPublish, HeldFacts
  <2>3. /\ attemptId' = a /\ file'[a] = F /\ Shown' = S /\ conn'[unsub'].since = since
        /\ hasMore' = hasMore /\ conn'[unsub'].stage = conn[unsub].stage
        /\ (IF conn'[unsub'].stage = "replayed" THEN conn'[unsub'].upto ELSE 0) = read
    BY <1>1, <1>2, <1>3, PublishFacts DEF Shown, ReadUpTo
  <2>4. lost \subseteq lost2
    BY <1>3, PublishFacts DEF Of
  <2>5. /\ n \in Nat /\ n \in Values(F)
        /\ \A x \in Writers : writer[x].att = a /\ writer[x].seq < n => writer[x].seq \in lost2
    <3>1. /\ n \in Nat /\ n \in Values(F)
          /\ \A x \in Writers : writer[x].att = a /\ writer[x].seq < n =>
                 <<a, writer[x].seq>> \in crossed'
      BY <1>3, <1>5, PublishFacts
    <3>2. \A x \in Writers : writer[x].seq \in Nat
      BY <1>3, SlotFacts
    <3> QED
      BY <3>1, <3>2 DEF Of
  <2>6. \A s \in held : s \in Nat /\ (s < n => s \in lost2)
    BY <2>2, <2>5 DEF HeldOf
  <2>7. /\ F \in Seq(Nat) /\ S \in Seq(Nat) /\ H \in Seq(Nat) /\ S \o H \in Seq(Nat)
        /\ Values(S \o H) \subseteq Values(F) /\ since = LastOr0(S)
        /\ NoneLost(F, S, S \o H, hasMore, opening, held, read, lost)
    BY <2>1, CatFacts DEF Flow
  <2>8. CASE Reached(unsub, a)
    <3>1. conn[unsub].stage = "live"
      BY <2>8 DEF Reached
    <3>2. conn'[unsub'].wire \o conn'[unsub'].chan = Append(H, n)
      <4>1. /\ unsub' = unsub /\ conn'[unsub].wire = conn[unsub].wire
            /\ conn'[unsub].chan = Append(conn[unsub].chan, n)
        BY <1>2, <1>3, <1>5, <2>8, PublishFacts
      <4> QED
        BY <2>1, <2>5, <4>1, AppendCat
    <3>3. (conn'[unsub'].stage = "opening") = FALSE /\ opening = FALSE
      BY <2>3, <3>1
    <3> HIDE DEF n, F, S, H, since, opening, held, read, lost, lost2
    <3>4. NoneLost(F, S, S \o H, hasMore, FALSE, held, read, lost)
      BY <2>7, <3>3
    <3>5. \A s \in held \ {n} : n < s \/ s \in lost2
      BY <2>5, <2>6
    <3>6. NoneLost(F, S, Append(S \o H, n), hasMore, FALSE, held \ {n}, read, lost2)
      BY <2>2, <2>4, <2>5, <2>7, <3>4, <3>5, LostReached
    <3>7. S \o Append(H, n) = Append(S \o H, n)
      BY <2>5, <2>7, AppendCat
    <3>8. Append(H, n) \in Seq(Nat) /\ Values(Append(S \o H, n)) = Values(S \o H) \cup {n}
      <4>1. H \in Seq(Nat) /\ S \o H \in Seq(Nat) /\ n \in Nat
        BY <2>5, <2>7
      <4> QED
        BY <4>1, AppendNumber
    <3>9. Flow(F, S, Append(H, n), since, hasMore, FALSE, held \ {n}, read, lost2)
      BY <2>5, <2>7, <3>6, <3>7, <3>8 DEF Flow
    <3> QED
      BY <2>2, <2>3, <3>2, <3>3, <3>9, FlowNext DEF lost2
  <2>9. CASE ~Reached(unsub, a)
    <3>1. conn'[unsub'].wire \o conn'[unsub'].chan = H
      BY <1>2, <1>3, <1>5, <2>1, <2>9, PublishFacts
    <3>2. n \in lost2 \/ opening \/ \E i \in 1 .. read : F[i] = n
      <4>1. conn[unsub].stage \in {"opening", "replayed", "live"}
        BY <1>3, FollowFacts, StreamFacts
      <4>2. ASSUME unsub \in Missed(a, n)
            PROVE  n \in lost2
        BY <1>2, <1>5, <2>5, <4>2 DEF Of
      <4>3. CASE conn[unsub].stage = "opening"
        BY <4>3
      <4>4. CASE conn[unsub].stage = "replayed"
        <5>1. read = conn[unsub].upto
          BY <4>4 DEF ReadUpTo
        <5>2. n \in {F[i] : i \in 1 .. conn[unsub].upto} \/ unsub \in Missed(a, n)
          BY <1>3, <4>4 DEF Missed
        <5> QED
          BY <4>2, <5>1, <5>2
      <4>5. CASE conn[unsub].stage = "live"
        <5>1. Len(conn[unsub].chan) \in Nat
          BY <2>1, SeqFacts
        <5>2. Len(conn[unsub].chan) >= Buffer
          BY <1>3, <2>9, <4>5, <5>1, LimitAssumption DEF Reached
        <5>3. unsub \in Missed(a, n)
          BY <1>3, <4>5, <5>2 DEF Missed
        <5> QED
          BY <4>2, <5>3
      <4> QED
        BY <4>1, <4>3, <4>4, <4>5
    <3>3. (conn'[unsub'].stage = "opening") = opening
      BY <2>3
    <3> HIDE DEF n, F, S, H, since, opening, held, read, lost, lost2
    <3>4. NoneLost(F, S, S \o H, hasMore, opening, held \ {n}, read, lost2)
      BY <2>4, <2>7, <3>2, LostMissed
    <3>5. Flow(F, S, H, since, hasMore, opening, held \ {n}, read, lost2)
      BY <2>7, <3>4 DEF Flow
    <3> QED
      BY <2>2, <2>3, <3>1, <3>3, <3>5, FlowNext DEF lost2
  <2> QED
    BY <2>8, <2>9
<1> QED
  BY <1>4, <1>5

LEMMA OpenOwn ==
  ASSUME BaseInv, ~overlapped, NEW c \in Conns, conn[c].stage # "closed"
  PROVE  mounted /\ c = unsub /\ conn[c].att = attemptId
BY OwnParts DEF BaseInv, OwnStreams

LEMMA LogFacts ==
  ASSUME BaseInv, NEW a \in Attempts
  PROVE  /\ \A n \in Values(file[a]) : n # 0 /\ n \in 1 .. seqs[a]
         /\ Straight(file[a], Of(excused \cup crossed, a))
         /\ Straight(file[a], Of(crossed, a))
<1>1. LogInv /\ seqs[a] \in Nat
  BY FileFacts DEF BaseInv, ServerInv
<1>2. Of(crossed, a) \subseteq Of(excused \cup crossed, a)
  BY DEF Of
<1>3. Straight(file[a], Of(crossed, a)) /\ \A n \in Values(file[a]) : n \in 1 .. seqs[a]
  BY <1>1 DEF LogInv
<1>4. Straight(file[a], Of(excused \cup crossed, a))
  BY <1>2, <1>3 DEF Straight
<1> QED
  BY <1>1, <1>3, <1>4

LEMMA ServeFlow ==
  ASSUME BaseInv, FlowNow, Following, unsub # NoConn, NEW c \in Conns, Serve(c)
  PROVE  FlowNow'
<1>1. PICK a : a = attemptId
  OBVIOUS
<1>2. /\ ServerType /\ ConnType /\ a \in Attempts \ gone /\ conn[unsub].att = a
      /\ unsub \in Conns
  BY <1>1, FollowFacts DEF BaseInv, PaneType, ServerInv
<1>3. conn[c].stage = "opening" /\ c = unsub
  BY <1>2, ServeFacts, OpenOwn DEF Following
<1>4. /\ UNCHANGED <<attemptId, events, hasMore, unsub, file, writer, crossed>>
      /\ excused' = excused \cup
            {<<a, n>> : n \in {m \in Values(file[a]) : /\ Above(conn[c].since, m)
                                                       /\ m \notin Values(Replay(a, conn[c].since))}}
  BY <1>2, <1>3 DEF Serve, server, pane
<1> DEFINE F == file[a]
           S == Shown
           H == Ahead(unsub)
           since == conn[unsub].since
           wire == Replay(a, since)
           held == HeldOf(a)
           read == ReadUpTo
           lost == Of(excused \cup crossed, a)
           lost2 == Of(excused' \cup crossed', a)
<1>5. /\ conn'[unsub].stage = "replayed" /\ conn'[unsub].since = since
      /\ conn'[unsub].upto = Len(F) /\ conn'[unsub].wire = wire /\ conn'[unsub].chan = <<>>
  BY <1>2, <1>3, ServeFacts
<1>6. Flow(F, S, H, since, hasMore, TRUE, held, read, lost)
  <2>1. (conn[unsub].stage = "opening") = TRUE
    BY <1>3
  <2> QED
    BY <1>1, <2>1 DEF FlowNow
<1>7. H = <<>>
  <2>1. conn[unsub].wire = <<>> /\ conn[unsub].chan = <<>>
    BY <1>2, <1>3, StreamFacts DEF StreamOK
  <2> QED
    BY <2>1 DEF Ahead
<1>8. HeldOf(a)' = held
  BY <1>4 DEF HeldOf
<1>9. lost \subseteq lost2
  BY <1>4 DEF Of
<1>10. since \in Nat /\ F \in Seq(Nat) /\ wire \in Seq(Nat)
  BY <1>2, StreamFacts, FileFacts, ReplayType
<1>11. PICK at \in [1 .. Len(wire) -> DOMAIN F] :
           /\ \A j \in 1 .. Len(wire) : wire[j] = F[at[j]] /\ since < wire[j]
           /\ \A j, k \in 1 .. Len(wire) : j < k => at[j] < at[k]
  BY <1>10, ReplayFacts
<1>12. \A n \in Values(F) : since < n => n \in Values(wire) \cup lost2
  <2>1. Values(F) \subseteq Nat
    BY <1>10, SeqFacts
  <2> QED
    BY <1>3, <1>4, <2>1 DEF Of, Above
<1>13. Straight(F, lost) /\ \A n \in Values(F) : n # 0
  BY <1>2, LogFacts
<1>14. /\ attemptId' = a /\ file'[a] = F /\ Shown' = S /\ conn'[unsub'].since = since
       /\ hasMore' = hasMore /\ (conn'[unsub'].stage = "opening") = FALSE
       /\ (IF conn'[unsub'].stage = "replayed" THEN conn'[unsub'].upto ELSE 0) = Len(F)
  BY <1>1, <1>4, <1>5 DEF Shown
<1>15. conn'[unsub'].wire \o conn'[unsub'].chan = wire
  BY <1>4, <1>5, <1>10, ConcatEmptySeq
<1> HIDE DEF F, S, H, since, wire, held, read, lost, lost2
<1>16. Flow(F, S, wire, since, hasMore, FALSE, held, Len(F), lost2)
  <2>1. /\ S \in Seq(Nat) /\ S \o H = S /\ Values(S) \subseteq Values(F) /\ since = LastOr0(S)
        /\ NoneLost(F, S, S, hasMore, TRUE, held, read, lost)
    <3>1. S \in Seq(Nat) /\ S \o H = S
      BY <1>6, <1>7, ConcatEmptySeq DEF Flow
    <3> QED
      BY <1>6, <3>1 DEF Flow
  <2>2. \A n \in Values(F) : LastOr0(S) < n => n \in Values(wire) \cup lost2
    BY <1>12, <2>1
  <2>3. \A j \in 1 .. Len(wire) : wire[j] = F[at[j]]
    BY <1>11
  <2>4. NoneLost(F, S, S \o wire, hasMore, FALSE, held, Len(F), lost2)
    BY <1>9, <1>10, <1>11, <1>13, <2>1, <2>2, <2>3, LostServe
  <2>5. Values(wire) \subseteq Values(F)
    <3>1. DOMAIN wire = 1 .. Len(wire)
      BY <1>10, SeqFacts
    <3> QED
      BY <1>11, <3>1 DEF Values
  <2>6. Values(S \o wire) = Values(S) \cup Values(wire)
    BY <1>10, <2>1, CatFacts
  <2> QED
    BY <1>10, <2>1, <2>4, <2>5, <2>6 DEF Flow
<1> QED
  BY <1>8, <1>14, <1>15, <1>16, FlowNext DEF lost2

LEMMA LastAppended ==
  ASSUME NEW s \in Seq(Nat), NEW n \in Nat
  PROVE  Append(s, n) \in Seq(Nat) /\ LastOr0(Append(s, n)) = n
<1>1. /\ Append(s, n) \in Seq(Nat) /\ Append(s, n) # <<>>
      /\ Len(Append(s, n)) = Len(s) + 1 /\ Append(s, n)[Len(s) + 1] = n
  BY AppendFacts
<1> QED
  BY <1>1 DEF LastOr0

LEMMA CatCat ==
  ASSUME NEW s \in Seq(Nat), NEW t \in Seq(Nat), NEW u \in Seq(Nat)
  PROVE  (s \o t) \o u = s \o (t \o u)
BY ConcatAssociative, SMTT(20)

LEMMA CatValues ==
  ASSUME NEW s \in Seq(Nat), NEW t \in Seq(Nat)
  PROVE  s \o t \in Seq(Nat) /\ Values(s \o t) = Values(s) \cup Values(t)
BY CatFacts

LEMMA DeliverFlow ==
  ASSUME BaseInv, FlowNow, Following, unsub # NoConn, NEW c \in Conns, Deliver(c)
  PROVE  FlowNow'
<1>1. PICK a : a = attemptId
  OBVIOUS
<1>2. /\ ServerType /\ ConnType /\ a \in Attempts /\ conn[unsub].att = a
      /\ unsub \in Conns /\ events \in Seq(Event)
  BY <1>1, FollowFacts DEF BaseInv, PaneType, ServerInv
<1>3. conn[c].stage # "closed" /\ c = unsub
  BY <1>2, DeliverFacts, OpenOwn DEF Following
<1>4. UNCHANGED <<attemptId, hasMore, unsub, file, writer, crossed, excused>>
  BY DEF Deliver, server, ghosts
<1>5. PICK n \in Nat :
          /\ Ahead(c) = <<n>> \o (conn'[c].wire \o conn'[c].chan)
          /\ conn'[c].since = LastEventId(conn[c].since, n)
          /\ events' = Append(events, [att |-> conn[c].att, seq |-> n])
  BY <1>2, DeliverFacts
<1>6. /\ conn'[c].stage = conn[c].stage /\ conn'[c].upto = conn[c].upto
      /\ conn'[c].wire \in Seq(Nat) /\ conn'[c].chan \in Seq(Nat)
  <2>1. conn'[c].stage = conn[c].stage /\ conn'[c].upto = conn[c].upto /\ ConnType'
    BY <1>2, DeliverFacts
  <2>2. conn'[c] \in Streams
    BY <2>1 DEF ConnType
  <2> QED
    BY <2>1, <2>2 DEF Streams
<1> DEFINE F == file[a]
           S == Shown
           H == Ahead(unsub)
           rest == conn'[c].wire \o conn'[c].chan
           since == conn[unsub].since
           opening == conn[unsub].stage = "opening"
           held == HeldOf(a)
           read == ReadUpTo
           lost == Of(excused \cup crossed, a)
<1>7. Flow(F, S, H, since, hasMore, opening, held, read, lost)
  BY <1>1 DEF FlowNow
<1>8. rest \in Seq(Nat) /\ H = <<n>> \o rest
  BY <1>3, <1>5, <1>6, CatFacts
<1>9. Shown' = Append(S, n)
  <2> DEFINE e == [att |-> conn[c].att, seq |-> n]
  <2>1. e \in Event /\ e.seq = n
    BY <1>2, <1>3 DEF Event
  <2>2. events' = Append(events, e)
    BY <1>5
  <2> HIDE DEF e
  <2>3. NumbersOf(Append(events, e)) = Append(NumbersOf(events), e.seq)
    BY <1>2, <2>1, NumbersAppend
  <2> QED
    BY <2>1, <2>2, <2>3 DEF Shown
<1>10. HeldOf(a)' = held
  BY <1>4 DEF HeldOf
<1>11. \A v \in Values(F) : v # 0
  BY <1>2, LogFacts
<1>12. /\ attemptId' = a /\ file'[a] = F /\ hasMore' = hasMore
       /\ (conn'[unsub'].stage = "opening") = opening
       /\ (IF conn'[unsub'].stage = "replayed" THEN conn'[unsub'].upto ELSE 0) = read
       /\ conn'[unsub'].wire \o conn'[unsub'].chan = rest
       /\ conn'[unsub'].since = LastEventId(since, n)
       /\ Of(excused' \cup crossed', a) = lost
  BY <1>1, <1>3, <1>4, <1>5, <1>6 DEF ReadUpTo
<1> HIDE DEF F, S, H, rest, since, opening, held, read, lost
<1>13. /\ F \in Seq(Nat) /\ S \in Seq(Nat) /\ Values(S \o H) \subseteq Values(F)
       /\ NoneLost(F, S, S \o H, hasMore, opening, held, read, lost)
  BY <1>7 DEF Flow
<1>14. /\ <<n>> \in Seq(Nat) /\ Values(<<n>>) = {n}
  BY OneFacts
<1>15. n # 0
  <2>1. Values(S \o H) = Values(S) \cup Values(H) /\ Values(H) = Values(<<n>>) \cup Values(rest)
    <3>1. H \in Seq(Nat)
      BY <1>7 DEF Flow
    <3>2. Values(S \o H) = Values(S) \cup Values(H)
      BY <1>13, <3>1, CatFacts
    <3>3. Values(<<n>> \o rest) = Values(<<n>>) \cup Values(rest)
      BY <1>8, <1>14, CatValues
    <3> QED
      BY <1>8, <3>2, <3>3
  <2> QED
    BY <1>11, <1>13, <1>14, <2>1
<1>16. Append(S, n) \in Seq(Nat) /\ LastOr0(Append(S, n)) = n
  BY <1>13, LastAppended
<1>17. Append(S, n) \o rest = S \o H
  <2>1. Append(S, n) = S \o <<n>>
    BY <1>13, AppendIsCat
  <2>2. (S \o <<n>>) \o rest = S \o (<<n>> \o rest)
    BY <1>8, <1>13, <1>14, ConcatAssociative
  <2> QED
    BY <1>8, <2>1, <2>2
<1>18. NoneLost(F, Append(S, n), S \o H, hasMore, opening, held, read, lost)
  BY <1>13, LostDeliver
<1>19. LastEventId(since, n) = n
  BY <1>15 DEF LastEventId
<1>20. Flow(F, Append(S, n), rest, n, hasMore, opening, held, read, lost)
  BY <1>8, <1>13, <1>16, <1>17, <1>18 DEF Flow
<1>21. conn'[unsub'].since = n
  BY <1>12, <1>19
<1> QED
  BY <1>9, <1>10, <1>12, <1>20, <1>21, FlowNext

(* A stream that breaks takes what is on its way with it.                  *)
LEMMA BrokenFlow ==
  ASSUME BaseInv, FlowNow, Following, unsub # NoConn,
         UNCHANGED <<attemptId, events, hasMore, unsub, file, crossed, excused>>,
         conn'[unsub].stage = "opening", conn'[unsub].since = conn[unsub].since,
         conn'[unsub].wire = <<>>, conn'[unsub].chan = <<>>
  PROVE  FlowNow'
<1>1. PICK a : a = attemptId
  OBVIOUS
<1>2. PICK held2 : held2 = HeldOf(a)'
  OBVIOUS
<1> DEFINE F == file[a]
           S == Shown
           H == Ahead(unsub)
           P == S \o H
           since == conn[unsub].since
           opening == conn[unsub].stage = "opening"
           held == HeldOf(a)
           read == ReadUpTo
           lost == Of(excused \cup crossed, a)
<1>3. Flow(F, S, H, since, hasMore, opening, held, read, lost)
  BY <1>1 DEF FlowNow
<1>4. /\ attemptId' = a /\ file'[a] = F /\ Shown' = S /\ conn'[unsub'].since = since
      /\ hasMore' = hasMore /\ (conn'[unsub'].stage = "opening") = TRUE
      /\ (IF conn'[unsub'].stage = "replayed" THEN conn'[unsub'].upto ELSE 0) = 0
      /\ Of(excused' \cup crossed', a) = lost
  BY <1>1 DEF Shown
<1>5. conn'[unsub'].wire \o conn'[unsub'].chan = <<>>
  BY NoValues, ConcatEmptySeq
<1> HIDE DEF F, S, H, P, since, opening, held, read, lost
<1>6. /\ F \in Seq(Nat) /\ S \in Seq(Nat) /\ H \in Seq(Nat)
      /\ Values(P) \subseteq Values(F) /\ since = LastOr0(S)
      /\ NoneLost(F, S, P, hasMore, opening, held, read, lost)
  BY <1>3 DEF Flow, P
<1>7. /\ P \in Seq(Nat) /\ Len(P) = Len(S) + Len(H) /\ \A i \in 1 .. Len(S) : P[i] = S[i]
      /\ Values(P) = Values(S) \cup Values(H)
  BY <1>6, CatFacts DEF P
<1>8. /\ DOMAIN S = 1 .. Len(S) /\ Len(S) \in Nat /\ Len(H) \in Nat
      /\ DOMAIN P = 1 .. Len(P) /\ Len(P) \in Nat
  BY <1>6, <1>7, SeqFacts
<1>9. DOMAIN S \subseteq DOMAIN P /\ \A i \in DOMAIN S : P[i] = S[i]
  BY <1>7, <1>8
<1>10. NoneLost(F, S, S, hasMore, TRUE, held2, 0, lost)
  BY <1>6, <1>8, <1>9, LostDrop
<1>11. S \o <<>> = S /\ <<>> \in Seq(Nat)
  BY <1>6, ConcatEmptySeq, NoValues
<1>12. Flow(F, S, <<>>, since, hasMore, TRUE, held2, 0, lost)
  BY <1>6, <1>7, <1>10, <1>11 DEF Flow
<1> QED
  BY <1>2, <1>4, <1>5, <1>12, FlowNext

LEMMA FaultFlow ==
  ASSUME BaseInv, FlowNow, Following, unsub # NoConn, Restart \/ \E c \in Conns : Drop(c)
  PROVE  FlowNow'
<1>1. ConnType /\ unsub \in Conns /\ conn[unsub].stage # "closed"
  BY FollowFacts DEF BaseInv, PaneType
<1>2. CASE Restart
  <2>1. UNCHANGED <<attemptId, events, hasMore, unsub, file, crossed, excused>>
    BY <1>2 DEF Restart, pane
  <2>2. /\ conn'[unsub].stage = "opening" /\ conn'[unsub].since = conn[unsub].since
        /\ conn'[unsub].wire = <<>> /\ conn'[unsub].chan = <<>>
    BY <1>1, <1>2, RestartFacts
  <2> QED
    BY <2>1, <2>2, BrokenFlow
<1>3. ASSUME NEW c \in Conns, Drop(c)
      PROVE  FlowNow'
  <2>1. UNCHANGED <<attemptId, events, hasMore, unsub, file, crossed, excused>>
    BY <1>3 DEF Drop, pane, server
  <2>2. c = unsub
    BY <1>1, <1>3, DropFacts, OpenOwn DEF Following
  <2>3. /\ conn'[unsub].stage = "opening" /\ conn'[unsub].since = conn[unsub].since
        /\ conn'[unsub].wire = <<>> /\ conn'[unsub].chan = <<>>
    BY <1>1, <1>3, <2>2, DropFacts
  <2> QED
    BY <2>1, <2>3, BrokenFlow
<1> QED
  BY <1>2, <1>3

(* A step that no stream sees: numbers are taken, an attempt of no         *)
(* interest is deleted, the handler subscribes, the cards are rebuilt.     *)
LEMMA AsideFlow ==
  ASSUME BaseInv, FlowNow, Following, unsub # NoConn, Following',
         \/ \E w \in Writers, a \in Attempts : TakeSeq(w, a)
         \/ \E a \in Attempts : Delete(a)
         \/ \E c \in Conns : Subscribe(c)
         \/ LoadMore \/ Tick
  PROVE  FlowNow'
<1>1. PICK a : a = attemptId
  OBVIOUS
<1>2. /\ ServerType /\ ConnType /\ a \in Attempts \ gone /\ conn[unsub].att = a
      /\ unsub \in Conns
  BY <1>1, FollowFacts DEF BaseInv, PaneType, ServerInv
<1>3. ASSUME NEW w \in Writers, NEW b \in Attempts, TakeSeq(w, b)
      PROVE  FlowNow'
  <2>1. /\ UNCHANGED <<attemptId, events, hasMore, unsub, conn, file, excused, crossed>>
        /\ writer[w].stage = "idle"
        /\ writer' = [writer EXCEPT ![w] =
                         [stage |-> "numbered", att |-> b, seq |-> seqs[b] + 1]]
    BY <1>3 DEF TakeSeq, pane, ghosts
  <2>2. writer'[w].stage = "numbered" /\ \A x \in Writers : x # w => writer'[x] = writer[x]
    BY <1>2, <2>1 DEF ServerType
  <2>3. HeldOf(a)' = HeldOf(a)
    BY <2>1, <2>2, HeldSame
  <2> QED
    BY <1>1, <2>1, <2>3, FlowSame
<1>4. ASSUME NEW b \in Attempts, Delete(b)
      PROVE  FlowNow'
  <2>1. /\ UNCHANGED <<attemptId, events, hasMore, unsub, writer, excused, crossed>>
        /\ conn' = Broadcast(b, 0) /\ file' = [file EXCEPT ![b] = <<>>] /\ b \in gone'
    BY <1>4 DEF Delete, pane, ghosts
  <2>2. b # a
    BY <1>1, <2>1 DEF Following
  <2>3. file'[a] = file[a]
    BY <1>2, <2>1, <2>2 DEF ServerType
  <2>4. /\ conn'[unsub].stage = conn[unsub].stage /\ conn'[unsub].since = conn[unsub].since
        /\ conn'[unsub].upto = conn[unsub].upto /\ conn'[unsub].wire = conn[unsub].wire
        /\ conn'[unsub].chan = conn[unsub].chan
    BY <1>2, <2>1, <2>2, BroadcastFacts
  <2>5. HeldOf(a)' = HeldOf(a)
    BY <2>1 DEF HeldOf
  <2> QED
    BY <1>1, <2>1, <2>3, <2>4, <2>5, FlowSame
<1>5. ASSUME NEW c \in Conns, Subscribe(c)
      PROVE  FlowNow'
  <2>1. UNCHANGED <<attemptId, events, hasMore, unsub, writer, file, excused, crossed>>
    BY <1>5 DEF Subscribe, pane, ghosts, server
  <2>2. c = unsub
    BY <1>2, <1>5, SubscribeFacts, OpenOwn DEF Following
  <2>3. /\ conn'[unsub].stage = "live" /\ conn[unsub].stage = "replayed"
        /\ conn'[unsub].since = conn[unsub].since /\ conn'[unsub].wire = conn[unsub].wire
        /\ conn'[unsub].chan = conn[unsub].chan
    BY <1>2, <1>5, <2>2, SubscribeFacts
  <2>4. HeldOf(a)' = HeldOf(a)
    BY <2>1 DEF HeldOf
  <2> QED
    BY <1>1, <2>1, <2>3, <2>4, FlowSame
<1>6. CASE LoadMore \/ Tick
  <2>1. UNCHANGED <<attemptId, events, hasMore, unsub, writer, file, excused, crossed, conn>>
    BY <1>6 DEF LoadMore, Tick, server, ghosts
  <2>2. HeldOf(a)' = HeldOf(a)
    BY <2>1 DEF HeldOf
  <2> QED
    BY <1>1, <2>1, <2>2, FlowSame
<1> QED
  BY <1>3, <1>4, <1>5, <1>6

(* The first load: the pane holds the last lines of the log.               *)
LEMMA LoadedFlow ==
  ASSUME BaseInv, NEW g \in Gets, NEW ok \in BOOLEAN, Loaded(g, ok), Following
  PROVE  FlowNow'
<1>1. PICK a : a = attemptId
  OBVIOUS
<1>2. /\ ServerType /\ PaneType /\ ConnType /\ a \in Attempts /\ OwnRequests /\ OwnShown
      /\ events \in Seq(Event)
  BY <1>1, OwnParts DEF BaseInv, PaneType, ServerInv, Following
<1>3. UNCHANGED <<attemptId, file, writer, excused, crossed>>
  BY DEF Loaded, server
<1>4. /\ get[g].kind = "tail" /\ get[g].att = a /\ unsub = NoConn
  BY <1>1, <1>2, LoadedFacts DEF OwnRequests
<1>5. events = <<>> /\ ~hasMore
  BY <1>2, <1>4 DEF OwnShown, Following
<1>6. /\ events' = IF ok THEN Answer(get[g]) ELSE events
      /\ conn'[unsub'].stage = "opening" /\ conn'[unsub'].since = Last(events')
      /\ conn'[unsub'].wire = <<>> /\ conn'[unsub'].chan = <<>>
      /\ hasMore' = IF ok THEN events' # <<>> /\ First(events') > 1 ELSE hasMore
      /\ events' \in Seq(Event)
  BY <1>2, LoadedFacts
<1>7. PICK T : T = NumbersOf(events')
  OBVIOUS
<1>8. PICK held : held = HeldOf(a)'
  OBVIOUS
<1> DEFINE F == file[a]
           lost == Of(excused \cup crossed, a)
<1>9. /\ T \in Seq(Nat) /\ (T = <<>> <=> events' = <<>>) /\ LastOr0(T) = Last(events')
      /\ (events' # <<>> => T[1] = First(events'))
  BY <1>6, <1>7, NumbersFacts
<1>10. /\ attemptId' = a /\ file'[a] = F /\ Shown' = T /\ conn'[unsub'].since = LastOr0(T)
       /\ (conn'[unsub'].stage = "opening") = TRUE
       /\ (IF conn'[unsub'].stage = "replayed" THEN conn'[unsub'].upto ELSE 0) = 0
       /\ conn'[unsub'].wire \o conn'[unsub'].chan = <<>>
       /\ Of(excused' \cup crossed', a) = lost
  <2>1. conn'[unsub'].wire \o conn'[unsub'].chan = <<>>
    BY <1>6, NoValues, ConcatEmptySeq
  <2> QED
    BY <1>1, <1>3, <1>6, <1>7, <1>9, <2>1 DEF Shown
<1>11. F \in Seq(Nat) /\ Straight(F, lost) /\ \A n \in Values(F) : n # 0
  BY <1>2, FileFacts, LogFacts
<1> HIDE DEF F, lost
<1>12. T \o <<>> = T
  BY <1>9, ConcatEmptySeq
<1>13. CASE events' = <<>>
  <2>1. T = <<>>
    BY <1>9, <1>13
  <2>2. NoneLost(F, <<>>, <<>>, hasMore', TRUE, held, 0, lost)
    BY <1>11, LostNothing
  <2>3. Flow(F, T, <<>>, LastOr0(T), hasMore', TRUE, held, 0, lost)
    BY <1>9, <1>11, <1>12, <2>1, <2>2, NoValues DEF Flow
  <2> QED
    BY <1>8, <1>10, <2>3, FlowNext
<1>14. CASE events' # <<>>
  <2>1. ok /\ events' = Answer(get[g])
    BY <1>5, <1>6, <1>14
  <2>2. T = Lines(get[g])
    <3>1. RequestOK(get[g]) /\ get[g].kind # "none"
      BY <1>2, <1>4 DEF PaneType
    <3> QED
      BY <1>2, <1>7, <2>1, <3>1, AnswerType
  <2>3. PICK d \in Nat : Len(F) = d + Len(T) /\ \A j \in 1 .. Len(T) : T[j] = F[d + j]
    BY <1>4, <1>11, <2>2, TailFacts DEF F
  <2>4. T # <<>> /\ hasMore' = (T[1] > 1)
    BY <1>6, <1>9, <1>14, <2>1
  <2>5. NoneLost(F, T, T, T[1] > 1, TRUE, held, 0, lost)
    BY <1>9, <1>11, <2>3, <2>4, LostTail
  <2>6. Values(T) \subseteq Values(F)
    <3>1. Len(T) \in Nat /\ Len(F) \in Nat /\ DOMAIN T = 1 .. Len(T) /\ DOMAIN F = 1 .. Len(F)
      BY <1>9, <1>11, SeqFacts
    <3>2. \A j \in DOMAIN T : d + j \in DOMAIN F /\ T[j] = F[d + j]
      BY <2>3, <3>1
    <3> QED
      BY <3>2 DEF Values
  <2>7. Flow(F, T, <<>>, LastOr0(T), T[1] > 1, TRUE, held, 0, lost)
    BY <1>9, <1>11, <1>12, <2>5, <2>6, NoValues DEF Flow
  <2> QED
    BY <1>8, <1>10, <2>4, <2>7, FlowNext
<1> QED
  BY <1>13, <1>14

(* A page: older lines come before what the pane holds, or there are none. *)
LEMMA MoreLoadedFlow ==
  ASSUME BaseInv, FlowNow, Following, unsub # NoConn,
         NEW g \in Gets, NEW ok \in BOOLEAN, MoreLoaded(g, ok)
  PROVE  FlowNow'
<1>1. PICK a : a = attemptId
  OBVIOUS
<1>2. /\ ServerType /\ PaneType /\ ConnType /\ a \in Attempts /\ OwnRequests
      /\ events \in Seq(Event)
  BY <1>1, FollowFacts, OwnParts DEF BaseInv, PaneType, ServerInv, Following
<1>3. UNCHANGED <<attemptId, file, writer, excused, crossed, conn, unsub>>
  BY DEF MoreLoaded, server
<1>4. /\ get[g].kind = "page" /\ get[g].att = a /\ events # <<>>
      /\ get[g].before = First(events)
  BY <1>1, <1>2, MoreLoadedFacts DEF OwnRequests
<1>5. /\ events' \in Seq(Event) /\ Answer(get[g]) \in Seq(Event)
      /\ ~ok => events' = events /\ hasMore' = hasMore
      /\ ok /\ Answer(get[g]) = <<>> => events' = events /\ hasMore' = FALSE
      /\ ok /\ Answer(get[g]) # <<>> => /\ events' = Answer(get[g]) \o events
                                        /\ hasMore' = (First(Answer(get[g])) > 1)
  BY <1>2, MoreLoadedFacts
<1>6. HeldOf(a)' = HeldOf(a)
  BY <1>3 DEF HeldOf
<1>7. CASE ~ok
  BY <1>1, <1>3, <1>5, <1>6, <1>7, FlowSame
<1>8. CASE ok
  <2> DEFINE F == file[a]
             S == Shown
             H == Ahead(unsub)
             P == S \o H
             O == Lines(get[g])
             since == conn[unsub].since
             opening == conn[unsub].stage = "opening"
             held == HeldOf(a)
             read == ReadUpTo
             lost == Of(excused \cup crossed, a)
  <2>1. Flow(F, S, H, since, hasMore, opening, held, read, lost)
    BY <1>1 DEF FlowNow
  <2>2. /\ attemptId' = a /\ file'[a] = F /\ conn'[unsub'].since = since
        /\ conn'[unsub'].wire \o conn'[unsub'].chan = H
        /\ (conn'[unsub'].stage = "opening") = opening
        /\ (IF conn'[unsub'].stage = "replayed" THEN conn'[unsub'].upto ELSE 0) = read
        /\ Of(excused' \cup crossed', a) = lost
    BY <1>1, <1>3 DEF Ahead, ReadUpTo
  <2>3. /\ S \in Seq(Nat) /\ S # <<>> /\ S[1] = get[g].before
        /\ NumbersOf(Answer(get[g])) = O /\ O \in Seq(Nat)
    <3>1. RequestOK(get[g]) /\ get[g].kind # "none"
      BY <1>2, <1>4 DEF PaneType
    <3> QED
      BY <1>2, <1>4, <3>1, AnswerType, NumbersFacts DEF Shown
  <2>4. /\ (O = <<>> <=> Answer(get[g]) = <<>>)
        /\ (O # <<>> => O[1] = First(Answer(get[g])))
    BY <1>5, <2>3, NumbersFacts
  <2>5. F \in Seq(Nat) /\ Straight(F, lost) /\ \A n \in Values(F) : n # 0
    BY <1>2, FileFacts, LogFacts
  <2>6. PICK at \in [1 .. Len(O) -> DOMAIN F] :
            /\ \A j \in 1 .. Len(O) : O[j] = F[at[j]] /\ O[j] < get[g].before
            /\ \A i \in DOMAIN F :
                  F[i] < get[g].before => /\ O # <<>>
                                          /\ F[i] \in Values(O) \/ i < at[1]
    BY <1>4, <2>5, PageFacts
  <2> HIDE DEF F, S, H, P, O, since, opening, held, read, lost
  <2>7. /\ H \in Seq(Nat) /\ Values(P) \subseteq Values(F) /\ since = LastOr0(S)
        /\ NoneLost(F, S, P, hasMore, opening, held, read, lost)
    BY <2>1 DEF Flow, P
  <2>8. CASE O = <<>>
    <3>1. \A n \in Values(F) : ~(n < S[1])
      BY <2>3, <2>6, <2>8 DEF Values
    <3>2. NoneLost(F, S, P, FALSE, opening, held, read, lost)
      BY <2>3, <2>5, <2>7, <3>1, LostNoPage
    <3>3. Flow(F, S, H, since, FALSE, opening, held, read, lost)
      BY <2>3, <2>5, <2>7, <3>2 DEF Flow, P
    <3>4. Shown' = S /\ hasMore' = FALSE
      BY <1>5, <1>8, <2>4, <2>8 DEF Shown, S
    <3> QED
      BY <1>6, <2>2, <3>3, <3>4, FlowNext DEF held
  <2>9. CASE O # <<>>
    <3>1. Len(O) \in Nat \ {0} /\ DOMAIN O = 1 .. Len(O) /\ Values(O) \subseteq Nat
      BY <2>3, <2>9, SeqFacts
    <3>2. \A n \in Values(F) : n < S[1] => n \in Values(O) \/ n < O[1] \/ n \in lost
      <4> SUFFICES ASSUME NEW i \in DOMAIN F, F[i] < get[g].before, i < at[1]
                   PROVE  F[i] < O[1] \/ F[i] \in lost
        BY <2>3, <2>6 DEF Values
      <4>1. O[1] = F[at[1]] /\ at[1] \in DOMAIN F
        BY <2>6, <3>1
      <4> QED
        BY <2>5, <4>1 DEF Straight
    <3>3. \A x \in Values(O) : x < S[1]
      BY <2>3, <2>6, <3>1 DEF Values
    <3>4. P \in Seq(Nat) /\ P # <<>> /\ P[1] = S[1]
      <4>1. 1 \in 1 .. Len(S)
        BY <2>3, SeqFacts
      <4> QED
        BY <2>3, <2>7, <4>1, CatFacts DEF P
    <3>5. NoneLost(F, O \o S, O \o P, O[1] > 1, opening, held, read, lost)
      BY <2>3, <2>5, <2>7, <2>9, <3>2, <3>3, <3>4, LostPage
    <3>6. (O \o S) \o H = O \o P
      <4>1. O \in Seq(Nat) /\ S \in Seq(Nat) /\ H \in Seq(Nat)
        BY <2>3, <2>7
      <4>2. (O \o S) \o H = O \o (S \o H)
        BY <4>1, CatCat
      <4> QED
        BY <4>2 DEF P
    <3>7. O \o S \in Seq(Nat) /\ LastOr0(O \o S) = LastOr0(S)
      <4>1. /\ Len(O \o S) = Len(O) + Len(S) /\ Len(S) \in 1 .. Len(S)
            /\ (O \o S)[Len(O) + Len(S)] = S[Len(S)]
            /\ O \o S \in Seq(Nat) /\ O \o S # <<>>
        <5>1. Len(S) \in 1 .. Len(S)
          BY <2>3, SeqFacts
        <5> QED
          BY <2>3, <5>1, CatFacts
      <4> QED
        BY <2>3, <4>1 DEF LastOr0
    <3>8. Values(O \o P) \subseteq Values(F)
      <4>1. Values(O \o P) = Values(O) \cup Values(P)
        BY <2>3, <3>4, CatValues
      <4>2. Values(O) \subseteq Values(F)
        BY <2>6, <3>1 DEF Values
      <4> QED
        BY <2>7, <4>1, <4>2
    <3>9. Flow(F, O \o S, H, since, O[1] > 1, opening, held, read, lost)
      BY <2>5, <2>7, <3>5, <3>6, <3>7, <3>8 DEF Flow
    <3>10. Shown' = O \o S /\ hasMore' = (O[1] > 1)
      <4>1. events' = Answer(get[g]) \o events /\ hasMore' = (First(Answer(get[g])) > 1)
        BY <1>5, <1>8, <2>4, <2>9
      <4>2. NumbersOf(Answer(get[g]) \o events) = NumbersOf(Answer(get[g])) \o NumbersOf(events)
        BY <1>2, <1>5, NumbersCat
      <4> QED
        BY <2>3, <2>4, <2>9, <4>1, <4>2 DEF Shown, S
    <3> QED
      BY <1>6, <2>2, <3>9, <3>10, FlowNext DEF held
  <2> QED
    BY <2>8, <2>9
<1> QED
  BY <1>7, <1>8

LEMMA NextFlow ==
  ASSUME BaseInv, FlowInv, Next
  PROVE  FlowInv'
<1> SUFFICES ASSUME Following', unsub' # NoConn
             PROVE  FlowNow'
  BY DEF FlowInv
<1>1. ASSUME NEW g \in Gets, NEW ok \in BOOLEAN, Loaded(g, ok)
      PROVE  FlowNow'
  <2>1. UNCHANGED <<mounted, overlapped, attemptId, gone>>
    BY <1>1 DEF Loaded, server
  <2>2. Following
    BY <2>1 DEF Following
  <2> QED
    BY <1>1, <2>2, LoadedFlow
<1>2. CASE (\E a \in Attempts \cup {NoAttempt} : Switch(a)) \/ Unmount
  BY <1>2 DEF Switch, Unmount, Following
<1>3. CASE /\ ~\E g \in Gets, ok \in BOOLEAN : Loaded(g, ok)
           /\ ~\E a \in Attempts \cup {NoAttempt} : Switch(a)
           /\ ~Unmount
  <2>1. UNCHANGED <<mounted, overlapped, attemptId, unsub>> /\ gone \subseteq gone'
    <3>1. ASSUME NEW w \in Writers, NEW a \in Attempts, TakeSeq(w, a)
          PROVE  UNCHANGED <<mounted, overlapped, attemptId, unsub>> /\ gone \subseteq gone'
      BY <3>1 DEF TakeSeq, pane, ghosts
    <3>2. ASSUME NEW w \in Writers, WriteLine(w) \/ Publish(w)
          PROVE  UNCHANGED <<mounted, overlapped, attemptId, unsub>> /\ gone \subseteq gone'
      BY <3>2 DEF WriteLine, Publish, pane
    <3>3. ASSUME NEW a \in Attempts, Delete(a)
          PROVE  UNCHANGED <<mounted, overlapped, attemptId, unsub>> /\ gone \subseteq gone'
      BY <3>3 DEF Delete, pane, ghosts
    <3>4. ASSUME NEW c \in Conns, Serve(c) \/ Subscribe(c) \/ Deliver(c) \/ Drop(c)
          PROVE  UNCHANGED <<mounted, overlapped, attemptId, unsub>> /\ gone \subseteq gone'
      BY <3>4 DEF Serve, Subscribe, Deliver, Drop, pane, ghosts, server
    <3>5. ASSUME NEW g \in Gets, NEW ok \in BOOLEAN, MoreLoaded(g, ok)
          PROVE  UNCHANGED <<mounted, overlapped, attemptId, unsub>> /\ gone \subseteq gone'
      BY <3>5 DEF MoreLoaded, server
    <3>6. CASE Restart \/ LoadMore \/ Tick
      BY <3>6 DEF Restart, LoadMore, Tick, pane, ghosts, server
    <3> QED
      BY <1>3, <3>1, <3>2, <3>3, <3>4, <3>5, <3>6 DEF Next
  <2>2. Following /\ unsub # NoConn
    BY <2>1 DEF Following
  <2>3. FlowNow
    BY <2>2 DEF FlowInv
  <2>4. ASSUME NEW w \in Writers, WriteLine(w) \/ Publish(w)
        PROVE  FlowNow'
    BY <2>2, <2>3, <2>4, WriteLineFlow, PublishFlow
  <2>5. ASSUME NEW c \in Conns, Serve(c) \/ Deliver(c)
        PROVE  FlowNow'
    BY <2>2, <2>3, <2>5, ServeFlow, DeliverFlow
  <2>6. ASSUME NEW g \in Gets, NEW ok \in BOOLEAN, MoreLoaded(g, ok)
        PROVE  FlowNow'
    BY <2>2, <2>3, <2>6, MoreLoadedFlow
  <2>7. CASE Restart \/ \E c \in Conns : Drop(c)
    BY <2>2, <2>3, <2>7, FaultFlow
  <2>8. CASE \/ \E w \in Writers, a \in Attempts : TakeSeq(w, a)
             \/ \E a \in Attempts : Delete(a)
             \/ \E c \in Conns : Subscribe(c)
             \/ LoadMore \/ Tick
    BY <2>2, <2>3, <2>8, AsideFlow
  <2> QED
    BY <1>3, <2>4, <2>5, <2>6, <2>7, <2>8 DEF Next
<1> QED
  BY <1>1, <1>2, <1>3

LEMMA StillFlow ==
  ASSUME BaseInv, FlowInv, UNCHANGED vars
  PROVE  FlowInv'
<1>1. /\ UNCHANGED <<attemptId, events, hasMore, unsub, mounted, conn, file, gone, writer>>
      /\ UNCHANGED <<overlapped, excused, crossed>>
  BY DEF vars, server, pane, ghosts
<1>2. SUFFICES ASSUME Following', unsub' # NoConn
               PROVE  FlowNow'
  BY DEF FlowInv
<1>3. Following /\ unsub # NoConn
  BY <1>1, <1>2 DEF Following
<1>4. FlowNow
  BY <1>3 DEF FlowInv
<1>5. PICK a : a = attemptId
  OBVIOUS
<1>6. HeldOf(a)' = HeldOf(a)
  BY <1>1 DEF HeldOf
<1> QED
  BY <1>1, <1>3, <1>4, <1>5, <1>6, FlowSame

(* Nothing on its way: the pipeline is what the pane shows.                *)
LEMMA LostHolds ==
  ASSUME BaseInv, FlowInv
  PROVE  NothingElseLost
<1> SUFFICES ASSUME Settled, NEW n \in Values(file[attemptId])
             PROVE  \/ n \in Numbers
                    \/ events # <<>> /\ n < First(events) /\ hasMore
                    \/ <<attemptId, n>> \in excused \cup crossed
  BY DEF NothingElseLost
<1>1. PICK a : a = attemptId
  OBVIOUS
<1>2. Following /\ unsub # NoConn
  BY DEF Settled, Following
<1>3. FlowNow /\ events \in Seq(Event) /\ ServerType
  BY <1>2 DEF FlowInv, BaseInv, PaneType, ServerInv
<1>4. /\ Ahead(unsub) = <<>> /\ (conn[unsub].stage = "opening") = FALSE
      /\ \A w \in Writers : writer[w].att # a
  BY <1>1 DEF Settled
<1>5. HeldOf(a) = {}
  BY <1>4 DEF HeldOf
<1> DEFINE F == file[a]
           S == Shown
           since == conn[unsub].since
           read == ReadUpTo
           lost == Of(excused \cup crossed, a)
<1>6. Flow(F, S, <<>>, since, hasMore, FALSE, {}, read, lost)
  BY <1>1, <1>3, <1>4, <1>5 DEF FlowNow
<1>7. /\ Values(S) = Numbers /\ (S = <<>> <=> events = <<>>)
      /\ (events # <<>> => S[1] = First(events))
  BY <1>3, NumbersFacts DEF Shown, Numbers
<1>8. n \in lost => <<attemptId, n>> \in excused \cup crossed
  BY <1>1 DEF Of
<1>9. n \in Values(F)
  BY <1>1
<1> HIDE DEF F, S, since, read, lost
<1>10. NoneLost(F, S, S, hasMore, FALSE, {}, read, lost)
  <2>1. S \in Seq(Nat)
    BY <1>6 DEF Flow
  <2>2. S \o <<>> = S
    BY <2>1, ConcatEmptySeq
  <2> QED
    BY <1>6, <2>2 DEF Flow
<1>11. Fine(n, S, hasMore, lost)
  BY <1>9, <1>10 DEF NoneLost, Fine
<1> QED
  BY <1>7, <1>8, <1>11 DEF Fine

-----------------------------------------------------------------------------
(* The same pipeline, for what it shows twice.                             *)

Watching == mounted /\ ~overlapped /\ attemptId \in Attempts /\ crossed = {}

TwiceNow ==
    NoneTwice(file[attemptId], Shown \o Ahead(unsub), HeldOf(attemptId),
              Of(echoed, attemptId))

TwiceInv == Watching /\ unsub # NoConn => TwiceNow

LEMMA TwiceNext ==
  ASSUME NEW a, attemptId' = a, NEW F, file'[a] = F,
         NEW P, Shown' \o (conn'[unsub'].wire \o conn'[unsub'].chan) = P,
         NEW held, HeldOf(a)' = held, NEW echo, Of(echoed', a) = echo,
         NoneTwice(F, P, held, echo)
  PROVE  TwiceNow'
<1>1. HeldOf(attemptId)' = held
  BY DEF HeldOf
<1>2. Ahead(unsub)' = conn'[unsub'].wire \o conn'[unsub'].chan
  BY DEF Ahead
<1> QED
  BY <1>1, <1>2 DEF TwiceNow

LEMMA WatchFacts ==
  ASSUME BaseInv, Watching, unsub # NoConn
  PROVE  /\ unsub \in Conns /\ attemptId \in Attempts /\ events \in Seq(Event)
         /\ conn[unsub].wire \in Seq(Nat) /\ conn[unsub].chan \in Seq(Nat)
         /\ Shown \in Seq(Nat) /\ Ahead(unsub) \in Seq(Nat)
         /\ Ahead(unsub) = conn[unsub].wire \o conn[unsub].chan
         /\ Shown \o Ahead(unsub) \in Seq(Nat)
         /\ file[attemptId] \in Seq(Nat) /\ HeldOf(attemptId) \subseteq Nat
<1>1. ServerType /\ ServerInv /\ PaneType /\ ConnType
  BY DEF BaseInv, ServerInv, PaneType
<1>2. unsub \in Conns /\ attemptId \in Attempts /\ events \in Seq(Event)
  BY <1>1 DEF PaneType, Watching
<1>3. Shown \in Seq(Nat)
  BY <1>2, NumbersFacts DEF Shown
<1>4. /\ conn[unsub].wire \in Seq(Nat) /\ conn[unsub].chan \in Seq(Nat)
      /\ Ahead(unsub) \in Seq(Nat) /\ file[attemptId] \in Seq(Nat)
  BY <1>1, <1>2, StreamFacts, FileFacts
<1>5. HeldOf(attemptId) \subseteq Nat
  BY <1>1, HeldFacts
<1>6. Shown \o Ahead(unsub) \in Seq(Nat)
  BY <1>3, <1>4, CatValues
<1> QED
  BY <1>2, <1>3, <1>4, <1>5, <1>6 DEF Ahead

(* Nothing is out of order: the log climbs, and what is written is         *)
(* published before what comes after it.                                   *)
LEMMA OrderFacts ==
  ASSUME BaseInv, crossed = {}, NEW a \in Attempts
  PROVE  /\ Climbing(file[a])
         /\ \A s \in HeldOf(a), n \in Values(file[a]) : s <= n => n \in HeldOf(a)
<1>1. ServerInv /\ ServerType /\ PubOrder /\ file[a] \in Seq(Nat)
  BY FileFacts DEF BaseInv, ServerInv
<1>2. Of(crossed, a) = {}
  BY DEF Of
<1>3. Straight(file[a], {})
  BY <1>2, LogFacts
<1>4. Climbing(file[a])
  BY <1>3 DEF Straight, Climbing
<1>5. ASSUME NEW s \in HeldOf(a), NEW n \in Values(file[a]), s <= n
      PROVE  n \in HeldOf(a)
  <2>1. PICK w \in Writers : writer[w].stage = "written" /\ writer[w].att = a /\ writer[w].seq = s
    BY DEF HeldOf
  <2>2. s \in Nat /\ n \in Nat
    BY <1>1, <2>1, SlotFacts, FileFacts
  <2>3. CASE s = n
    BY <2>3
  <2>4. CASE s < n
    <3>1. \E x \in Writers : writer[x].stage = "written" /\ writer[x].att = a /\ writer[x].seq = n
      BY <1>1, <2>1, <2>4 DEF PubOrder
    <3> QED
      BY <3>1 DEF HeldOf
  <2> QED
    BY <1>5, <2>2, <2>3, <2>4
<1> QED
  BY <1>4, <1>5

LEMMA EchoFacts ==
  ASSUME ServerInv, NEW a, echoed' = echoed \cup Unpublished(a)
  PROVE  Of(echoed', a) = Of(echoed, a) \cup HeldOf(a)
<1>1. HeldOf(a) \subseteq Nat
  BY HeldFacts
<1>2. \A n \in Nat : <<a, n>> \in Unpublished(a) <=> n \in HeldOf(a)
  BY DEF Unpublished, HeldOf
<1> QED
  BY <1>1, <1>2 DEF Of

(* The log is deleted; the pane is told by an event without a number.      *)
LEMMA TwiceDelete ==
  ASSUME NEW F \in Seq(Nat), NEW P \in Seq(Nat), NEW held, NEW echo,
         NoneTwice(F, P, held, echo)
  PROVE  /\ NoneTwice(<<>>, P, {}, echo)
         /\ NoneTwice(<<>>, Append(P, 0), {}, echo)
<1>1. \A x, y : Back(x, y, F, echo) => Back(x, y, <<>>, echo)
  BY NoValues DEF Back
<1>2. \A i, j \in DOMAIN P : i < j => Back(P[i], P[j], <<>>, echo)
  BY <1>1 DEF NoneTwice
<1>3. /\ Len(P) \in Nat /\ DOMAIN P = 1 .. Len(P) /\ Append(P, 0) \in Seq(Nat)
      /\ DOMAIN Append(P, 0) = 1 .. Len(P) + 1
      /\ \A i \in 1 .. Len(P) : Append(P, 0)[i] = P[i]
      /\ Append(P, 0)[Len(P) + 1] = 0
  <2>1. /\ Append(P, 0) \in Seq(Nat) /\ Len(Append(P, 0)) = Len(P) + 1
        /\ \A i \in 1 .. Len(P) : Append(P, 0)[i] = P[i]
        /\ Append(P, 0)[Len(P) + 1] = 0
    BY AppendFacts
  <2>2. DOMAIN Append(P, 0) = 1 .. Len(Append(P, 0))
    BY <2>1, SeqFacts
  <2> QED
    BY <2>1, <2>2, SeqFacts
<1>4. ASSUME NEW i \in DOMAIN Append(P, 0), NEW j \in DOMAIN Append(P, 0), i < j
      PROVE  Back(Append(P, 0)[i], Append(P, 0)[j], <<>>, echo)
  <2>1. i \in 1 .. Len(P) /\ (j = Len(P) + 1 \/ j \in 1 .. Len(P))
    BY <1>3, <1>4
  <2>2. CASE j = Len(P) + 1
    <3>1. Append(P, 0)[j] = 0
      BY <1>3, <2>2
    <3> QED
      BY <3>1 DEF Back
  <2>3. CASE j \in 1 .. Len(P)
    BY <1>2, <1>3, <1>4, <2>1, <2>3
  <2> QED
    BY <2>1, <2>2, <2>3
<1> QED
  BY <1>2, <1>4, NoValues DEF NoneTwice

(* A step that adds nothing to the pipeline.                               *)
LEMMA TwiceSame ==
  ASSUME BaseInv, TwiceNow, Watching, unsub # NoConn, NEW a, a = attemptId,
         UNCHANGED <<attemptId, events, unsub>>, file'[a] = file[a],
         \/ conn'[unsub].wire = conn[unsub].wire /\ conn'[unsub].chan = conn[unsub].chan
         \/ conn'[unsub].wire = <<>> /\ conn'[unsub].chan = <<>>,
         HeldOf(a)' \subseteq HeldOf(a), echoed \subseteq echoed'
  PROVE  TwiceNow'
<1> DEFINE F == file[a]
           S == Shown
           H == Ahead(unsub)
           P == S \o H
           Q == Shown' \o (conn'[unsub'].wire \o conn'[unsub'].chan)
           held == HeldOf(a)
           echo == Of(echoed, a)
           echo2 == Of(echoed', a)
<1>1. NoneTwice(F, P, held, echo)
  BY DEF TwiceNow
<1>2. PICK kept : kept = HeldOf(a)'
  OBVIOUS
<1>3. /\ S \in Seq(Nat) /\ H \in Seq(Nat) /\ a \in Attempts
      /\ H = conn[unsub].wire \o conn[unsub].chan
  BY WatchFacts
<1>4. Q = P \/ Q = S
  <2>1. Shown' = S
    BY DEF Shown
  <2>2. <<>> \o <<>> = <<>>
    BY NoValues, ConcatEmptySeq
  <2>3. S \o <<>> = S
    BY <1>3, ConcatEmptySeq
  <2> QED
    BY <1>3, <2>1, <2>2, <2>3
<1>5. echo2 = echo \cup echo2
  BY DEF Of
<1>6. attemptId' = a /\ file'[a] = F
  OBVIOUS
<1>7. Of(echoed', a) = echo2 /\ Q = Shown' \o (conn'[unsub'].wire \o conn'[unsub'].chan)
  OBVIOUS
<1>8. kept \in SUBSET held
  BY <1>2
<1> HIDE DEF F, S, H, P, Q, held, echo, echo2
<1>9. DOMAIN Q \subseteq DOMAIN P /\ \A i \in DOMAIN Q : Q[i] = P[i]
  <2>1. CASE Q = P
    BY <2>1
  <2>2. CASE Q = S
    <3>1. /\ Len(P) = Len(S) + Len(H) /\ \A i \in 1 .. Len(S) : P[i] = S[i] /\ P \in Seq(Nat)
      BY <1>3, CatFacts DEF P
    <3>2. P \in Seq(Nat)
      BY <1>3, CatFacts DEF P
    <3>3. Len(S) \in Nat /\ Len(H) \in Nat /\ DOMAIN S = 1 .. Len(S) /\ DOMAIN P = 1 .. Len(P)
      BY <1>3, <3>2, SeqFacts
    <3> QED
      BY <2>2, <3>1, <3>3
  <2> QED
    BY <1>4, <2>1, <2>2
<1>10. NoneTwice(F, Q, kept, echo \cup echo2)
  BY <1>1, <1>8, <1>9, TwiceLess
<1> QED
  BY <1>2, <1>5, <1>6, <1>7, <1>10, TwiceNext

LEMMA AsideTwice ==
  ASSUME BaseInv, TwiceNow, Watching, unsub # NoConn,
         \/ \E w \in Writers, a \in Attempts : TakeSeq(w, a)
         \/ \E c \in Conns : Subscribe(c) \/ Drop(c)
         \/ Restart \/ LoadMore \/ Tick
  PROVE  TwiceNow'
<1>1. PICK a : a = attemptId
  OBVIOUS
<1>2. ServerType /\ ConnType /\ a \in Attempts /\ unsub \in Conns /\ ~overlapped
  BY <1>1, WatchFacts DEF BaseInv, PaneType, ServerInv, Watching
<1>3. ASSUME NEW w \in Writers, NEW b \in Attempts, TakeSeq(w, b)
      PROVE  TwiceNow'
  <2>1. /\ UNCHANGED <<attemptId, events, unsub, conn, file, echoed>>
        /\ writer[w].stage = "idle"
        /\ writer' = [writer EXCEPT ![w] =
                         [stage |-> "numbered", att |-> b, seq |-> seqs[b] + 1]]
    BY <1>3 DEF TakeSeq, pane, ghosts
  <2>2. writer'[w].stage = "numbered" /\ \A x \in Writers : x # w => writer'[x] = writer[x]
    BY <1>2, <2>1 DEF ServerType
  <2>3. HeldOf(a)' = HeldOf(a)
    BY <2>1, <2>2, HeldSame
  <2> QED
    BY <1>1, <2>1, <2>3, TwiceSame
<1>4. ASSUME NEW c \in Conns, Subscribe(c)
      PROVE  TwiceNow'
  <2>1. UNCHANGED <<attemptId, events, unsub, writer, file, echoed>>
    BY <1>4 DEF Subscribe, pane, ghosts, server
  <2>2. c = unsub
    BY <1>2, <1>4, SubscribeFacts, OpenOwn
  <2>3. conn'[unsub].wire = conn[unsub].wire /\ conn'[unsub].chan = conn[unsub].chan
    BY <1>2, <1>4, <2>2, SubscribeFacts
  <2>4. HeldOf(a)' = HeldOf(a)
    BY <2>1 DEF HeldOf
  <2> QED
    BY <1>1, <2>1, <2>3, <2>4, TwiceSame
<1>5. ASSUME NEW c \in Conns, Drop(c)
      PROVE  TwiceNow'
  <2>1. UNCHANGED <<attemptId, events, unsub, writer, file, echoed>>
    BY <1>5 DEF Drop, pane, server
  <2>2. c = unsub
    BY <1>2, <1>5, DropFacts, OpenOwn
  <2>3. conn'[unsub].wire = <<>> /\ conn'[unsub].chan = <<>>
    BY <1>2, <1>5, <2>2, DropFacts
  <2>4. HeldOf(a)' = HeldOf(a)
    BY <2>1 DEF HeldOf
  <2> QED
    BY <1>1, <2>1, <2>3, <2>4, TwiceSame
<1>6. CASE Restart
  <2>1. UNCHANGED <<attemptId, events, unsub, file, echoed>> /\ writer' = [w \in Writers |-> Idle]
    BY <1>6 DEF Restart, pane
  <2>2. \/ conn'[unsub].wire = conn[unsub].wire /\ conn'[unsub].chan = conn[unsub].chan
        \/ conn'[unsub].wire = <<>> /\ conn'[unsub].chan = <<>>
    BY <1>2, <1>6, RestartFacts
  <2>3. HeldOf(a)' = {}
    BY <2>1 DEF HeldOf, Idle
  <2> QED
    BY <1>1, <2>1, <2>2, <2>3, TwiceSame
<1>7. CASE LoadMore \/ Tick
  <2>1. UNCHANGED <<attemptId, events, unsub, writer, file, echoed, conn>>
    BY <1>7 DEF LoadMore, Tick, server, ghosts
  <2>2. HeldOf(a)' = HeldOf(a)
    BY <2>1 DEF HeldOf
  <2> QED
    BY <1>1, <2>1, <2>2, TwiceSame
<1> QED
  BY <1>3, <1>4, <1>5, <1>6, <1>7

LEMMA WriteLineTwice ==
  ASSUME BaseInv, FlowInv, TwiceNow, Watching, unsub # NoConn, NEW w \in Writers, WriteLine(w)
  PROVE  TwiceNow'
<1>1. PICK a : a = attemptId
  OBVIOUS
<1>2. /\ UNCHANGED <<attemptId, events, unsub, conn, echoed>>
      /\ file' = [file EXCEPT ![writer[w].att] = Append(@, writer[w].seq)]
      /\ writer[w].stage = "numbered"
  BY DEF WriteLine, pane
<1>3. ServerInv /\ ServerType /\ WriterInv /\ a \in Attempts /\ crossed = {}
  BY <1>1, WatchFacts DEF BaseInv, ServerInv, Watching
<1>4. CASE writer[w].att # a
  <2>1. file'[a] = file[a]
    BY <1>2, <1>3, <1>4 DEF ServerType
  <2>2. HeldOf(a)' = HeldOf(a)
    BY <1>3, <1>4, HeldWrite
  <2> QED
    BY <1>1, <1>2, <2>1, <2>2, TwiceSame
<1>5. CASE writer[w].att = a
  <2> DEFINE n == writer[w].seq
             F == file[a]
             P == Shown \o Ahead(unsub)
             held == HeldOf(a)
             echo == Of(echoed, a)
  <2>1. NoneTwice(F, P, held, echo)
    BY <1>1 DEF TwiceNow
  <2>2. file'[a] = Append(F, n)
    BY <1>2, <1>3, <1>5 DEF ServerType
  <2>3. HeldOf(a)' = held \cup {n}
    BY <1>3, <1>5, HeldWrite
  <2>4. Values(P) \subseteq Values(F)
    <3>1. Following
      BY <1>1, <1>2, <1>3, <1>5, SlotFacts DEF Following, Watching
    <3> QED
      BY <1>1, <3>1 DEF FlowInv, FlowNow, Flow
  <2>5. n \in Nat /\ \A v \in Values(F) : v < n
    <3>1. n \in Nat /\ Values(F) \subseteq Nat
      BY <1>3, SlotFacts, FileFacts
    <3>2. \A v \in Values(F) : v # n /\ ~(n < v)
      BY <1>2, <1>3, <1>5 DEF WriterInv
    <3> HIDE DEF n, F
    <3> QED
      BY <3>1, <3>2
  <2>6. attemptId' = a /\ Shown' \o (conn'[unsub'].wire \o conn'[unsub'].chan) = P
    BY <1>1, <1>2 DEF Shown, Ahead
  <2>7. Of(echoed', a) = echo
    BY <1>2
  <2>8. F \in Seq(Nat) /\ P \in Seq(Nat) /\ held \in SUBSET Nat
    BY <1>1, WatchFacts
  <2> HIDE DEF n, F, P, held, echo
  <2>9. NoneTwice(Append(F, n), P, held \cup {n}, echo)
    BY <2>1, <2>4, <2>5, <2>8, TwiceWrite
  <2> QED
    BY <2>2, <2>3, <2>6, <2>7, <2>9, TwiceNext
<1> QED
  BY <1>4, <1>5

LEMMA PublishTwice ==
  ASSUME BaseInv, TwiceNow, Watching, unsub # NoConn, NEW w \in Writers, Publish(w), crossed' = {}
  PROVE  TwiceNow'
<1>1. PICK a : a = attemptId
  OBVIOUS
<1>2. UNCHANGED <<attemptId, events, unsub, file, echoed>>
  BY DEF Publish, pane
<1>3. /\ ServerInv /\ ServerType /\ a \in Attempts /\ unsub \in Conns
      /\ conn[unsub].wire \in Seq(Nat) /\ conn[unsub].chan \in Seq(Nat)
  BY <1>1, WatchFacts DEF BaseInv, ServerInv
<1>4. CASE writer[w].att # a \/ ~Reached(unsub, writer[w].att)
  <2>1. ~Reached(unsub, writer[w].att)
    <3>1. SUFFICES ASSUME writer[w].att # a, conn[unsub].stage = "live"
                   PROVE  conn[unsub].att # writer[w].att
      BY <1>4 DEF Reached
    <3> QED
      BY <1>1, <1>3, <3>1, OpenOwn DEF Watching
  <2>2. conn'[unsub].wire = conn[unsub].wire /\ conn'[unsub].chan = conn[unsub].chan
    BY <1>3, <2>1, PublishFacts
  <2>3. HeldOf(a)' \subseteq HeldOf(a)
    BY <1>3, HeldPublish
  <2> QED
    BY <1>1, <1>2, <2>2, <2>3, TwiceSame
<1>5. CASE writer[w].att = a /\ Reached(unsub, writer[w].att)
  <2> DEFINE n == writer[w].seq
             F == file[a]
             P == Shown \o Ahead(unsub)
             held == HeldOf(a)
             echo == Of(echoed, a)
  <2>1. NoneTwice(F, P, held, echo)
    BY <1>1 DEF TwiceNow
  <2>2. HeldOf(a)' = held \ {n} /\ n \in held
    BY <1>3, <1>5, HeldPublish
  <2>3. n \in Nat /\ n \in Values(F)
    BY <1>3, <1>5, PublishFacts
  <2>4. \A s \in held : ~(s < n)
    <3>1. \A x \in Writers : writer[x].att = a => ~(writer[x].seq < n)
      BY <1>3, <1>5, PublishFacts
    <3> QED
      BY <3>1 DEF HeldOf
  <2>5. /\ F \in Seq(Nat) /\ P \in Seq(Nat) /\ held \in SUBSET Nat
        /\ Shown \in Seq(Nat) /\ Ahead(unsub) \in Seq(Nat)
        /\ Ahead(unsub) = conn[unsub].wire \o conn[unsub].chan
    BY <1>1, WatchFacts
  <2>6. attemptId' = a /\ Shown' \o (conn'[unsub'].wire \o conn'[unsub'].chan) = Append(P, n)
    <3>1. /\ unsub' = unsub /\ conn'[unsub].wire = conn[unsub].wire
          /\ conn'[unsub].chan = Append(conn[unsub].chan, n)
      BY <1>2, <1>3, <1>5, PublishFacts
    <3>2. conn'[unsub'].wire \o conn'[unsub'].chan = Append(Ahead(unsub), n)
      <4>1. Ahead(unsub) = conn[unsub].wire \o conn[unsub].chan /\ n \in Nat
        BY <2>3, <2>5
      <4>2. conn[unsub].wire \in Seq(Nat) /\ conn[unsub].chan \in Seq(Nat)
        BY <1>3
      <4> HIDE DEF n
      <4> QED
        BY <3>1, <4>1, <4>2, AppendCat
    <3>3. Shown \o Append(Ahead(unsub), n) = Append(P, n)
      BY <2>3, <2>5, AppendCat
    <3>4. Shown' = Shown
      BY <1>2 DEF Shown
    <3> QED
      BY <1>1, <1>2, <3>2, <3>3, <3>4
  <2>7. Of(echoed', a) = echo /\ file'[a] = F
    BY <1>2
  <2> HIDE DEF n, F, P, held, echo
  <2>8. \A s \in held \ {n} : n < s
    BY <2>3, <2>4, <2>5
  <2>9. NoneTwice(F, Append(P, n), held \ {n}, echo)
    BY <2>1, <2>2, <2>3, <2>5, <2>8, TwicePublish
  <2> QED
    BY <2>2, <2>6, <2>7, <2>9, TwiceNext
<1> QED
  BY <1>4, <1>5

LEMMA DeleteTwice ==
  ASSUME BaseInv, TwiceNow, Watching, unsub # NoConn, NEW b \in Attempts, Delete(b)
  PROVE  TwiceNow'
<1>1. PICK a : a = attemptId
  OBVIOUS
<1>2. /\ UNCHANGED <<attemptId, events, unsub, writer, echoed>>
      /\ conn' = Broadcast(b, 0) /\ file' = [file EXCEPT ![b] = <<>>]
      /\ \A w \in Writers : writer[w].att # b
  BY DEF Delete, pane, ghosts
<1>3. /\ ServerInv /\ ServerType /\ ConnType /\ a \in Attempts /\ unsub \in Conns
      /\ conn[unsub].wire \in Seq(Nat) /\ conn[unsub].chan \in Seq(Nat)
  BY <1>1, WatchFacts DEF BaseInv, ServerInv, PaneType
<1>4. /\ conn'[unsub].wire = conn[unsub].wire
      /\ conn'[unsub].chan = IF Reached(unsub, b) THEN Append(conn[unsub].chan, 0)
                             ELSE conn[unsub].chan
  BY <1>2, <1>3, BroadcastFacts DEF Reached
<1>5. CASE b # a
  <2>1. ~Reached(unsub, b)
    <3>1. SUFFICES ASSUME conn[unsub].stage = "live"
                   PROVE  conn[unsub].att # b
      BY DEF Reached
    <3> QED
      BY <1>1, <1>3, <1>5, <3>1, OpenOwn DEF Watching
  <2>2. HeldOf(a)' = HeldOf(a) /\ file'[a] = file[a]
    BY <1>2, <1>3, <1>5 DEF HeldOf, ServerType
  <2> QED
    BY <1>1, <1>2, <1>4, <2>1, <2>2, TwiceSame
<1>6. CASE b = a
  <2> DEFINE F == file[a]
             P == Shown \o Ahead(unsub)
             Q == Shown' \o (conn'[unsub'].wire \o conn'[unsub'].chan)
             held == HeldOf(a)
             echo == Of(echoed, a)
  <2>1. NoneTwice(F, P, held, echo)
    BY <1>1 DEF TwiceNow
  <2>2. HeldOf(a)' = {} /\ file'[a] = <<>>
    BY <1>2, <1>3, <1>6 DEF HeldOf, ServerType
  <2>3. F \in Seq(Nat) /\ P \in Seq(Nat)
    BY <1>1, WatchFacts
  <2>4. Q = P \/ Q = Append(P, 0)
    <3>1. /\ Shown \in Seq(Nat) /\ Ahead(unsub) \in Seq(Nat)
          /\ Ahead(unsub) = conn[unsub].wire \o conn[unsub].chan
      BY WatchFacts
    <3>2. Shown' = Shown /\ unsub' = unsub
      BY <1>2 DEF Shown
    <3>3. CASE ~Reached(unsub, b)
      BY <1>4, <3>1, <3>2, <3>3
    <3>4. CASE Reached(unsub, b)
      <4>1. conn'[unsub].wire \o conn'[unsub].chan = Append(Ahead(unsub), 0)
        <5>1. conn[unsub].wire \o Append(conn[unsub].chan, 0) = Append(Ahead(unsub), 0)
          <6>1. Ahead(unsub) = conn[unsub].wire \o conn[unsub].chan
            BY <3>1
          <6>2. conn[unsub].wire \in Seq(Nat) /\ conn[unsub].chan \in Seq(Nat)
            BY <1>3
          <6>3. PICK zero \in Nat : zero = 0
            OBVIOUS
          <6>4. conn[unsub].wire \o Append(conn[unsub].chan, zero) = Append(Ahead(unsub), zero)
            <7>1. PICK w \in Seq(Nat), q \in Seq(Nat) : w = conn[unsub].wire /\ q = conn[unsub].chan
              BY <6>2
            <7>2. w \o Append(q, zero) = Append(w \o q, zero)
              BY AppendCat
            <7> QED
              BY <6>1, <7>1, <7>2
          <6> QED
            BY <6>3, <6>4
        <5> QED
          BY <1>4, <3>4, <5>1
      <4>2. Shown \o Append(Ahead(unsub), 0) = Append(P, 0)
        BY <3>1, AppendCat
      <4> QED
        BY <3>2, <4>1, <4>2
    <3> QED
      BY <3>3, <3>4
  <2>5. /\ attemptId' = a /\ Of(echoed', a) = echo
        /\ Shown' \o (conn'[unsub'].wire \o conn'[unsub'].chan) = Q
    BY <1>1, <1>2
  <2> HIDE DEF F, P, Q, held, echo
  <2>6. NoneTwice(<<>>, Q, {}, echo)
    BY <2>1, <2>3, <2>4, TwiceDelete
  <2> QED
    BY <2>2, <2>5, <2>6, TwiceNext
<1> QED
  BY <1>5, <1>6

LEMMA ServeTwice ==
  ASSUME BaseInv, FlowInv, TwiceNow, Watching, unsub # NoConn, NEW c \in Conns, Serve(c)
  PROVE  TwiceNow'
<1>1. PICK a : a = attemptId
  OBVIOUS
<1>2. /\ ServerInv /\ ServerType /\ ConnType /\ a \in Attempts /\ unsub \in Conns
      /\ events \in Seq(Event) /\ crossed = {} /\ ~overlapped
  BY <1>1, WatchFacts DEF BaseInv, ServerInv, PaneType, Watching
<1>3. conn[c].stage = "opening" /\ c = unsub /\ conn[unsub].att = a
  BY <1>1, <1>2, ServeFacts, OpenOwn
<1>4. /\ UNCHANGED <<attemptId, events, unsub, file, writer>>
      /\ a \in Attempts \ gone => echoed' = echoed \cup Unpublished(a)
      /\ a \notin Attempts \ gone => echoed' = echoed
  BY <1>3 DEF Serve, server, pane
<1>5. HeldOf(a)' = HeldOf(a)
  BY <1>4 DEF HeldOf
<1>6. CASE a \in gone
  <2>1. conn'[unsub] = Closed
    BY <1>2, <1>3, <1>6, ServeFacts
  <2>2. conn'[unsub].wire = <<>> /\ conn'[unsub].chan = <<>>
    BY <2>1 DEF Closed
  <2> QED
    BY <1>1, <1>4, <1>5, <1>6, <2>2, TwiceSame
<1>7. CASE a \notin gone
  <2> DEFINE F == file[a]
             S == Shown
             since == conn[unsub].since
             wire == Replay(a, since)
             held == HeldOf(a)
             echo == Of(echoed, a)
  <2>1. Following
    BY <1>1, <1>2, <1>7 DEF Following, Watching
  <2>2. /\ F \in Seq(Nat) /\ S \in Seq(Nat) /\ since = LastOr0(S)
        /\ Values(S \o Ahead(unsub)) \subseteq Values(F)
    BY <1>1, <2>1 DEF FlowInv, FlowNow, Flow
  <2>3. Ahead(unsub) = <<>> /\ S \o <<>> = S
    <3>1. conn[unsub].wire = <<>> /\ conn[unsub].chan = <<>>
      BY <1>2, <1>3, StreamFacts DEF StreamOK
    <3>2. <<>> \o <<>> = <<>>
      BY NoValues, ConcatEmptySeq
    <3> QED
      BY <2>2, <3>1, <3>2, ConcatEmptySeq DEF Ahead
  <2>4. NoneTwice(F, S, held, echo) /\ Values(S) \subseteq Values(F)
    BY <1>1, <2>2, <2>3 DEF TwiceNow
  <2>5. since \in Nat /\ wire \in Seq(Nat)
    BY <1>2, StreamFacts, ReplayType
  <2>6. PICK at \in [1 .. Len(wire) -> DOMAIN F] :
            /\ \A j \in 1 .. Len(wire) : wire[j] = F[at[j]] /\ since < wire[j]
            /\ \A j, k \in 1 .. Len(wire) : j < k => at[j] < at[k]
    BY <2>2, <2>5, ReplayFacts
  <2>7. /\ Climbing(F) /\ \A s \in held, n \in Values(F) : s <= n => n \in held
        /\ \A n \in Values(F) : n # 0
    BY <1>2, OrderFacts, LogFacts
  <2>8. /\ attemptId' = a /\ file'[a] = F /\ Of(echoed', a) = echo \cup held
        /\ HeldOf(a)' = held
    BY <1>1, <1>2, <1>4, <1>5, <1>7, EchoFacts
  <2>9. Shown' \o (conn'[unsub'].wire \o conn'[unsub'].chan) = S \o wire
    <3>1. conn'[unsub].wire = wire /\ conn'[unsub].chan = <<>>
      BY <1>2, <1>3, <1>7, ServeFacts
    <3>2. wire \o <<>> = wire
      BY <2>5, ConcatEmptySeq
    <3>3. Shown' = S /\ unsub' = unsub
      BY <1>4 DEF Shown
    <3> QED
      BY <3>1, <3>2, <3>3
  <2> HIDE DEF F, S, since, wire, held, echo
  <2>10. DOMAIN wire = 1 .. Len(wire)
    BY <2>5, SeqFacts
  <2>11. Climbing(wire)
    <3>1. \A j, k \in DOMAIN wire : j < k => F[at[j]] < F[at[k]]
      BY <2>6, <2>7, <2>10 DEF Climbing
    <3> QED
      BY <2>6, <2>10, <3>1 DEF Climbing
  <2>12. Values(wire) \subseteq Values(F) /\ \A y \in Values(wire) : LastOr0(S) < y
    BY <2>2, <2>6, <2>10 DEF Values
  <2>13. NoneTwice(F, S \o wire, held, echo \cup held)
    BY <2>2, <2>4, <2>5, <2>7, <2>11, <2>12, TwiceServe
  <2> QED
    BY <2>8, <2>9, <2>13, TwiceNext
<1> QED
  BY <1>6, <1>7

LEMMA DeliverTwice ==
  ASSUME BaseInv, TwiceNow, Watching, unsub # NoConn, NEW c \in Conns, Deliver(c)
  PROVE  TwiceNow'
<1>1. PICK a : a = attemptId
  OBVIOUS
<1>2. /\ ConnType /\ a \in Attempts /\ unsub \in Conns /\ events \in Seq(Event)
      /\ Shown \in Seq(Nat) /\ ~overlapped
  BY <1>1, WatchFacts DEF BaseInv, PaneType, Watching
<1>3. c = unsub /\ conn[c].att = a
  BY <1>1, <1>2, DeliverFacts, OpenOwn
<1>4. UNCHANGED <<attemptId, unsub, file, writer, echoed>>
  BY DEF Deliver, server, ghosts
<1>5. PICK n \in Nat :
          /\ Ahead(c) = <<n>> \o (conn'[c].wire \o conn'[c].chan)
          /\ events' = Append(events, [att |-> conn[c].att, seq |-> n])
  BY <1>2, DeliverFacts
<1> DEFINE rest == conn'[c].wire \o conn'[c].chan
<1>6. rest \in Seq(Nat)
  <2>1. ConnType'
    BY <1>2, DeliverFacts
  <2>2. conn'[c] \in Streams
    BY <2>1 DEF ConnType
  <2>3. conn'[c].wire \in Seq(Nat) /\ conn'[c].chan \in Seq(Nat)
    BY <2>2 DEF Streams
  <2> QED
    BY <2>3, CatValues
<1>7. Shown' = Append(Shown, n)
  <2> DEFINE e == [att |-> conn[c].att, seq |-> n]
  <2>1. e \in Event /\ e.seq = n
    BY <1>2, <1>3 DEF Event
  <2>2. events' = Append(events, e)
    BY <1>5
  <2> HIDE DEF e
  <2>3. NumbersOf(Append(events, e)) = Append(NumbersOf(events), e.seq)
    BY <1>2, <2>1, NumbersAppend
  <2> QED
    BY <2>1, <2>2, <2>3 DEF Shown
<1>8. Append(Shown, n) \o rest = Shown \o Ahead(unsub)
  <2>1. Append(Shown, n) = Shown \o <<n>> /\ <<n>> \in Seq(Nat)
    BY <1>2, AppendIsCat, OneFacts
  <2>2. (Shown \o <<n>>) \o rest = Shown \o (<<n>> \o rest)
    <3>1. Shown \in Seq(Nat)
      BY <1>2
    <3> HIDE DEF rest
    <3> QED
      BY <1>6, <2>1, <3>1, ConcatAssociative
  <2> QED
    BY <1>3, <1>5, <2>1, <2>2
<1>9. /\ HeldOf(a)' = HeldOf(a) /\ attemptId' = a /\ file'[a] = file[a]
      /\ Of(echoed', a) = Of(echoed, a)
      /\ Shown' \o (conn'[unsub'].wire \o conn'[unsub'].chan) = Shown \o Ahead(unsub)
  BY <1>1, <1>3, <1>4, <1>7, <1>8 DEF HeldOf
<1>10. NoneTwice(file[a], Shown \o Ahead(unsub), HeldOf(a), Of(echoed, a))
  BY <1>1 DEF TwiceNow
<1> QED
  BY <1>9, <1>10, TwiceNext

(* The first load repeats nothing: the log climbs.                         *)
LEMMA LoadedTwice ==
  ASSUME BaseInv, NEW g \in Gets, NEW ok \in BOOLEAN, Loaded(g, ok), Watching
  PROVE  TwiceNow'
<1>1. PICK a : a = attemptId
  OBVIOUS
<1>2. /\ ServerInv /\ ServerType /\ PaneType /\ a \in Attempts /\ OwnRequests /\ OwnShown
      /\ events \in Seq(Event) /\ crossed = {} /\ mounted
  BY <1>1, OwnParts DEF BaseInv, PaneType, ServerInv, Watching
<1>3. UNCHANGED <<attemptId, file, writer>>
  BY DEF Loaded, server
<1>4. /\ get[g].kind = "tail" /\ get[g].att = a /\ unsub = NoConn /\ RequestOK(get[g])
  BY <1>1, <1>2, LoadedFacts DEF OwnRequests, PaneType
<1>5. events = <<>>
  BY <1>2, <1>4 DEF OwnShown
<1>6. /\ events' = IF ok THEN Answer(get[g]) ELSE events
      /\ conn'[unsub'].wire = <<>> /\ conn'[unsub'].chan = <<>> /\ events' \in Seq(Event)
  BY <1>2, LoadedFacts
<1>7. PICK T : T = NumbersOf(events')
  OBVIOUS
<1> DEFINE F == file[a]
           held == HeldOf(a)
           echo2 == Of(echoed', a)
<1>8. T \in Seq(Nat) /\ (T = <<>> <=> events' = <<>>)
  BY <1>6, <1>7, NumbersFacts
<1>9. Shown' \o (conn'[unsub'].wire \o conn'[unsub'].chan) = T
  <2>1. <<>> \o <<>> = <<>> /\ T \o <<>> = T
    BY <1>8, NoValues, ConcatEmptySeq
  <2> QED
    BY <1>6, <1>7, <2>1 DEF Shown
<1>10. attemptId' = a /\ file'[a] = F /\ HeldOf(a)' = held
  BY <1>1, <1>3 DEF HeldOf
<1>11. NoneTwice(F, T, held, echo2)
  <2>1. CASE T = <<>>
    BY <2>1, NoValues DEF NoneTwice
  <2>2. CASE T # <<>>
    <3>1. ok /\ events' = Answer(get[g])
      BY <1>5, <1>6, <1>8, <2>2
    <3>2. T = Lines(get[g])
      <4>1. get[g].kind # "none"
        BY <1>4
      <4> QED
        BY <1>2, <1>4, <1>7, <3>1, <4>1, AnswerType
    <3>3. echo2 = Of(echoed, a) \cup held
      <4>1. echoed' = echoed \cup Unpublished(a)
        BY <1>4, <3>1 DEF Loaded
      <4> QED
        BY <1>2, <4>1, EchoFacts
    <3>4. F \in Seq(Nat) /\ Climbing(F) /\ \A s \in held, n \in Values(F) : s <= n => n \in held
      BY <1>2, FileFacts, OrderFacts
    <3>5. PICK d \in Nat : Len(F) = d + Len(T) /\ \A j \in 1 .. Len(T) : T[j] = F[d + j]
      <4>1. PICK r : r = get[g]
        OBVIOUS
      <4>2. r.kind = "tail" /\ file[r.att] \in Seq(Nat) /\ F = file[r.att] /\ T = Lines(r)
        BY <1>4, <3>2, <3>4, <4>1
      <4>3. \E d \in Nat : /\ Len(file[r.att]) = d + Len(Lines(r))
                           /\ \A j \in 1 .. Len(Lines(r)) : Lines(r)[j] = file[r.att][d + j]
        BY <4>2, TailFacts
      <4> QED
        BY <4>2, <4>3
    <3> HIDE DEF F, held, echo2
    <3>6. Len(T) \in Nat /\ Len(F) \in Nat /\ DOMAIN T = 1 .. Len(T) /\ DOMAIN F = 1 .. Len(F)
      BY <1>8, <3>4, SeqFacts
    <3>7. Climbing(T)
      <4> SUFFICES ASSUME NEW i \in DOMAIN T, NEW j \in DOMAIN T, i < j
                   PROVE  T[i] < T[j]
        BY DEF Climbing
      <4>1. d + i \in DOMAIN F /\ d + j \in DOMAIN F /\ d + i < d + j
        BY <3>5, <3>6
      <4>2. F[d + i] < F[d + j]
        BY <3>4, <4>1 DEF Climbing
      <4> QED
        BY <3>5, <3>6, <4>2
    <3> QED
      BY <3>3, <3>4, <3>7, TwiceTail
  <2> QED
    BY <2>1, <2>2
<1>12. Of(echoed', a) = echo2
  OBVIOUS
<1> HIDE DEF F, held, echo2
<1> QED
  BY <1>9, <1>10, <1>11, <1>12, TwiceNext

(* Nor does a page: its lines are before the first one of the pane.        *)
LEMMA MoreLoadedTwice ==
  ASSUME BaseInv, TwiceNow, Watching, unsub # NoConn,
         NEW g \in Gets, NEW ok \in BOOLEAN, MoreLoaded(g, ok)
  PROVE  TwiceNow'
<1>1. PICK a : a = attemptId
  OBVIOUS
<1>2. /\ ServerInv /\ ServerType /\ PaneType /\ a \in Attempts /\ OwnRequests
      /\ events \in Seq(Event) /\ crossed = {}
  BY <1>1, WatchFacts, OwnParts DEF BaseInv, PaneType, ServerInv, Watching
<1>3. UNCHANGED <<attemptId, file, writer, conn, unsub>> /\ echoed \subseteq echoed'
  BY DEF MoreLoaded, server
<1>4. /\ get[g].kind = "page" /\ get[g].att = a /\ events # <<>>
      /\ get[g].before = First(events) /\ RequestOK(get[g])
  BY <1>1, <1>2, MoreLoadedFacts DEF OwnRequests, PaneType
<1>5. /\ events' \in Seq(Event) /\ Answer(get[g]) \in Seq(Event)
      /\ events' = events \/ (ok /\ Answer(get[g]) # <<>> /\ events' = Answer(get[g]) \o events)
  BY <1>2, MoreLoadedFacts
<1>6. HeldOf(a)' = HeldOf(a)
  BY <1>3 DEF HeldOf
<1>7. CASE events' = events
  BY <1>1, <1>3, <1>6, <1>7, TwiceSame
<1>8. CASE ok /\ Answer(get[g]) # <<>> /\ events' = Answer(get[g]) \o events
  <2> DEFINE F == file[a]
             S == Shown
             H == Ahead(unsub)
             P == S \o H
             O == Lines(get[g])
             held == HeldOf(a)
             echo == Of(echoed, a)
  <2>1. NoneTwice(F, P, held, echo)
    BY <1>1 DEF TwiceNow
  <2>2. /\ attemptId' = a /\ file'[a] = F /\ HeldOf(a)' = held
        /\ conn'[unsub'].wire \o conn'[unsub'].chan = H
    BY <1>1, <1>3, <1>6 DEF Ahead
  <2>3. Of(echoed', a) = echo \cup held
    <3>1. echoed' = echoed \cup Unpublished(a)
      BY <1>4, <1>8 DEF MoreLoaded
    <3> QED
      BY <1>2, <3>1, EchoFacts
  <2>4. /\ S \in Seq(Nat) /\ S # <<>> /\ S[1] = get[g].before /\ H \in Seq(Nat)
        /\ NumbersOf(Answer(get[g])) = O /\ O \in Seq(Nat)
    <3>1. get[g].kind # "none"
      BY <1>4
    <3>2. NumbersOf(Answer(get[g])) = O /\ O \in Seq(Nat)
      BY <1>2, <1>4, <3>1, AnswerType
    <3>3. S \in Seq(Nat) /\ S # <<>> /\ S[1] = get[g].before
      BY <1>2, <1>4, NumbersFacts DEF Shown
    <3> QED
      BY <3>2, <3>3, WatchFacts
  <2>5. /\ F \in Seq(Nat) /\ Climbing(F)
        /\ \A s \in held, n \in Values(F) : s <= n => n \in held
    BY <1>2, FileFacts, OrderFacts
  <2>6. PICK at \in [1 .. Len(O) -> DOMAIN F] :
            /\ \A j \in 1 .. Len(O) : O[j] = F[at[j]] /\ O[j] < get[g].before
            /\ \A j, k \in 1 .. Len(O) : j < k => at[j] < at[k]
    BY <1>4, <2>5, PageFacts
  <2>7. Shown' = O \o S
    <3>1. NumbersOf(Answer(get[g]) \o events) = NumbersOf(Answer(get[g])) \o NumbersOf(events)
      BY <1>2, <1>5, NumbersCat
    <3> QED
      BY <1>8, <2>4, <3>1 DEF Shown
  <2> HIDE DEF F, S, H, P, O, held, echo
  <2>8. DOMAIN O = 1 .. Len(O)
    BY <2>4, SeqFacts
  <2>9. Climbing(O)
    <3>1. \A j, k \in DOMAIN O : j < k => F[at[j]] < F[at[k]]
      BY <2>5, <2>6, <2>8 DEF Climbing
    <3> QED
      BY <2>6, <2>8, <3>1 DEF Climbing
  <2>10. Values(O) \subseteq Values(F) /\ \A x \in Values(O) : x < S[1]
    BY <2>4, <2>6, <2>8 DEF Values
  <2>11. P \in Seq(Nat) /\ P # <<>> /\ P[1] = S[1]
    <3>1. 1 \in 1 .. Len(S)
      BY <2>4, SeqFacts
    <3> QED
      BY <2>4, <3>1, CatFacts DEF P
  <2>12. NoneTwice(F, O \o P, held, echo \cup held)
    BY <2>1, <2>4, <2>5, <2>9, <2>10, <2>11, TwicePage
  <2>13. (O \o S) \o H = O \o P
    <3>1. O \in Seq(Nat) /\ S \in Seq(Nat) /\ H \in Seq(Nat)
      BY <2>4
    <3>2. (O \o S) \o H = O \o (S \o H)
      BY <3>1, CatCat
    <3> QED
      BY <3>2 DEF P
  <2>14. Shown' \o (conn'[unsub'].wire \o conn'[unsub'].chan) = O \o P
    BY <2>2, <2>7, <2>13
  <2> QED
    BY <2>2, <2>3, <2>12, <2>14, TwiceNext
<1> QED
  BY <1>5, <1>7, <1>8

LEMMA NextTwice ==
  ASSUME BaseInv, FlowInv, TwiceInv, Next
  PROVE  TwiceInv'
<1> SUFFICES ASSUME Watching', unsub' # NoConn
             PROVE  TwiceNow'
  BY DEF TwiceInv
<1>1. ASSUME NEW g \in Gets, NEW ok \in BOOLEAN, Loaded(g, ok)
      PROVE  TwiceNow'
  <2>1. UNCHANGED <<mounted, overlapped, attemptId, crossed>>
    BY <1>1 DEF Loaded, server
  <2>2. Watching
    BY <2>1 DEF Watching
  <2> QED
    BY <1>1, <2>2, LoadedTwice
<1>2. CASE (\E a \in Attempts \cup {NoAttempt} : Switch(a)) \/ Unmount
  BY <1>2 DEF Switch, Unmount, Watching
<1>3. CASE /\ ~\E g \in Gets, ok \in BOOLEAN : Loaded(g, ok)
           /\ ~\E a \in Attempts \cup {NoAttempt} : Switch(a)
           /\ ~Unmount
  <2>1. UNCHANGED <<mounted, overlapped, attemptId, unsub>> /\ crossed \subseteq crossed'
    <3>1. ASSUME NEW w \in Writers, NEW a \in Attempts, TakeSeq(w, a)
          PROVE  UNCHANGED <<mounted, overlapped, attemptId, unsub>> /\ crossed \subseteq crossed'
      BY <3>1 DEF TakeSeq, pane, ghosts
    <3>2. ASSUME NEW w \in Writers, WriteLine(w) \/ Publish(w)
          PROVE  UNCHANGED <<mounted, overlapped, attemptId, unsub>> /\ crossed \subseteq crossed'
      BY <3>2 DEF WriteLine, Publish, pane
    <3>3. ASSUME NEW a \in Attempts, Delete(a)
          PROVE  UNCHANGED <<mounted, overlapped, attemptId, unsub>> /\ crossed \subseteq crossed'
      BY <3>3 DEF Delete, pane, ghosts
    <3>4. ASSUME NEW c \in Conns, Serve(c) \/ Subscribe(c) \/ Deliver(c) \/ Drop(c)
          PROVE  UNCHANGED <<mounted, overlapped, attemptId, unsub>> /\ crossed \subseteq crossed'
      BY <3>4 DEF Serve, Subscribe, Deliver, Drop, pane, ghosts, server
    <3>5. ASSUME NEW g \in Gets, NEW ok \in BOOLEAN, MoreLoaded(g, ok)
          PROVE  UNCHANGED <<mounted, overlapped, attemptId, unsub>> /\ crossed \subseteq crossed'
      BY <3>5 DEF MoreLoaded, server
    <3>6. CASE Restart \/ LoadMore \/ Tick
      BY <3>6 DEF Restart, LoadMore, Tick, pane, ghosts, server
    <3> QED
      BY <1>3, <3>1, <3>2, <3>3, <3>4, <3>5, <3>6 DEF Next
  <2>2. Watching /\ unsub # NoConn /\ crossed' = {}
    BY <2>1 DEF Watching
  <2>3. TwiceNow
    BY <2>2 DEF TwiceInv
  <2>4. ASSUME NEW w \in Writers, WriteLine(w) \/ Publish(w)
        PROVE  TwiceNow'
    BY <2>2, <2>3, <2>4, WriteLineTwice, PublishTwice
  <2>5. ASSUME NEW c \in Conns, Serve(c) \/ Deliver(c)
        PROVE  TwiceNow'
    BY <2>2, <2>3, <2>5, ServeTwice, DeliverTwice
  <2>6. ASSUME NEW g \in Gets, NEW ok \in BOOLEAN, MoreLoaded(g, ok)
        PROVE  TwiceNow'
    BY <2>2, <2>3, <2>6, MoreLoadedTwice
  <2>7. ASSUME NEW a \in Attempts, Delete(a)
        PROVE  TwiceNow'
    BY <2>2, <2>3, <2>7, DeleteTwice
  <2>8. CASE \/ \E w \in Writers, a \in Attempts : TakeSeq(w, a)
             \/ \E c \in Conns : Subscribe(c) \/ Drop(c)
             \/ Restart \/ LoadMore \/ Tick
    BY <2>2, <2>3, <2>8, AsideTwice
  <2> QED
    BY <1>3, <2>4, <2>5, <2>6, <2>7, <2>8 DEF Next
<1> QED
  BY <1>1, <1>2, <1>3

LEMMA StillTwice ==
  ASSUME BaseInv, TwiceInv, UNCHANGED vars
  PROVE  TwiceInv'
<1>1. /\ UNCHANGED <<attemptId, events, unsub, mounted, conn, file, writer>>
      /\ UNCHANGED <<overlapped, crossed, echoed>>
  BY DEF vars, server, pane, ghosts
<1>2. SUFFICES ASSUME Watching', unsub' # NoConn
               PROVE  TwiceNow'
  BY DEF TwiceInv
<1>3. Watching /\ unsub # NoConn
  BY <1>1, <1>2 DEF Watching
<1>4. TwiceNow
  BY <1>3 DEF TwiceInv
<1>5. PICK a : a = attemptId
  OBVIOUS
<1>6. HeldOf(a)' = HeldOf(a)
  BY <1>1 DEF HeldOf
<1> QED
  BY <1>1, <1>3, <1>4, <1>5, <1>6, TwiceSame

LEMMA TwiceHolds ==
  ASSUME BaseInv, TwiceInv
  PROVE  NothingElseTwice
<1> SUFFICES ASSUME mounted, ~overlapped, NEW i \in DOMAIN events, NEW j \in DOMAIN events,
                    i < j, events[i] = events[j], events[i].seq # 0, crossed = {}
             PROVE  <<attemptId, events[i].seq>> \in echoed
  BY DEF NothingElseTwice
<1>1. OwnStreams /\ OwnShown /\ events \in Seq(Event) /\ PaneType
  BY OwnParts DEF BaseInv, PaneType
<1>2. events # <<>>
  BY <1>1, SeqFacts
<1>3. unsub # NoConn /\ attemptId \in Attempts
  BY <1>1, <1>2 DEF OwnShown, OwnStreams
<1>4. Watching
  BY <1>3 DEF Watching
<1>5. TwiceNow
  BY <1>3, <1>4 DEF TwiceInv
<1> DEFINE S == Shown
           H == Ahead(unsub)
           P == S \o H
           echo == Of(echoed, attemptId)
<1>6. S \in Seq(Nat) /\ H \in Seq(Nat)
  BY <1>3, <1>4, WatchFacts
<1>7. S[i] = events[i].seq /\ S[j] = events[j].seq /\ i \in DOMAIN S /\ j \in DOMAIN S
  BY <1>1, NumbersFacts DEF Shown
<1> HIDE DEF S, H
<1>8. i \in DOMAIN P /\ j \in DOMAIN P /\ P[i] = S[i] /\ P[j] = S[j]
  <2>1. P \in Seq(Nat) /\ Len(P) = Len(S) + Len(H) /\ \A k \in 1 .. Len(S) : P[k] = S[k]
    BY <1>6, CatFacts
  <2>2. /\ Len(S) \in Nat /\ Len(H) \in Nat /\ DOMAIN S = 1 .. Len(S)
        /\ DOMAIN P = 1 .. Len(P)
    BY <1>6, <2>1, SeqFacts
  <2> QED
    BY <1>7, <2>1, <2>2
<1>9. Back(P[i], P[j], file[attemptId], echo)
  BY <1>5, <1>8 DEF TwiceNow, NoneTwice, S, H
<1>10. S[i] \in Nat /\ S[i] = S[j] /\ S[i] # 0
  BY <1>6, <1>7, SeqFacts
<1>11. S[i] \in echo
  BY <1>8, <1>9, <1>10 DEF Back
<1> QED
  BY <1>7, <1>11 DEF Of

-----------------------------------------------------------------------------
(* The cards of a log, and of the last events of it.                       *)

CardSet == [kind : {"note", "assistant", "tool"}, text : Seq(Event),
            status : {"", "in_progress", "completed"}, output : BOOLEAN]

Accs == [out : Seq(CardSet), buf : Seq(Event), tools : [Tools -> Nat]]

(* The index of a tool call is that of a card.                             *)
AccOK(acc) == acc \in Accs /\ \A t \in Tools : acc.tools[t] <= Len(acc.out)

(* What becomes of the card of a tool call.                                *)
Marked(card, what) ==
    IF what = "status" THEN [card EXCEPT !.status = "completed"]
    ELSE [card EXCEPT !.output = TRUE]

MarkIn(out, index, what) ==
    IF index = 0 THEN out ELSE [out EXCEPT ![index] = Marked(out[index], what)]

ToolCard(e) == [Card("tool", <<e>>) EXCEPT !.status = "in_progress"]

LEMMA CardTypes ==
  ASSUME NEW e \in Event
  PROVE  /\ Card("note", <<e>>) \in CardSet /\ ToolCard(e) \in CardSet
         /\ \A buf \in Seq(Event) : Card("assistant", buf) \in CardSet
         /\ \A card \in CardSet : \A what : Marked(card, what) \in CardSet
<1>1. <<e>> \in Seq(Event)
  OBVIOUS
<1>2. \A s \in Seq(Event) : /\ Card("note", s) \in CardSet /\ Card("assistant", s) \in CardSet
                            /\ [Card("tool", s) EXCEPT !.status = "in_progress"] \in CardSet
  BY DEF Card, CardSet
<1>3. \A card \in CardSet : \A what : Marked(card, what) \in CardSet
  BY DEF Marked, CardSet
<1> QED
  BY <1>1, <1>2, <1>3 DEF ToolCard

LEMMA MarkFacts ==
  ASSUME NEW out \in Seq(CardSet), NEW index \in 0 .. Len(out), NEW what
  PROVE  /\ MarkIn(out, index, what) \in Seq(CardSet)
         /\ Len(MarkIn(out, index, what)) = Len(out)
         /\ \A j \in 1 .. Len(out) :
               MarkIn(out, index, what)[j] = IF j = index THEN Marked(out[j], what) ELSE out[j]
<1>1. Len(out) \in Nat /\ \A j \in 1 .. Len(out) : out[j] \in CardSet
  BY SeqFacts
<1>2. CASE index = 0
  BY <1>1, <1>2 DEF MarkIn
<1>3. CASE index # 0
  <2>1. index \in 1 .. Len(out)
    BY <1>1, <1>3
  <2>2. Marked(out[index], what) \in CardSet
    BY <1>1, <2>1 DEF Marked, CardSet
  <2> DEFINE x == Marked(out[index], what)
  <2>3. x = Marked(out[index], what) /\ MarkIn(out, index, what) = [out EXCEPT ![index] = x]
    BY <1>3 DEF MarkIn
  <2> HIDE DEF x
  <2>4. /\ [out EXCEPT ![index] = x] \in Seq(CardSet)
        /\ Len([out EXCEPT ![index] = x]) = Len(out)
        /\ \A j \in 1 .. Len(out) : [out EXCEPT ![index] = x][j] = IF j = index THEN x ELSE out[j]
    BY <2>1, <2>2, <2>3, ExceptSeq
  <2> QED
    BY <2>3, <2>4
<1> QED
  BY <1>2, <1>3

LEMMA FlushParts ==
  ASSUME NEW acc \in Accs
  PROVE  /\ Flush(acc) \in Accs /\ Flush(acc).buf = <<>> /\ Flush(acc).tools = acc.tools
         /\ Flush(acc).out = IF acc.buf = <<>> THEN acc.out
                             ELSE Append(acc.out, Card("assistant", acc.buf))
<1>1. acc.out \in Seq(CardSet) /\ acc.buf \in Seq(Event)
  BY DEF Accs
<1> DEFINE x == Card("assistant", acc.buf)
<1>2. x \in CardSet
  BY <1>1 DEF Card, CardSet
<1>3. Flush(acc) = [acc EXCEPT !.out = IF acc.buf = <<>> THEN acc.out ELSE Append(acc.out, x),
                               !.buf = <<>>]
  BY DEF Flush
<1> HIDE DEF x
<1>4. Append(acc.out, x) \in Seq(CardSet) /\ <<>> \in Seq(Event)
  BY <1>1, <1>2, AppendFacts
<1> QED
  BY <1>3, <1>4 DEF Accs, x

(* What an event does to the cards, the open bubble and the tool calls.    *)
Effect(acc, fl, r, c, e) ==
    /\ c.kind = "note" => /\ r \in Accs /\ r.out = Append(fl.out, Card("note", <<e>>))
                          /\ r.buf = <<>> /\ r.tools = acc.tools
    /\ c.kind = "delta" => /\ r \in Accs /\ r.out = acc.out
                           /\ r.buf = Append(acc.buf, e) /\ r.tools = acc.tools
    /\ c.kind = "done" => r = fl
    /\ c.kind = "call" =>
          /\ r \in Accs /\ r.out = Append(fl.out, ToolCard(e)) /\ r.buf = <<>>
          /\ r.tools = [acc.tools EXCEPT ![c.tool] = Len(fl.out) + 1]
    /\ c.kind = "called" =>
          /\ r \in Accs /\ r.out = MarkIn(acc.out, acc.tools[c.tool], "status")
          /\ r.buf = acc.buf /\ r.tools = acc.tools
    /\ c.kind = "output" =>
          /\ r \in Accs /\ r.out = MarkIn(acc.out, acc.tools[c.tool], "output")
          /\ r.buf = acc.buf /\ r.tools = acc.tools
    /\ c.kind = "other" => r = acc

LEMMA AbsorbParts ==
  ASSUME NEW acc \in Accs, \A t \in Tools : acc.tools[t] <= Len(acc.out),
         NEW e \in Event, NEW c \in Contents, Content(e) = c,
         NEW fl, fl = Flush(acc), NEW r, r = Absorb(acc, e)
  PROVE  Effect(acc, fl, r, c, e)
<1>1. c.tool \in Tools /\ c.kind \in Kinds
  BY DEF Contents
<1>2. /\ acc.out \in Seq(CardSet) /\ acc.buf \in Seq(Event) /\ acc.tools \in [Tools -> Nat]
      /\ fl \in Accs /\ fl.buf = <<>> /\ fl.tools = acc.tools
      /\ fl.out \in Seq(CardSet)
  BY FlushParts DEF Accs
<1>3. PICK index : index = acc.tools[c.tool]
  OBVIOUS
<1>4. index \in Nat /\ index \in 0 .. Len(acc.out)
  <2>1. Len(acc.out) \in Nat /\ acc.tools[c.tool] \in Nat /\ acc.tools[c.tool] <= Len(acc.out)
    BY <1>1, <1>2, SeqFacts
  <2> QED
    BY <1>3, <2>1
<1>5. ASSUME c.kind = "note"
      PROVE  /\ r \in Accs /\ r.out = Append(fl.out, Card("note", <<e>>))
             /\ r.buf = <<>> /\ r.tools = acc.tools
  <2> DEFINE x == Card("note", <<e>>)
  <2>1. r = [fl EXCEPT !.out = Append(fl.out, x)]
    BY <1>5 DEF Absorb
  <2>2. x \in CardSet
    BY CardTypes
  <2> HIDE DEF x
  <2>3. Append(fl.out, x) \in Seq(CardSet)
    BY <1>2, <2>2, AppendFacts
  <2> QED
    BY <1>2, <2>1, <2>3 DEF Accs, x
<1>6. ASSUME c.kind = "delta"
      PROVE  /\ r \in Accs /\ r.out = acc.out
             /\ r.buf = Append(acc.buf, e) /\ r.tools = acc.tools
  <2>1. r = [acc EXCEPT !.buf = Append(acc.buf, e)]
    BY <1>6 DEF Absorb
  <2>2. Append(acc.buf, e) \in Seq(Event)
    BY <1>2, AppendFacts
  <2> QED
    BY <1>2, <2>1, <2>2 DEF Accs
<1>7. c.kind = "done" => r = fl
  BY DEF Absorb
<1>8. ASSUME c.kind = "call"
      PROVE  /\ r \in Accs /\ r.out = Append(fl.out, ToolCard(e)) /\ r.buf = <<>>
             /\ r.tools = [acc.tools EXCEPT ![c.tool] = Len(fl.out) + 1]
  <2> DEFINE x == ToolCard(e)
             n == Len(fl.out) + 1
             marks == [acc.tools EXCEPT ![c.tool] = n]
  <2>1. r = [fl EXCEPT !.out = Append(fl.out, x), !.tools = marks]
    BY <1>2, <1>8 DEF Absorb, ToolCard
  <2>2. x \in CardSet
    BY CardTypes
  <2>3. n \in Nat
    BY <1>2, SeqFacts
  <2> HIDE DEF x, n
  <2>4. Append(fl.out, x) \in Seq(CardSet) /\ marks \in [Tools -> Nat]
    BY <1>2, <2>2, <2>3, AppendFacts
  <2> HIDE DEF marks
  <2>5. r \in Accs /\ r.out = Append(fl.out, x) /\ r.buf = <<>> /\ r.tools = marks
    BY <1>2, <2>1, <2>4 DEF Accs
  <2> QED
    BY <2>5 DEF x, n, marks
<1>9. ASSUME c.kind = "called"
      PROVE  /\ r \in Accs /\ r.out = MarkIn(acc.out, index, "status")
             /\ r.buf = acc.buf /\ r.tools = acc.tools
  <2>1. CASE index > 0
    <3>1. r = [acc EXCEPT !.out = MarkIn(acc.out, index, "status")]
      BY <1>3, <1>4, <1>9, <2>1 DEF Absorb, MarkIn, Marked
    <3>2. MarkIn(acc.out, index, "status") \in Seq(CardSet)
      BY <1>2, <1>4, MarkFacts
    <3> QED
      BY <1>2, <3>1, <3>2 DEF Accs
  <2>2. CASE index = 0
    <3>1. r = acc
      BY <1>3, <1>9, <2>2 DEF Absorb
    <3> QED
      BY <2>2, <3>1 DEF MarkIn
  <2> QED
    BY <1>4, <2>1, <2>2
<1>10. ASSUME c.kind = "output"
       PROVE  /\ r \in Accs /\ r.out = MarkIn(acc.out, index, "output")
              /\ r.buf = acc.buf /\ r.tools = acc.tools
  <2>1. CASE index > 0
    <3>1. r = [acc EXCEPT !.out = MarkIn(acc.out, index, "output")]
      BY <1>3, <1>4, <1>10, <2>1 DEF Absorb, MarkIn, Marked
    <3>2. MarkIn(acc.out, index, "output") \in Seq(CardSet)
      BY <1>2, <1>4, MarkFacts
    <3> QED
      BY <1>2, <3>1, <3>2 DEF Accs
  <2>2. CASE index = 0
    <3>1. r = acc
      BY <1>3, <1>10, <2>2 DEF Absorb
    <3> QED
      BY <2>2, <3>1 DEF MarkIn
  <2> QED
    BY <1>4, <2>1, <2>2
<1>11. c.kind = "other" => r = acc
  BY DEF Absorb
<1> QED
  BY <1>3, <1>5, <1>6, <1>7, <1>8, <1>9, <1>10, <1>11 DEF Effect

(* The cards B of the last events, against the cards A of all of them: k   *)
(* cards come before, and the first of B may lack the start of its bubble. *)
Alike(k, A, B) ==
    /\ k \in Nat /\ Len(A.out) = k + Len(B.out)
    /\ \A j \in 2 .. Len(B.out) : A.out[k + j] = B.out[j]
    /\ \A t \in Tools : IF B.tools[t] = 0 THEN A.tools[t] <= k
                        ELSE A.tools[t] = k + B.tools[t]
    /\ B.out # <<>> => A.buf = B.buf
    /\ A.buf = <<>> => B.buf = <<>>

LEMMA AccFacts ==
  ASSUME NEW A, AccOK(A)
  PROVE  /\ A \in Accs /\ A.out \in Seq(CardSet) /\ A.buf \in Seq(Event)
         /\ A.tools \in [Tools -> Nat] /\ Len(A.out) \in Nat
         /\ \A t \in Tools : A.tools[t] \in Nat /\ A.tools[t] <= Len(A.out)
         /\ (A.out = <<>> <=> Len(A.out) = 0)
<1>1. A \in Accs /\ \A t \in Tools : A.tools[t] <= Len(A.out)
  BY DEF AccOK
<1>2. A.out \in Seq(CardSet) /\ A.buf \in Seq(Event) /\ A.tools \in [Tools -> Nat]
  BY <1>1 DEF Accs
<1>3. Len(A.out) \in Nat /\ (A.out = <<>> <=> Len(A.out) = 0)
  BY <1>2, SeqFacts
<1> QED
  BY <1>1, <1>2, <1>3

(* No tool call, or the same one, has its card at the end of each.         *)
SameCall(A, B, A2, B2) ==
    \/ A2.tools = A.tools /\ B2.tools = B.tools
    \/ \E t \in Tools : /\ A2.tools = [A.tools EXCEPT ![t] = Len(A.out) + 1]
                        /\ B2.tools = [B.tools EXCEPT ![t] = Len(B.out) + 1]

(* Both get a card, the same one unless it is the first of B.              *)
LEMMA AlikeAppend ==
  ASSUME NEW k, NEW A, NEW B, AccOK(A), AccOK(B), Alike(k, A, B),
         NEW A2 \in Accs, NEW B2 \in Accs, NEW x \in CardSet, NEW y \in CardSet,
         A2.out = Append(A.out, x), B2.out = Append(B.out, y), B.out # <<>> => x = y,
         A2.buf = <<>>, B2.buf = <<>>, SameCall(A, B, A2, B2)
  PROVE  AccOK(A2) /\ AccOK(B2) /\ Alike(k, A2, B2)
<1> DEFINE m == Len(A.out)
           n == Len(B.out)
<1>1. /\ A.out \in Seq(CardSet) /\ A.tools \in [Tools -> Nat] /\ m \in Nat
      /\ B.out \in Seq(CardSet) /\ B.tools \in [Tools -> Nat] /\ n \in Nat
      /\ \A t \in Tools : A.tools[t] \in Nat /\ A.tools[t] <= m
      /\ \A t \in Tools : B.tools[t] \in Nat /\ B.tools[t] <= n
      /\ (B.out = <<>> <=> n = 0)
  BY AccFacts
<1>2. /\ k \in Nat /\ m = k + n /\ \A j \in 2 .. n : A.out[k + j] = B.out[j]
      /\ \A t \in Tools : IF B.tools[t] = 0 THEN A.tools[t] <= k ELSE A.tools[t] = k + B.tools[t]
  BY DEF Alike
<1>3. /\ Len(A2.out) = m + 1 /\ \A j \in 1 .. m : A2.out[j] = A.out[j]
      /\ A2.out[m + 1] = x
  BY <1>1, AppendFacts
<1>4. /\ Len(B2.out) = n + 1 /\ \A j \in 1 .. n : B2.out[j] = B.out[j]
      /\ B2.out[n + 1] = y
  BY <1>1, AppendFacts
<1> HIDE DEF m, n
<1>5. \A t \in Tools :
          /\ A2.tools[t] \in Nat /\ A2.tools[t] <= m + 1
          /\ B2.tools[t] \in Nat /\ B2.tools[t] <= n + 1
          /\ IF B2.tools[t] = 0 THEN A2.tools[t] <= k ELSE A2.tools[t] = k + B2.tools[t]
  <2>1. CASE A2.tools = A.tools /\ B2.tools = B.tools
    BY <1>1, <1>2, <2>1
  <2>2. ASSUME NEW s \in Tools, A2.tools = [A.tools EXCEPT ![s] = m + 1],
               B2.tools = [B.tools EXCEPT ![s] = n + 1], NEW t \in Tools
        PROVE  /\ A2.tools[t] \in Nat /\ A2.tools[t] <= m + 1
               /\ B2.tools[t] \in Nat /\ B2.tools[t] <= n + 1
               /\ IF B2.tools[t] = 0 THEN A2.tools[t] <= k ELSE A2.tools[t] = k + B2.tools[t]
    <3>1. /\ A2.tools[t] = IF t = s THEN m + 1 ELSE A.tools[t]
          /\ B2.tools[t] = IF t = s THEN n + 1 ELSE B.tools[t]
      BY <1>1, <2>2
    <3>2. m \in Nat /\ n \in Nat /\ k \in Nat /\ m = k + n
      BY <1>1, <1>2
    <3>3. CASE t = s
      BY <3>1, <3>2, <3>3
    <3>4. CASE t # s
      <4>1. A2.tools[t] = A.tools[t] /\ B2.tools[t] = B.tools[t]
        BY <3>1, <3>4
      <4>2. /\ A.tools[t] \in Nat /\ A.tools[t] <= m /\ B.tools[t] \in Nat /\ B.tools[t] <= n
            /\ IF B.tools[t] = 0 THEN A.tools[t] <= k ELSE A.tools[t] = k + B.tools[t]
        BY <1>1, <1>2
      <4> QED
        BY <3>2, <4>1, <4>2
    <3> QED
      BY <3>3, <3>4
  <2> QED
    BY <2>1, <2>2 DEF m, n, SameCall
<1>6. \A j \in 2 .. n + 1 : A2.out[k + j] = B2.out[j]
  <2> SUFFICES ASSUME NEW j \in 2 .. n + 1 PROVE A2.out[k + j] = B2.out[j]
    OBVIOUS
  <2>1. CASE j = n + 1
    <3>1. n # 0 /\ k + j = m + 1
      BY <1>1, <1>2, <2>1
    <3> QED
      BY <1>1, <1>3, <1>4, <2>1, <3>1
  <2>2. CASE j # n + 1
    <3>1. j \in 2 .. n /\ j \in 1 .. n /\ k + j \in 1 .. m
      BY <1>1, <1>2, <2>2
    <3> QED
      BY <1>2, <1>3, <1>4, <3>1
  <2> QED
    BY <2>1, <2>2
<1>7. Len(A2.out) = k + Len(B2.out)
  BY <1>1, <1>2, <1>3, <1>4
<1>8. Alike(k, A2, B2)
  BY <1>2, <1>4, <1>5, <1>6, <1>7 DEF Alike
<1>9. AccOK(A2) /\ AccOK(B2)
  BY <1>3, <1>4, <1>5 DEF AccOK
<1> QED
  BY <1>8, <1>9

(* An open bubble of A that B has not seen becomes a card of A alone.      *)
LEMMA AlikeFlush ==
  ASSUME NEW k, NEW A, NEW B, AccOK(A), AccOK(B), Alike(k, A, B)
  PROVE  /\ AccOK(Flush(A)) /\ AccOK(Flush(B))
         /\ \E k2 : Alike(k2, Flush(A), Flush(B))
<1> DEFINE A2 == Flush(A)
           B2 == Flush(B)
           x == Card("assistant", A.buf)
           y == Card("assistant", B.buf)
<1>1. /\ A \in Accs /\ A2 \in Accs /\ A2.buf = <<>> /\ A2.tools = A.tools
      /\ A2.out = IF A.buf = <<>> THEN A.out ELSE Append(A.out, x)
      /\ B \in Accs /\ B2 \in Accs /\ B2.buf = <<>> /\ B2.tools = B.tools
      /\ B2.out = IF B.buf = <<>> THEN B.out ELSE Append(B.out, y)
  BY AccFacts, FlushParts
<1>2. x \in CardSet /\ y \in CardSet
  BY <1>1, AccFacts DEF Card, CardSet
<1>3. B.out # <<>> => x = y
  BY DEF Alike
<1>4. /\ Len(A.out) \in Nat /\ Len(B.out) \in Nat /\ A.out \in Seq(CardSet)
      /\ \A t \in Tools : A.tools[t] \in Nat /\ A.tools[t] <= Len(A.out)
      /\ \A t \in Tools : B.tools[t] \in Nat /\ B.tools[t] <= Len(B.out)
      /\ (B.out = <<>> <=> Len(B.out) = 0)
  BY AccFacts
<1> HIDE DEF A2, B2, x, y
<1>5. CASE A.buf # <<>> /\ B.buf # <<>>
  <2>1. SameCall(A, B, A2, B2)
    BY <1>1 DEF SameCall
  <2> QED
    BY <1>1, <1>2, <1>3, <1>5, <2>1, AlikeAppend DEF A2, B2
<1>6. CASE A.buf # <<>> /\ B.buf = <<>>
  <2>1. B.out = <<>> /\ k \in Nat /\ Len(A.out) = k
    BY <1>4, <1>6 DEF Alike
  <2>2. A2.out = Append(A.out, x) /\ B2.out = B.out
    BY <1>1, <1>6
  <2>3. Len(A2.out) = k + 1
    BY <1>2, <1>4, <2>1, <2>2, AppendFacts
  <2>4. \A t \in Tools : A.tools[t] <= k + 1 /\ B.tools[t] = 0
    BY <1>4, <2>1
  <2>5. AccOK(A2) /\ AccOK(B2)
    BY <1>1, <1>4, <2>2, <2>3, <2>4 DEF AccOK
  <2>6. Alike(k + 1, A2, B2)
    <3>1. k + 1 \in Nat /\ Len(B2.out) = 0 /\ Len(A2.out) = k + 1 + Len(B2.out) /\ B2.out = <<>>
      BY <1>4, <2>1, <2>2, <2>3
    <3>2. \A j \in 2 .. Len(B2.out) : FALSE
      BY <3>1
    <3>3. \A t \in Tools : B2.tools[t] = 0 /\ A2.tools[t] <= k + 1
      BY <1>1, <2>4
    <3> QED
      BY <1>1, <3>1, <3>2, <3>3 DEF Alike
  <2> QED
    BY <2>5, <2>6 DEF A2, B2
<1>7. CASE A.buf = <<>>
  <2>1. B.buf = <<>>
    BY <1>7 DEF Alike
  <2>2. A2.out = A.out /\ B2.out = B.out
    BY <1>1, <1>7, <2>1
  <2>3. Alike(k, A2, B2)
    BY <1>1, <2>2 DEF Alike
  <2>4. AccOK(A2) /\ AccOK(B2)
    BY <1>1, <2>2 DEF AccOK
  <2> QED
    BY <2>3, <2>4 DEF A2, B2
<1> QED
  BY <1>5, <1>6, <1>7

(* A mark goes to the same card of both, or to one that B does not have.   *)
LEMMA AlikeMark ==
  ASSUME NEW k, NEW A, NEW B, AccOK(A), AccOK(B), Alike(k, A, B),
         NEW A2 \in Accs, NEW B2 \in Accs, NEW t \in Tools, NEW what,
         A2.out = MarkIn(A.out, A.tools[t], what), A2.buf = A.buf, A2.tools = A.tools,
         B2.out = MarkIn(B.out, B.tools[t], what), B2.buf = B.buf, B2.tools = B.tools
  PROVE  AccOK(A2) /\ AccOK(B2) /\ Alike(k, A2, B2)
<1> DEFINE m == Len(A.out)
           n == Len(B.out)
           p == A.tools[t]
           q == B.tools[t]
<1>1. /\ A.out \in Seq(CardSet) /\ m \in Nat /\ B.out \in Seq(CardSet) /\ n \in Nat
      /\ \A s \in Tools : A.tools[s] \in Nat /\ A.tools[s] <= m
      /\ \A s \in Tools : B.tools[s] \in Nat /\ B.tools[s] <= n
      /\ (B.out = <<>> <=> n = 0)
  BY AccFacts
<1>2. /\ k \in Nat /\ m = k + n /\ \A j \in 2 .. n : A.out[k + j] = B.out[j]
      /\ IF q = 0 THEN p <= k ELSE p = k + q
  BY DEF Alike
<1>3. p \in 0 .. m /\ q \in 0 .. n
  BY <1>1
<1> HIDE DEF p, q
<1>4. /\ Len(A2.out) = m
      /\ \A j \in 1 .. m : A2.out[j] = IF j = p THEN Marked(A.out[j], what) ELSE A.out[j]
  BY <1>1, <1>3, MarkFacts DEF p
<1>5. /\ Len(B2.out) = n /\ B2.out \in Seq(CardSet)
      /\ \A j \in 1 .. n : B2.out[j] = IF j = q THEN Marked(B.out[j], what) ELSE B.out[j]
  BY <1>1, <1>3, MarkFacts DEF q
<1>6. B2.out = <<>> <=> B.out = <<>>
  BY <1>1, <1>5, SeqFacts
<1> HIDE DEF m, n
<1>7. \A j \in 2 .. n : A2.out[k + j] = B2.out[j]
  <2> SUFFICES ASSUME NEW j \in 2 .. n PROVE A2.out[k + j] = B2.out[j]
    OBVIOUS
  <2>1. j \in 1 .. n /\ k + j \in 1 .. m /\ (k + j = p <=> j = q)
    BY <1>1, <1>2, <1>3
  <2> QED
    BY <1>2, <1>4, <1>5, <2>1
<1>8. Alike(k, A2, B2)
  <2>1. Len(A2.out) = k + Len(B2.out) /\ k \in Nat
    BY <1>2, <1>4, <1>5
  <2>2. \A j \in 2 .. Len(B2.out) : A2.out[k + j] = B2.out[j]
    BY <1>5, <1>7
  <2> QED
    BY <1>6, <2>1, <2>2 DEF Alike
<1>9. AccOK(A2) /\ AccOK(B2)
  BY <1>1, <1>4, <1>5 DEF AccOK, m, n
<1> QED
  BY <1>8, <1>9

LEMMA AlikeAbsorb ==
  ASSUME NEW k, NEW A, NEW B, AccOK(A), AccOK(B), Alike(k, A, B),
         NEW e \in Event, Content(e) \in Contents
  PROVE  /\ AccOK(Absorb(A, e)) /\ AccOK(Absorb(B, e))
         /\ \E k2 : Alike(k2, Absorb(A, e), Absorb(B, e))
<1>1. PICK c \in Contents : Content(e) = c
  OBVIOUS
<1>2. PICK FA : FA = Flush(A)
  OBVIOUS
<1>3. PICK FB : FB = Flush(B)
  OBVIOUS
<1>4. PICK A2 : A2 = Absorb(A, e)
  OBVIOUS
<1>5. PICK B2 : B2 = Absorb(B, e)
  OBVIOUS
<1>6. c.tool \in Tools /\ c.kind \in Kinds
  BY DEF Contents
<1>7. /\ A \in Accs /\ \A t \in Tools : A.tools[t] <= Len(A.out)
      /\ B \in Accs /\ \A t \in Tools : B.tools[t] <= Len(B.out)
  BY AccFacts
<1>8. /\ AccOK(FA) /\ AccOK(FB) /\ FA.buf = <<>> /\ FB.buf = <<>>
      /\ FA.tools = A.tools /\ FB.tools = B.tools
  BY <1>2, <1>3, <1>7, AlikeFlush, FlushParts
<1>9. PICK h : Alike(h, FA, FB)
  BY <1>2, <1>3, AlikeFlush
<1>10. Effect(A, FA, A2, c, e)
  BY <1>1, <1>2, <1>4, <1>7, AbsorbParts
<1>11. Effect(B, FB, B2, c, e)
  BY <1>1, <1>3, <1>5, <1>7, AbsorbParts
<1>12. CASE c.kind = "note"
  <2>1. /\ A2 \in Accs /\ A2.out = Append(FA.out, Card("note", <<e>>))
        /\ A2.buf = <<>> /\ A2.tools = A.tools
    BY <1>10, <1>12 DEF Effect
  <2>2. /\ B2 \in Accs /\ B2.out = Append(FB.out, Card("note", <<e>>))
        /\ B2.buf = <<>> /\ B2.tools = B.tools
    BY <1>11, <1>12 DEF Effect
  <2>3. PICK x \in CardSet : x = Card("note", <<e>>)
    BY CardTypes
  <2>4. SameCall(FA, FB, A2, B2)
    BY <1>8, <2>1, <2>2 DEF SameCall
  <2>5. AccOK(A2) /\ AccOK(B2) /\ Alike(h, A2, B2)
    BY <1>8, <1>9, <2>1, <2>2, <2>3, <2>4, AlikeAppend
  <2> QED
    BY <1>4, <1>5, <2>5
<1>13. CASE c.kind = "delta"
  <2>1. /\ A2 \in Accs /\ A2.out = A.out /\ A2.buf = Append(A.buf, e) /\ A2.tools = A.tools
    BY <1>10, <1>13 DEF Effect
  <2>2. /\ B2 \in Accs /\ B2.out = B.out /\ B2.buf = Append(B.buf, e) /\ B2.tools = B.tools
    BY <1>11, <1>13 DEF Effect
  <2>3. Append(A.buf, e) # <<>>
    <3>1. A.buf \in Seq(Event)
      BY AccFacts
    <3> QED
      BY <3>1, AppendFacts
  <2>4. AccOK(A2) /\ AccOK(B2)
    BY <1>7, <2>1, <2>2 DEF AccOK
  <2>5. Alike(k, A2, B2)
    BY <2>1, <2>2, <2>3 DEF Alike
  <2> QED
    BY <1>4, <1>5, <2>4, <2>5
<1>14. CASE c.kind = "done"
  <2>1. A2 = FA /\ B2 = FB
    BY <1>10, <1>11, <1>14 DEF Effect
  <2> QED
    BY <1>4, <1>5, <1>8, <1>9, <2>1
<1>15. CASE c.kind = "call"
  <2>1. /\ A2 \in Accs /\ A2.out = Append(FA.out, ToolCard(e)) /\ A2.buf = <<>>
        /\ A2.tools = [FA.tools EXCEPT ![c.tool] = Len(FA.out) + 1]
    BY <1>8, <1>10, <1>15 DEF Effect
  <2>2. /\ B2 \in Accs /\ B2.out = Append(FB.out, ToolCard(e)) /\ B2.buf = <<>>
        /\ B2.tools = [FB.tools EXCEPT ![c.tool] = Len(FB.out) + 1]
    BY <1>8, <1>11, <1>15 DEF Effect
  <2>3. PICK x \in CardSet : x = ToolCard(e)
    BY CardTypes
  <2>4. SameCall(FA, FB, A2, B2)
    BY <1>6, <2>1, <2>2 DEF SameCall
  <2>5. AccOK(A2) /\ AccOK(B2) /\ Alike(h, A2, B2)
    BY <1>8, <1>9, <2>1, <2>2, <2>3, <2>4, AlikeAppend
  <2> QED
    BY <1>4, <1>5, <2>5
<1>16. ASSUME NEW what, \/ c.kind = "called" /\ what = "status"
                        \/ c.kind = "output" /\ what = "output"
       PROVE  AccOK(A2) /\ AccOK(B2) /\ Alike(k, A2, B2)
  <2>1. /\ A2 \in Accs /\ A2.out = MarkIn(A.out, A.tools[c.tool], what)
        /\ A2.buf = A.buf /\ A2.tools = A.tools
    BY <1>10, <1>16 DEF Effect
  <2>2. /\ B2 \in Accs /\ B2.out = MarkIn(B.out, B.tools[c.tool], what)
        /\ B2.buf = B.buf /\ B2.tools = B.tools
    BY <1>11, <1>16 DEF Effect
  <2> QED
    BY <1>6, <2>1, <2>2, AlikeMark
<1>17. CASE c.kind = "other"
  <2>1. A2 = A /\ B2 = B
    BY <1>10, <1>11, <1>17 DEF Effect
  <2> QED
    BY <1>4, <1>5, <2>1
<1>18. CASE c.kind \in {"called", "output"}
  <2> DEFINE Done == AccOK(A2) /\ AccOK(B2) /\ Alike(k, A2, B2)
  <2>1. c.kind = "called" => Done
    <3>1. PICK what : what = "status"
      OBVIOUS
    <3> QED
      BY <1>16, <3>1
  <2>2. c.kind = "output" => Done
    <3>1. PICK what : what = "output"
      OBVIOUS
    <3> QED
      BY <1>16, <3>1
  <2> QED
    BY <1>4, <1>5, <1>18, <2>1, <2>2
<1> QED
  BY <1>6, <1>12, <1>13, <1>14, <1>15, <1>17, <1>18 DEF Kinds

LEMMA AlikeBlank ==
  ASSUME NEW A, AccOK(A)
  PROVE  AccOK(Blank) /\ Alike(Len(A.out), A, Blank)
<1>1. Blank.out = <<>> /\ Blank.buf = <<>> /\ Blank.tools = [t \in Tools |-> 0]
  BY DEF Blank
<1>2. /\ <<>> \in Seq(CardSet) /\ <<>> \in Seq(Event) /\ [t \in Tools |-> 0] \in [Tools -> Nat]
      /\ Len(<<>>) = 0
  OBVIOUS
<1>3. Blank \in Accs
  BY <1>2 DEF Blank, Accs
<1>4. Len(A.out) \in Nat /\ \A t \in Tools : A.tools[t] <= Len(A.out)
  BY AccFacts
<1>5. \A t \in Tools : Blank.tools[t] = 0
  BY <1>1
<1>6. AccOK(Blank)
  BY <1>1, <1>2, <1>3, <1>5 DEF AccOK
<1>7. Len(A.out) = Len(A.out) + Len(Blank.out) /\ \A j \in 2 .. Len(Blank.out) : FALSE
  BY <1>1, <1>2, <1>4
<1> QED
  BY <1>1, <1>4, <1>5, <1>6, <1>7 DEF Alike

(* The walk over all the events, and the walk over the last of them.       *)
LEMMA AlikeWalk ==
  ASSUME NEW W \in Seq(Event), NEW E \in Seq(Event), NEW d \in Nat,
         Len(W) = d + Len(E), \A j \in 1 .. Len(E) : E[j] = W[d + j],
         \A i \in 1 .. Len(W) : Content(W[i]) \in Contents
  PROVE  /\ AccOK(Walk(W)) /\ AccOK(Walk(E))
         /\ \E k : Alike(k, Walk(W), Walk(E))
<1> DEFINE n == Len(W)
           m == Len(E)
<1>1. n \in Nat /\ m \in Nat /\ \A i \in 1 .. n : W[i] \in Event
  BY SeqFacts
<1>2. PICK f : /\ f[0] = Blank /\ Walk(W) = f[n]
               /\ \A i \in 1 .. n : f[i] = Absorb(f[i - 1], W[i])
  BY <1>1, WalkFacts
<1>3. PICK g : /\ g[0] = Blank /\ Walk(E) = g[m]
               /\ \A i \in 1 .. m : g[i] = Absorb(g[i - 1], E[i])
  BY <1>1, WalkFacts
<1>4. n = d + m /\ \A j \in 1 .. m : E[j] = W[d + j]
  OBVIOUS
<1>5. \A i \in 1 .. n : Content(W[i]) \in Contents
  OBVIOUS
<1> HIDE DEF n, m
<1>6. AccOK(Blank)
  <2>1. Blank \in Accs /\ \A t \in Tools : Blank.tools[t] <= Len(Blank.out)
    <3>1. <<>> \in Seq(CardSet) /\ <<>> \in Seq(Event) /\ [t \in Tools |-> 0] \in [Tools -> Nat]
      OBVIOUS
    <3> QED
      BY <3>1 DEF Blank, Accs
  <2> QED
    BY <2>1 DEF AccOK
<1>7. \A i \in 0 .. n : AccOK(f[i])
  <2> DEFINE T == {i \in 0 .. n : ~AccOK(f[i])}
  <2> SUFFICES ASSUME T # {} PROVE FALSE
    OBVIOUS
  <2>1. T \subseteq Nat
    BY <1>1
  <2>2. PICK i \in T : \A j \in T : i <= j
    BY <2>1, LeastNumber
  <2>3. i # 0
    BY <1>2, <1>6
  <2>4. i \in 1 .. n /\ i - 1 \in 0 .. n /\ i - 1 \notin T
    BY <1>1, <2>2, <2>3
  <2>5. AccOK(f[i - 1])
    BY <2>4
  <2>6. AccOK(Absorb(f[i - 1], W[i]))
    <3>1. PICK A : A = f[i - 1]
      OBVIOUS
    <3>2. AccOK(A) /\ Alike(Len(A.out), A, Blank)
      BY <2>5, <3>1, AlikeBlank
    <3> QED
      BY <1>1, <1>5, <1>6, <2>4, <3>1, <3>2, AlikeAbsorb
  <2>7. AccOK(f[i])
    BY <1>2, <2>4, <2>6
  <2> QED
    BY <2>2, <2>7
<1>8. \A i \in 0 .. m : AccOK(g[i]) /\ \E k : Alike(k, f[d + i], g[i])
  <2> DEFINE T == {i \in 0 .. m : ~(AccOK(g[i]) /\ \E k : Alike(k, f[d + i], g[i]))}
  <2> SUFFICES ASSUME T # {} PROVE FALSE
    OBVIOUS
  <2>1. T \subseteq Nat
    BY <1>1
  <2>2. PICK i \in T : \A j \in T : i <= j
    BY <2>1, LeastNumber
  <2>3. ASSUME i = 0
        PROVE  FALSE
    <3>1. d \in 0 .. n /\ d + 0 = d
      BY <1>1, <1>4
    <3>2. AccOK(f[d])
      BY <1>7, <3>1
    <3>3. Alike(Len(f[d].out), f[d], Blank)
      BY <3>2, AlikeBlank
    <3> QED
      BY <1>3, <1>6, <2>2, <2>3, <3>1, <3>3
  <2>4. /\ i \in 1 .. m /\ i - 1 \in 0 .. m /\ i - 1 \notin T
        /\ d + i \in 1 .. n /\ d + (i - 1) \in 0 .. n /\ (d + i) - 1 = d + (i - 1)
    BY <1>1, <1>4, <2>2, <2>3
  <2>5. AccOK(g[i - 1]) /\ \E k : Alike(k, f[d + (i - 1)], g[i - 1])
    BY <2>4
  <2>6. PICK k : Alike(k, f[d + (i - 1)], g[i - 1])
    BY <2>5
  <2>7. PICK A : A = f[d + (i - 1)]
    OBVIOUS
  <2>8. PICK B : B = g[i - 1]
    OBVIOUS
  <2>9. PICK e : e = W[d + i]
    OBVIOUS
  <2>10. AccOK(A) /\ AccOK(B) /\ Alike(k, A, B) /\ e \in Event /\ Content(e) \in Contents
    BY <1>1, <1>5, <1>7, <2>4, <2>5, <2>6, <2>7, <2>8, <2>9
  <2>11. AccOK(Absorb(B, e)) /\ \E k2 : Alike(k2, Absorb(A, e), Absorb(B, e))
    BY <2>10, AlikeAbsorb
  <2>12. f[d + i] = Absorb(A, e) /\ g[i] = Absorb(B, e)
    BY <1>2, <1>3, <1>4, <2>4, <2>7, <2>8, <2>9
  <2> QED
    BY <2>2, <2>11, <2>12
<1>9. n \in 0 .. n /\ m \in 0 .. m
  BY <1>1
<1> QED
  BY <1>2, <1>3, <1>4, <1>7, <1>8, <1>9

(* Two lists of numbers that climb: what has the end of the other is it.   *)
LEMMA LastPart ==
  ASSUME NEW F \in Seq(Nat), NEW S \in Seq(Nat), Climbing(F), Climbing(S),
         Values(S) \subseteq Values(F), S # <<>>,
         \A n \in Values(F) : n \in Values(S) \/ n < S[1]
  PROVE  \E d \in Nat : Len(F) = d + Len(S) /\ \A j \in 1 .. Len(S) : S[j] = F[d + j]
<1>1. /\ Len(F) \in Nat /\ Len(S) \in Nat \ {0}
      /\ DOMAIN F = 1 .. Len(F) /\ DOMAIN S = 1 .. Len(S)
      /\ (\A i \in 1 .. Len(F) : F[i] \in Nat) /\ (\A i \in 1 .. Len(S) : S[i] \in Nat)
  BY SeqFacts
<1>2. \A j \in 1 .. Len(S) : \E p \in 1 .. Len(F) : S[j] = F[p]
  BY <1>1 DEF Values
<1>3. PICK p1 \in 1 .. Len(F) : S[1] = F[p1]
  BY <1>1, <1>2
<1>4. PICK d \in Nat : p1 = d + 1
  <2>1. p1 - 1 \in Nat /\ p1 = (p1 - 1) + 1
    BY <1>1
  <2> QED
    BY <2>1
<1>5. \A i, j \in 1 .. Len(F) : i < j => F[i] < F[j]
  BY <1>1 DEF Climbing
<1>6. \A i, j \in 1 .. Len(S) : i < j => S[i] < S[j]
  BY <1>1 DEF Climbing
<1>7. \A i, j \in 1 .. Len(F) : F[i] < F[j] => i < j
  <2> SUFFICES ASSUME NEW i \in 1 .. Len(F), NEW j \in 1 .. Len(F), F[i] < F[j], ~(i < j)
               PROVE  FALSE
    OBVIOUS
  <2>1. F[i] \in Nat /\ F[j] \in Nat /\ (i = j \/ j < i)
    BY <1>1
  <2>2. CASE i = j
    BY <2>1, <2>2
  <2>3. CASE j < i
    <3>1. F[j] < F[i]
      BY <1>5, <2>3
    <3> QED
      BY <2>1, <3>1
  <2> QED
    BY <2>1, <2>2, <2>3
<1>8. \A i \in 1 .. Len(F) : F[i] < S[1] \/ \E q \in 1 .. Len(S) : S[q] = F[i]
  <2>1. \A i \in 1 .. Len(F) : F[i] \in Values(F)
    BY <1>1 DEF Values
  <2>2. \A n \in Values(S) : \E q \in 1 .. Len(S) : S[q] = n
    BY <1>1 DEF Values
  <2> QED
    BY <2>1, <2>2
(* What comes after an entry of F that is also in S comes after it in S.   *)
<1>9. ASSUME NEW j \in 1 .. Len(S), d + j \in 1 .. Len(F), S[j] = F[d + j],
             d + j + 1 \in 1 .. Len(F)
      PROVE  j + 1 \in 1 .. Len(S) /\ S[j + 1] = F[d + j + 1]
  <2>1. F[d + j] < F[d + j + 1]
    BY <1>5, <1>9
  <2>2. S[1] <= S[j] /\ S[j] \in Nat /\ S[1] \in Nat /\ F[d + j + 1] \in Nat
    <3>1. 1 \in 1 .. Len(S) /\ (j = 1 \/ 1 < j)
      BY <1>1
    <3>2. S[j] \in Nat /\ S[1] \in Nat
      BY <1>1, <3>1
    <3>3. F[d + j + 1] \in Nat
      BY <1>1, <1>9
    <3>4. 1 < j => S[1] < S[j]
      BY <1>6, <3>1
    <3>5. S[1] <= S[j]
      BY <3>1, <3>2, <3>4
    <3> QED
      BY <3>2, <3>3, <3>5
  <2>3. ~(F[d + j + 1] < S[1])
    <3>1. \A x, y, z \in Nat : x <= y /\ y < z => ~(z < x)
      OBVIOUS
    <3> QED
      BY <1>9, <2>1, <2>2, <3>1
  <2>4. PICK q \in 1 .. Len(S) : S[q] = F[d + j + 1]
    BY <1>8, <1>9, <2>3
  <2>5. q > j
    <3>1. S[j] < S[q]
      BY <1>9, <2>1, <2>4
    <3> SUFFICES ASSUME q < j \/ q = j PROVE FALSE
      BY <1>1
    <3> QED
      BY <1>1, <1>6, <3>1
  <2>6. j + 1 \in 1 .. Len(S)
    BY <1>1, <2>5
  <2>7. ASSUME j + 1 # q
        PROVE  FALSE
    <3>1. S[j] < S[j + 1] /\ S[j + 1] < S[q]
      BY <1>1, <1>6, <2>5, <2>6, <2>7
    <3>2. PICK p \in 1 .. Len(F) : S[j + 1] = F[p]
      BY <1>2, <2>6
    <3>3. F[d + j] < F[p] /\ F[p] < F[d + j + 1]
      BY <1>9, <2>4, <3>1, <3>2
    <3>4. d + j < p
      BY <1>9, <1>7, <3>3
    <3>5. p < d + j + 1
      BY <1>9, <1>7, <3>3
    <3> QED
      BY <1>1, <3>4, <3>5
  <2> QED
    BY <2>4, <2>6, <2>7
<1>10. \A j \in 1 .. Len(S) : d + j \in 1 .. Len(F) /\ S[j] = F[d + j]
  <2> DEFINE T == {j \in 1 .. Len(S) : ~(d + j \in 1 .. Len(F) /\ S[j] = F[d + j])}
  <2> SUFFICES ASSUME T # {} PROVE FALSE
    OBVIOUS
  <2>1. T \subseteq Nat
    BY <1>1
  <2>2. PICK j \in T : \A i \in T : j <= i
    BY <2>1, LeastNumber
  <2>3. j # 1
    BY <1>3, <1>4, <2>2
  <2>4. PICK i \in 1 .. Len(S) : i + 1 = j
    <3>1. j - 1 \in 1 .. Len(S) /\ (j - 1) + 1 = j
      BY <1>1, <2>2, <2>3
    <3> QED
      BY <3>1
  <2>5. d + i \in 1 .. Len(F) /\ S[i] = F[d + i]
    <3>1. i \notin T
      BY <2>2, <2>4
    <3> QED
      BY <3>1
  <2>6. d + i + 1 \in 1 .. Len(F)
    <3>1. PICK p \in 1 .. Len(F) : S[j] = F[p]
      BY <1>2, <2>2
    <3>2. S[i] < S[j]
      BY <1>6, <2>2, <2>4
    <3>3. d + i < p
      BY <1>7, <2>5, <3>1, <3>2
    <3> QED
      BY <1>1, <3>3
  <2>7. S[i + 1] = F[d + i + 1]
    BY <1>9, <2>5, <2>6
  <2>8. d + j = d + i + 1 /\ j = i + 1
    BY <1>1, <2>4
  <2>9. d + j \in 1 .. Len(F) /\ S[j] = F[d + j]
    BY <2>6, <2>7, <2>8
  <2> QED
    BY <2>2, <2>9
<1>11. Len(F) = d + Len(S)
  <2>1. Len(S) \in 1 .. Len(S)
    BY <1>1
  <2>2. d + Len(S) \in 1 .. Len(F) /\ S[Len(S)] = F[d + Len(S)]
    BY <1>10, <2>1
  <2>3. ASSUME d + Len(S) + 1 \in 1 .. Len(F)
        PROVE  FALSE
    <3>1. Len(S) + 1 \in 1 .. Len(S)
      BY <1>9, <2>1, <2>2, <2>3
    <3> QED
      BY <1>1, <3>1
  <2>4. d + Len(S) + 1 \notin 1 .. Len(F)
    BY <2>3
  <2>5. Len(F) \in Nat /\ Len(S) \in Nat /\ d + Len(S) \in 1 .. Len(F)
    BY <1>1, <2>2
  <2>6. PICK m \in Nat : m = d + Len(S)
    BY <2>5
  <2>7. m \in 1 .. Len(F) /\ m + 1 \notin 1 .. Len(F)
    BY <2>4, <2>5, <2>6
  <2>8. m = Len(F)
    BY <2>5, <2>7
  <2> QED
    BY <2>6, <2>8
<1> QED
  BY <1>10, <1>11

(* Nothing lost and nothing doubled: the pane holds the end of the log.    *)
LEMMA ShownFacts ==
  ASSUME BaseInv, FlowInv, TwiceInv, Settled,
         excused = {}, crossed = {}, echoed = {}
  PROVE  \E d \in Nat :
            /\ Len(file[attemptId]) = d + Len(Shown)
            /\ \A j \in 1 .. Len(Shown) : Shown[j] = file[attemptId][d + j]
            /\ ~hasMore => d = 0
<1>1. PICK a : a = attemptId
  OBVIOUS
<1>2. Following /\ Watching /\ unsub # NoConn /\ a \in Attempts /\ Ahead(unsub) = <<>>
  BY <1>1 DEF Settled, Following, Watching
<1>3. FlowNow /\ TwiceNow /\ events \in Seq(Event) /\ file[a] \in Seq(Nat)
  BY <1>1, <1>2, WatchFacts DEF FlowInv, TwiceInv
<1>4. HeldOf(a) = {}
  BY <1>1 DEF Settled, HeldOf
<1>5. Of(excused \cup crossed, a) = {} /\ Of(echoed, a) = {}
  BY DEF Of
<1>6. Climbing(file[a]) /\ \A n \in Values(file[a]) : n # 0
  BY <1>2, OrderFacts, LogFacts
<1> DEFINE F == file[a]
           S == Shown
           since == conn[unsub].since
           read == ReadUpTo
<1>7. Flow(F, S, <<>>, since, hasMore, FALSE, {}, read, {})
  <2>1. (conn[unsub].stage = "opening") = FALSE
    BY DEF Settled
  <2> QED
    BY <1>1, <1>2, <1>3, <1>4, <1>5, <2>1 DEF FlowNow
<1>8. NoneTwice(F, S \o <<>>, {}, {})
  BY <1>1, <1>2, <1>3, <1>4, <1>5 DEF TwiceNow
<1> HIDE DEF F, S, since, read
<1>9. /\ F \in Seq(Nat) /\ S \in Seq(Nat) /\ S \o <<>> = S /\ Values(S) \subseteq Values(F)
      /\ NoneLost(F, S, S, hasMore, FALSE, {}, read, {})
  <2>1. S \in Seq(Nat)
    BY <1>7 DEF Flow
  <2>2. S \o <<>> = S
    BY <2>1, ConcatEmptySeq
  <2> QED
    BY <1>7, <2>1, <2>2 DEF Flow
<1>10. /\ DOMAIN S = 1 .. Len(S) /\ Len(S) \in Nat /\ DOMAIN F = 1 .. Len(F) /\ Len(F) \in Nat
       /\ (S = <<>> <=> Len(S) = 0) /\ (F = <<>> <=> Values(F) = {})
  BY <1>9, SeqFacts
<1>11. \A n \in Values(F) : n \in Values(S) \/ (S # <<>> /\ n < S[1] /\ hasMore)
  BY <1>9 DEF NoneLost, Fine
<1>12. Climbing(S)
  <2> SUFFICES ASSUME NEW i \in DOMAIN S, NEW j \in DOMAIN S, i < j PROVE S[i] < S[j]
    BY DEF Climbing
  <2>1. Back(S[i], S[j], F, {})
    BY <1>8, <1>9 DEF NoneTwice
  <2>2. S[j] # 0
    BY <1>6, <1>9 DEF Values, F
  <2> QED
    BY <2>1, <2>2 DEF Back
<1>13. PICK d \in Nat : Len(F) = d + Len(S) /\ \A j \in 1 .. Len(S) : S[j] = F[d + j]
  <2>1. CASE S = <<>>
    <3>1. Values(F) = {}
      BY <1>11, <2>1, NoValues
    <3>2. F = <<>> /\ Len(F) = 0 /\ Len(S) = 0
      BY <1>10, <2>1, <3>1
    <3>3. Len(F) = 0 + Len(S) /\ \A j \in 1 .. Len(S) : S[j] = F[0 + j]
      BY <3>2
    <3> QED
      BY <3>3
  <2>2. CASE S # <<>>
    BY <1>6, <1>9, <1>11, <1>12, <2>2, LastPart DEF F
  <2> QED
    BY <2>1, <2>2
<1>14. ASSUME ~hasMore, d # 0
       PROVE  FALSE
  <2>1. 1 \in 1 .. Len(F)
    BY <1>10, <1>13, <1>14
  <2>2. F[1] \in Values(S)
    BY <1>10, <1>11, <1>14, <2>1 DEF Values
  <2>3. PICK q \in 1 .. Len(S) : F[1] = S[q]
    BY <1>10, <2>2 DEF Values
  <2>4. d + q \in 1 .. Len(F) /\ 1 < d + q /\ F[1] = F[d + q]
    BY <1>10, <1>13, <1>14, <2>3
  <2>5. F[1] < F[d + q] /\ F[1] \in Nat
    <3>1. F[1] \in Nat
      BY <1>9, <1>10, <2>1, SeqFacts
    <3> QED
      BY <1>6, <1>10, <2>1, <2>4, <3>1 DEF Climbing, F
  <2> QED
    BY <2>4, <2>5
<1> QED
  BY <1>1, <1>13, <1>14 DEF F, S

LEMMA CardsHold ==
  ASSUME BaseInv, FlowInv, TwiceInv
  PROVE  CardsOfTheLog
<1> DEFINE W == [i \in DOMAIN file[attemptId] |-> [att |-> attemptId, seq |-> file[attemptId][i]]]
<1> SUFFICES ASSUME Settled, ~timer, excused = {}, crossed = {}, echoed = {}
             PROVE  /\ Len(messages) <= Len(Whole)
                    /\ \A i \in 2 .. Len(messages) :
                          messages[i] = Whole[Len(Whole) - Len(messages) + i]
                    /\ ~hasMore => messages = Whole
  BY DEF CardsOfTheLog
<1>1. PICK a : a = attemptId
  OBVIOUS
<1>2. /\ Following /\ a \in Attempts /\ ServerInv /\ ServerType /\ OwnShown
      /\ events \in Seq(Event)
  <2>1. Following
    BY DEF Settled, Following
  <2> QED
    BY <1>1, <2>1, OwnParts DEF BaseInv, ServerInv, PaneType, Following
<1>3. messages = Rebuild(events) /\ \A e \in Values(events) : e.att = a
  BY <1>1, <1>2 DEF OwnShown, Following
<1>4. Whole = Rebuild(W)
  BY DEF Whole
<1>5. PICK d \in Nat : /\ Len(file[a]) = d + Len(Shown)
                       /\ \A j \in 1 .. Len(Shown) : Shown[j] = file[a][d + j]
                       /\ ~hasMore => d = 0
  BY <1>1, ShownFacts
<1>6. PICK F \in Seq(Nat) : F = file[a]
  BY <1>2, FileFacts
<1>7. /\ W = [i \in DOMAIN F |-> [att |-> a, seq |-> F[i]]]
      /\ Len(F) \in Nat /\ DOMAIN F = 1 .. Len(F) /\ \A i \in 1 .. Len(F) : F[i] \in Nat
  BY <1>1, <1>6, SeqFacts
<1> HIDE DEF W
<1>8. /\ W \in Seq(Event) /\ Len(W) = Len(F)
      /\ \A i \in 1 .. Len(W) : W[i] = [att |-> a, seq |-> F[i]]
  <2>1. \A i \in 1 .. Len(F) : [att |-> a, seq |-> F[i]] \in Event
    BY <1>2, <1>7 DEF Event
  <2> QED
    BY <1>7, <2>1
<1>9. \A i \in 1 .. Len(W) : Content(W[i]) \in Contents
  <2> SUFFICES ASSUME NEW i \in 1 .. Len(W) PROVE Content(W[i]) \in Contents
    OBVIOUS
  <2>1. F[i] \in Values(F)
    BY <1>7, <1>8 DEF Values
  <2>2. F[i] # 0 /\ F[i] \in 1 .. seqs[a]
    BY <1>2, <1>6, <2>1, LogFacts
  <2>3. script[a] \in Seq(Contents) /\ Len(script[a]) \in Nat /\ seqs[a] \in Nat
    BY <1>2, FileFacts
  <2>4. F[i] \in 1 .. Len(script[a])
    <3>1. seqs[a] <= Len(script[a])
      BY <1>2 DEF ServerInv, LogInv
    <3> QED
      BY <2>2, <2>3, <3>1
  <2>5. script[a][F[i]] \in Contents
    BY <2>3, <2>4, SeqFacts
  <2>6. Content([att |-> a, seq |-> F[i]]) = script[a][F[i]]
    BY <2>2 DEF Content
  <2> QED
    BY <1>8, <2>5, <2>6
<1>10. /\ Len(Shown) = Len(events) /\ Len(events) \in Nat
       /\ \A j \in 1 .. Len(events) : events[j] = [att |-> a, seq |-> Shown[j]]
  <2>1. /\ Len(Shown) = Len(events) /\ DOMAIN events = 1 .. Len(events) /\ Len(events) \in Nat
        /\ \A j \in 1 .. Len(events) : events[j] \in Event
    BY <1>2, NumbersFacts, SeqFacts DEF Shown
  <2>2. \A j \in DOMAIN events : Shown[j] = events[j].seq
    BY <1>2, NumbersFacts DEF Shown
  <2>3. \A j \in DOMAIN events : events[j].att = a
    BY <1>3 DEF Values
  <2> QED
    BY <2>1, <2>2, <2>3 DEF Event
<1>11. Len(W) = d + Len(events) /\ \A j \in 1 .. Len(events) : events[j] = W[d + j]
  <2>1. Len(W) = d + Len(events)
    BY <1>5, <1>6, <1>8, <1>10
  <2>2. \A j \in 1 .. Len(events) : d + j \in 1 .. Len(W)
    BY <1>10, <2>1
  <2> QED
    BY <1>5, <1>6, <1>8, <1>10, <2>1, <2>2
<1>12. PICK A : A = Walk(W)
  OBVIOUS
<1>13. PICK B : B = Walk(events)
  OBVIOUS
<1>14. AccOK(A) /\ AccOK(B) /\ \E k : Alike(k, A, B)
  BY <1>2, <1>8, <1>9, <1>11, <1>12, <1>13, AlikeWalk
<1>15. PICK k : Alike(k, A, B)
  BY <1>14
<1>16. PICK h : Alike(h, Flush(A), Flush(B))
  BY <1>14, <1>15, AlikeFlush
<1>17. AccOK(Flush(A)) /\ AccOK(Flush(B))
  BY <1>14, <1>15, AlikeFlush
<1>18. Whole = Flush(A).out /\ messages = Flush(B).out
  BY <1>3, <1>4, <1>12, <1>13 DEF Rebuild
<1>19. Len(Flush(A).out) \in Nat /\ Len(Flush(B).out) \in Nat
  BY <1>17, AccFacts
<1>20. h \in Nat /\ Len(Whole) = h + Len(messages) /\ Len(messages) \in Nat
  BY <1>16, <1>18, <1>19 DEF Alike
<1>21. \A i \in 2 .. Len(messages) : messages[i] = Whole[h + i]
  BY <1>16, <1>18 DEF Alike
<1>22. \A i \in 2 .. Len(messages) : messages[i] = Whole[Len(Whole) - Len(messages) + i]
  <2>1. Len(Whole) - Len(messages) = h
    BY <1>20
  <2> QED
    BY <1>21, <2>1
<1>23. ASSUME ~hasMore
       PROVE  messages = Whole
  <2>1. Len(W) = Len(events) /\ \A j \in 1 .. Len(events) : events[j] = W[j]
    BY <1>5, <1>8, <1>10, <1>11, <1>23
  <2>2. W = events
    BY <1>2, <1>8, <2>1, SeqEqual
  <2> QED
    BY <1>3, <1>4, <2>2
<1> QED
  BY <1>20, <1>22, <1>23

-----------------------------------------------------------------------------
(* The theorems.                                                           *)

StreamInv == BaseInv /\ FlowInv /\ TwiceInv

LEMMA InitStream == Init => StreamInv
<1> SUFFICES ASSUME Init PROVE StreamInv
  OBVIOUS
<1>1. BaseInv
  BY InitBase
<1>2. unsub = NoConn
  BY DEF Init
<1> QED
  BY <1>1, <1>2 DEF StreamInv, FlowInv, TwiceInv

LEMMA NextStream == StreamInv /\ [Next]_vars => StreamInv'
<1> SUFFICES ASSUME StreamInv, [Next]_vars PROVE StreamInv'
  OBVIOUS
<1>1. BaseInv /\ FlowInv /\ TwiceInv
  BY DEF StreamInv
<1>2. CASE Next
  BY <1>1, <1>2, NextBase, NextFlow, NextTwice DEF StreamInv
<1>3. CASE UNCHANGED vars
  BY <1>1, <1>3, StillBase, StillFlow, StillTwice DEF StreamInv
<1> QED
  BY <1>2, <1>3

LEMMA AlwaysStream == Spec => []StreamInv
BY InitStream, NextStream, PTL DEF Spec

(* The variables keep their types: what the hub buffers, replays and       *)
(* answers are numbers of lines, whatever the order of the steps.          *)
THEOREM TypeCorrect == Spec => []TypeOK
<1>1. StreamInv => TypeOK
  BY TypeHolds DEF StreamInv
<1> QED
  BY <1>1, AlwaysStream, PTL

(* reload and loadMore of event-stream.js take an answer for the attempt   *)
(* that is selected by then: as long as no selection overtakes an answer,  *)
(* that is the one they asked for, and the stream of the attempt before is *)
(* closed.                                                                 *)
THEOREM OwnCorrect == Spec => []OwnEventsOnly
<1>1. StreamInv => OwnEventsOnly
  BY OwnHolds DEF StreamInv
<1> QED
  BY <1>1, AlwaysStream, PTL

(* A line of the log that is not in the pane when nothing is on its way is *)
(* older than what is loaded, or fell into a window of the server: between *)
(* the replay and the subscription, the limit of a replay, a stream that   *)
(* starts without a number, a full buffer, or two lines out of order.      *)
THEOREM LostCorrect == Spec => []NothingElseLost
<1>1. StreamInv => NothingElseLost
  BY LostHolds DEF StreamInv
<1> QED
  BY <1>1, AlwaysStream, PTL

(* An event that the pane has twice was read from the file before the hub  *)
(* published it, or the log is out of order: pages, replays and reconnects *)
(* repeat nothing by themselves.                                           *)
THEOREM TwiceCorrect == Spec => []NothingElseTwice
<1>1. StreamInv => NothingElseTwice
  BY TwiceHolds DEF StreamInv
<1> QED
  BY <1>1, AlwaysStream, PTL

(* rebuild of event-stream.js walks the events that are loaded, so its     *)
(* walk begins in the middle of a bubble, or after the line of a tool call *)
(* it then learns of late. With nothing lost or doubled the cards are      *)
(* still the last cards of the whole log, but for the first of them, and   *)
(* they are all of them once nothing older is on offer.                    *)
THEOREM CardsCorrect == Spec => []CardsOfTheLog
<1>1. StreamInv => CardsOfTheLog
  BY CardsHold DEF StreamInv
<1> QED
  BY <1>1, AlwaysStream, PTL
=============================================================================
