-------------------------- MODULE Composer_proofs ---------------------------
(***************************************************************************)
(* Proofs about Composer, for any words, files, tags, cards and bounds.    *)
(* What a form holds is what the user put in because every answer to an    *)
(* upload writes only what the user knows of, or, in the message input,    *)
(* what the text was when the upload began, and that differs from the text *)
(* of now only in pieces that have been touched since.                     *)
(***************************************************************************)
EXTENDS Composer, FiniteSetTheorems, FunctionTheorems, SequenceTheorems, TLAPS

-----------------------------------------------------------------------------
(* Lists: an entry dropped, a filter.                                      *)

(* A list without one of its entries has all the others.                   *)
LEMMA WithoutFacts ==
  ASSUME NEW S, NEW s \in Seq(S), NEW i \in DOMAIN s
  PROVE  /\ Without(s, i) \in Seq(S)
         /\ Len(Without(s, i)) = Len(s) - 1
         /\ \A j \in DOMAIN Without(s, i) : \E k \in DOMAIN s : k # i /\ Without(s, i)[j] = s[k]
         /\ \A k \in DOMAIN s : k # i => \E j \in DOMAIN Without(s, i) : Without(s, i)[j] = s[k]
<1>1. /\ Len(s) \in Nat /\ DOMAIN s = 1 .. Len(s)
      /\ \A j \in 1 .. Len(s) : s[j] \in S
  BY LenProperties
<1>2. i \in 1 .. Len(s) /\ Len(s) - 1 \in Nat
  BY <1>1
<1>3. Without(s, i) \in [1 .. Len(s) - 1 -> S]
  <2>1. \A j \in 1 .. Len(s) - 1 : j \in 1 .. Len(s) /\ j + 1 \in 1 .. Len(s)
    BY <1>1
  <2> QED
    BY <1>1, <2>1 DEF Without
<1>4. Without(s, i) \in Seq(S) /\ Len(Without(s, i)) = Len(s) - 1
  BY <1>2, <1>3
<1>5. ASSUME NEW j \in DOMAIN Without(s, i)
      PROVE  \E k \in DOMAIN s : k # i /\ Without(s, i)[j] = s[k]
  <2>1. j \in 1 .. Len(s) - 1
    BY <1>3
  <2>2. CASE j < i
    BY <1>1, <1>2, <2>1, <2>2 DEF Without
  <2>3. CASE ~(j < i)
    <3>1. j + 1 \in DOMAIN s /\ j + 1 # i /\ Without(s, i)[j] = s[j + 1]
      BY <1>1, <1>2, <2>1, <2>3 DEF Without
    <3> QED
      BY <3>1
  <2> QED
    BY <2>2, <2>3
<1>6. ASSUME NEW k \in DOMAIN s, k # i
      PROVE  \E j \in DOMAIN Without(s, i) : Without(s, i)[j] = s[k]
  <2>1. k \in 1 .. Len(s)
    BY <1>1
  <2>2. CASE k < i
    <3>1. k \in DOMAIN Without(s, i) /\ Without(s, i)[k] = s[k]
      BY <1>2, <1>3, <2>1, <2>2 DEF Without
    <3> QED
      BY <3>1
  <2>3. CASE i < k
    <3>1. k - 1 \in 1 .. Len(s) - 1 /\ ~(k - 1 < i) /\ (k - 1) + 1 = k
      BY <1>2, <2>1, <2>3
    <3>2. k - 1 \in DOMAIN Without(s, i) /\ Without(s, i)[k - 1] = s[k]
      BY <1>3, <3>1 DEF Without
    <3> QED
      BY <3>2
  <2> QED
    BY <1>2, <1>6, <2>1, <2>2, <2>3
<1> QED
  BY <1>4, <1>5, <1>6

(* A set of numbers has a least one: induction, as the provers can use it. *)
LEMMA LeastNumber ==
  ASSUME NEW S, S \subseteq Nat, S # {}
  PROVE  \E n \in S : \A m \in S : n <= m
<1> DEFINE Less == {ss \in Nat \X Nat : ss[1] < ss[2]}
<1>1. IsWellFoundedOn(Less, Nat)
  BY NatLessThanWellFounded DEF OpToRel
<1> HIDE DEF Less
<1>2. PICK n \in S : \A m \in S : ~(<<m, n>> \in Less)
  BY <1>1, WFMin
<1>3. \A m \in S : ~(m < n)
  BY <1>2 DEF Less
<1> QED
  BY <1>3

(* The filter's loop, up to the n-th entry of s.                           *)
Keeping(f, s, places, n) ==
    f = [i \in 0 .. n |-> IF i = 0 THEN <<>>
                          ELSE IF i \in places THEN Append(f[i - 1], s[i]) ELSE f[i - 1]]

LEMMA KeepingExists ==
  ASSUME NEW s, NEW places, NEW n \in Nat
  PROVE  \E f : Keeping(f, s, places, n)
<1> DEFINE T == {k \in Nat : ~ \E f : Keeping(f, s, places, k)}
<1> SUFFICES ASSUME T # {} PROVE FALSE
  OBVIOUS
<1>1. PICK k \in T : \A m \in T : k <= m
  BY LeastNumber
<1>2. k # 0
  <2>1. Keeping([i \in 0 .. 0 |-> <<>>], s, places, 0)
    BY DEF Keeping
  <2> QED
    BY <2>1
<1>3. k - 1 \in Nat /\ k - 1 \notin T
  BY <1>1, <1>2
<1>4. PICK f : Keeping(f, s, places, k - 1)
  BY <1>3
<1> DEFINE g == [i \in 0 .. k |->
                    IF i = 0 THEN <<>>
                    ELSE IF i \in places THEN Append(f[i - 1], s[i]) ELSE f[i - 1]]
<1>5. \A i \in 0 .. k - 1 : g[i] = f[i]
  <2> SUFFICES ASSUME NEW i \in 0 .. k - 1 PROVE g[i] = f[i]
    OBVIOUS
  <2>1. i \in 0 .. k
    BY <1>3
  <2>2. f[i] = IF i = 0 THEN <<>>
               ELSE IF i \in places THEN Append(f[i - 1], s[i]) ELSE f[i - 1]
    BY <1>4 DEF Keeping
  <2> QED
    BY <2>1, <2>2
<1>6. \A i \in 0 .. k : i # 0 => g[i - 1] = f[i - 1]
  <2>1. \A i \in 0 .. k : i # 0 => i - 1 \in 0 .. k - 1
    BY <1>3
  <2> QED
    BY <1>5, <2>1
<1>7. Keeping(g, s, places, k)
  <2>1. \A i \in 0 .. k : g[i] = IF i = 0 THEN <<>>
                     ELSE IF i \in places THEN Append(g[i - 1], s[i]) ELSE g[i - 1]
    BY <1>6
  <2> QED
    BY <2>1 DEF Keeping
<1> QED
  BY <1>7

(* A filtered list has the entries at the kept places, in their order.     *)
LEMMA KeptFacts ==
  ASSUME NEW S, NEW s \in Seq(S), NEW places \in SUBSET DOMAIN s
  PROVE  LET t == Kept(s, places)
         IN  /\ t \in Seq(S)
             /\ \E at \in [1 .. Len(t) -> places] :
                    /\ \A j \in 1 .. Len(t) : t[j] = s[at[j]]
                    /\ \A j, k \in 1 .. Len(t) : j < k => at[j] < at[k]
                    /\ \A k \in places : \E j \in 1 .. Len(t) : at[j] = k
<1> DEFINE n == Len(s)
           Picks(t, i) ==
             /\ t \in Seq(S)
             /\ \E at \in [1 .. Len(t) -> places \cap 1 .. i] :
                    /\ \A j \in 1 .. Len(t) : t[j] = s[at[j]]
                    /\ \A j, k \in 1 .. Len(t) : j < k => at[j] < at[k]
                    /\ \A k \in places \cap 1 .. i : \E j \in 1 .. Len(t) : at[j] = k
<1>1. n \in Nat /\ DOMAIN s = 1 .. n /\ \A i \in 1 .. n : s[i] \in S
  BY LenProperties
<1>2. PICK f : Keeping(f, s, places, n) /\ Kept(s, places) = f[n]
  <2>1. \E f : Keeping(f, s, places, n)
    BY <1>1, KeepingExists
  <2> QED
    BY <2>1 DEF Kept, Keeping
<1>3. f[0] = <<>>
  BY <1>1, <1>2 DEF Keeping
<1>4. \A i \in 1 .. n : f[i] = IF i \in places THEN Append(f[i - 1], s[i]) ELSE f[i - 1]
  <2>1. \A i \in 1 .. n : i \in 0 .. n /\ i # 0
    BY <1>1
  <2>2. \A i \in 0 .. n : f[i] = IF i = 0 THEN <<>>
                     ELSE IF i \in places THEN Append(f[i - 1], s[i]) ELSE f[i - 1]
    BY <1>2 DEF Keeping
  <2> QED
    BY <2>1, <2>2
<1>5. Picks(<<>>, 0)
  <2>1. <<>> \in Seq(S) /\ Len(<<>>) = 0 /\ 1 .. 0 = {}
    OBVIOUS
  <2> DEFINE at == [j \in 1 .. 0 |-> 0]
  <2>2. at \in [1 .. 0 -> places \cap 1 .. 0]
    BY <2>1
  <2> QED
    BY <2>1, <2>2
<1>6. ASSUME NEW i \in 1 .. n, NEW t, Picks(t, i - 1)
      PROVE  Picks(IF i \in places THEN Append(t, s[i]) ELSE t, i)
  <2>1. t \in Seq(S) /\ Len(t) \in Nat /\ i \in Nat
    BY <1>1, <1>6
  <2>2. PICK at \in [1 .. Len(t) -> places \cap 1 .. (i - 1)] :
                    /\ \A j \in 1 .. Len(t) : t[j] = s[at[j]]
                    /\ \A j, k \in 1 .. Len(t) : j < k => at[j] < at[k]
                    /\ \A k \in places \cap 1 .. (i - 1) : \E j \in 1 .. Len(t) : at[j] = k
    BY <1>6
  <2>3. CASE i \notin places
    <3>1. places \cap 1 .. i = places \cap 1 .. (i - 1)
      BY <2>1, <2>3
    <3> QED
      BY <1>6, <2>3, <3>1
  <2>4. CASE i \in places
    <3> DEFINE u == Append(t, s[i])
               to == [j \in 1 .. Len(t) + 1 |-> IF j = Len(t) + 1 THEN i ELSE at[j]]
    <3>1. /\ u \in Seq(S) /\ Len(u) = Len(t) + 1 /\ u[Len(t) + 1] = s[i]
          /\ \A j \in 1 .. Len(t) : u[j] = t[j]
      BY <1>1, <2>1
    <3>2. \A j \in 1 .. Len(t) : at[j] \in places /\ at[j] \in 1 .. (i - 1)
      BY <2>2
    <3>3. \A j \in 1 .. Len(t) : to[j] = at[j] /\ at[j] < i /\ at[j] \in places \cap 1 .. i
      BY <2>1, <3>2
    <3>4. to[Len(t) + 1] = i /\ i \in places \cap 1 .. i
      BY <2>1, <2>4
    <3>5. to \in [1 .. Len(u) -> places \cap 1 .. i]
      BY <2>1, <3>1, <3>3, <3>4
    <3>6. \A j \in 1 .. Len(u) : j \in 1 .. Len(t) \/ j = Len(t) + 1
      BY <2>1, <3>1
    <3>7. \A k \in places \cap 1 .. i : k = i \/ k \in places \cap 1 .. (i - 1)
      BY <2>1
    <3> HIDE DEF u, to
    <3>8. \A j \in 1 .. Len(u) : u[j] = s[to[j]]
      BY <2>2, <3>1, <3>3, <3>4, <3>6
    <3>9. ASSUME NEW j \in 1 .. Len(u), NEW k \in 1 .. Len(u), j < k
          PROVE  to[j] < to[k]
      <4>1. j \in 1 .. Len(t)
        BY <2>1, <3>6, <3>9
      <4>2. CASE k \in 1 .. Len(t)
        <5>1. at[j] < at[k]
          BY <2>2, <3>9, <4>1, <4>2
        <5> QED
          BY <3>3, <4>1, <4>2, <5>1
      <4>3. CASE k = Len(t) + 1
        BY <3>3, <3>4, <4>1, <4>3
      <4> QED
        BY <3>6, <4>2, <4>3
    <3>10. ASSUME NEW k \in places \cap 1 .. i
           PROVE  \E j \in 1 .. Len(u) : to[j] = k
      <4>1. CASE k = i
        <5>1. Len(t) + 1 \in 1 .. Len(u)
          BY <2>1, <3>1
        <5> QED
          BY <3>4, <4>1, <5>1
      <4>2. CASE k \in places \cap 1 .. (i - 1)
        <5>1. PICK j \in 1 .. Len(t) : at[j] = k
          BY <2>2, <4>2
        <5>2. j \in 1 .. Len(u) /\ to[j] = k
          BY <2>1, <3>1, <3>3, <5>1
        <5> QED
          BY <5>2
      <4> QED
        BY <3>7, <4>1, <4>2
    <3>11. Picks(u, i)
      BY <3>1, <3>5, <3>8, <3>9, <3>10
    <3> QED
      BY <2>4, <3>11 DEF u
  <2> QED
    BY <2>3, <2>4
<1> HIDE DEF Picks
<1>7. \A i \in 0 .. n : Picks(f[i], i)
  <2> DEFINE T == {i \in 0 .. n : ~Picks(f[i], i)}
  <2> SUFFICES ASSUME T # {} PROVE FALSE
    OBVIOUS
  <2>1. PICK i \in T : \A j \in T : i <= j
    <3>1. T \subseteq Nat
      BY <1>1
    <3> QED
      BY <3>1, LeastNumber
  <2>2. i \in 1 .. n /\ i - 1 \in 0 .. n /\ i - 1 \notin T
    BY <1>1, <1>3, <1>5, <2>1
  <2>3. Picks(f[i - 1], i - 1)
    BY <2>2
  <2> QED
    BY <1>4, <1>6, <2>1, <2>2, <2>3
<1>8. Picks(Kept(s, places), n)
  BY <1>1, <1>2, <1>7
<1>9. places \cap 1 .. n = places
  BY <1>1
<1> QED
  BY <1>8, <1>9 DEF Picks

-----------------------------------------------------------------------------
Cards == [text : SUBSET Pieces, tags : Seq(Tags), deps : Seq(Dependency)]

Apart(tags) == \A i, j \in DOMAIN tags : tags[i] = tags[j] => i = j

(* A form, a card or the body of a save.                                   *)
Good(v) == v \in Cards /\ IsFiniteSet(v.text) /\ Apart(v.tags)

Batch == [files : Seq(Files), at : SUBSET Pieces, done : SUBSET Pieces]

(* The files of a batch are different, and not in the text that it was     *)
(* begun with; those that are done are the first ones.                     *)
Underway(u) ==
    /\ u \in Batch
    /\ IsFiniteSet(u.at) /\ IsFiniteSet(u.done) /\ Cardinality(u.done) < Len(u.files)
    /\ \A i, j \in DOMAIN u.files : u.files[i] = u.files[j] => i = j
    /\ \A i \in DOMAIN u.files : u.files[i] \notin Ids(u.at)
    /\ \A p \in u.done : \E i \in 1 .. Cardinality(u.done) : p.id = u.files[i]

Saves == [body : Cards, stage : {"sent", "ok"}]

UpsOK ==
    /\ ups \in Seq(Batch) /\ Len(ups) <= MaxUps
    /\ \A i \in DOMAIN ups : Underway(ups[i])
    /\ uploading \in BOOLEAN /\ (uploading => ups # <<>>)

CallsOK ==
    /\ calls \in Seq(Saves)
    /\ \A i \in DOMAIN calls :
           /\ Good(calls[i].body)
           /\ \A d \in RangeOf(calls[i].body.deps) : d.task_id # NoTask

LoadOK == load \in [stage : {"none", "sent", "read"}, card : Cards] /\ Good(load.card)

TypeInv ==
    /\ box \in Boxes /\ open \in BOOLEAN
    /\ Good(form) /\ Good(stored) /\ query \in Seq(Tags)
    /\ UpsOK /\ CallsOK /\ LoadOK
    /\ turns \in 0 .. MaxTurns /\ muddled \in BOOLEAN

(* The message input has a text only, and what an upload of it began with  *)
(* is the text of now, but for what has been touched.                      *)
OfMessage ==
    Message =>
        /\ form.tags = <<>> /\ form.deps = <<>> /\ query = <<>>
        /\ calls = <<>> /\ load.stage = "none"
        /\ \A i \in DOMAIN ups : ups[i].at \ touched = form.text \ touched

(* A text whose numbers are no higher than the links it has.               *)
Counted(text) ==
    /\ \A p, q \in Links(text) :
           p # q /\ p.n # 0 /\ q.n # 0 => Category[p.id] # Category[q.id] \/ p.n # q.n
    /\ \A p \in Links(text) : p.n <= Count(text, Category[p.id])

(* Unless files overlapped or were taken out, there is one upload, of a    *)
(* text whose links are still there, or in the message input were sent.    *)
Numbers ==
    ~muddled =>
        /\ Counted(form.text)
        /\ \A i, j \in DOMAIN ups : i = j
        /\ \A i \in DOMAIN ups :
               /\ Counted(ups[i].at \cup ups[i].done)
               /\ IF Message THEN Links(form.text) \subseteq Links(ups[i].at)
                  ELSE Links(form.text) = Links(ups[i].at)

IInv == TypeInv /\ OfMessage /\ WhatWasPutIn /\ Numbers

-----------------------------------------------------------------------------
(* Pieces of text, tags and dependencies are different things.             *)

LEMMA Kinds ==
  ASSUME NEW p \in Pieces, NEW t, NEW d \in Dependency
  PROVE  p # Chip(t) /\ p # d /\ Chip(t) # d
<1>1. DOMAIN p = {"id", "n"} /\ DOMAIN d = {"task_id", "required_state"}
  BY DEF Pieces, Dependency
<1>2. DOMAIN Chip(t) = {"tag"}
  BY DEF Chip
<1>3. /\ "tag" \notin {"id", "n"} /\ "tag" \notin {"task_id", "required_state"}
      /\ "id" \notin {"task_id", "required_state"}
  OBVIOUS
<1> QED
  BY <1>1, <1>2, <1>3

LEMMA ChipsApart ==
  ASSUME NEW t, NEW s, Chip(t) = Chip(s)
  PROVE  t = s
<1>1. Chip(t).tag = t /\ Chip(s).tag = s
  BY DEF Chip
<1> QED
  BY <1>1

Chips(tags) == {Chip(t) : t \in RangeOf(tags)}

LEMMA ItemsFacts ==
  ASSUME NEW v \in Cards
  PROVE  /\ Items(v) = v.text \cup Chips(v.tags) \cup RangeOf(v.deps)
         /\ RangeOf(v.tags) \subseteq Tags /\ RangeOf(v.deps) \subseteq Dependency
         /\ v.text \subseteq Pieces /\ v.tags \in Seq(Tags) /\ v.deps \in Seq(Dependency)
         /\ \A p \in Pieces : p \notin Chips(v.tags) /\ p \notin RangeOf(v.deps)
         /\ \A t : Chip(t) \notin v.text /\ Chip(t) \notin RangeOf(v.deps)
         /\ \A d \in Dependency : d \notin v.text /\ d \notin Chips(v.tags)
<1>1. /\ v.text \subseteq Pieces /\ v.tags \in Seq(Tags) /\ v.deps \in Seq(Dependency)
  BY DEF Cards
<1>2. Items(v) = v.text \cup Chips(v.tags) \cup RangeOf(v.deps)
  BY DEF Items, Chips
<1>3. RangeOf(v.tags) \subseteq Tags /\ RangeOf(v.deps) \subseteq Dependency
  BY <1>1 DEF RangeOf
<1>4. \A p \in Pieces : p \notin Chips(v.tags) /\ p \notin RangeOf(v.deps)
  <2> SUFFICES ASSUME NEW p \in Pieces
               PROVE  p \notin Chips(v.tags) /\ p \notin RangeOf(v.deps)
    OBVIOUS
  <2>1. [task_id |-> NoTask, required_state |-> "done"] \in Dependency
    BY DEF Dependency
  <2>2. \A t : p # Chip(t)
    BY <2>1, Kinds
  <2>3. \A d \in Dependency : p # d
    BY Kinds
  <2> QED
    BY <1>3, <2>2, <2>3 DEF Chips
<1>5. \A t : Chip(t) \notin v.text /\ Chip(t) \notin RangeOf(v.deps)
  <2> SUFFICES ASSUME NEW t
               PROVE  Chip(t) \notin v.text /\ Chip(t) \notin RangeOf(v.deps)
    OBVIOUS
  <2>1. [task_id |-> NoTask, required_state |-> "done"] \in Dependency
    BY DEF Dependency
  <2>2. \A p \in Pieces : p # Chip(t)
    BY <2>1, Kinds
  <2>3. DOMAIN Chip(t) = {"tag"} /\ \A d \in Dependency : DOMAIN d = {"task_id", "required_state"}
    BY DEF Chip, Dependency
  <2>4. \A d \in Dependency : Chip(t) # d
    BY <2>3
  <2> QED
    BY <1>1, <1>3, <2>2, <2>4
<1>6. \A d \in Dependency : d \notin v.text /\ d \notin Chips(v.tags)
  <2> SUFFICES ASSUME NEW d \in Dependency
               PROVE  d \notin v.text /\ d \notin Chips(v.tags)
    OBVIOUS
  <2>1. \A p \in Pieces : p # d
    BY Kinds
  <2>2. \A t : Chip(t) # d
    <3>1. DOMAIN d = {"task_id", "required_state"} /\ \A t : DOMAIN Chip(t) = {"tag"}
      BY DEF Chip, Dependency
    <3> QED
      BY <3>1
  <2> QED
    BY <1>1, <2>1, <2>2 DEF Chips
<1> QED
  BY <1>1, <1>2, <1>3, <1>4, <1>5, <1>6

-----------------------------------------------------------------------------
(* Numbers.                                                                *)

LEMMA CountedLinks ==
  ASSUME NEW S, NEW T, Links(S) = Links(T), Counted(S)
  PROVE  Counted(T)
BY DEF Counted, Count

(* A new link, with a number higher than that of any link there is.        *)
LEMMA CountedAdd ==
  ASSUME NEW T \in SUBSET Pieces, IsFiniteSet(T), Counted(T),
         NEW z \in Pieces, z \notin T, z.id \in Files,
         z.n = 0 \/ z.n = Count(T, Category[z.id]) + 1
  PROVE  Counted(T \cup {z})
<1> DEFINE A(c) == {p \in Links(T) : Category[p.id] = c}
           B(c) == {p \in Links(T \cup {z}) : Category[p.id] = c}
<1>1. Links(T \cup {z}) = Links(T) \cup {z}
  BY DEF Links
<1>2. \A p \in T \cup {z} : p.n \in Nat
  BY DEF Pieces
<1>3. ASSUME NEW c
      PROVE  /\ IsFiniteSet(A(c)) /\ Count(T, c) \in Nat /\ Count(T \cup {z}, c) \in Nat
             /\ Count(T, c) <= Count(T \cup {z}, c)
             /\ c = Category[z.id] => Count(T \cup {z}, c) = Count(T, c) + 1
  <2>1. A(c) \subseteq T /\ z \notin A(c)
    BY DEF Links
  <2>2. IsFiniteSet(A(c)) /\ Cardinality(A(c)) \in Nat
    BY <2>1, FS_Subset, FS_CardinalityType
  <2>3. Count(T, c) = Cardinality(A(c)) /\ Count(T \cup {z}, c) = Cardinality(B(c))
    BY DEF Count
  <2>4. CASE c = Category[z.id]
    <3>1. B(c) = A(c) \cup {z}
      BY <1>1, <2>4
    <3>2. Cardinality(A(c) \cup {z}) = Cardinality(A(c)) + 1
      <4> HIDE DEF A
      <4> QED
        BY <2>1, <2>2, FS_AddElement
    <3> HIDE DEF A, B
    <3> QED
      BY <2>2, <2>3, <3>1, <3>2
  <2>5. CASE c # Category[z.id]
    <3>1. B(c) = A(c)
      BY <1>1, <2>5
    <3> HIDE DEF A, B
    <3> QED
      BY <2>2, <2>3, <2>5, <3>1
  <2> QED
    BY <2>4, <2>5
<1> HIDE DEF A, B
<1>4. ASSUME NEW p \in Links(T)
      PROVE  p.n \in Nat /\ p.n <= Count(T, Category[p.id])
  BY <1>2 DEF Links, Counted
<1>5. ASSUME NEW p \in Links(T \cup {z})
      PROVE  p.n <= Count(T \cup {z}, Category[p.id])
  <2>1. CASE p \in Links(T)
    BY <1>3, <1>4, <2>1
  <2>2. CASE p = z
    <3>1. Count(T \cup {z}, Category[z.id]) = Count(T, Category[z.id]) + 1
          /\ Count(T, Category[z.id]) \in Nat
      BY <1>3
    <3> QED
      BY <2>2, <3>1
  <2> QED
    BY <1>1, <2>1, <2>2
<1>6. ASSUME NEW p \in Links(T), z.n # 0, Category[p.id] = Category[z.id]
      PROVE  p.n # z.n
  <2>1. p.n \in Nat /\ p.n <= Count(T, Category[z.id]) /\ Count(T, Category[z.id]) \in Nat
    BY <1>3, <1>4, <1>6
  <2> QED
    BY <1>6, <2>1
<1>7. ASSUME NEW p \in Links(T \cup {z}), NEW q \in Links(T \cup {z}), p # q, p.n # 0, q.n # 0
      PROVE  Category[p.id] # Category[q.id] \/ p.n # q.n
  <2>1. CASE p \in Links(T) /\ q \in Links(T)
    BY <1>7, <2>1 DEF Counted
  <2>2. CASE p = z \/ q = z
    BY <1>1, <1>6, <1>7, <2>2
  <2> QED
    BY <1>1, <2>1, <2>2
<1> QED
  BY <1>5, <1>7 DEF Counted

(* The link of the next file of a batch.                                   *)
LEMMA SnippetFacts ==
  ASSUME NEW u, Underway(u)
  PROVE  LET k == Cardinality(u.done) + 1
             z == Snippet(u.files[k], u)
         IN  /\ k \in DOMAIN u.files /\ z \in Pieces /\ z.id = u.files[k] /\ z.id \in Files
             /\ z \notin u.at \cup u.done
             /\ IsFiniteSet(u.done \cup {z}) /\ Cardinality(u.done \cup {z}) = k
             /\ Counted(u.at \cup u.done) => Counted(u.at \cup (u.done \cup {z}))
             /\ \A p \in u.done \cup {z} : p.id \in Files
<1> DEFINE k == Cardinality(u.done) + 1
           f == u.files[k]
           z == Snippet(f, u)
           T == u.at \cup u.done
<1>1. /\ u.files \in Seq(Files) /\ u.at \subseteq Pieces /\ u.done \subseteq Pieces
      /\ IsFiniteSet(u.at) /\ IsFiniteSet(u.done) /\ Cardinality(u.done) < Len(u.files)
      /\ \A i, j \in DOMAIN u.files : u.files[i] = u.files[j] => i = j
      /\ \A i \in DOMAIN u.files : u.files[i] \notin Ids(u.at)
      /\ \A p \in u.done : \E i \in 1 .. Cardinality(u.done) : p.id = u.files[i]
  BY DEF Underway, Batch
<1>2. Cardinality(u.done) \in Nat /\ Len(u.files) \in Nat /\ DOMAIN u.files = 1 .. Len(u.files)
  BY <1>1, FS_CardinalityType
<1>3. k \in DOMAIN u.files /\ \A i \in 1 .. Cardinality(u.done) : i \in DOMAIN u.files /\ i # k
  <2> DEFINE c == Cardinality(u.done)
             l == Len(u.files)
  <2>1. c \in Nat /\ l \in Nat /\ c < l
    BY <1>1, <1>2
  <2> HIDE DEF c, l
  <2>2. c + 1 \in 1 .. l /\ \A i \in 1 .. c : i \in 1 .. l /\ i # c + 1
    BY <2>1
  <2> QED
    BY <1>2, <2>2 DEF c, l
<1> HIDE DEF k
<1>4. f \in Files /\ f \notin Ids(u.at) /\ \A p \in u.done : p.id # f /\ p.id \in Files
  BY <1>1, <1>3
<1> HIDE DEF f
<1>5. T \in SUBSET Pieces /\ IsFiniteSet(T)
  BY <1>1, FS_Union
<1>6. Count(T, Category[f]) \in Nat
  <2>1. {p \in Links(T) : Category[p.id] = Category[f]} \subseteq T
    BY DEF Links
  <2> QED
    BY <1>5, <2>1, FS_Subset, FS_CardinalityType DEF Count
<1>7. z = [id |-> f, n |-> IF f \in Named THEN 0 ELSE Count(T, Category[f]) + 1]
  BY DEF Snippet
<1> HIDE DEF z, T
<1>8. /\ z.id = f /\ (z.n = 0 \/ z.n = Count(T, Category[z.id]) + 1) /\ z \in Pieces
  <2> DEFINE m == IF f \in Named THEN 0 ELSE Count(T, Category[f]) + 1
  <2>1. m \in Nat /\ (m = 0 \/ m = Count(T, Category[f]) + 1)
    BY <1>6
  <2>2. z = [id |-> f, n |-> m]
    BY <1>7
  <2> HIDE DEF m
  <2> QED
    BY <1>4, <2>1, <2>2 DEF Pieces
<1>9. z \notin T
  BY <1>4, <1>8 DEF T, Ids
<1>10. IsFiniteSet(u.done \cup {z}) /\ Cardinality(u.done \cup {z}) = k
  BY <1>1, <1>9, FS_AddElement DEF T, k
<1>11. Counted(T) => Counted(T \cup {z})
  BY <1>4, <1>5, <1>8, <1>9, CountedAdd
<1>12. T \cup {z} = u.at \cup (u.done \cup {z})
  BY DEF T
<1>13. Counted(u.at \cup u.done) => Counted(u.at \cup (u.done \cup {z}))
  BY <1>11, <1>12 DEF T
<1>14. z \notin u.at \cup u.done /\ \A p \in u.done \cup {z} : p.id \in Files
  BY <1>4, <1>8, <1>9 DEF T
<1> QED
  BY <1>3, <1>4, <1>8, <1>10, <1>13, <1>14 DEF k, f, z

-----------------------------------------------------------------------------
(* The text.                                                               *)

LEMMA TurnFacts ==
  ASSUME TypeInv, Turn
  PROVE  turns' \in 0 .. MaxTurns
BY BoundAssumption DEF TypeInv, Turn

LEMMA Texted ==
  ASSUME NEW v \in Cards, NEW T \in SUBSET Pieces, IsFiniteSet(T), Good(v)
  PROVE  LET x == [v EXCEPT !.text = T]
         IN  Good(x) /\ x.text = T /\ x.tags = v.tags /\ x.deps = v.deps
<1> DEFINE x == [v EXCEPT !.text = T]
<1>1. x \in Cards /\ x.text = T /\ x.tags = v.tags /\ x.deps = v.deps
  BY DEF Cards
<1> HIDE DEF x
<1>2. Good(x)
  BY <1>1 DEF Good
<1> QED
  BY <1>1, <1>2 DEF x

(* The user changes the text in the pieces D.                              *)
LEMMA TextStep ==
  ASSUME IInv, NEW T \in SUBSET Pieces, NEW D, IsFiniteSet(T), T \ D = form.text \ D,
         form' = [form EXCEPT !.text = T], turns' \in 0 .. MaxTurns,
         UNCHANGED <<box, open, query, net>>,
         touched' = IF Message /\ ups # <<>> THEN touched \cup D ELSE touched,
         Items(form)' \ touched' = mine' \ touched',
         muddled' \in BOOLEAN,
         ~muddled' => ~muddled /\ (Links(T) = Links(form.text) \/ (Message /\ T = {}))
  PROVE  IInv'
<1>1. TypeInv /\ form \in Cards /\ Good(form)
  BY DEF IInv, TypeInv, Good
<1>2. Good(form') /\ form'.text = T /\ form'.tags = form.tags /\ form'.deps = form.deps
  BY <1>1, Texted
<1>3. /\ box' = box /\ open' = open /\ query' = query /\ uploading' = uploading /\ ups' = ups
      /\ calls' = calls /\ stored' = stored /\ load' = load /\ (Message' <=> Message)
  BY DEF net, Message
<1>4. TypeInv'
  BY <1>1, <1>2, <1>3 DEF TypeInv, UpsOK, CallsOK, LoadOK
<1>5. OfMessage'
  <2>1. ASSUME Message, NEW i \in DOMAIN ups
        PROVE  ups[i].at \ touched' = T \ touched'
    <3>1. touched' = touched \cup D /\ ups[i].at \ touched = form.text \ touched
      BY <2>1 DEF IInv, OfMessage
    <3> QED
      BY <3>1
  <2> QED
    BY <1>2, <1>3, <2>1 DEF IInv, OfMessage
<1>6. WhatWasPutIn'
  BY DEF WhatWasPutIn
<1>7. Numbers'
  <2> SUFFICES ASSUME ~muddled' PROVE Numbers'
    BY DEF Numbers
  <2>1. /\ ~muddled /\ Counted(form.text) /\ \A i, j \in DOMAIN ups : i = j
        /\ \A i \in DOMAIN ups :
               /\ Counted(ups[i].at \cup ups[i].done)
               /\ IF Message THEN Links(form.text) \subseteq Links(ups[i].at)
                  ELSE Links(form.text) = Links(ups[i].at)
    BY DEF IInv, Numbers
  <2>2. Counted(T)
    <3>1. CASE Links(T) = Links(form.text)
      BY <2>1, <3>1, CountedLinks
    <3>2. CASE T = {}
      BY <3>2 DEF Counted, Links
    <3> QED
      BY <3>1, <3>2
  <2>3. Links(T) = Links(form.text) \/ (Message /\ Links(T) = {})
    BY DEF Links
  <2> QED
    BY <1>2, <1>3, <2>1, <2>2, <2>3 DEF Numbers
<1> QED
  BY <1>4, <1>5, <1>6, <1>7 DEF IInv

LEMMA TypingStep ==
  ASSUME IInv, Typing
  PROVE  IInv'
<1>1. TypeInv /\ form \in Cards /\ Good(form) /\ form.text \subseteq Pieces
      /\ IsFiniteSet(form.text)
  BY DEF IInv, TypeInv, Good, Cards
<1>2. /\ Items(form) = form.text \cup Chips(form.tags) \cup RangeOf(form.deps)
      /\ \A p \in Pieces : p \notin Chips(form.tags) /\ p \notin RangeOf(form.deps)
  BY <1>1, ItemsFacts
<1>3. Items(form) \ touched = mine \ touched
  BY DEF IInv, WhatWasPutIn
<1>4. ASSUME NEW T \in SUBSET Pieces, IsFiniteSet(T), form' = [form EXCEPT !.text = T]
      PROVE  Items(form)' = T \cup Chips(form.tags) \cup RangeOf(form.deps)
  <2>1. Good(form') /\ form'.text = T /\ form'.tags = form.tags /\ form'.deps = form.deps
    BY <1>1, <1>4, Texted
  <2> QED
    BY <2>1 DEF Items, Chips
<1>5. ASSUME NEW x \in Words, Type(x)
      PROVE  IInv'
  <2> DEFINE p == Word(x)
             T == form.text \cup {p}
  <2>1. /\ Turn /\ form' = [form EXCEPT !.text = T] /\ mine' = mine \cup {p} /\ Touch({p})
        /\ UNCHANGED <<box, open, query, net, muddled>>
    BY <1>5 DEF Type
  <2>2. p \in Pieces /\ p.id \notin Files
    BY PieceAssumption DEF Word, Pieces
  <2> HIDE DEF p
  <2>3. T \in SUBSET Pieces /\ IsFiniteSet(T)
    BY <1>1, <2>2, FS_AddElement
  <2>4. Links(T) = Links(form.text)
    BY <2>2 DEF Links
  <2>5. touched' = IF Message /\ ups # <<>> THEN touched \cup {p} ELSE touched
    BY <2>1 DEF Touch
  <2>6. Items(form)' \ touched' = mine' \ touched'
    <3>1. Items(form)' = Items(form) \cup {p}
      BY <1>2, <1>4, <2>1, <2>3
    <3> QED
      BY <1>3, <2>1, <2>5, <3>1
  <2>7. turns' \in 0 .. MaxTurns /\ muddled' = muddled /\ muddled \in BOOLEAN
    BY <1>1, <2>1, TurnFacts DEF TypeInv
  <2>8. T \ {p} = form.text \ {p}
    OBVIOUS
  <2> HIDE DEF T
  <2>9. UNCHANGED <<box, open, query, net>> /\ muddled' \in BOOLEAN
        /\ (~muddled' => ~muddled /\ (Links(T) = Links(form.text) \/ (Message /\ T = {})))
    BY <2>1, <2>4, <2>7
  <2> QED
    BY <2>1, <2>3, <2>5, <2>6, <2>7, <2>8, <2>9, TextStep
<1>6. ASSUME NEW p \in form.text, Erase(p)
      PROVE  IInv'
  <2> DEFINE T == form.text \ {p}
  <2>1. /\ Turn /\ form' = [form EXCEPT !.text = T] /\ mine' = mine \ {p} /\ Touch({p})
        /\ muddled' = (muddled \/ p.id \in Files)
        /\ UNCHANGED <<box, open, query, net>>
    BY <1>6 DEF Erase
  <2>2. T \in SUBSET Pieces /\ IsFiniteSet(T)
    BY <1>1, FS_Subset
  <2>3. p.id \notin Files => Links(T) = Links(form.text)
    BY DEF Links
  <2>4. touched' = IF Message /\ ups # <<>> THEN touched \cup {p} ELSE touched
    BY <2>1 DEF Touch
  <2>5. Items(form)' \ touched' = mine' \ touched'
    <3>1. p \in Pieces
      BY <1>1
    <3>2. Items(form)' = Items(form) \ {p}
      BY <1>2, <1>4, <2>1, <2>2, <3>1
    <3> QED
      BY <1>3, <2>1, <2>4, <3>2
  <2>6. turns' \in 0 .. MaxTurns /\ muddled' \in BOOLEAN
    BY <1>1, <2>1, TurnFacts DEF TypeInv
  <2>7. T \ {p} = form.text \ {p}
    OBVIOUS
  <2> HIDE DEF T
  <2>8. UNCHANGED <<box, open, query, net>>
        /\ (~muddled' => ~muddled /\ (Links(T) = Links(form.text) \/ (Message /\ T = {})))
    BY <2>1, <2>3
  <2> QED
    BY <2>1, <2>2, <2>4, <2>5, <2>6, <2>7, <2>8, TextStep
<1>7. CASE SendMsg
  <2>1. /\ Message /\ Turn /\ form' = [form EXCEPT !.text = {}] /\ mine' = {}
        /\ Touch(form.text) /\ UNCHANGED <<box, open, query, net, muddled>>
    BY <1>7 DEF SendMsg
  <2>2. {} \in SUBSET Pieces /\ IsFiniteSet({})
    BY FS_EmptySet
  <2>3. touched' = IF Message /\ ups # <<>> THEN touched \cup form.text ELSE touched
    BY <2>1 DEF Touch
  <2>4. Items(form)' \ touched' = mine' \ touched'
    <3>1. form.tags = <<>> /\ form.deps = <<>>
      BY <2>1 DEF IInv, OfMessage
    <3>2. RangeOf(<<>>) = {} /\ Chips(<<>>) = {}
      BY DEF Chips, RangeOf
    <3>3. Items(form)' = {} \cup Chips(form.tags) \cup RangeOf(form.deps)
      BY <1>4, <2>1, <2>2
    <3> QED
      BY <2>1, <3>1, <3>2, <3>3
  <2>5. turns' \in 0 .. MaxTurns /\ muddled' = muddled /\ muddled \in BOOLEAN
    BY <1>1, <2>1, TurnFacts DEF TypeInv
  <2>6. {} \ form.text = form.text \ form.text
    OBVIOUS
  <2>7. UNCHANGED <<box, open, query, net>> /\ muddled' \in BOOLEAN
        /\ (~muddled' => ~muddled /\ (Links({}) = Links(form.text) \/ (Message /\ {} = {})))
    BY <2>1, <2>5
  <2> QED
    BY <2>1, <2>2, <2>3, <2>4, <2>5, <2>6, <2>7, TextStep
<1> QED
  BY <1>5, <1>6, <1>7 DEF Typing

-----------------------------------------------------------------------------
(* Uploads.                                                                *)

LEMMA AttachStep ==
  ASSUME IInv, NEW files \in Batches, Attach(files)
  PROVE  IInv'
<1> DEFINE u == [files |-> files, at |-> form.text, done |-> {}]
           n == Len(ups)
<1>1. /\ Turn /\ Len(ups) < MaxUps
      /\ \A i \in DOMAIN files : files[i] \notin Ids(form.text)
      /\ uploading' = TRUE /\ ups' = Append(ups, u) /\ muddled' = (muddled \/ ups # <<>>)
      /\ UNCHANGED <<box, open, form, query, calls, stored, load, mine, touched>>
  BY DEF Attach, fields
<1>2. /\ TypeInv /\ form.text \subseteq Pieces /\ IsFiniteSet(form.text)
      /\ ups \in Seq(Batch) /\ (\A i \in DOMAIN ups : Underway(ups[i])) /\ MaxUps \in Nat
      /\ muddled \in BOOLEAN
  BY BoundAssumption DEF IInv, TypeInv, UpsOK, Good, Cards
<1>3. /\ files \in Seq(Files) /\ 0 < Len(files)
      /\ \A i, j \in DOMAIN files : files[i] = files[j] => i = j
  <2>1. CASE \E f \in Files : files = <<f>>
    BY <2>1
  <2>2. CASE files \in Files \X Files /\ files[1] # files[2]
    <3>1. PICK f \in Files, g \in Files : files = <<f, g>>
      BY <2>2
    <3> QED
      BY <2>2, <3>1
  <2> QED
    BY <2>1, <2>2 DEF Batches
<1>4. Underway(u)
  <2>1. u \in Batch /\ u.files = files /\ u.at = form.text /\ u.done = {}
    BY <1>2, <1>3 DEF Batch
  <2>2. IsFiniteSet({}) /\ Cardinality({}) = 0
    BY FS_EmptySet
  <2> HIDE DEF u
  <2> QED
    BY <1>1, <1>2, <1>3, <2>1, <2>2 DEF Underway
<1>5. u \in Batch /\ u.at = form.text /\ u.done = {}
  BY <1>4 DEF Underway
<1> HIDE DEF u
<1>6. /\ ups' \in Seq(Batch) /\ Len(ups') <= MaxUps /\ ups' # <<>>
      /\ n \in Nat /\ DOMAIN ups = 1 .. n /\ DOMAIN ups' = 1 .. n + 1
      /\ \A i \in 1 .. n : ups'[i] = ups[i]
      /\ ups'[n + 1] = u /\ (ups = <<>> => n = 0)
  BY <1>1, <1>2, <1>5
<1> HIDE DEF n
<1>7. \A i \in DOMAIN ups' : (i \in DOMAIN ups /\ ups'[i] = ups[i]) \/ i = n + 1
  BY <1>6
<1>8. UpsOK'
  BY <1>1, <1>2, <1>4, <1>6, <1>7 DEF UpsOK
<1>9. TypeInv'
  <2>1. turns' \in 0 .. MaxTurns /\ muddled' \in BOOLEAN
    BY <1>1, <1>2, TurnFacts
  <2> QED
    BY <1>1, <1>2, <1>8, <2>1 DEF TypeInv, CallsOK, LoadOK
<1>10. OfMessage'
  BY <1>1, <1>5, <1>6, <1>7 DEF IInv, OfMessage, Message
<1>11. WhatWasPutIn'
  BY <1>1 DEF IInv, WhatWasPutIn
<1>12. Numbers'
  <2> SUFFICES ASSUME ~muddled' PROVE Numbers'
    BY DEF Numbers
  <2>1. ~muddled /\ n = 0 /\ Counted(form.text)
    BY <1>1, <1>2, <1>6 DEF IInv, Numbers
  <2>2. \A i \in DOMAIN ups' : i = 1 /\ ups'[i] = u
    BY <1>6, <2>1
  <2>3. u.at \cup u.done = form.text
    BY <1>5
  <2> QED
    BY <1>1, <1>5, <2>1, <2>2, <2>3 DEF Numbers
<1> QED
  BY <1>9, <1>10, <1>11, <1>12 DEF IInv

LEMMA UploadedStep ==
  ASSUME IInv, NEW i \in Nat, Uploaded(i)
  PROVE  IInv'
<1> DEFINE u == ups[i]
           k == Cardinality(u.done) + 1
           z == Snippet(u.files[k], u)
           d == u.done \cup {z}
           x == [u EXCEPT !.done = d]
<1>1. /\ i \in DOMAIN ups /\ k < Len(u.files) /\ ups' = [ups EXCEPT ![i].done = @ \cup {z}]
      /\ UNCHANGED <<box, open, form, query, uploading, calls, stored, load, turns, mine, touched,
                     muddled>>
  BY DEF Uploaded, fields
<1>2. TypeInv /\ ups \in Seq(Batch) /\ Underway(u) /\ Len(ups) <= MaxUps /\ i \in DOMAIN ups
  <2>1. TypeInv /\ i \in DOMAIN ups
    BY <1>1 DEF IInv
  <2> QED
    BY <2>1 DEF TypeInv, UpsOK
<1>3. /\ k \in DOMAIN u.files /\ z \in Pieces /\ z.id = u.files[k]
      /\ IsFiniteSet(d) /\ Cardinality(d) = k
      /\ Counted(u.at \cup u.done) => Counted(u.at \cup d)
  BY <1>2, SnippetFacts
<1>4. ups' = [ups EXCEPT ![i] = x]
  BY <1>1
<1>5. \A p \in d : \E j \in 1 .. k : p.id = u.files[j]
  <2>1. Cardinality(u.done) \in Nat /\ \A p \in u.done : \E j \in 1 .. Cardinality(u.done) : p.id = u.files[j]
    BY <1>2, FS_CardinalityType DEF Underway
  <2>2. \A j \in 1 .. Cardinality(u.done) : j \in 1 .. k
    BY <2>1
  <2>3. k \in 1 .. k
    BY <2>1
  <2> HIDE DEF k, z
  <2> QED
    BY <1>3, <2>1, <2>2, <2>3
<1> HIDE DEF z
<1>6. d \subseteq Pieces
  BY <1>2, <1>3 DEF Underway, Batch
<1> HIDE DEF d
<1>7. x \in Batch /\ x.files = u.files /\ x.at = u.at /\ x.done = d
  <2>1. u \in Batch
    BY <1>2 DEF Underway
  <2> HIDE DEF u
  <2> QED
    BY <1>6, <2>1 DEF Batch
<1> HIDE DEF x
<1>8. k < Len(u.files)
  BY <1>1
<1> HIDE DEF k
<1>9. Underway(x)
  BY <1>2, <1>3, <1>5, <1>7, <1>8 DEF Underway
<1>10. /\ ups' \in Seq(Batch) /\ Len(ups') = Len(ups) /\ DOMAIN ups' = DOMAIN ups
       /\ ups'[i] = x /\ \A j \in DOMAIN ups : j # i => ups'[j] = ups[j]
  BY <1>2, <1>4, <1>7
<1>11. UpsOK'
  <2>1. \A j \in DOMAIN ups : Underway(ups[j])
    BY <1>2 DEF TypeInv, UpsOK
  <2>2. \A j \in DOMAIN ups' : Underway(ups'[j])
    BY <1>9, <1>10, <2>1
  <2>3. ups' # <<>>
    BY <1>2, <1>10
  <2>4. uploading' \in BOOLEAN
    BY <1>1, <1>2 DEF TypeInv, UpsOK
  <2>5. Len(ups') <= MaxUps
    BY <1>2, <1>10
  <2> QED
    BY <1>10, <2>2, <2>3, <2>4, <2>5 DEF UpsOK
<1>12. UNCHANGED <<box, open, form, query, calls, stored, load, turns, mine, touched, muddled>>
  BY <1>1
<1>13. TypeInv'
  BY <1>2, <1>11, <1>12 DEF TypeInv, CallsOK, LoadOK
<1>14. \A j \in DOMAIN ups : ups'[j].at = ups[j].at
  BY <1>7, <1>10
<1>15. OfMessage'
  BY <1>10, <1>12, <1>14 DEF IInv, OfMessage, Message
<1>16. WhatWasPutIn'
  BY <1>12 DEF IInv, WhatWasPutIn
<1>17. Numbers'
  <2> SUFFICES ASSUME ~muddled' PROVE Numbers'
    BY DEF Numbers
  <2>1. /\ Counted(form.text) /\ \A m, j \in DOMAIN ups : m = j
        /\ \A j \in DOMAIN ups :
               /\ Counted(ups[j].at \cup ups[j].done)
               /\ IF Message THEN Links(form.text) \subseteq Links(ups[j].at)
                  ELSE Links(form.text) = Links(ups[j].at)
    BY <1>12 DEF IInv, Numbers
  <2>2. \A j \in DOMAIN ups' : Counted(ups'[j].at \cup ups'[j].done)
    <3>1. \A j \in DOMAIN ups' : j = i
      BY <1>2, <1>10, <2>1
    <3>2. Counted(u.at \cup d)
      BY <1>2, <1>3, <2>1
    <3> QED
      BY <1>7, <1>10, <3>1, <3>2
  <2> QED
    BY <1>10, <1>12, <1>14, <2>1, <2>2 DEF Numbers, Message
<1> QED
  BY <1>13, <1>15, <1>16, <1>17 DEF IInv

(* What is left when a batch has ended.                                    *)
LEMMA EndedFacts ==
  ASSUME TypeInv, NEW i \in DOMAIN ups, Ended(i)
  PROVE  UpsOK' /\ \A j \in DOMAIN ups' : \E k \in DOMAIN ups : k # i /\ ups'[j] = ups[k]
<1>1. /\ ups \in Seq(Batch) /\ Len(ups) <= MaxUps /\ MaxUps \in Nat /\ Len(ups) \in Nat
      /\ \A j \in DOMAIN ups : Underway(ups[j])
  BY BoundAssumption DEF TypeInv, UpsOK
<1>2. ups' = Without(ups, i) /\ uploading' = FALSE
  BY DEF Ended
<1>3. /\ ups' \in Seq(Batch) /\ Len(ups') = Len(ups) - 1
      /\ \A j \in DOMAIN ups' : \E k \in DOMAIN ups : k # i /\ ups'[j] = ups[k]
  BY <1>1, <1>2, WithoutFacts
<1>4. \A j \in DOMAIN ups' : Underway(ups'[j])
  BY <1>1, <1>3
<1>5. Len(ups') <= MaxUps
  BY <1>1, <1>3
<1> QED
  BY <1>2, <1>3, <1>4, <1>5 DEF UpsOK

LEMMA UploadFailsStep ==
  ASSUME IInv, NEW i \in Nat, UploadFails(i)
  PROVE  IInv'
<1>1. /\ Turn /\ i \in DOMAIN ups /\ Ended(i)
      /\ UNCHANGED <<box, open, form, query, calls, stored, load, mine, touched, muddled>>
  BY DEF UploadFails, fields
<1>2. TypeInv
  BY DEF IInv
<1>3. UpsOK' /\ \A j \in DOMAIN ups' : \E k \in DOMAIN ups : k # i /\ ups'[j] = ups[k]
  BY <1>1, <1>2, EndedFacts
<1>4. turns' \in 0 .. MaxTurns
  BY <1>1, <1>2, TurnFacts
<1>5. TypeInv'
  BY <1>1, <1>2, <1>3, <1>4 DEF TypeInv, CallsOK, LoadOK
<1>6. OfMessage'
  BY <1>1, <1>3 DEF IInv, OfMessage, Message
<1>7. WhatWasPutIn'
  BY <1>1 DEF IInv, WhatWasPutIn
<1>8. Numbers'
  <2> SUFFICES ASSUME ~muddled' PROVE Numbers'
    BY DEF Numbers
  <2>1. ~muddled /\ Counted(form.text) /\ \A m, j \in DOMAIN ups : m = j
    BY <1>1 DEF IInv, Numbers
  <2>2. DOMAIN ups' = {}
    BY <1>1, <1>3, <2>1
  <2> QED
    BY <1>1, <2>1, <2>2 DEF Numbers
<1> QED
  BY <1>5, <1>6, <1>7, <1>8 DEF IInv

LEMMA PlaceStep ==
  ASSUME IInv, NEW i \in Nat, NEW chosen \in SUBSET form.text, Place(i, chosen)
  PROVE  IInv'
<1> DEFINE u     == ups[i]
           z     == Snippet(u.files[Len(u.files)], u)
           links == u.done \cup {z}
           T     == Placed(links, u, chosen)
<1>1. /\ i \in DOMAIN ups /\ Cardinality(u.done) + 1 = Len(u.files)
      /\ (Message => chosen = {}) /\ form' = [form EXCEPT !.text = T] /\ Ended(i)
      /\ mine' = (mine \ chosen) \cup links
      /\ touched' = IF Message /\ Len(ups) > 1 THEN touched \cup links ELSE touched
      /\ muddled' = (muddled \/ Links(form.text) \ T # {})
      /\ UNCHANGED <<box, open, query, calls, stored, load, turns>>
  BY DEF Place
<1>2. /\ TypeInv /\ Underway(u) /\ form \in Cards /\ Good(form) /\ ups \in Seq(Batch)
      /\ form.text \subseteq Pieces /\ IsFiniteSet(form.text)
  BY <1>1 DEF IInv, TypeInv, UpsOK, Good, Cards
<1>3. /\ z \in Pieces /\ z \notin u.at \cup u.done /\ IsFiniteSet(links)
      /\ Counted(u.at \cup u.done) => Counted(u.at \cup links)
      /\ \A p \in links : p.id \in Files
  BY <1>1, <1>2, SnippetFacts
<1>4. u.at \subseteq Pieces /\ IsFiniteSet(u.at) /\ links \subseteq Pieces
  BY <1>2, <1>3 DEF Underway, Batch
<1> HIDE DEF z, links
<1>5. T = IF Message THEN links \cup u.at ELSE links \cup (form.text \ chosen)
  BY <1>1 DEF Placed
<1> HIDE DEF T
<1>6. T \in SUBSET Pieces /\ IsFiniteSet(T)
  <2>1. CASE Message
    BY <1>3, <1>4, <1>5, <2>1, FS_Union
  <2>2. CASE ~Message
    <3>1. IsFiniteSet(form.text \ chosen)
      BY <1>2, FS_Subset
    <3> QED
      BY <1>2, <1>3, <1>4, <1>5, <2>2, <3>1, FS_Union
  <2> QED
    BY <2>1, <2>2
<1>7. /\ UpsOK' /\ \A j \in DOMAIN ups' : \E k \in DOMAIN ups : k # i /\ ups'[j] = ups[k]
  BY <1>1, <1>2, EndedFacts
<1>8. Good(form') /\ form'.text = T /\ form'.tags = form.tags /\ form'.deps = form.deps
  BY <1>1, <1>2, <1>6, Texted
<1>9. (Message' <=> Message) /\ muddled' \in BOOLEAN
  BY <1>1 DEF Message
<1>10. TypeInv'
  BY <1>1, <1>2, <1>7, <1>8, <1>9 DEF TypeInv, CallsOK, LoadOK
<1>11. Message => \A j \in DOMAIN ups : ups[j].at \ touched = form.text \ touched
  BY DEF IInv, OfMessage
<1>12. OfMessage'
  <2>1. ASSUME Message, NEW j \in DOMAIN ups'
        PROVE  ups'[j].at \ touched' = T \ touched'
    <3>1. PICK k \in DOMAIN ups : k # i /\ ups'[j] = ups[k]
      BY <1>7
    <3>2. Len(ups) > 1
      BY <1>1, <1>2, <3>1
    <3>3. touched' = touched \cup links
      BY <1>1, <2>1, <3>2
    <3>4. ups[k].at \ touched = form.text \ touched /\ u.at \ touched = form.text \ touched
      BY <1>1, <1>11, <2>1
    <3> QED
      BY <1>5, <2>1, <3>1, <3>3, <3>4
  <2> QED
    BY <1>1, <1>8, <1>9, <2>1 DEF IInv, OfMessage
<1>13. WhatWasPutIn'
  <2>1. /\ Items(form) = form.text \cup Chips(form.tags) \cup RangeOf(form.deps)
        /\ \A p \in Pieces : p \notin Chips(form.tags) /\ p \notin RangeOf(form.deps)
    BY <1>2, ItemsFacts
  <2>2. Items(form)' = T \cup Chips(form.tags) \cup RangeOf(form.deps)
    BY <1>8 DEF Items, Chips
  <2>3. Items(form) \ touched = mine \ touched
    BY DEF IInv, WhatWasPutIn
  <2>4. touched \subseteq touched'
    BY <1>1
  <2>5. CASE Message
    <3>1. RangeOf(form.deps) = {} /\ Chips(form.tags) = {}
      BY <2>5 DEF IInv, OfMessage, RangeOf, Chips
    <3>2. u.at \ touched = form.text \ touched
      BY <1>1, <1>11, <2>5
    <3>3. mine' = mine \cup links
      BY <1>1, <2>5
    <3> QED
      BY <1>5, <2>1, <2>2, <2>3, <2>4, <2>5, <3>1, <3>2, <3>3 DEF WhatWasPutIn
  <2>6. CASE ~Message
    <3>1. Items(form)' = (Items(form) \ chosen) \cup links
      BY <1>2, <1>5, <2>1, <2>2, <2>6
    <3> QED
      BY <1>1, <2>3, <2>4, <3>1 DEF WhatWasPutIn
  <2> QED
    BY <2>5, <2>6
<1>14. Numbers'
  <2> SUFFICES ASSUME ~muddled' PROVE Numbers'
    BY DEF Numbers
  <2>1. ~muddled /\ Links(form.text) \subseteq T
    BY <1>1
  <2>2. /\ Counted(u.at \cup u.done) /\ \A m, j \in DOMAIN ups : m = j
        /\ Message \/ Links(form.text) = Links(u.at)
    BY <1>1, <2>1 DEF IInv, Numbers
  <2>3. DOMAIN ups' = {}
    BY <1>1, <1>7, <2>2
  <2>4. Counted(u.at \cup links)
    BY <1>3, <2>2
  <2>5. Links(u.at \cup links) = Links(T)
    <3>1. CASE Message
      BY <1>5, <3>1 DEF Links
    <3>2. CASE ~Message
      <4>1. Links(form.text) = Links(u.at)
        BY <2>2, <3>2
      <4>2. Links(T) = Links(links) \cup Links(form.text)
        BY <1>5, <2>1, <3>2 DEF Links
      <4>3. Links(u.at \cup links) = Links(u.at) \cup Links(links)
        BY DEF Links
      <4> QED
        BY <4>1, <4>2, <4>3
    <3> QED
      BY <3>1, <3>2
  <2>6. Counted(T)
    BY <2>4, <2>5, CountedLinks
  <2> QED
    BY <1>8, <2>3, <2>6 DEF Numbers
<1> QED
  BY <1>10, <1>12, <1>13, <1>14 DEF IInv

LEMMA UploadsStep ==
  ASSUME IInv, Uploads
  PROVE  IInv'
<1>1. \A i \in 1 .. MaxUps : i \in Nat
  BY BoundAssumption
<1> QED
  BY <1>1, AttachStep, UploadedStep, UploadFailsStep, PlaceStep DEF Uploads, PickFiles, DropFiles

-----------------------------------------------------------------------------
(* The tags and the dependencies.                                          *)

LEMMA FieldStep ==
  ASSUME IInv, ~Message, Good(form'), form'.text = form.text, query' \in Seq(Tags),
         UNCHANGED <<box, open, net, muddled>>, turns' \in 0 .. MaxTurns, WhatWasPutIn'
  PROVE  IInv'
<1>1. /\ box' = box /\ open' = open /\ uploading' = uploading /\ ups' = ups /\ calls' = calls
      /\ stored' = stored /\ load' = load /\ muddled' = muddled /\ ~Message'
  BY DEF net, Message
<1>2. TypeInv'
  BY <1>1 DEF IInv, TypeInv, UpsOK, CallsOK, LoadOK
<1>3. OfMessage' /\ Numbers'
  BY <1>1 DEF IInv, OfMessage, Numbers
<1> QED
  BY <1>2, <1>3 DEF IInv

LEMMA TagAppended ==
  ASSUME NEW tags \in Seq(Tags), Apart(tags), NEW t \in Tags, t \notin RangeOf(tags)
  PROVE  /\ Append(tags, t) \in Seq(Tags) /\ Apart(Append(tags, t))
         /\ RangeOf(Append(tags, t)) = RangeOf(tags) \cup {t}
<1> DEFINE s == Append(tags, t)
           n == Len(tags)
<1>1. /\ s \in Seq(Tags) /\ n \in Nat /\ DOMAIN tags = 1 .. n /\ DOMAIN s = 1 .. n + 1
      /\ s[n + 1] = t /\ \A i \in 1 .. n : s[i] = tags[i]
  OBVIOUS
<1> HIDE DEF s, n
<1>2. \A i \in 1 .. n + 1 : i \in 1 .. n \/ i = n + 1
  BY <1>1
<1>3. Apart(s)
  BY <1>1, <1>2 DEF Apart, RangeOf
<1>4. RangeOf(s) = RangeOf(tags) \cup {t}
  <2>1. n + 1 \in 1 .. n + 1 /\ \A i \in 1 .. n : i \in 1 .. n + 1
    BY <1>1
  <2> QED
    BY <1>1, <1>2, <2>1 DEF RangeOf
<1> QED
  BY <1>1, <1>3, <1>4 DEF s

LEMMA TagKept ==
  ASSUME NEW tags \in Seq(Tags), Apart(tags), NEW t
  PROVE  LET s == Kept(tags, {i \in DOMAIN tags : tags[i] # t})
         IN  s \in Seq(Tags) /\ Apart(s) /\ RangeOf(s) = RangeOf(tags) \ {t}
<1> DEFINE P == {i \in DOMAIN tags : tags[i] # t}
           s == Kept(tags, P)
<1>1. P \in SUBSET DOMAIN tags
  OBVIOUS
<1>2. PICK at \in [1 .. Len(s) -> P] :
          /\ s \in Seq(Tags)
          /\ \A j \in 1 .. Len(s) : s[j] = tags[at[j]]
          /\ \A i, j \in 1 .. Len(s) : i < j => at[i] < at[j]
          /\ \A k \in P : \E j \in 1 .. Len(s) : at[j] = k
  <2> HIDE DEF P, s
  <2>1. s = Kept(tags, P)
    BY DEF s
  <2> QED
    BY <1>1, <2>1, KeptFacts, SMTT(20)
<1> HIDE DEF s
<1>5. /\ DOMAIN s = 1 .. Len(s) /\ Len(s) \in Nat
      /\ \A j \in DOMAIN s : at[j] \in P /\ s[j] = tags[at[j]]
  <2> HIDE DEF P
  <2> QED
    BY <1>2, LenProperties
<1>3. Apart(s)
  <2> SUFFICES ASSUME NEW i \in DOMAIN s, NEW j \in DOMAIN s, s[i] = s[j], i # j
               PROVE  FALSE
    BY DEF Apart
  <2>1. at[i] = at[j]
    BY <1>5 DEF Apart
  <2>2. i \in 1 .. Len(s) /\ j \in 1 .. Len(s) /\ i \in Nat /\ j \in Nat
    BY <1>5
  <2>3. at[i] \in Nat /\ at[j] \in Nat
    BY <1>5, LenProperties
  <2>4. i < j \/ j < i
    BY <2>2
  <2> HIDE DEF P
  <2> QED
    BY <1>2, <2>1, <2>2, <2>3, <2>4
<1>4. RangeOf(s) = RangeOf(tags) \ {t}
  <2>1. \A j \in DOMAIN s : s[j] \in RangeOf(tags) \ {t}
    BY <1>5 DEF RangeOf
  <2>2. \A k \in DOMAIN tags : tags[k] # t => \E j \in DOMAIN s : s[j] = tags[k]
    BY <1>2, <1>5
  <2> QED
    BY <2>1, <2>2 DEF RangeOf
<1> QED
  BY <1>2, <1>3, <1>4 DEF s

LEMMA TagCut ==
  ASSUME NEW tags \in Seq(Tags), Apart(tags), tags # <<>>
  PROVE  LET s == SubSeq(tags, 1, Len(tags) - 1)
         IN  /\ s \in Seq(Tags) /\ Apart(s) /\ tags[Len(tags)] \in Tags
             /\ RangeOf(s) = RangeOf(tags) \ {tags[Len(tags)]}
<1> DEFINE s == SubSeq(tags, 1, Len(tags) - 1)
           n == Len(tags)
<1>1. n \in Nat /\ n > 0 /\ DOMAIN tags = 1 .. n /\ \A i \in 1 .. n : tags[i] \in Tags
  BY LenProperties, EmptySeq
<1>2. /\ s \in Seq(Tags) /\ DOMAIN s = 1 .. n - 1 /\ \A i \in 1 .. n - 1 : s[i] = tags[i]
  BY <1>1, SubSeqProperties
<1> HIDE DEF s, n
<1>3. \A i \in 1 .. n : (i \in 1 .. n - 1 /\ i # n) \/ (i = n /\ i \notin 1 .. n - 1)
  BY <1>1
<1>4. n \in 1 .. n /\ \A i \in 1 .. n - 1 : i \in 1 .. n /\ i # n
  BY <1>1
<1>5. Apart(s)
  BY <1>1, <1>2, <1>4 DEF Apart
<1>6. RangeOf(s) = RangeOf(tags) \ {tags[n]}
  BY <1>1, <1>2, <1>3, <1>4 DEF Apart, RangeOf
<1> QED
  BY <1>1, <1>2, <1>4, <1>5, <1>6 DEF s, n

(* Of the names in the field, the last new one becomes a tag.              *)
LEMMA CommittedFacts ==
  ASSUME Good(form), NEW names \in Seq(Tags)
  PROVE  LET s == Committed(names)
         IN  /\ s \in Seq(Tags) /\ Apart(s)
             /\ RangeOf(form.tags) \subseteq RangeOf(s)
             /\ RangeOf(s) \subseteq RangeOf(form.tags) \cup RangeOf(names)
             /\ Len(names) <= 1 => RangeOf(s) = RangeOf(form.tags) \cup RangeOf(names)
<1> DEFINE P == {i \in DOMAIN names : names[i] \notin RangeOf(form.tags)}
           new == New(names)
           s == Committed(names)
<1>1. form.tags \in Seq(Tags) /\ Apart(form.tags)
  BY DEF Good, Cards
<1>2. PICK at \in [DOMAIN new -> P] :
          /\ new \in Seq(Tags)
          /\ \A j \in DOMAIN new : new[j] = names[at[j]]
          /\ \A k \in P : \E j \in DOMAIN new : new[j] = names[k]
  <2>1. P \in SUBSET DOMAIN names /\ new = Kept(names, P)
    BY DEF New
  <2> HIDE DEF P, new
  <2>2. PICK at \in [1 .. Len(new) -> P] :
            /\ new \in Seq(Tags)
            /\ \A j \in 1 .. Len(new) : new[j] = names[at[j]]
            /\ \A k \in P : \E j \in 1 .. Len(new) : at[j] = k
    BY <2>1, KeptFacts, SMTT(20)
  <2>3. DOMAIN new = 1 .. Len(new)
    BY <2>2
  <2> QED
    BY <2>2, <2>3
<1>3. CASE new = <<>>
  <2>1. s = form.tags
    BY <1>3 DEF Committed
  <2>2. P = {}
    BY <1>2, <1>3
  <2>3. RangeOf(names) \subseteq RangeOf(form.tags)
    BY <2>2 DEF RangeOf
  <2> QED
    BY <1>1, <2>1, <2>3
<1>4. CASE new # <<>>
  <2> DEFINE t == new[Len(new)]
             m == at[Len(new)]
  <2>1. s = Append(form.tags, t)
    BY <1>4 DEF Committed
  <2>2. Len(new) \in DOMAIN new
    BY <1>2, <1>4, LenProperties, EmptySeq
  <2>3. m \in DOMAIN names /\ t = names[m] /\ t \notin RangeOf(form.tags) /\ t \in Tags
    BY <1>2, <2>2
  <2> HIDE DEF t, m, new, s, P
  <2>4. /\ s \in Seq(Tags) /\ Apart(s) /\ RangeOf(s) = RangeOf(form.tags) \cup {t}
    BY <1>1, <2>1, <2>3, TagAppended
  <2>5. t \in RangeOf(names)
    BY <2>3 DEF RangeOf
  <2>6. ASSUME Len(names) <= 1
        PROVE  RangeOf(names) = {t}
    <3>1. \A i \in DOMAIN names : i = m
      BY <2>3, <2>6
    <3> QED
      BY <2>3, <3>1 DEF RangeOf
  <2> QED
    BY <2>4, <2>5, <2>6 DEF s
<1> QED
  BY <1>3, <1>4

LEMMA Retagged ==
  ASSUME Good(form), NEW tags \in Seq(Tags), Apart(tags), form' = [form EXCEPT !.tags = tags]
  PROVE  /\ Good(form') /\ form'.text = form.text
         /\ Items(form)' = form.text \cup Chips(tags) \cup RangeOf(form.deps)
<1>1. /\ form' \in Cards /\ form'.text = form.text /\ form'.tags = tags
      /\ form'.deps = form.deps
  BY DEF Good, Cards
<1> QED
  BY <1>1 DEF Good, Items, Chips

LEMMA TagsStep ==
  ASSUME IInv,
         \/ \E names \in Pasted : TypeTags(names)
         \/ Commit \/ Backspace \/ \E t \in Tags : AddTag(t) \/ RemoveTag(t)
  PROVE  IInv'
<1>1. /\ TypeInv /\ form \in Cards /\ Good(form) /\ form.tags \in Seq(Tags)
      /\ Apart(form.tags) /\ query \in Seq(Tags)
  BY DEF IInv, TypeInv, Good, Cards
<1>2. /\ Items(form) = form.text \cup Chips(form.tags) \cup RangeOf(form.deps)
      /\ \A t : Chip(t) \notin form.text /\ Chip(t) \notin RangeOf(form.deps)
  BY <1>1, ItemsFacts
<1>3. Items(form) \ touched = mine \ touched
  BY DEF IInv, WhatWasPutIn
<1>4. <<>> \in Seq(Tags) /\ turns \in 0 .. MaxTurns
  BY <1>1 DEF TypeInv
<1>5. ASSUME NEW names \in Pasted, TypeTags(names)
      PROVE  IInv'
  <2>1. /\ ~Message /\ Turn /\ query' = names
        /\ UNCHANGED <<box, open, form, net, mine, touched, muddled>>
    BY <1>5 DEF TypeTags, Field
  <2>2. names \in Seq(Tags)
    <3>1. CASE \E t \in Tags : names = <<t>>
      BY <3>1
    <3>2. CASE names \in Tags \X Tags
      <4>1. PICK t \in Tags, o \in Tags : names = <<t, o>>
        BY <3>2
      <4> QED
        BY <4>1
    <3> QED
      BY <3>1, <3>2 DEF Pasted
  <2>3. WhatWasPutIn'
    BY <1>3, <2>1 DEF WhatWasPutIn
  <2>4. turns' \in 0 .. MaxTurns
    BY <1>1, <2>1, TurnFacts
  <2> QED
    BY <1>1, <2>1, <2>2, <2>3, <2>4, FieldStep
<1>6. CASE Commit
  <2> DEFINE s == Committed(query)
             put == {Chip(t) : t \in RangeOf(query)}
  <2>1. /\ query # <<>> /\ query' = <<>> /\ turns' = turns /\ form' = [form EXCEPT !.tags = s]
        /\ mine' = (mine \ {}) \cup put /\ UNCHANGED <<box, open, net, muddled>>
        /\ touched' = IF Len(query) > 1 THEN touched \cup put ELSE touched
    BY <1>6 DEF Commit, Change
  <2>2. /\ s \in Seq(Tags) /\ Apart(s) /\ RangeOf(form.tags) \subseteq RangeOf(s)
        /\ RangeOf(s) \subseteq RangeOf(form.tags) \cup RangeOf(query)
        /\ Len(query) <= 1 => RangeOf(s) = RangeOf(form.tags) \cup RangeOf(query)
    BY <1>1, CommittedFacts
  <2> HIDE DEF s
  <2>3. /\ Good(form') /\ form'.text = form.text
        /\ Items(form)' = form.text \cup Chips(s) \cup RangeOf(form.deps)
    BY <1>1, <2>1, <2>2, Retagged
  <2>4. /\ Chips(form.tags) \subseteq Chips(s) /\ Chips(s) \subseteq Chips(form.tags) \cup put
        /\ Len(query) <= 1 => Chips(s) = Chips(form.tags) \cup put
    BY <2>2 DEF Chips
  <2>5. ~Message
    BY <2>1 DEF IInv, OfMessage
  <2> HIDE DEF put
  <2>6. WhatWasPutIn'
    <3>1. CASE Len(query) > 1
      <4>1. touched' = touched \cup put
        BY <2>1, <3>1
      <4> QED
        BY <1>2, <1>3, <2>1, <2>3, <2>4, <4>1 DEF WhatWasPutIn
    <3>2. CASE Len(query) <= 1
      <4>1. touched' = touched
        BY <1>1, <2>1, <3>2
      <4> QED
        BY <1>2, <1>3, <2>1, <2>3, <2>4, <3>2, <4>1 DEF WhatWasPutIn
    <3>3. Len(query) \in Nat
      BY <1>1
    <3> QED
      BY <3>1, <3>2, <3>3
  <2> QED
    BY <1>4, <2>1, <2>3, <2>5, <2>6, FieldStep
<1>7. CASE Backspace
  <2> DEFINE s == SubSeq(form.tags, 1, Len(form.tags) - 1)
             t == form.tags[Len(form.tags)]
  <2>1. /\ ~Message /\ Turn /\ form.tags # <<>> /\ form' = [form EXCEPT !.tags = s]
        /\ mine' = (mine \ {Chip(t)}) \cup {} /\ UNCHANGED <<box, open, net, muddled>>
        /\ query' = query /\ touched' = touched
    BY <1>7 DEF Backspace, Change, Field
  <2>2. s \in Seq(Tags) /\ Apart(s) /\ RangeOf(s) = RangeOf(form.tags) \ {t}
    BY <1>1, <2>1, TagCut
  <2> HIDE DEF s, t
  <2>3. /\ Good(form') /\ form'.text = form.text
        /\ Items(form)' = form.text \cup Chips(s) \cup RangeOf(form.deps)
    BY <1>1, <2>1, <2>2, Retagged
  <2>4. Chips(s) = Chips(form.tags) \ {Chip(t)}
    BY <2>2, ChipsApart DEF Chips
  <2>5. WhatWasPutIn'
    BY <1>2, <1>3, <2>1, <2>3, <2>4 DEF WhatWasPutIn
  <2>6. turns' \in 0 .. MaxTurns
    BY <1>1, <2>1, TurnFacts
  <2> QED
    BY <1>1, <2>1, <2>3, <2>5, <2>6, FieldStep
<1>8. ASSUME NEW t \in Tags, AddTag(t)
      PROVE  IInv'
  <2> DEFINE s == Append(form.tags, t)
  <2>1. /\ ~Message /\ Turn /\ t \notin RangeOf(form.tags) /\ form' = [form EXCEPT !.tags = s]
        /\ mine' = (mine \ {}) \cup {Chip(t)} /\ UNCHANGED <<box, open, net, muddled>>
        /\ query' = <<>> /\ touched' = touched
    BY <1>8 DEF AddTag, Change, Field
  <2>2. s \in Seq(Tags) /\ Apart(s) /\ RangeOf(s) = RangeOf(form.tags) \cup {t}
    BY <1>1, <2>1, TagAppended
  <2> HIDE DEF s
  <2>3. /\ Good(form') /\ form'.text = form.text
        /\ Items(form)' = form.text \cup Chips(s) \cup RangeOf(form.deps)
    BY <1>1, <2>1, <2>2, Retagged
  <2>4. Chips(s) = Chips(form.tags) \cup {Chip(t)}
    BY <2>2 DEF Chips
  <2>5. WhatWasPutIn'
    BY <1>2, <1>3, <2>1, <2>3, <2>4 DEF WhatWasPutIn
  <2>6. turns' \in 0 .. MaxTurns
    BY <1>1, <2>1, TurnFacts
  <2> QED
    BY <1>4, <2>1, <2>3, <2>5, <2>6, FieldStep
<1>9. ASSUME NEW t \in Tags, RemoveTag(t)
      PROVE  IInv'
  <2> DEFINE s == Kept(form.tags, {i \in DOMAIN form.tags : form.tags[i] # t})
  <2>1. /\ ~Message /\ Turn /\ form' = [form EXCEPT !.tags = s]
        /\ mine' = (mine \ {Chip(t)}) \cup {} /\ UNCHANGED <<box, open, net, muddled>>
        /\ query' = query /\ touched' = touched
    BY <1>9 DEF RemoveTag, Change, Field
  <2>2. s \in Seq(Tags) /\ Apart(s) /\ RangeOf(s) = RangeOf(form.tags) \ {t}
    BY <1>1, TagKept
  <2> HIDE DEF s
  <2>3. /\ Good(form') /\ form'.text = form.text
        /\ Items(form)' = form.text \cup Chips(s) \cup RangeOf(form.deps)
    BY <1>1, <2>1, <2>2, Retagged
  <2>4. Chips(s) = Chips(form.tags) \ {Chip(t)}
    BY <2>2, ChipsApart DEF Chips
  <2>5. WhatWasPutIn'
    BY <1>2, <1>3, <2>1, <2>3, <2>4 DEF WhatWasPutIn
  <2>6. turns' \in 0 .. MaxTurns
    BY <1>1, <2>1, TurnFacts
  <2> QED
    BY <1>1, <2>1, <2>3, <2>5, <2>6, FieldStep
<1> QED
  BY <1>5, <1>6, <1>7, <1>8, <1>9

LEMMA RowsStep ==
  ASSUME IInv, NEW deps \in Seq(Dependency), Field, Rows(deps)
  PROVE  IInv'
<1>1. /\ ~Message /\ Turn /\ form' = [form EXCEPT !.deps = deps]
      /\ mine' = (mine \ RangeOf(form.deps)) \cup RangeOf(deps)
      /\ UNCHANGED <<box, open, net, muddled>> /\ query' = query /\ touched' = touched
  BY DEF Rows, Field, Change
<1>2. TypeInv /\ form \in Cards /\ Good(form) /\ query \in Seq(Tags)
  BY DEF IInv, TypeInv, Good
<1>3. /\ Items(form) = form.text \cup Chips(form.tags) \cup RangeOf(form.deps)
      /\ RangeOf(form.deps) \subseteq Dependency
      /\ \A d \in Dependency : d \notin form.text /\ d \notin Chips(form.tags)
  BY <1>2, ItemsFacts
<1>4. Items(form) \ touched = mine \ touched
  BY DEF IInv, WhatWasPutIn
<1>5. /\ form' \in Cards /\ form'.text = form.text /\ form'.tags = form.tags
      /\ form'.deps = deps
  BY <1>1, <1>2 DEF Cards
<1>6. Good(form')
  BY <1>2, <1>5 DEF Good
<1>7. Items(form)' = form.text \cup Chips(form.tags) \cup RangeOf(deps)
  BY <1>5 DEF Items, Chips
<1>8. WhatWasPutIn'
  BY <1>1, <1>3, <1>4, <1>7 DEF WhatWasPutIn
<1>9. turns' \in 0 .. MaxTurns
  BY <1>1, <1>2, TurnFacts
<1> QED
  BY <1>1, <1>2, <1>5, <1>6, <1>8, <1>9, FieldStep

LEMMA FieldsStep ==
  ASSUME IInv, Fields
  PROVE  IInv'
<1>1. form.deps \in Seq(Dependency)
  BY DEF IInv, TypeInv, Good, Cards
<1>2. CASE AddDep
  <2>1. [task_id |-> NoTask, required_state |-> "done"] \in Dependency
    BY DEF Dependency
  <2>2. Append(form.deps, [task_id |-> NoTask, required_state |-> "done"]) \in Seq(Dependency)
    BY <1>1, <2>1
  <2> QED
    BY <1>2, <2>2, RowsStep DEF AddDep
<1>3. ASSUME NEW i \in DOMAIN form.deps, NEW d \in Dependency, UpdateDep(i, d)
      PROVE  IInv'
  <2>1. [form.deps EXCEPT ![i] = d] \in Seq(Dependency)
    BY <1>1
  <2> QED
    BY <1>3, <2>1, RowsStep DEF UpdateDep
<1>4. ASSUME NEW i \in DOMAIN form.deps, RemoveDep(i)
      PROVE  IInv'
  <2>1. Without(form.deps, i) \in Seq(Dependency)
    BY <1>1, WithoutFacts
  <2> QED
    BY <1>4, <2>1, RowsStep DEF RemoveDep
<1> QED
  BY <1>2, <1>3, <1>4, TagsStep DEF Fields

-----------------------------------------------------------------------------
(* Opening, saving and loading.                                            *)

(* A step that leaves the form alone.                                      *)
LEMMA NetStep ==
  ASSUME IInv, UNCHANGED <<box, form, query, uploading, ups, mine, touched, muddled>>,
         open' \in BOOLEAN, CallsOK', LoadOK', Good(stored'), turns' \in 0 .. MaxTurns,
         Message => calls' = <<>> /\ load'.stage = "none"
  PROVE  IInv'
<1>1. TypeInv'
  BY DEF IInv, TypeInv, UpsOK
<1>2. OfMessage' /\ Numbers'
  BY DEF IInv, OfMessage, Numbers, Message
<1>3. WhatWasPutIn'
  BY DEF IInv, WhatWasPutIn
<1> QED
  BY <1>1, <1>2, <1>3 DEF IInv

(* A form goes.                                                            *)
LEMMA GoneStep ==
  ASSUME IInv, ~Message, Gone, box' = box, CallsOK', LoadOK', Good(stored'),
         turns' \in 0 .. MaxTurns
  PROVE  IInv'
<1>1. /\ open' = FALSE /\ query' = <<>> /\ uploading' = FALSE /\ ups' = <<>>
      /\ ~Message'
  BY DEF Gone, Message
<1>2. UpsOK' /\ DOMAIN ups' = {}
  <2>1. ups' \in Seq(Batch) /\ Len(ups') = 0 /\ DOMAIN ups' = {}
    BY <1>1
  <2> QED
    <3>1. uploading' \in BOOLEAN /\ ~uploading'
      BY <1>1
    <3>2. Len(ups') <= MaxUps
      BY <2>1, BoundAssumption
    <3>3. \A i \in DOMAIN ups' : Underway(ups'[i])
      BY <2>1
    <3> QED
      BY <2>1, <3>1, <3>2, <3>3 DEF UpsOK
<1>3. Good(form') /\ WhatWasPutIn' /\ muddled' \in BOOLEAN /\ (~muddled' => Counted(form'.text))
  <2>1. CASE box = "new"
    <3>1. form' = Blank /\ mine' = {} /\ touched' = {} /\ muddled' = FALSE
      BY <2>1 DEF Gone
    <3>2. Good(Blank) /\ Blank.text = {} /\ Items(Blank) = {}
      BY FS_EmptySet DEF Blank, Good, Cards, Apart, Items, RangeOf
    <3>3. Counted({})
      BY DEF Counted, Links
    <3> QED
      BY <3>1, <3>2, <3>3 DEF WhatWasPutIn
  <2>2. CASE box # "new"
    <3>1. UNCHANGED <<form, mine, touched, muddled>>
      BY <2>2 DEF Gone
    <3> QED
      BY <3>1 DEF IInv, TypeInv, WhatWasPutIn, Numbers
  <2> QED
    BY <2>1, <2>2
<1>4. query' \in Seq(Tags)
  BY <1>1
<1>5. TypeInv'
  BY <1>1, <1>2, <1>3, <1>4 DEF IInv, TypeInv
<1>6. OfMessage' /\ Numbers'
  BY <1>1, <1>2, <1>3 DEF OfMessage, Numbers
<1> QED
  BY <1>3, <1>5, <1>6 DEF IInv

LEMMA BodyFacts ==
  ASSUME Good(form)
  PROVE  Good(Body) /\ \A d \in RangeOf(Body.deps) : d.task_id # NoTask
<1> DEFINE P == {i \in DOMAIN form.deps : form.deps[i].task_id # NoTask}
           deps == Kept(form.deps, P)
<1>1. form \in Cards /\ form.deps \in Seq(Dependency)
  BY DEF Good, Cards
<1>2. /\ deps \in Seq(Dependency)
      /\ \A j \in DOMAIN deps : \E k \in P : deps[j] = form.deps[k]
  <2>1. P \in SUBSET DOMAIN form.deps
    OBVIOUS
  <2> HIDE DEF P, deps
  <2>2. PICK at \in [1 .. Len(deps) -> P] :
            deps \in Seq(Dependency) /\ \A j \in 1 .. Len(deps) : deps[j] = form.deps[at[j]]
    BY <1>1, <2>1, KeptFacts, SMTT(20) DEF deps
  <2>3. DOMAIN deps = 1 .. Len(deps)
    BY <2>2
  <2> QED
    BY <2>2, <2>3
<1>3. Body = [form EXCEPT !.deps = deps]
  BY DEF Body
<1>4. \A d \in RangeOf(deps) : d.task_id # NoTask
  BY <1>2 DEF RangeOf
<1> HIDE DEF deps
<1>5. Body \in Cards /\ Body.text = form.text /\ Body.tags = form.tags /\ Body.deps = deps
  <2> DEFINE b == Body
  <2>1. b = [form EXCEPT !.deps = deps]
    BY <1>3
  <2> HIDE DEF b
  <2>2. b \in Cards /\ b.text = form.text /\ b.tags = form.tags /\ b.deps = deps
    BY <1>1, <1>2, <2>1 DEF Cards
  <2> QED
    BY <2>2 DEF b
<1> QED
  BY <1>4, <1>5 DEF Good

LEMMA Dropped ==
  ASSUME CallsOK, NEW i \in DOMAIN calls, calls' = Without(calls, i)
  PROVE  CallsOK'
<1>1. /\ calls' \in Seq(Saves)
      /\ \A j \in DOMAIN calls' : \E k \in DOMAIN calls : k # i /\ calls'[j] = calls[k]
  BY WithoutFacts DEF CallsOK
<1> QED
  BY <1>1 DEF CallsOK

LEMMA NoCalls ==
  ASSUME calls' = <<>>
  PROVE  CallsOK'
<1>1. calls' \in Seq(Saves) /\ DOMAIN calls' = {}
  OBVIOUS
<1> QED
  BY <1>1 DEF CallsOK

LEMMA BlankFacts ==
  /\ Good(Blank) /\ Items(Blank) = {} /\ Blank.text = {} /\ Blank.tags = <<>> /\ Blank.deps = <<>>
  /\ NoLoad \in [stage : {"none", "sent", "read"}, card : Cards]
  /\ NoLoad.stage = "none" /\ NoLoad.card = Blank
  /\ [NoLoad EXCEPT !.stage = "sent"] \in [stage : {"none", "sent", "read"}, card : Cards]
  /\ [NoLoad EXCEPT !.stage = "sent"].card = Blank
<1>1. /\ Good(Blank) /\ Items(Blank) = {} /\ Blank.text = {} /\ Blank.tags = <<>>
      /\ Blank.deps = <<>>
  BY FS_EmptySet DEF Blank, Good, Cards, Apart, Items, RangeOf
<1>2. Blank \in Cards
  BY <1>1 DEF Good
<1> QED
  BY <1>1, <1>2 DEF NoLoad

LEMMA CloseStep ==
  ASSUME IInv, Close
  PROVE  IInv'
<1>1. /\ ~Message /\ Turn /\ Gone /\ calls' = IF box = "new" THEN <<>> ELSE calls
      /\ UNCHANGED <<box, stored, load>>
  BY DEF Close, Field
<1>2. TypeInv
  BY DEF IInv
<1>3. turns' \in 0 .. MaxTurns
  BY <1>1, <1>2, TurnFacts
<1>4. CallsOK'
  BY <1>1, <1>2, NoCalls DEF TypeInv, CallsOK
<1>5. LoadOK' /\ Good(stored')
  BY <1>1, <1>2 DEF TypeInv, LoadOK
<1> QED
  BY <1>1, <1>3, <1>4, <1>5, GoneStep

LEMMA SavedStep ==
  ASSUME IInv, NEW i \in DOMAIN calls, Saved(i)
  PROVE  IInv'
<1>1. /\ Gone /\ calls' = IF box = "new" THEN <<>> ELSE Without(calls, i)
      /\ load' = IF box = "edit" THEN [NoLoad EXCEPT !.stage = "sent"] ELSE load
      /\ UNCHANGED <<box, stored, turns>>
  BY DEF Saved
<1>2. TypeInv /\ ~Message
  BY DEF IInv, OfMessage
<1>3. CallsOK'
  BY <1>1, <1>2, NoCalls, Dropped DEF TypeInv
<1>4. LoadOK'
  BY <1>1, <1>2, BlankFacts DEF TypeInv, LoadOK
<1> QED
  BY <1>1, <1>2, <1>3, <1>4, GoneStep DEF TypeInv

LEMMA ServeStep ==
  ASSUME IInv, NEW i \in DOMAIN calls, Serve(i)
  PROVE  IInv'
<1> DEFINE c == calls[i]
           d == [c EXCEPT !.stage = "ok"]
<1>1. /\ stored' = (IF box = "edit" THEN c.body ELSE stored)
      /\ calls' = [calls EXCEPT ![i].stage = "ok"]
      /\ UNCHANGED <<box, open, form, query, uploading, ups, load, turns, mine, touched, muddled>>
  BY DEF Serve, fields
<1>2. /\ TypeInv /\ ~Message /\ calls \in Seq(Saves) /\ c \in Saves
      /\ Good(c.body) /\ \A e \in RangeOf(c.body.deps) : e.task_id # NoTask
  BY DEF IInv, OfMessage, TypeInv, CallsOK
<1>3. calls' = [calls EXCEPT ![i] = d]
  BY <1>1
<1>4. d \in Saves /\ d.body = c.body
  <2> HIDE DEF c
  <2> QED
    BY <1>2 DEF Saves
<1> HIDE DEF d
<1>5. /\ calls' \in Seq(Saves) /\ DOMAIN calls' = DOMAIN calls
      /\ calls'[i] = d /\ \A j \in DOMAIN calls : j # i => calls'[j] = calls[j]
  BY <1>2, <1>3, <1>4
<1>6. CallsOK'
  <2> SUFFICES ASSUME NEW j \in DOMAIN calls'
               PROVE  /\ Good(calls'[j].body)
                      /\ \A e \in RangeOf(calls'[j].body.deps) : e.task_id # NoTask
    BY <1>5 DEF CallsOK
  <2>1. calls'[j].body = calls[j].body /\ j \in DOMAIN calls
    BY <1>4, <1>5
  <2> QED
    BY <1>2, <2>1 DEF TypeInv, CallsOK
<1>7. UNCHANGED <<box, open, form, query, uploading, ups, load, turns, mine, touched, muddled>>
  BY <1>1
<1>8. Good(stored')
  BY <1>1, <1>2 DEF TypeInv
<1>9. LoadOK' /\ open' \in BOOLEAN /\ turns' \in 0 .. MaxTurns
  BY <1>2, <1>7 DEF TypeInv, LoadOK
<1> QED
  BY <1>2, <1>6, <1>7, <1>8, <1>9, NetStep

LEMMA NetsStep ==
  ASSUME IInv, Open \/ Save \/ Load \/ ReadCard \/ \E i \in DOMAIN calls : SaveFails(i)
  PROVE  IInv'
<1>1. /\ TypeInv /\ CallsOK /\ LoadOK /\ Good(form) /\ Good(stored) /\ open \in BOOLEAN
      /\ turns \in 0 .. MaxTurns
      /\ Message => calls = <<>> /\ load.stage = "none"
  BY DEF IInv, TypeInv, OfMessage
<1>2. CASE Open
  <2>1. /\ Turn /\ open' = TRUE
        /\ UNCHANGED <<box, form, query, uploading, ups, calls, stored, load, mine, touched,
                       muddled>>
    BY <1>2 DEF Open, fields, net
  <2>2. turns' \in 0 .. MaxTurns
    BY <1>1, <2>1, TurnFacts
  <2>3. CallsOK' /\ LoadOK' /\ Good(stored') /\ open' \in BOOLEAN
    BY <1>1, <2>1 DEF CallsOK, LoadOK
  <2> QED
    BY <1>1, <2>1, <2>2, <2>3, NetStep
<1>3. CASE Save
  <2> DEFINE c == [body |-> Body, stage |-> "sent"]
             n == Len(calls)
  <2>1. /\ Turn /\ ~Message /\ calls' = Append(calls, c)
        /\ UNCHANGED <<box, open, form, query, uploading, ups, stored, load, mine, touched,
                       muddled>>
    BY <1>3 DEF Save, Field, fields
  <2>2. Good(Body) /\ \A d \in RangeOf(Body.deps) : d.task_id # NoTask
    BY <1>1, BodyFacts
  <2>3. c \in Saves /\ c.body = Body
    BY <2>2 DEF Saves, Good
  <2> HIDE DEF c
  <2>4. /\ calls' \in Seq(Saves) /\ n \in Nat /\ DOMAIN calls = 1 .. n /\ DOMAIN calls' = 1 .. n + 1
        /\ calls'[n + 1] = c /\ \A j \in 1 .. n : calls'[j] = calls[j]
    BY <1>1, <2>1, <2>3 DEF CallsOK
  <2> HIDE DEF n
  <2>5. \A j \in DOMAIN calls' : j \in DOMAIN calls \/ j = n + 1
    BY <2>4
  <2>6. CallsOK'
    BY <1>1, <2>2, <2>3, <2>4, <2>5 DEF CallsOK
  <2>7. turns' \in 0 .. MaxTurns
    BY <1>1, <2>1, TurnFacts
  <2>8. LoadOK' /\ Good(stored') /\ open' \in BOOLEAN
    BY <1>1, <2>1 DEF LoadOK
  <2> QED
    BY <2>1, <2>6, <2>7, <2>8, NetStep
<1>4. CASE Load
  <2>1. /\ box = "edit" /\ Turn /\ load' = [NoLoad EXCEPT !.stage = "sent"]
        /\ UNCHANGED <<box, open, form, query, uploading, ups, calls, stored, mine, touched,
                       muddled>>
    BY <1>4 DEF Load, fields
  <2>2. turns' \in 0 .. MaxTurns
    BY <1>1, <2>1, TurnFacts
  <2>3. CallsOK' /\ Good(stored') /\ open' \in BOOLEAN /\ ~Message
    BY <1>1, <2>1 DEF CallsOK, Message
  <2>4. LoadOK'
    BY <2>1, BlankFacts DEF LoadOK
  <2>5. UNCHANGED <<box, form, query, uploading, ups, mine, touched, muddled>>
    BY <2>1
  <2> QED
    BY <2>2, <2>3, <2>4, <2>5, NetStep
<1>5. CASE ReadCard
  <2>1. /\ load.stage = "read" \/ load.stage = "sent"
        /\ load' = [stage |-> "read", card |-> stored]
        /\ UNCHANGED <<box, open, form, query, uploading, ups, calls, stored, turns, mine, touched,
                       muddled>>
    BY <1>5 DEF ReadCard, fields
  <2>2. LoadOK'
    BY <1>1, <2>1 DEF LoadOK, Good
  <2>3. CallsOK' /\ Good(stored') /\ open' \in BOOLEAN /\ ~Message /\ turns' \in 0 .. MaxTurns
    BY <1>1, <2>1 DEF CallsOK
  <2> QED
    BY <2>1, <2>2, <2>3, NetStep
<1>6. ASSUME NEW i \in DOMAIN calls, SaveFails(i)
      PROVE  IInv'
  <2>1. /\ Turn /\ calls' = Without(calls, i)
        /\ UNCHANGED <<box, open, form, query, uploading, ups, stored, load, mine, touched,
                       muddled>>
    BY <1>6 DEF SaveFails, fields
  <2>2. CallsOK'
    BY <1>1, <2>1, Dropped
  <2>3. turns' \in 0 .. MaxTurns
    BY <1>1, <2>1, TurnFacts
  <2>4. LoadOK' /\ Good(stored') /\ open' \in BOOLEAN /\ ~Message
    BY <1>1, <2>1 DEF LoadOK
  <2> QED
    BY <2>1, <2>2, <2>3, <2>4, NetStep
<1> QED
  BY <1>2, <1>3, <1>4, <1>5, <1>6

LEMMA LoadedStep ==
  ASSUME IInv, Loaded
  PROVE  IInv'
<1>1. /\ load.stage = "read" /\ load' = NoLoad /\ form' = load.card
      /\ mine' = Items(load.card) /\ touched' = {} /\ muddled' = TRUE
      /\ UNCHANGED <<box, open, query, uploading, ups, calls, stored, turns>>
  BY DEF Loaded
<1>2. TypeInv /\ ~Message /\ Good(load.card)
  BY <1>1 DEF IInv, OfMessage, TypeInv, LoadOK
<1>3. LoadOK'
  BY <1>1, BlankFacts DEF LoadOK
<1>4. TypeInv'
  BY <1>1, <1>2, <1>3 DEF TypeInv, UpsOK, CallsOK
<1>5. ~Message'
  BY <1>1, <1>2 DEF Message
<1>6. OfMessage' /\ Numbers'
  BY <1>1, <1>5 DEF OfMessage, Numbers
<1>7. WhatWasPutIn'
  BY <1>1 DEF WhatWasPutIn
<1> QED
  BY <1>4, <1>6, <1>7 DEF IInv

-----------------------------------------------------------------------------
(* The invariant holds at first, and every step keeps it.                  *)

LEMMA InitStep ==
  ASSUME Init
  PROVE  IInv
<1>1. /\ box \in Boxes /\ open = (box = "message") /\ form = Blank /\ query = <<>>
      /\ uploading = FALSE /\ ups = <<>> /\ calls = <<>> /\ stored = Blank /\ load = NoLoad
      /\ turns = 0 /\ mine = {} /\ touched = {} /\ muddled = FALSE
  BY DEF Init
<1>2. ups \in Seq(Batch) /\ Len(ups) = 0 /\ DOMAIN ups = {}
  BY <1>1
<1>3. UpsOK
  <2>1. uploading \in BOOLEAN /\ ~uploading
    BY <1>1
  <2>2. Len(ups) <= MaxUps
    BY <1>2, BoundAssumption
  <2> QED
    BY <1>2, <2>1, <2>2 DEF UpsOK
<1>4. CallsOK
  <2>1. calls \in Seq(Saves) /\ DOMAIN calls = {}
    BY <1>1
  <2> QED
    BY <2>1 DEF CallsOK
<1>5. LoadOK
  BY <1>1, BlankFacts DEF LoadOK
<1>6. query \in Seq(Tags) /\ turns \in 0 .. MaxTurns /\ open \in BOOLEAN
  BY <1>1, BoundAssumption
<1>7. TypeInv
  BY <1>1, <1>3, <1>4, <1>5, <1>6, BlankFacts DEF TypeInv
<1>8. OfMessage
  BY <1>1, <1>2, BlankFacts DEF OfMessage
<1>9. WhatWasPutIn
  BY <1>1, BlankFacts DEF WhatWasPutIn
<1>10. Numbers
  BY <1>1, <1>2, BlankFacts DEF Numbers, Counted, Links
<1> QED
  BY <1>7, <1>8, <1>9, <1>10 DEF IInv

LEMMA NextStep ==
  ASSUME IInv, [Next]_vars
  PROVE  IInv'
<1>1. CASE Typing
  BY <1>1, TypingStep
<1>2. CASE Uploads
  BY <1>2, UploadsStep
<1>3. CASE Fields
  BY <1>3, FieldsStep
<1>4. CASE Saving
  BY <1>4, NetsStep, CloseStep, LoadedStep, ServeStep, SavedStep DEF Saving
<1>5. CASE UNCHANGED vars
  <2>1. UNCHANGED <<box, open, form, query, uploading, ups, calls, stored, load, turns, mine,
                    touched, muddled>>
    BY <1>5 DEF vars, fields, net
  <2>2. CallsOK' /\ LoadOK' /\ Good(stored') /\ open' \in BOOLEAN /\ turns' \in 0 .. MaxTurns
        /\ (Message => calls' = <<>> /\ load'.stage = "none")
    BY <2>1 DEF IInv, TypeInv, CallsOK, LoadOK, OfMessage
  <2> QED
    BY <2>1, <2>2, NetStep
<1> QED
  BY <1>1, <1>2, <1>3, <1>4, <1>5 DEF Next

LEMMA Invariant == Spec => []IInv
<1>1. Init => IInv
  BY InitStep
<1>2. IInv /\ [Next]_vars => IInv'
  BY NextStep
<1> QED
  BY <1>1, <1>2, PTL DEF Spec

(* The types of a box and of what is in flight; that no tag stands twice   *)
(* in a form, that no dependency without a card is saved (save of TaskModal*)
(* and NewTaskModal), and that while uploading disables the button, an     *)
(* upload is under way that will end that.                                 *)
THEOREM TypeCorrect == Spec => []TypeOK
<1>1. IInv => TypeOK
  BY DEF IInv, TypeInv, TypeOK, UpsOK, CallsOK, LoadOK, Good, Cards, Apart
<1> QED
  BY <1>1, Invariant, PTL

(* What chatInputMixin and the forms hold is what the user has put in and  *)
(* not taken out, for any number of uploads, saves and loads that cross;   *)
(* but for pieces of the message input that were touched during an upload, *)
(* and for tags that are pasted together.                                  *)
THEOREM TextCorrect == Spec => []WhatWasPutIn
<1>1. IInv => WhatWasPutIn
  BY DEF IInv
<1> QED
  BY <1>1, Invariant, PTL

(* chatFileSnippet and snippetFor never give two nameless files of a text  *)
(* the same number, unless uploads overlap or a link is taken out.         *)
THEOREM NumbersCorrect == Spec => []NumbersApart
<1>1. IInv => NumbersApart
  BY DEF IInv, Numbers, Counted, NumbersApart
<1> QED
  BY <1>1, Invariant, PTL

=============================================================================
