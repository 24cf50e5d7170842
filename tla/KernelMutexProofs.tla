------------------------- MODULE KernelMutexProofs -------------------------
(***************************************************************************)
(* Theorems of KernelMutex.  For every set of tasks and mutexes and every    *)
(* nesting of them: no variable leaves its type, and the running task is the *)
(* highest ready one.  Where no task takes a mutex while it holds another:   *)
(* there is no inversion, and no inherited priority outlives its cause.      *)
(*                                                                          *)
(* GInv is inductive for the first two, GInv /\ Parts for the third: an      *)
(* event list keeps its tasks by priority, so that the one a free mutex is   *)
(* offered to is as high as those that stay; whoever takes the mutex in its  *)
(* place is the running task, hence higher still, and owes them nothing.     *)
(***************************************************************************)
EXTENDS KernelMutex, TLAPS, FiniteSetTheorems, SequenceTheorems, WellFoundedInduction

-----------------------------------------------------------------------------
(* Lists without repetition. *)

LEMMA RemoveFirstAt ==
    ASSUME NEW S, NEW s \in Seq(S), IsInjective(s), NEW k \in DOMAIN s
    PROVE  /\ RemoveFirst(s, s[k]) \in Seq(S)
           /\ Len(RemoveFirst(s, s[k])) = Len(s) - 1
           /\ \A i \in 1 .. Len(s) - 1 :
                 RemoveFirst(s, s[k])[i] = IF i < k THEN s[i] ELSE s[i + 1]
<1> DEFINE r == RemoveFirst(s, s[k])
<1>1. Len(s) \in Nat /\ DOMAIN s = 1 .. Len(s) /\ k \in 1 .. Len(s)
  OBVIOUS
<1>2. {i \in 1 .. Len(s) : s[i] = s[k]} = {k}
  BY <1>1 DEF IsInjective
<1>3. Min({k}) = k
  BY <1>1 DEF Min
<1>4. SelectInSeq(s, LAMBDA v : v = s[k]) = k
  BY <1>2, <1>3 DEF SelectInSeq
<1>5. r = RemoveAt(s, k)
  BY <1>1, <1>4 DEF RemoveFirst
<1>6. r = SubSeq(s, 1, k - 1) \o SubSeq(s, k + 1, Len(s))
  BY <1>5 DEF RemoveAt
<1>7. PICK a, b :
         /\ r = a \o b /\ a \in Seq(S) /\ Len(a) = k - 1 /\ b \in Seq(S) /\ Len(b) = Len(s) - k
         /\ \A i \in 1 .. k - 1 : a[i] = s[i]
         /\ \A i \in 1 .. Len(s) - k : b[i] = s[k + i]
  <2>1. /\ SubSeq(s, 1, k - 1) \in Seq(S) /\ Len(SubSeq(s, 1, k - 1)) = k - 1
        /\ \A i \in 1 .. k - 1 : SubSeq(s, 1, k - 1)[i] = s[i]
    BY <1>1
  <2>2. /\ SubSeq(s, k + 1, Len(s)) \in Seq(S) /\ Len(SubSeq(s, k + 1, Len(s))) = Len(s) - k
        /\ \A i \in 1 .. Len(s) - k : SubSeq(s, k + 1, Len(s))[i] = s[k + i]
    BY <1>1
  <2> QED BY <1>6, <2>1, <2>2
<1> HIDE DEF r
<1>8. /\ r \in Seq(S) /\ Len(r) = Len(a) + Len(b)
      /\ \A i \in 1 .. Len(a) + Len(b) : r[i] = IF i <= Len(a) THEN a[i] ELSE b[i - Len(a)]
  BY <1>7, ConcatProperties
<1>9. Len(a) = k - 1 /\ Len(a) + Len(b) = Len(s) - 1
  BY <1>1, <1>7
<1>10. ASSUME NEW i \in 1 .. Len(s) - 1
       PROVE  r[i] = IF i < k THEN s[i] ELSE s[i + 1]
  <2>1. r[i] = IF i <= k - 1 THEN a[i] ELSE b[i - (k - 1)]
    BY <1>8, <1>9
  <2>2. CASE i < k
    BY <1>1, <1>7, <2>1, <2>2
  <2>3. CASE i >= k
    <3>1. i - (k - 1) \in 1 .. Len(s) - k /\ k + (i - (k - 1)) = i + 1 /\ ~(i <= k - 1)
      BY <1>1, <2>3
    <3>2. b[i - (k - 1)] = s[k + (i - (k - 1))]
      BY <1>7, <3>1
    <3>3. r[i] = s[i + 1] /\ ~(i < k)
      BY <1>1, <2>1, <2>3, <3>1, <3>2
    <3> QED BY <3>3
  <2> QED BY <1>1, <2>2, <2>3
<1>11. r \in Seq(S) /\ Len(r) = Len(s) - 1
  BY <1>8, <1>9
<1> QED BY <1>10, <1>11 DEF r

LEMMA Removed ==
    ASSUME NEW S, NEW s \in Seq(S), IsInjective(s), NEW e
    PROVE  /\ RemoveFirst(s, e) \in Seq(S)
           /\ IsInjective(RemoveFirst(s, e))
           /\ Range(RemoveFirst(s, e)) = Range(s) \ {e}
           /\ Len(RemoveFirst(s, e)) = IF e \in Range(s) THEN Len(s) - 1 ELSE Len(s)
<1> DEFINE r == RemoveFirst(s, e)
<1>1. CASE e \notin Range(s)
  <2>1. r = s
    BY <1>1 DEF RemoveFirst, Range
  <2> QED BY <1>1, <2>1
<1>2. CASE e \in Range(s)
  <2>1. PICK k \in DOMAIN s : s[k] = e
    BY <1>2 DEF Range
  <2>2. /\ r \in Seq(S) /\ Len(r) = Len(s) - 1
        /\ \A i \in 1 .. Len(s) - 1 : r[i] = IF i < k THEN s[i] ELSE s[i + 1]
    BY <2>1, RemoveFirstAt
  <2>3. Len(s) \in Nat /\ DOMAIN s = 1 .. Len(s) /\ DOMAIN r = 1 .. Len(s) - 1
    BY <2>2
  <2> HIDE DEF r
  <2>4. /\ k \in 1 .. Len(s)
        /\ \A i, j \in 1 .. Len(s) : s[i] = s[j] => i = j
    BY <2>1, <2>3 DEF IsInjective
  <2>5. ASSUME NEW i \in 1 .. Len(s) - 1
        PROVE  \E j \in 1 .. Len(s) : j # k /\ r[i] = s[j] /\ j = IF i < k THEN i ELSE i + 1
    <3>1. CASE i < k
      <4>1. i \in 1 .. Len(s) /\ i # k /\ r[i] = s[i]
        BY <2>2, <2>3, <2>4, <3>1
      <4> QED BY <3>1, <4>1
    <3>2. CASE ~(i < k)
      <4>1. i + 1 \in 1 .. Len(s) /\ i + 1 # k /\ r[i] = s[i + 1]
        BY <2>2, <2>3, <2>4, <3>2
      <4> QED BY <3>2, <4>1
    <3> QED BY <3>1, <3>2
  <2>6. IsInjective(r)
    <3> SUFFICES ASSUME NEW i \in 1 .. Len(s) - 1, NEW j \in 1 .. Len(s) - 1, r[i] = r[j]
                 PROVE  i = j
      BY <2>3 DEF IsInjective
    <3>1. PICK a \in 1 .. Len(s) : r[i] = s[a] /\ a = IF i < k THEN i ELSE i + 1
      BY <2>5
    <3>2. PICK b \in 1 .. Len(s) : r[j] = s[b] /\ b = IF j < k THEN j ELSE j + 1
      BY <2>5
    <3>3. a = b
      BY <2>4, <3>1, <3>2
    <3> QED BY <2>3, <2>4, <3>1, <3>2, <3>3
  <2>7. Range(r) \subseteq Range(s) \ {e}
    <3> SUFFICES ASSUME NEW i \in 1 .. Len(s) - 1 PROVE r[i] \in Range(s) \ {e}
      BY <2>3 DEF Range
    <3>1. PICK j \in 1 .. Len(s) : j # k /\ r[i] = s[j]
      BY <2>5
    <3>2. s[j] # e
      BY <2>1, <2>4, <3>1
    <3> QED BY <2>3, <3>1, <3>2 DEF Range
  <2>8. ASSUME NEW i \in DOMAIN s, s[i] # e
        PROVE  s[i] \in Range(r)
    <3>1. CASE i < k
      <4>1. i \in DOMAIN r /\ r[i] = s[i]
        BY <2>1, <2>2, <2>3, <3>1
      <4> QED BY <4>1 DEF Range
    <3>2. CASE i > k
      <4>1. i - 1 \in DOMAIN r /\ r[i - 1] = s[i]
        BY <2>1, <2>2, <2>3, <3>2
      <4> QED BY <4>1 DEF Range
    <3> QED BY <2>1, <2>3, <2>8, <3>1, <3>2
  <2> QED BY <1>2, <2>2, <2>6, <2>7, <2>8 DEF Range, r
<1> QED BY <1>1, <1>2

LEMMA AppendFacts ==
    ASSUME NEW S, NEW s \in Seq(S), IsInjective(s), NEW e \in S, e \notin Range(s)
    PROVE  IsInjective(Append(s, e)) /\ Range(Append(s, e)) = Range(s) \cup {e}
<1> DEFINE r == Append(s, e)
<1>1. /\ Len(s) \in Nat /\ DOMAIN s = 1 .. Len(s) /\ DOMAIN r = 1 .. Len(s) + 1
      /\ r[Len(s) + 1] = e /\ \A i \in 1 .. Len(s) : r[i] = s[i]
  OBVIOUS
<1>2. \A i \in 1 .. Len(s) + 1 : i \in 1 .. Len(s) \/ i = Len(s) + 1
  BY <1>1
<1>3. Len(s) + 1 \in 1 .. Len(s) + 1 /\ \A i \in 1 .. Len(s) : i \in 1 .. Len(s) + 1
  BY <1>1
<1> HIDE DEF r
<1>4. IsInjective(r)
  BY <1>1, <1>2 DEF IsInjective, Range
<1>5. Range(r) = Range(s) \cup {e}
  <2>1. Range(r) \subseteq Range(s) \cup {e}
    BY <1>1, <1>2 DEF Range
  <2>2. e \in Range(r)
    BY <1>1, <1>3 DEF Range
  <2>3. Range(s) \subseteq Range(r)
    BY <1>1, <1>3 DEF Range
  <2> QED BY <2>1, <2>2, <2>3
<1> QED BY <1>4, <1>5 DEF r

LEMMA InjectiveAppended ==
    ASSUME NEW S, NEW s \in Seq(S), NEW e \in S, IsInjective(Append(s, e))
    PROVE  e \notin Range(s)
<1> DEFINE r == Append(s, e)
<1>1. /\ Len(s) \in Nat /\ DOMAIN s = 1 .. Len(s) /\ DOMAIN r = 1 .. Len(s) + 1
      /\ r[Len(s) + 1] = e /\ \A i \in 1 .. Len(s) : r[i] = s[i]
  OBVIOUS
<1>2. \A i \in 1 .. Len(s) : i \in 1 .. Len(s) + 1 /\ i # Len(s) + 1
  BY <1>1
<1>3. Len(s) + 1 \in 1 .. Len(s) + 1
  BY <1>1
<1>4. IsInjective(r)
  OBVIOUS
<1> HIDE DEF r
<1>5. \A i \in 1 .. Len(s) : s[i] # e
  BY <1>1, <1>2, <1>3, <1>4 DEF IsInjective
<1> QED BY <1>1, <1>5 DEF Range

-----------------------------------------------------------------------------
\* Nobody in the list is before a task of a higher value of f.
Sorted(f, s) == \A i, j \in DOMAIN s : i < j => f[s[j]] <= f[s[i]]

LEMMA RemovedSorted ==
    ASSUME NEW f \in [Task -> Nat], NEW s \in Seq(Task), IsInjective(s), Sorted(f, s), NEW e
    PROVE  Sorted(f, RemoveFirst(s, e))
<1> DEFINE r == RemoveFirst(s, e)
<1>1. CASE e \notin Range(s)
  <2>1. r = s
    BY <1>1 DEF RemoveFirst, Range
  <2> QED BY <2>1
<1>2. CASE e \in Range(s)
  <2>1. PICK k \in DOMAIN s : s[k] = e
    BY <1>2 DEF Range
  <2>2. /\ r \in Seq(Task) /\ Len(r) = Len(s) - 1
        /\ \A i \in 1 .. Len(s) - 1 : r[i] = IF i < k THEN s[i] ELSE s[i + 1]
    BY <2>1, RemoveFirstAt
  <2>3. Len(s) \in Nat /\ DOMAIN s = 1 .. Len(s) /\ DOMAIN r = 1 .. Len(s) - 1
    BY <2>2
  <2>4. /\ \A a, b \in 1 .. Len(s) : a < b => f[s[b]] <= f[s[a]]
        /\ \A a \in 1 .. Len(s) : f[s[a]] \in Nat
    <3>1. \A a \in 1 .. Len(s) : s[a] \in Task
      OBVIOUS
    <3> QED BY <2>3, <3>1 DEF Sorted
  <2> HIDE DEF r
  <2>5. ASSUME NEW i \in 1 .. Len(s) - 1, NEW j \in 1 .. Len(s) - 1, i < j
        PROVE  f[r[j]] <= f[r[i]]
    <3>1. i \in 1 .. Len(s) /\ j \in 1 .. Len(s) /\ i + 1 \in 1 .. Len(s) /\ j + 1 \in 1 .. Len(s)
      BY <2>3
    <3>2. /\ r[i] = IF i < k THEN s[i] ELSE s[i + 1]
          /\ r[j] = IF j < k THEN s[j] ELSE s[j + 1]
      BY <2>2
    <3>3. f[s[j]] <= f[s[i]] /\ f[s[j + 1]] <= f[s[i]] /\ f[s[j + 1]] <= f[s[i + 1]]
      <4>1. i < j + 1 /\ i + 1 < j + 1
        BY <2>3, <2>5
      <4> QED BY <2>4, <2>5, <3>1, <4>1
    <3>4. k \in Nat
      BY <2>1, <2>3
    <3> QED BY <2>3, <2>5, <3>2, <3>3, <3>4
  <2>6. Sorted(f, r)
    BY <2>3, <2>5 DEF Sorted
  <2> QED BY <2>6 DEF r
<1> QED BY <1>1, <1>2

LEMMA LeastNat ==
    ASSUME NEW I \in SUBSET Nat, I # {}
    PROVE  \E k \in I : Min(I) = k /\ \A i \in I : k <= i
<1>1. PICK x \in I : \A y \in I : ~ (<<y, x>> \in OpToRel(<, Nat))
  BY NatLessThanWellFounded, WFMin
<1>2. \A y \in I : x <= y
  <2> SUFFICES ASSUME NEW y \in I PROVE x <= y
    OBVIOUS
  <2>1. <<y, x>> \in Nat \X Nat /\ <<y, x>>[1] = y /\ <<y, x>>[2] = x
    OBVIOUS
  <2>2. OpToRel(<, Nat) = {ss \in Nat \X Nat : ss[1] < ss[2]}
    BY DEF OpToRel
  <2>3. ~ (y < x)
    BY <1>1, <2>1, <2>2
  <2> QED BY <2>3
<1> QED BY <1>2 DEF Min

(* vListInsert: t comes before the first task of a lower priority.          *)
LEMMA QueuedAt ==
    ASSUME NEW s \in Seq(Task), NEW t \in Task, uxPriority \in [Task -> Nat]
    PROVE  \E k \in 1 .. Len(s) + 1 :
             /\ Queued(s, t) \in Seq(Task)
             /\ Len(Queued(s, t)) = Len(s) + 1
             /\ \A i \in 1 .. Len(s) + 1 :
                   Queued(s, t)[i] = IF i < k THEN s[i] ELSE IF i = k THEN t ELSE s[i - 1]
             /\ \A i \in 1 .. k - 1 : uxPriority[t] <= uxPriority[s[i]]
             /\ k <= Len(s) => uxPriority[s[k]] < uxPriority[t]
<1> DEFINE q == Queued(s, t)
           I == {i \in 1 .. Len(s) : uxPriority[s[i]] < uxPriority[t]}
<1>1. Len(s) \in Nat /\ DOMAIN s = 1 .. Len(s) /\ \A i \in 1 .. Len(s) : s[i] \in Task
  OBVIOUS
<1>2. CASE I = {}
  <2>1. q = Append(s, t)
    BY <1>1, <1>2 DEF Queued
  <2>2. \A i \in 1 .. Len(s) : uxPriority[t] <= uxPriority[s[i]]
    BY <1>1, <1>2
  <2> WITNESS Len(s) + 1 \in 1 .. Len(s) + 1
  <2> QED BY <1>1, <2>1, <2>2
<1>3. CASE I # {}
  <2>1. PICK k \in I : Min(I) = k /\ \A i \in I : k <= i
    <3>1. I \in SUBSET Nat
      BY <1>1
    <3> QED BY <3>1, <1>3, LeastNat
  <2>2. SelectInSeq(s, LAMBDA u : uxPriority[u] < uxPriority[t]) = k
    BY <1>3, <2>1 DEF SelectInSeq
  <2>3. q = InsertAt(s, k, t)
    BY <1>1, <1>3, <2>2 DEF Queued
  <2>4. q = SubSeq(s, 1, k - 1) \o <<t>> \o SubSeq(s, k, Len(s))
    BY <2>3 DEF InsertAt
  <2>5. k \in 1 .. Len(s) /\ k \in 1 .. Len(s) + 1
    BY <1>1, <2>1
  <2>6. \A i \in 1 .. k - 1 : uxPriority[t] <= uxPriority[s[i]]
    <3> SUFFICES ASSUME NEW i \in 1 .. k - 1
                 PROVE  uxPriority[t] <= uxPriority[s[i]]
      OBVIOUS
    <3>1. i \in 1 .. Len(s) /\ i \notin I
      BY <1>1, <2>1, <2>5
    <3> QED BY <1>1, <3>1
  <2>7. /\ q \in Seq(Task) /\ Len(q) = Len(s) + 1
        /\ \A i \in 1 .. Len(s) + 1 : q[i] = IF i < k THEN s[i] ELSE IF i = k THEN t ELSE s[i - 1]
    <3>1. /\ SubSeq(s, 1, k - 1) \in Seq(Task) /\ Len(SubSeq(s, 1, k - 1)) = k - 1
          /\ \A i \in 1 .. k - 1 : SubSeq(s, 1, k - 1)[i] = s[i]
      BY <1>1, <2>5
    <3>2. /\ SubSeq(s, k, Len(s)) \in Seq(Task) /\ Len(SubSeq(s, k, Len(s))) = Len(s) - k + 1
          /\ \A i \in 1 .. Len(s) - k + 1 : SubSeq(s, k, Len(s))[i] = s[k + i - 1]
      BY <1>1, <2>5
    <3>3. /\ SubSeq(s, 1, k - 1) \o <<t>> \in Seq(Task)
          /\ Len(SubSeq(s, 1, k - 1) \o <<t>>) = k
          /\ \A i \in 1 .. k : (SubSeq(s, 1, k - 1) \o <<t>>)[i] = IF i < k THEN s[i] ELSE t
      BY <1>1, <2>5, <3>1
    <3>4. PICK a \in Seq(Task), b \in Seq(Task) :
             /\ q = a \o b /\ Len(a) = k /\ Len(b) = Len(s) - k + 1
             /\ \A i \in 1 .. k : a[i] = IF i < k THEN s[i] ELSE t
             /\ \A i \in 1 .. Len(s) - k + 1 : b[i] = s[k + i - 1]
      BY <2>4, <3>2, <3>3
    <3>5. /\ a \o b \in Seq(Task) /\ Len(a \o b) = Len(a) + Len(b)
          /\ \A i \in 1 .. Len(a) + Len(b) :
                (a \o b)[i] = IF i <= Len(a) THEN a[i] ELSE b[i - Len(a)]
      BY ConcatProperties
    <3>6. q = a \o b
      BY <3>4
    <3> HIDE DEF q
    <3>7. /\ q \in Seq(Task) /\ Len(q) = Len(s) + 1
          /\ \A i \in 1 .. Len(s) + 1 : q[i] = IF i <= k THEN a[i] ELSE b[i - k]
      <4>1. Len(a) = k /\ Len(b) = Len(s) - k + 1
        BY <3>4
      <4>2. k + (Len(s) - k + 1) = Len(s) + 1 /\ k \in Nat
        BY <1>1, <2>5
      <4>3. Len(a) + Len(b) = Len(s) + 1
        BY <4>1, <4>2
      <4> QED BY <3>5, <3>6, <4>1, <4>3
    <3>8. ASSUME NEW i \in 1 .. Len(s) + 1
          PROVE  q[i] = IF i < k THEN s[i] ELSE IF i = k THEN t ELSE s[i - 1]
      <4>1. CASE i <= k
        BY <1>1, <2>5, <3>4, <3>7, <4>1
      <4>2. CASE i > k
        <5>1. i - k \in 1 .. Len(s) - k + 1 /\ k + (i - k) - 1 = i - 1
          BY <1>1, <2>5, <4>2
        <5>2. b[i - k] = s[k + (i - k) - 1]
          BY <3>4, <5>1
        <5>3. ~(i <= k) /\ ~(i < k) /\ i # k
          BY <1>1, <2>5, <4>2
        <5>4. q[i] = b[i - k]
          BY <3>7, <5>3
        <5>5. b[i - k] = s[i - 1]
          BY <5>1, <5>2
        <5> QED BY <5>3, <5>4, <5>5
      <4> QED BY <1>1, <2>5, <4>1, <4>2
    <3> QED BY <3>7, <3>8
  <2> WITNESS k \in 1 .. Len(s) + 1
  <2> QED BY <2>1, <2>5, <2>6, <2>7
<1> QED BY <1>2, <1>3

LEMMA QueuedFacts ==
    ASSUME NEW s \in Seq(Task), NEW t \in Task, uxPriority \in [Task -> Nat],
           IsInjective(s), t \notin Range(s)
    PROVE  /\ Queued(s, t) \in Seq(Task)
           /\ IsInjective(Queued(s, t))
           /\ Range(Queued(s, t)) = Range(s) \cup {t}
           /\ Sorted(uxPriority, s) => Sorted(uxPriority, Queued(s, t))
<1> DEFINE q == Queued(s, t)
<1>1. PICK k \in 1 .. Len(s) + 1 :
             /\ q \in Seq(Task) /\ Len(q) = Len(s) + 1
             /\ \A i \in 1 .. Len(s) + 1 : q[i] = IF i < k THEN s[i] ELSE IF i = k THEN t ELSE s[i - 1]
             /\ \A i \in 1 .. k - 1 : uxPriority[t] <= uxPriority[s[i]]
             /\ k <= Len(s) => uxPriority[s[k]] < uxPriority[t]
  BY QueuedAt
<1>2. /\ Len(s) \in Nat /\ DOMAIN s = 1 .. Len(s) /\ DOMAIN q = 1 .. Len(s) + 1
      /\ \A i \in 1 .. Len(s) : s[i] \in Task /\ s[i] # t
  BY <1>1 DEF Range
<1> HIDE DEF q
<1>3. IsInjective(q)
  <2>1. \A a, b \in 1 .. Len(s) : s[a] = s[b] => a = b
    BY <1>2 DEF IsInjective
  <2> SUFFICES ASSUME NEW i \in 1 .. Len(s) + 1, NEW j \in 1 .. Len(s) + 1, q[i] = q[j], i < j
               PROVE  FALSE
    BY <1>2 DEF IsInjective
  <2>0. q[i] = q[j]
    OBVIOUS
  <2>2. CASE j < k
    BY <1>1, <1>2, <2>1, <2>2
  <2>3. CASE i < k /\ j = k
    BY <1>1, <1>2, <2>1, <2>3
  <2>4. CASE i < k /\ j > k
    BY <1>1, <1>2, <2>1, <2>4
  <2>5. CASE i = k
    <3>1. j - 1 \in 1 .. Len(s) /\ q[j] = s[j - 1] /\ q[i] = t
      BY <1>1, <1>2, <2>5
    <3> QED BY <1>2, <2>0, <3>1
  <2>6. CASE i > k
    <3>1. /\ j - 1 \in 1 .. Len(s) /\ i - 1 \in 1 .. Len(s) /\ i - 1 # j - 1
          /\ q[j] = s[j - 1] /\ q[i] = s[i - 1]
      BY <1>1, <1>2, <2>6
    <3> QED BY <2>1, <2>0, <3>1
  <2> QED BY <1>1, <1>2, <2>2, <2>3, <2>4, <2>5, <2>6
<1>4. Range(q) \subseteq Range(s) \cup {t}
  <2> SUFFICES ASSUME NEW i \in 1 .. Len(s) + 1 PROVE q[i] \in Range(s) \cup {t}
    BY <1>2 DEF Range
  <2>1. CASE i < k
    <3>1. i \in DOMAIN s /\ q[i] = s[i]
      BY <1>1, <1>2, <2>1
    <3> QED BY <3>1 DEF Range
  <2>2. CASE i = k
    BY <1>1, <1>2, <2>2
  <2>3. CASE i > k
    <3>1. i - 1 \in DOMAIN s /\ q[i] = s[i - 1]
      BY <1>1, <1>2, <2>3
    <3> QED BY <3>1 DEF Range
  <2> QED BY <1>2, <2>1, <2>2, <2>3
<1>5. t \in Range(q)
  <2>1. k \in DOMAIN q /\ q[k] = t
    BY <1>1, <1>2
  <2> QED BY <2>1 DEF Range
<1>6. ASSUME NEW i \in DOMAIN s PROVE s[i] \in Range(q)
  <2>1. CASE i < k
    <3>1. i \in DOMAIN q /\ q[i] = s[i]
      BY <1>1, <1>2, <2>1
    <3> QED BY <3>1 DEF Range
  <2>2. CASE i >= k
    <3>1. i + 1 \in DOMAIN q /\ q[i + 1] = s[i]
      BY <1>1, <1>2, <2>2
    <3> QED BY <3>1 DEF Range
  <2> QED BY <1>2, <2>1, <2>2
<1>7. ASSUME Sorted(uxPriority, s) PROVE Sorted(uxPriority, q)
  <2> SUFFICES ASSUME NEW i \in DOMAIN q, NEW j \in DOMAIN q, i < j
               PROVE  uxPriority[q[j]] <= uxPriority[q[i]]
    BY DEF Sorted
  <2>0. /\ \A a, b \in 1 .. Len(s) : a < b => uxPriority[s[b]] <= uxPriority[s[a]]
        /\ \A a \in 1 .. Len(s) : uxPriority[s[a]] \in Nat
        /\ uxPriority[t] \in Nat
    BY <1>2, <1>7 DEF Sorted
  <2>1. CASE i < k /\ j < k
    BY <1>1, <1>2, <2>0, <2>1
  <2>2. CASE i < k /\ j = k
    BY <1>1, <1>2, <2>2
  <2>3. CASE i < k /\ j > k
    <3>1. j - 1 \in 1 .. Len(s) /\ i \in 1 .. Len(s) /\ q[j] = s[j - 1] /\ q[i] = s[i]
      BY <1>1, <1>2, <2>3
    <3>2. i < j - 1 \/ i = j - 1
      BY <1>2, <2>3
    <3> QED BY <2>0, <3>1, <3>2
  <2>4. CASE i = k
    <3>1. k <= Len(s) /\ j - 1 >= k /\ j - 1 \in 1 .. Len(s) /\ q[j] = s[j - 1] /\ q[i] = t
      BY <1>1, <1>2, <2>4
    <3>2. uxPriority[s[j - 1]] <= uxPriority[s[k]]
      BY <1>2, <2>0, <3>1
    <3> QED BY <1>1, <1>2, <2>0, <3>1, <3>2
  <2>5. CASE i > k
    <3>1. /\ j - 1 \in 1 .. Len(s) /\ i - 1 \in 1 .. Len(s) /\ i - 1 < j - 1
          /\ q[j] = s[j - 1] /\ q[i] = s[i - 1]
      BY <1>1, <1>2, <2>5
    <3> QED BY <2>0, <3>1
  <2> QED BY <1>1, <1>2, <2>1, <2>2, <2>3, <2>4, <2>5
<1>8. Range(q) = Range(s) \cup {t}
  BY <1>4, <1>5, <1>6 DEF Range
<1>9. q \in Seq(Task)
  BY <1>1
<1> QED BY <1>3, <1>7, <1>8, <1>9 DEF q

-----------------------------------------------------------------------------
Own(t) == {m \in Mutex : xMutexHolder[m] = t}

\* What a task holds, counts, and is recorded as the holder of, is the same.
Owned ==
    \A t \in Task :
        /\ IsInjective(held[t])
        /\ Range(held[t]) = Own(t)
        /\ uxMutexesHeld[t] = Cardinality(Own(t))

\* Only a call wants a mutex, and never one its task holds.
Calls ==
    /\ \A t \in Task :
          /\ pc[t] = "app" <=> wants[t] = NULL
          /\ pc[t] # "app" => xMutexHolder[wants[t]] # t
    /\ pc[Idle] = "app"

\* The running task is ready until the switch that its sleep has set.
Running == ~pendSV => pxCurrentTCB \in ready

Waiting(m) == Range(xTasksWaitingToReceive[m])

\* A task in an event list is asleep, and in the list once.
Queues ==
    \A m \in Mutex :
        IsInjective(xTasksWaitingToReceive[m]) /\ Waiting(m) \cap ready = {}

GInv == TypeOK /\ Owned /\ Calls /\ Running /\ Queues /\ HighestPriorityRuns

LEMMA AcquireOwned ==
    ASSUME NEW t \in Task, NEW m \in Mutex, TypeOK, Owned, xMutexHolder[m] = NULL, Acquire(t, m)
    PROVE  /\ xMutexHolder' \in [Mutex -> Task \cup {NULL}]
           /\ held' \in [Task -> Seq(Mutex)]
           /\ uxMutexesHeld' \in [Task -> 0 .. Cardinality(Mutex)]
           /\ Owned'
<1>1. /\ NULL \notin Task /\ NULL \notin Mutex /\ IsFiniteSet(Mutex)
  BY MutexAssumption
<1>2. /\ xMutexHolder' = [xMutexHolder EXCEPT ![m] = t]
      /\ uxMutexesHeld' = [uxMutexesHeld EXCEPT ![t] = @ + 1]
      /\ held' = [held EXCEPT ![t] = Append(@, m)]
  BY DEF Acquire
<1>3. xMutexHolder' \in [Mutex -> Task \cup {NULL}] /\ held' \in [Task -> Seq(Mutex)]
  BY <1>2 DEF TypeOK
<1>4. Own(t)' = Own(t) \cup {m} /\ m \notin Own(t)
  BY <1>1, <1>2 DEF TypeOK, Own
<1>5. \A u \in Task \ {t} : Own(u)' = Own(u)
  BY <1>1, <1>2 DEF TypeOK, Own
<1>6. \A u \in Task : IsFiniteSet(Own(u)') /\ Cardinality(Own(u)') <= Cardinality(Mutex)
  BY <1>1, FS_Subset DEF Own
<1>7. /\ uxMutexesHeld[t] = Cardinality(Own(t)) /\ Cardinality(Own(t)') = Cardinality(Own(t)) + 1
      /\ Cardinality(Own(t)) \in Nat /\ Cardinality(Mutex) \in Nat
  <2>1. IsFiniteSet(Own(t))
    BY <1>1, FS_Subset DEF Own
  <2> QED BY <1>1, <1>4, <2>1, FS_AddElement, FS_CardinalityType DEF Owned
<1>8. uxMutexesHeld' \in [Task -> 0 .. Cardinality(Mutex)]
  <2>1. uxMutexesHeld'[t] \in 0 .. Cardinality(Mutex)
    BY <1>2, <1>6, <1>7 DEF TypeOK
  <2> QED BY <1>2, <2>1 DEF TypeOK
<1>9. ASSUME NEW u \in Task
      PROVE  /\ IsInjective(held'[u]) /\ Range(held'[u]) = Own(u)'
             /\ uxMutexesHeld'[u] = Cardinality(Own(u)')
  <2>1. CASE u # t
    BY <1>2, <1>5, <2>1 DEF Owned, TypeOK
  <2>2. CASE u = t
    <3>1. held[t] \in Seq(Mutex) /\ IsInjective(held[t]) /\ Range(held[t]) = Own(t)
      BY DEF Owned, TypeOK
    <3>2. held'[t] = Append(held[t], m)
      BY <1>2 DEF TypeOK
    <3>3. m \notin Range(held[t])
      BY <1>4, <3>1
    <3>4. IsInjective(held'[t]) /\ Range(held'[t]) = Range(held[t]) \cup {m}
      BY <3>1, <3>2, <3>3, AppendFacts
    <3>5. uxMutexesHeld'[t] = Cardinality(Own(t)')
      BY <1>2, <1>7 DEF TypeOK
    <3> QED BY <1>4, <2>2, <3>1, <3>4, <3>5
  <2> QED BY <2>1, <2>2
<1> QED BY <1>3, <1>8, <1>9 DEF Owned

LEMMA GiveOwned ==
    ASSUME NEW t \in Task, NEW m \in Mutex, TypeOK, Owned, Give(t, m)
    PROVE  /\ xMutexHolder' \in [Mutex -> Task \cup {NULL}]
           /\ held' \in [Task -> Seq(Mutex)]
           /\ uxMutexesHeld' \in [Task -> 0 .. Cardinality(Mutex)]
           /\ Owned'
<1>1. /\ NULL \notin Task /\ NULL \notin Mutex /\ IsFiniteSet(Mutex)
  BY MutexAssumption
<1>2. /\ xMutexHolder[m] = t
      /\ xMutexHolder' = [xMutexHolder EXCEPT ![m] = NULL]
      /\ uxMutexesHeld' = [uxMutexesHeld EXCEPT ![t] = @ - 1]
      /\ held' = [held EXCEPT ![t] = RemoveFirst(@, m)]
  BY DEF Give, OneFewer
<1>3. /\ held[t] \in Seq(Mutex) /\ IsInjective(held[t]) /\ Range(held[t]) = Own(t)
      /\ RemoveFirst(held[t], m) \in Seq(Mutex) /\ IsInjective(RemoveFirst(held[t], m))
      /\ Range(RemoveFirst(held[t], m)) = Range(held[t]) \ {m}
  <2>1. /\ held[t] \in Seq(Mutex) /\ IsInjective(held[t]) /\ Range(held[t]) = Own(t)
    BY DEF Owned, TypeOK
  <2> QED BY <2>1, Removed
<1>4. xMutexHolder' \in [Mutex -> Task \cup {NULL}] /\ held' \in [Task -> Seq(Mutex)]
  BY <1>2, <1>3 DEF TypeOK
<1>5. Own(t)' = Own(t) \ {m} /\ m \in Own(t)
  BY <1>1, <1>2 DEF TypeOK, Own
<1>6. \A u \in Task \ {t} : Own(u)' = Own(u)
  BY <1>1, <1>2 DEF TypeOK, Own
<1>7. /\ uxMutexesHeld[t] = Cardinality(Own(t)) /\ Cardinality(Own(t)') = Cardinality(Own(t)) - 1
      /\ Cardinality(Own(t)') \in Nat /\ Cardinality(Own(t)) \in Nat
  <2>1. IsFiniteSet(Own(t)) /\ IsFiniteSet(Own(t)')
    BY <1>1, FS_Subset DEF Own
  <2> QED BY <1>5, <2>1, FS_RemoveElement, FS_CardinalityType DEF Owned
<1>8. uxMutexesHeld'[t] = uxMutexesHeld[t] - 1
  BY <1>2 DEF TypeOK
<1>9. uxMutexesHeld' \in [Task -> 0 .. Cardinality(Mutex)]
  <2>1. Cardinality(Mutex) \in Nat
    BY <1>1, FS_CardinalityType
  <2>2. uxMutexesHeld'[t] \in 0 .. Cardinality(Mutex)
    BY <1>7, <1>8, <2>1 DEF TypeOK
  <2> QED BY <1>2, <2>2 DEF TypeOK
<1>10. ASSUME NEW u \in Task
       PROVE  /\ IsInjective(held'[u]) /\ Range(held'[u]) = Own(u)'
              /\ uxMutexesHeld'[u] = Cardinality(Own(u)')
  <2>1. CASE u # t
    BY <1>2, <1>6, <2>1 DEF Owned, TypeOK
  <2>2. CASE u = t
    <3>1. held'[t] = RemoveFirst(held[t], m)
      BY <1>2 DEF TypeOK
    <3> QED BY <1>3, <1>5, <1>7, <1>8, <2>2, <3>1
  <2> QED BY <2>1, <2>2
<1> QED BY <1>4, <1>9, <1>10 DEF Owned

LEMMA Left ==
    ASSUME TypeOK, Queues, NEW w \in Task, Leave(w)
    PROVE  /\ xTasksWaitingToReceive' \in [Mutex -> Seq(Task)]
           /\ \A m \in Mutex :
                 /\ IsInjective(xTasksWaitingToReceive'[m])
                 /\ Waiting(m)' = Waiting(m) \ {w}
                 /\ Sorted(Base, xTasksWaitingToReceive[m])
                       => Sorted(Base, xTasksWaitingToReceive'[m])
<1>1. ASSUME NEW m \in Mutex
      PROVE  /\ xTasksWaitingToReceive'[m] = RemoveFirst(xTasksWaitingToReceive[m], w)
             /\ xTasksWaitingToReceive'[m] \in Seq(Task)
             /\ IsInjective(xTasksWaitingToReceive'[m])
             /\ Range(xTasksWaitingToReceive'[m]) = Range(xTasksWaitingToReceive[m]) \ {w}
             /\ Sorted(Base, xTasksWaitingToReceive[m])
                   => Sorted(Base, xTasksWaitingToReceive'[m])
  <2>1. xTasksWaitingToReceive[m] \in Seq(Task) /\ IsInjective(xTasksWaitingToReceive[m])
    BY DEF TypeOK, Queues
  <2>2. xTasksWaitingToReceive'[m] = RemoveFirst(xTasksWaitingToReceive[m], w)
    BY DEF Leave
  <2>3. Base \in [Task -> Nat]
    BY MutexAssumption
  <2> DEFINE s == xTasksWaitingToReceive[m]
  <2> HIDE DEF s
  <2>4. /\ RemoveFirst(s, w) \in Seq(Task) /\ IsInjective(RemoveFirst(s, w))
        /\ Range(RemoveFirst(s, w)) = Range(s) \ {w}
    BY <2>1, Removed DEF s
  <2>5. Sorted(Base, s) => Sorted(Base, RemoveFirst(s, w))
    BY <2>1, <2>3, RemovedSorted DEF s
  <2> QED BY <2>2, <2>4, <2>5 DEF s
<1>2. xTasksWaitingToReceive' = [m \in Mutex |-> RemoveFirst(xTasksWaitingToReceive[m], w)]
  BY DEF Leave
<1>3. xTasksWaitingToReceive' \in [Mutex -> Seq(Task)]
  BY <1>1, <1>2
<1> QED BY <1>1, <1>3 DEF Waiting

LEMMA SwitchGeneral == GInv /\ vTaskSwitchContext => GInv'
<1> SUFFICES ASSUME GInv, vTaskSwitchContext PROVE GInv'
  OBVIOUS
<1> USE DEF GInv, vTaskSwitchContext, mutexes, calls
<1>1. pxCurrentTCB' \in Task /\ pxCurrentTCB' \in ready
  BY DEF HighestReady, TypeOK
<1>2. TypeOK'
  BY <1>1 DEF TypeOK
<1>3. Owned' /\ Calls' /\ Queues'
  BY DEF Owned, Own, Calls, Queues, Waiting
<1>4. Running' /\ HighestPriorityRuns'
  BY <1>1 DEF Running, HighestPriorityRuns, HighestReady
<1> QED BY <1>2, <1>3, <1>4

LEMMA TickGeneral == GInv /\ xTaskIncrementTick => GInv'
<1> SUFFICES ASSUME GInv, xTaskIncrementTick PROVE GInv'
  OBVIOUS
<1> USE DEF GInv
<1>0. UNCHANGED <<pxCurrentTCB, uxPriority, uxMutexesHeld, xMutexHolder, held,
                  pc, wants, xInheritanceOccurred, history>>
  BY DEF xTaskIncrementTick
<1>1. Owned' /\ Calls'
  BY <1>0 DEF Owned, Own, Calls
<1>2. CASE UNCHANGED <<ready, xTasksWaitingToReceive, xTicksToWait>> /\ pendSV' = TRUE
  BY <1>0, <1>1, <1>2 DEF TypeOK, Queues, Waiting, Running, HighestPriorityRuns, history
<1>3. ASSUME NEW w \in Task \ ready,
             ready' = ready \cup {w}, Leave(w),
             xTicksToWait' = [xTicksToWait EXCEPT ![w] = IF pc[w] = "app" THEN @ ELSE "passed"],
             pendSV' = (pendSV \/ uxPriority[w] >= uxPriority[pxCurrentTCB])
      PROVE  GInv'
  <2>1. /\ xTasksWaitingToReceive' \in [Mutex -> Seq(Task)]
        /\ \A m \in Mutex : /\ IsInjective(xTasksWaitingToReceive'[m])
                            /\ Waiting(m)' = Waiting(m) \ {w}
    BY <1>3, Left
  <2>2. TypeOK'
    BY <1>0, <1>3, <2>1 DEF TypeOK, history
  <2>3. Queues'
    BY <1>3, <2>1 DEF Queues
  <2>4. Running'
    BY <1>0, <1>3 DEF Running
  <2>5. HighestPriorityRuns'
    <3> SUFFICES ASSUME ~pendSV', ~slipped' PROVE pxCurrentTCB' \in HighestReady'
      BY DEF HighestPriorityRuns
    <3>1. ~pendSV /\ ~slipped /\ ~(uxPriority[w] >= uxPriority[pxCurrentTCB])
      BY <1>0, <1>3 DEF history
    <3>2. uxPriority[w] <= uxPriority[pxCurrentTCB]
      BY <3>1 DEF TypeOK
    <3> QED BY <1>0, <1>3, <3>1, <3>2 DEF HighestPriorityRuns, HighestReady
  <2> QED BY <1>1, <2>2, <2>3, <2>4, <2>5
<1> QED BY <1>2, <1>3 DEF xTaskIncrementTick

LEMMA DelayGeneral == ASSUME NEW t \in Task PROVE GInv /\ vTaskDelay(t) => GInv'
<1> SUFFICES ASSUME GInv, vTaskDelay(t) PROVE GInv'
  OBVIOUS
<1> USE DEF GInv, vTaskDelay, mutexes, calls, history
<1>1. TypeOK'
  BY DEF TypeOK
<1>2. Owned' /\ Calls' /\ Queues'
  BY DEF Owned, Own, Calls, Queues, Waiting
<1>3. Running' /\ HighestPriorityRuns'
  BY DEF Running, HighestPriorityRuns
<1> QED BY <1>1, <1>2, <1>3

LEMMA YieldGeneral == ASSUME NEW t \in Task PROVE GInv /\ taskYIELD(t) => GInv'
<1> SUFFICES ASSUME GInv, taskYIELD(t) PROVE GInv'
  OBVIOUS
<1> USE DEF GInv, taskYIELD, mutexes, calls, history
<1>1. TypeOK'
  BY DEF TypeOK
<1>2. Owned' /\ Calls' /\ Queues'
  BY DEF Owned, Own, Calls, Queues, Waiting
<1>3. Running' /\ HighestPriorityRuns'
  BY DEF Running, HighestPriorityRuns
<1> QED BY <1>1, <1>2, <1>3

\* The call is over.
LEMMA Returned ==
    ASSUME TypeOK, Calls, NEW t \in Task, Return(t)
    PROVE  /\ pc' \in [Task -> {"app", "retry", "window", "late", "disinherit"}]
           /\ wants' \in [Task -> Mutex \cup {NULL}]
           /\ xTicksToWait' \in [Task -> {"none", "some", "passed", "forever"}]
           /\ xInheritanceOccurred' \in [Task -> BOOLEAN]
           /\ \A u \in Task : u # t =>
                 /\ pc'[u] = pc[u] /\ wants'[u] = wants[u]
                 /\ xTicksToWait'[u] = xTicksToWait[u]
                 /\ xInheritanceOccurred'[u] = xInheritanceOccurred[u]
           /\ pc'[t] = "app" /\ wants'[t] = NULL /\ pc'[Idle] = "app"
  BY MutexAssumption DEF Return, Goto, TypeOK, Calls

LEMMA ReturnedCalls ==
    ASSUME TypeOK, Calls, NEW t \in Task, Return(t),
           \/ UNCHANGED xMutexHolder
           \/ \E m \in Mutex : xMutexHolder' = [xMutexHolder EXCEPT ![m] = t]
    PROVE  Calls'
<1>1. /\ \A u \in Task : u # t => pc'[u] = pc[u] /\ wants'[u] = wants[u]
      /\ pc'[t] = "app" /\ wants'[t] = NULL /\ pc'[Idle] = "app"
  BY Returned
<1>2. ASSUME NEW u \in Task
      PROVE  /\ pc'[u] = "app" <=> wants'[u] = NULL
             /\ pc'[u] # "app" => xMutexHolder'[wants'[u]] # u
  <2>1. CASE u = t
    BY <1>1, <2>1
  <2>2. CASE u # t
    <3>1. pc[u] # "app" => wants[u] \in Mutex /\ xMutexHolder[wants[u]] # u
      BY DEF Calls, TypeOK
    <3>2. pc[u] # "app" => xMutexHolder'[wants[u]] # u
      BY <2>2, <3>1 DEF TypeOK
    <3> QED BY <1>1, <2>2, <3>2 DEF Calls
  <2> QED BY <2>1, <2>2
<1> QED BY <1>1, <1>2 DEF Calls

LEMMA TakeGeneral ==
    ASSUME NEW t \in Task, NEW m \in Mutex, NEW limit \in {"some", "forever"}
    PROVE  GInv /\ xQueueSemaphoreTake(t, m, limit) => GInv'
<1> SUFFICES ASSUME GInv, xQueueSemaphoreTake(t, m, limit) PROVE GInv'
  OBVIOUS
<1> USE DEF GInv
<1>0. /\ pc[t] = "app" /\ Append(held[t], m) \in Takes[t]
      /\ UNCHANGED <<pxCurrentTCB, pendSV, ready, uxPriority, slipped>>
      /\ NULL \notin Task /\ NULL \notin Mutex /\ Takes[Idle] = {}
  BY MutexAssumption DEF xQueueSemaphoreTake, sched
<1>1. CASE xMutexHolder[m] = NULL
  <2>1. /\ Acquire(t, m) /\ Return(t) /\ UNCHANGED xTasksWaitingToReceive
        /\ xMutexHolder' = [xMutexHolder EXCEPT ![m] = t]
        /\ retaken' = IF slipped THEN retaken \cup {m} ELSE retaken
    BY <1>1 DEF xQueueSemaphoreTake, Acquire
  <2>2. TypeOK' /\ Owned'
    BY <1>0, <1>1, <2>1, AcquireOwned, Returned DEF TypeOK
  <2>3. Calls'
    BY <1>0, <2>1, ReturnedCalls
  <2>4. Queues' /\ Running' /\ HighestPriorityRuns'
    BY <1>0, <2>1 DEF Queues, Waiting, Running, HighestPriorityRuns, HighestReady
  <2> QED BY <2>2, <2>3, <2>4
<1>2. CASE xMutexHolder[m] # NULL
  <2>1. /\ pc' = [pc EXCEPT ![t] = "window"] /\ wants' = [wants EXCEPT ![t] = m]
        /\ xTicksToWait' = [xTicksToWait EXCEPT ![t] = limit]
        /\ UNCHANGED <<xMutexHolder, xTasksWaitingToReceive, held, uxMutexesHeld,
                       xInheritanceOccurred, retaken>>
    BY <1>2 DEF xQueueSemaphoreTake, Goto, mutexes
  <2>2. TypeOK'
    BY <1>0, <2>1 DEF TypeOK
  <2>3. xMutexHolder[m] # t
    <3>1. held[t] \in Seq(Mutex) /\ IsInjective(Append(held[t], m))
      BY <1>0, MutexAssumption DEF TypeOK
    <3>2. m \notin Range(held[t])
      BY <3>1, InjectiveAppended
    <3> QED BY <3>2 DEF Owned, Own
  <2>4. t # Idle
    BY <1>0
  <2>5. Calls'
    BY <1>0, <2>1, <2>3, <2>4 DEF Calls, TypeOK
  <2>6. Owned' /\ Queues' /\ Running' /\ HighestPriorityRuns'
    BY <1>0, <2>1 DEF Owned, Own, Queues, Waiting, Running, HighestPriorityRuns, HighestReady
  <2> QED BY <2>2, <2>5, <2>6
<1> QED BY <1>1, <1>2

LEMMA AgainGeneral == ASSUME NEW t \in Task PROVE GInv /\ TakeAgain(t) => GInv'
<1> SUFFICES ASSUME GInv, TakeAgain(t) PROVE GInv'
  OBVIOUS
<1> USE DEF GInv
<1> DEFINE m == wants[t]
<1>0. /\ pc[t] = "retry"
      /\ UNCHANGED <<pxCurrentTCB, pendSV, ready, uxPriority, slipped>>
      /\ NULL \notin Task /\ NULL \notin Mutex
  BY MutexAssumption DEF TakeAgain, sched
<1>m. m \in Mutex /\ t # Idle /\ xMutexHolder[m] # t
  BY <1>0 DEF Calls, TypeOK
<1>1. CASE xMutexHolder[m] = NULL
  <2>1. /\ Acquire(t, m) /\ Return(t) /\ UNCHANGED xTasksWaitingToReceive
        /\ xMutexHolder' = [xMutexHolder EXCEPT ![m] = t]
        /\ retaken' = IF slipped THEN retaken \cup {m} ELSE retaken
    BY <1>1 DEF TakeAgain, Acquire
  <2> HIDE DEF m
  <2>2. TypeOK' /\ Owned'
    BY <1>0, <1>1, <1>m, <2>1, AcquireOwned, Returned DEF TypeOK
  <2>3. Calls'
    BY <1>0, <1>m, <2>1, ReturnedCalls
  <2>4. Queues' /\ Running' /\ HighestPriorityRuns'
    BY <1>0, <2>1 DEF Queues, Waiting, Running, HighestPriorityRuns, HighestReady
  <2> QED BY <2>2, <2>3, <2>4
<1>2. CASE xMutexHolder[m] # NULL
  <2>1. UNCHANGED <<xMutexHolder, xTasksWaitingToReceive, held, uxMutexesHeld, retaken>>
    BY <1>2 DEF TakeAgain, mutexes
  <2>2. CASE Return(t)
    <3>1. TypeOK'
      BY <1>0, <2>1, <2>2, Returned DEF TypeOK
    <3>2. Calls'
      BY <1>0, <2>1, <2>2, ReturnedCalls
    <3> QED BY <1>0, <2>1, <3>1, <3>2
            DEF Owned, Own, Queues, Waiting, Running, HighestPriorityRuns, HighestReady
  <2>3. CASE /\ pc' = [pc EXCEPT ![t] = "window"]
             /\ UNCHANGED <<wants, xTicksToWait, xInheritanceOccurred>>
    <3>1. TypeOK'
      BY <1>0, <2>1, <2>3 DEF TypeOK
    <3>2. Calls'
      BY <1>0, <1>m, <2>1, <2>3 DEF Calls, TypeOK
    <3> QED BY <1>0, <2>1, <3>1, <3>2
            DEF Owned, Own, Queues, Waiting, Running, HighestPriorityRuns, HighestReady
  <2> QED BY <1>2, <2>2, <2>3 DEF TakeAgain, Goto
<1> QED BY <1>1, <1>2

LEMMA WindowGeneral == ASSUME NEW t \in Task PROVE GInv /\ Window(t) => GInv'
<1> SUFFICES ASSUME GInv, Window(t) PROVE GInv'
  OBVIOUS
<1> USE DEF GInv
<1> DEFINE m == wants[t]
           h == xMutexHolder[m]
<1>0. /\ pxCurrentTCB = t /\ ~pendSV /\ pc[t] = "window"
      /\ UNCHANGED <<pxCurrentTCB, uxMutexesHeld, xMutexHolder, held, wants, slipped, retaken>>
      /\ NULL \notin Task /\ NULL \notin Mutex
  BY MutexAssumption DEF Window, Runs, history
<1>1. m \in Mutex /\ t # Idle /\ h # t /\ t \in ready /\ h \in Task \cup {NULL}
  BY <1>0 DEF Calls, TypeOK, Running
<1>2. Owned'
  BY <1>0 DEF Owned, Own
<1>3. ASSUME NEW label \in {"late", "retry"}, Goto(t, label)
      PROVE  Calls' /\ pc' \in [Task -> {"app", "retry", "window", "late", "disinherit"}]
  BY <1>0, <1>1, <1>3 DEF Goto, Calls, TypeOK
<1>4. CASE /\ UNCHANGED <<ready, pendSV, uxPriority, xTasksWaitingToReceive, xInheritanceOccurred>>
           /\ xTicksToWait' \in [Task -> {"none", "some", "passed", "forever"}]
           /\ \E label \in {"late", "retry"} : Goto(t, label)
  <2>1. Calls' /\ pc' \in [Task -> {"app", "retry", "window", "late", "disinherit"}]
    BY <1>3, <1>4
  <2>2. TypeOK'
    BY <1>0, <1>4, <2>1 DEF TypeOK
  <2> QED BY <1>0, <1>2, <1>4, <2>1, <2>2
          DEF Queues, Waiting, Running, HighestPriorityRuns, HighestReady
<1>5. CASE /\ h # NULL /\ Goto(t, "retry") /\ UNCHANGED xTicksToWait
           /\ uxPriority' = Raised(h, t)
           /\ xInheritanceOccurred' = [xInheritanceOccurred EXCEPT ![t] = Base[h] < uxPriority[t]]
           /\ xTasksWaitingToReceive' = [xTasksWaitingToReceive EXCEPT ![m] = Queued(@, t)]
           /\ ready' = ready \ {t} /\ pendSV' = TRUE
  <2>1. Calls' /\ pc' \in [Task -> {"app", "retry", "window", "late", "disinherit"}]
    BY <1>3, <1>5
  <2>2. uxPriority' \in [Task -> Nat] /\ xInheritanceOccurred' \in [Task -> BOOLEAN]
    BY <1>1, <1>5 DEF Raised, TypeOK
  <2>3. /\ xTasksWaitingToReceive[m] \in Seq(Task) /\ IsInjective(xTasksWaitingToReceive[m])
        /\ t \notin Range(xTasksWaitingToReceive[m]) /\ uxPriority \in [Task -> Nat]
    BY <1>1 DEF TypeOK, Queues, Waiting
  <2>4. /\ xTasksWaitingToReceive'[m] \in Seq(Task) /\ IsInjective(xTasksWaitingToReceive'[m])
        /\ Range(xTasksWaitingToReceive'[m]) = Range(xTasksWaitingToReceive[m]) \cup {t}
    <3>1. xTasksWaitingToReceive'[m] = Queued(xTasksWaitingToReceive[m], t)
      BY <1>1, <1>5 DEF TypeOK
    <3> QED BY <2>3, <3>1, QueuedFacts
  <2>5. \A n \in Mutex \ {m} : xTasksWaitingToReceive'[n] = xTasksWaitingToReceive[n]
    BY <1>1, <1>5 DEF TypeOK
  <2>6. xTasksWaitingToReceive' \in [Mutex -> Seq(Task)]
    <3>1. xTasksWaitingToReceive \in [Mutex -> Seq(Task)]
      BY DEF TypeOK
    <3>2. Queued(xTasksWaitingToReceive[m], t) \in Seq(Task)
      BY <2>3, QueuedFacts
    <3> QED BY <1>5, <3>1, <3>2
  <2>7. TypeOK'
    BY <1>0, <1>1, <1>5, <2>1, <2>2, <2>6 DEF TypeOK
  <2>8. Queues'
    <3> SUFFICES ASSUME NEW n \in Mutex
                 PROVE  IsInjective(xTasksWaitingToReceive'[n])
                        /\ Range(xTasksWaitingToReceive'[n]) \cap ready' = {}
      BY DEF Queues, Waiting
    <3>1. CASE n = m
      BY <1>5, <2>4, <3>1 DEF Queues, Waiting
    <3>2. CASE n # m
      BY <1>5, <2>5, <3>2 DEF Queues, Waiting
    <3> QED BY <3>1, <3>2
  <2>9. Running' /\ HighestPriorityRuns'
    BY <1>5 DEF Running, HighestPriorityRuns
  <2> QED BY <1>2, <2>1, <2>7, <2>8, <2>9
<1>6. \/ xTicksToWait' = [xTicksToWait EXCEPT ![t] = "none"]
      \/ UNCHANGED xTicksToWait
  BY DEF Window
<1>7. xTicksToWait' \in [Task -> {"none", "some", "passed", "forever"}]
  BY <1>6 DEF TypeOK
<1> QED BY <1>4, <1>5, <1>7 DEF Window

LEMMA LateGeneral == ASSUME NEW t \in Task PROVE GInv /\ Late(t) => GInv'
<1> SUFFICES ASSUME GInv, Late(t) PROVE GInv'
  OBVIOUS
<1> USE DEF GInv
<1>0. /\ pc[t] = "late"
      /\ UNCHANGED <<pxCurrentTCB, pendSV, ready, uxPriority, uxMutexesHeld, xMutexHolder,
                     xTasksWaitingToReceive, held, slipped, retaken>>
  BY DEF Late, sched, mutexes, history
<1>1. CASE Return(t)
  <2>1. TypeOK'
    BY <1>0, <1>1, Returned DEF TypeOK
  <2>2. Calls'
    BY <1>0, <1>1, ReturnedCalls
  <2> QED BY <1>0, <2>1, <2>2
          DEF Owned, Own, Queues, Waiting, Running, HighestPriorityRuns, HighestReady
<1>2. CASE /\ \E label \in {"retry", "disinherit"} : Goto(t, label)
           /\ UNCHANGED <<wants, xTicksToWait, xInheritanceOccurred>>
  <2>1. TypeOK'
    BY <1>0, <1>2 DEF TypeOK, Goto
  <2>2. Calls'
    BY <1>0, <1>2 DEF Calls, TypeOK, Goto
  <2> QED BY <1>0, <2>1, <2>2
          DEF Owned, Own, Queues, Waiting, Running, HighestPriorityRuns, HighestReady
<1> QED BY <1>1, <1>2 DEF Late

LEMMA DisinheritGeneral ==
    ASSUME NEW t \in Task PROVE GInv /\ vTaskPriorityDisinheritAfterTimeout(t) => GInv'
<1> SUFFICES ASSUME GInv, vTaskPriorityDisinheritAfterTimeout(t) PROVE GInv'
  OBVIOUS
<1> USE DEF GInv
<1> DEFINE h == xMutexHolder[wants[t]]
           p == HighestWaiting(wants[t])
<1>0. /\ pxCurrentTCB = t /\ ~pendSV /\ pc[t] = "disinherit" /\ Return(t)
      /\ UNCHANGED <<pxCurrentTCB, pendSV, ready, uxMutexesHeld, xMutexHolder,
                     xTasksWaitingToReceive, held, retaken>>
      /\ slipped' = (slipped \/ (h \in ready /\ uxPriority'[h] > uxPriority[t]))
      /\ uxPriority' = IF h # NULL /\ uxMutexesHeld[h] = 1
                       THEN [uxPriority EXCEPT ![h] = IF Base[h] < p THEN p ELSE Base[h]]
                       ELSE uxPriority
  BY DEF vTaskPriorityDisinheritAfterTimeout, Runs, sched, mutexes
<1>1. wants[t] \in Mutex /\ h # t /\ h \in Task \cup {NULL}
  BY <1>0 DEF Calls, TypeOK
<1>2. p \in Nat
  BY <1>1 DEF HighestWaiting, TypeOK
<1>3. uxPriority' \in [Task -> Nat]
  BY <1>0, <1>1, <1>2, MutexAssumption DEF TypeOK
<1> HIDE DEF h, p
<1>4. TypeOK'
  BY <1>0, <1>3, Returned DEF TypeOK
<1>5. Calls'
  BY <1>0, ReturnedCalls
<1>6. Owned' /\ Queues' /\ Running'
  BY <1>0 DEF Owned, Own, Queues, Waiting, Running
<1>7. HighestPriorityRuns'
  <2> SUFFICES ASSUME ~pendSV', ~slipped' PROVE pxCurrentTCB' \in HighestReady'
    BY DEF HighestPriorityRuns
  <2>1. t \in ready /\ \A u \in ready : uxPriority[u] <= uxPriority[t]
    BY <1>0 DEF HighestPriorityRuns, HighestReady
  <2>2. \A u \in Task : u # h => uxPriority'[u] = uxPriority[u]
    BY <1>0 DEF TypeOK
  <2>3. h \in ready => uxPriority'[h] <= uxPriority[t]
    <3>1. h \in ready => ~ (uxPriority'[h] > uxPriority[t])
      BY <1>0
    <3> QED BY <1>3, <3>1 DEF TypeOK
  <2>4. \A u \in ready : uxPriority'[u] <= uxPriority'[t]
    BY <1>1, <2>1, <2>2, <2>3 DEF TypeOK
  <2> QED BY <1>0, <2>1, <2>4 DEF HighestReady
<1> QED BY <1>4, <1>5, <1>6, <1>7

LEMMA GiveGeneral ==
    ASSUME NEW t \in Task, NEW m \in Mutex PROVE GInv /\ Give(t, m) => GInv'
<1> SUFFICES ASSUME GInv, Give(t, m) PROVE GInv'
  OBVIOUS
<1> USE DEF GInv
<1>0. /\ pxCurrentTCB = t /\ ~pendSV /\ xMutexHolder[m] = t
      /\ uxPriority' = Disinherited(t)
      /\ xMutexHolder' = [xMutexHolder EXCEPT ![m] = NULL]
      /\ retaken' = retaken \ {m}
      /\ UNCHANGED <<pxCurrentTCB, pc, wants, xTicksToWait, xInheritanceOccurred>>
      /\ NULL \notin Task
  BY MutexAssumption DEF Give, Runs, calls
<1>1. uxPriority' \in [Task -> Nat]
  BY <1>0, MutexAssumption DEF Disinherited, TypeOK
<1>2. Owned' /\ xMutexHolder' \in [Mutex -> Task \cup {NULL}] /\ held' \in [Task -> Seq(Mutex)]
      /\ uxMutexesHeld' \in [Task -> 0 .. Cardinality(Mutex)]
  BY GiveOwned
<1>3. Calls'
  <2>1. ASSUME NEW u \in Task, pc[u] # "app" PROVE xMutexHolder'[wants[u]] # u
    <3>1. wants[u] \in Mutex /\ xMutexHolder[wants[u]] # u
      BY <2>1, MutexAssumption DEF Calls, TypeOK
    <3> QED BY <1>0, <3>1 DEF TypeOK
  <2> QED BY <1>0, <2>1 DEF Calls
<1>4. CASE /\ xTasksWaitingToReceive[m] = <<>>
           /\ pendSV' = (uxPriority' # uxPriority)
           /\ UNCHANGED <<ready, xTasksWaitingToReceive, slipped>>
  <2>1. TypeOK'
    BY <1>0, <1>1, <1>2, <1>4 DEF TypeOK
  <2> QED BY <1>0, <1>2, <1>3, <1>4, <2>1
          DEF Queues, Waiting, Running, HighestPriorityRuns, HighestReady
<1>5. ASSUME NEW w, w = Head(xTasksWaitingToReceive[m]),
             xTasksWaitingToReceive[m] # <<>>,
             ready' = ready \cup {w}, Leave(w),
             pendSV' = WokenOutranks(w, t),
             slipped' = (slipped \/ (uxPriority' # uxPriority /\ uxPriority'[w] <= uxPriority'[t]))
      PROVE  GInv'
  <2>1. w \in Task
    BY <1>5 DEF TypeOK
  <2>2. /\ xTasksWaitingToReceive' \in [Mutex -> Seq(Task)]
        /\ \A n \in Mutex : /\ IsInjective(xTasksWaitingToReceive'[n])
                            /\ Waiting(n)' = Waiting(n) \ {w}
    BY <1>5, <2>1, Left
  <2>3. pendSV' \in BOOLEAN /\ slipped' \in BOOLEAN
    BY <1>5 DEF WokenOutranks, TypeOK
  <2>4. TypeOK'
    BY <1>0, <1>1, <1>2, <1>5, <2>1, <2>2, <2>3 DEF TypeOK
  <2>5. Queues'
    BY <1>5, <2>2 DEF Queues
  <2>6. Running'
    BY <1>0, <1>5 DEF Running
  <2>7. HighestPriorityRuns'
    <3> SUFFICES ASSUME ~pendSV', ~slipped' PROVE pxCurrentTCB' \in HighestReady'
      BY DEF HighestPriorityRuns
    <3>1. /\ ~ (uxPriority'[w] > uxPriority'[t])
          /\ ~slipped /\ ~ (uxPriority' # uxPriority /\ uxPriority'[w] <= uxPriority'[t])
      BY <1>5 DEF WokenOutranks
    <3>2. uxPriority' = uxPriority /\ uxPriority[w] <= uxPriority[t]
      BY <1>1, <2>1, <3>1 DEF TypeOK
    <3> QED BY <1>0, <1>5, <3>1, <3>2 DEF HighestPriorityRuns, HighestReady
  <2> QED BY <1>2, <1>3, <2>4, <2>5, <2>6, <2>7
<1> QED BY <1>4, <1>5 DEF Give

LEMMA GInit == Init => GInv
<1> SUFFICES ASSUME Init PROVE GInv
  OBVIOUS
<1> USE DEF Init, GInv
<1>1. \A t \in Task : Own(t) = {}
  BY MutexAssumption DEF Own
<1>2. Cardinality(Mutex) \in Nat /\ Cardinality({}) = 0
  BY MutexAssumption, FS_CardinalityType, FS_EmptySet
<1>3. TypeOK
  <2>1. uxMutexesHeld \in [Task -> 0 .. Cardinality(Mutex)]
    BY <1>2
  <2>2. held \in [Task -> Seq(Mutex)] /\ xTasksWaitingToReceive \in [Mutex -> Seq(Task)]
    OBVIOUS
  <2>3. /\ uxPriority \in [Task -> Nat] /\ xMutexHolder \in [Mutex -> Task \cup {NULL}]
        /\ wants \in [Task -> Mutex \cup {NULL}] /\ xInheritanceOccurred \in [Task -> BOOLEAN]
        /\ pc \in [Task -> {"app", "retry", "window", "late", "disinherit"}]
        /\ xTicksToWait \in [Task -> {"none", "some", "passed", "forever"}]
    BY MutexAssumption
  <2> QED BY <2>1, <2>2, <2>3, MutexAssumption DEF TypeOK
<1>4. IsInjective(<<>>) /\ Range(<<>>) = {}
  BY DEF IsInjective, Range
<1>5. Owned
  BY <1>1, <1>2, <1>4 DEF Owned
<1>6. Calls /\ Queues /\ Running
  BY <1>4, MutexAssumption DEF Calls, Queues, Waiting, Running
<1>7. HighestPriorityRuns
  BY DEF HighestPriorityRuns, HighestReady
<1> QED BY <1>3, <1>5, <1>6, <1>7

LEMMA GNext == GInv /\ [Next]_vars => GInv'
<1> SUFFICES ASSUME GInv, [Next]_vars PROVE GInv'
  OBVIOUS
<1>1. CASE UNCHANGED vars
  <2> USE <1>1 DEF vars, sched, mutexes, calls, history, GInv
  <2>1. TypeOK'
    BY DEF TypeOK
  <2>2. Owned' /\ Calls' /\ Queues'
    BY DEF Owned, Own, Calls, Queues, Waiting
  <2>3. Running' /\ HighestPriorityRuns'
    BY DEF Running, HighestPriorityRuns, HighestReady
  <2> QED BY <2>1, <2>2, <2>3
<1> QED BY <1>1, SwitchGeneral, TickGeneral, DelayGeneral, TakeGeneral, AgainGeneral,
           WindowGeneral, LateGeneral, DisinheritGeneral, GiveGeneral, YieldGeneral DEF Next

(* The counts of mutexes held never leave their range, and nothing else its *)
(* type, whatever the tasks, their priorities and the mutexes they nest.    *)
THEOREM TypeCorrect == Spec => []TypeOK
<1>1. Spec => []GInv
  BY GInit, GNext, PTL DEF Spec
<1> QED BY <1>1, PTL DEF GInv

(* The running task is the highest ready one until a switch is dropped,     *)
(* whatever the tasks, their priorities and the mutexes they nest.          *)
THEOREM HighestRuns == Spec => []HighestPriorityRuns
<1>1. Spec => []GInv
  BY GInit, GNext, PTL DEF Spec
<1> QED BY <1>1, PTL DEF GInv

-----------------------------------------------------------------------------
-----------------------------------------------------------------------------
(* Where no task takes a mutex while it holds another. *)

OneAtATime == \A t \in Task : \A s \in Takes[t] : Len(s) < 2

\* The tasks in the event list of a mutex are about to take it, the highest
\* first.
Lists ==
    \A m \in Mutex :
        /\ Sorted(Base, xTasksWaitingToReceive[m])
        /\ \A w \in Waiting(m) :
              pc[w] = "retry" /\ wants[w] = m /\ xTicksToWait[w] \in {"some", "forever"}

Asleep ==
    \A t \in Task :
        /\ t \notin ready => pc[t] \in {"app", "retry"}
        /\ pc[t] = "window" => xTicksToWait[t] # "none"

\* A task that takes a mutex holds none, and one that holds none has its own
\* priority.
Single ==
    \A t \in Task :
        /\ Len(held[t]) <= 1
        /\ pc[t] # "app" => held[t] = <<>>
        /\ Base[t] <= uxPriority[t]
        /\ held[t] = <<>> => uxPriority[t] = Base[t]

\* A free mutex has been offered to a task as high as any that waits for it.
Covered ==
    \A m \in Mutex : xMutexHolder[m] = NULL =>
        \A w \in Waiting(m) :
            \E u \in ready : pc[u] = "retry" /\ wants[u] = m /\ Base[w] <= Base[u]

\* The holder is as high as any that waits, and each that is above the
\* holder's own priority knows that it has lent its own.
Served ==
    \A m \in Mutex \ retaken : xMutexHolder[m] # NULL =>
        \A w \in Waiting(m) :
            /\ Base[w] <= uxPriority[xMutexHolder[m]]
            /\ Base[xMutexHolder[m]] < Base[w] => xInheritanceOccurred[w]

\* Task u has lent its priority to the holder of m, and will take it back.
Lends(u, m) ==
    /\ wants[u] = m /\ xInheritanceOccurred[u]
    /\ Base[xMutexHolder[m]] < Base[u]
    /\ pc[u] = "retry" => xTicksToWait[u] # "none"

Caused ==
    \A m \in Mutex \ retaken :
        xMutexHolder[m] # NULL /\ Base[xMutexHolder[m]] < uxPriority[xMutexHolder[m]]
            => \E u \in Task : Lends(u, m)

Parts == Lists /\ Asleep /\ Single /\ Covered /\ Served /\ Caused

LEMMA HoldsOne ==
    ASSUME GInv, Single, NEW m \in Mutex, NEW h \in Task, xMutexHolder[m] = h
    PROVE  /\ held[h] # <<>> /\ Len(held[h]) = 1 /\ Own(h) = {m} /\ uxMutexesHeld[h] = 1
           /\ \A n \in Mutex : xMutexHolder[n] = h => n = m
<1>1. /\ held[h] \in Seq(Mutex) /\ Len(held[h]) <= 1 /\ Range(held[h]) = Own(h)
      /\ uxMutexesHeld[h] = Cardinality(Own(h))
  BY DEF GInv, TypeOK, Owned, Single
<1>2. m \in Range(held[h])
  BY <1>1 DEF Own
<1>3. PICK i \in DOMAIN held[h] : held[h][i] = m
  BY <1>2 DEF Range
<1>4. Len(held[h]) = 1 /\ DOMAIN held[h] = {1} /\ held[h] # <<>>
  <2>1. Len(held[h]) \in Nat /\ DOMAIN held[h] = 1 .. Len(held[h])
    BY <1>1
  <2>2. Len(held[h]) = 1
    <3> DEFINE l == Len(held[h])
    <3>1. l \in Nat /\ l <= 1 /\ i \in 1 .. l
      BY <1>1, <1>3, <2>1
    <3> HIDE DEF l
    <3>2. l = 1
      BY <3>1
    <3> QED BY <3>2 DEF l
  <2> QED BY <2>1, <2>2
<1>5. Own(h) = {m}
  BY <1>1, <1>3, <1>4 DEF Range
<1>6. Cardinality({m}) = 1
  BY FS_Singleton
<1> QED BY <1>1, <1>4, <1>5, <1>6 DEF Own

LEMMA HeadHighest ==
    ASSUME NEW s \in Seq(Task), s # <<>>, Sorted(Base, s)
    PROVE  Head(s) \in Range(s) /\ \A w \in Range(s) : w \in Task /\ Base[w] <= Base[Head(s)]
<1>1. Len(s) \in Nat /\ DOMAIN s = 1 .. Len(s) /\ 1 \in DOMAIN s /\ Head(s) = s[1]
  OBVIOUS
<1>2. \A i \in DOMAIN s : s[i] \in Task /\ Base[s[i]] \in Nat
  BY MutexAssumption
<1>3. \A i \in DOMAIN s : Base[s[i]] <= Base[s[1]]
  BY <1>1, <1>2 DEF Sorted
<1> QED BY <1>1, <1>2, <1>3 DEF Range

\* A step of a call of task t, which is neither in an event list nor the task
\* a free mutex has been offered to.
LEMMA CallStep ==
    ASSUME GInv, Parts, NEW t \in Task, t \in ready,
           UNCHANGED <<ready, uxPriority, xMutexHolder, xTasksWaitingToReceive, held, retaken>>,
           \A u \in Task \ {t} :
              /\ pc'[u] = pc[u] /\ wants'[u] = wants[u] /\ xTicksToWait'[u] = xTicksToWait[u]
              /\ xInheritanceOccurred'[u] = xInheritanceOccurred[u],
           pc'[t] = "window" => xTicksToWait'[t] # "none",
           pc'[t] # "app" => held[t] = <<>>,
           pc[t] = "retry" => xMutexHolder[wants[t]] # NULL,
           \A m \in Mutex : xMutexHolder[m] # NULL /\ Lends(t, m) => Lends(t, m)'
    PROVE  Parts'
<1>1. \A m \in Mutex : Waiting(m)' = Waiting(m) /\ Waiting(m) \subseteq Task \ {t}
  BY DEF GInv, TypeOK, Queues, Waiting, Range
<1>2. Lists'
  BY <1>1 DEF Parts, Lists
<1>3. Asleep' /\ Single'
  BY DEF Parts, Asleep, Single
<1>4. Covered'
  <2> SUFFICES ASSUME NEW m \in Mutex, xMutexHolder[m] = NULL, NEW w \in Waiting(m)
               PROVE  \E u \in ready : pc'[u] = "retry" /\ wants'[u] = m /\ Base[w] <= Base[u]
    BY <1>1 DEF Covered
  <2>1. PICK u \in ready : pc[u] = "retry" /\ wants[u] = m /\ Base[w] <= Base[u]
    BY DEF Parts, Covered
  <2>2. u \in Task \ {t}
    BY <2>1 DEF GInv, TypeOK
  <2> QED BY <2>1, <2>2
<1>5. Served'
  BY <1>1 DEF Parts, Served
<1>6. Caused'
  <2> SUFFICES ASSUME NEW m \in Mutex \ retaken, xMutexHolder[m] # NULL,
                      Base[xMutexHolder[m]] < uxPriority[xMutexHolder[m]]
               PROVE  \E u \in Task : Lends(u, m)'
    BY DEF Caused
  <2>1. PICK u \in Task : Lends(u, m)
    BY DEF Parts, Caused
  <2>2. CASE u = t
    BY <2>1, <2>2
  <2>3. CASE u # t
    BY <2>1, <2>3 DEF Lends
  <2> QED BY <2>2, <2>3
<1> QED BY <1>2, <1>3, <1>4, <1>5, <1>6 DEF Parts

\* Task t, which holds none, takes a free mutex.
LEMMA AcquireParts ==
    ASSUME GInv, Parts, NEW t \in Task, NEW m \in Mutex, Runs(t), Acquire(t, m),
           UNCHANGED <<sched, uxPriority, slipped>>,
           xMutexHolder[m] = NULL, held[t] = <<>>,
           \/ pc[t] = "app"
           \/ pc[t] = "retry" /\ wants[t] = m
    PROVE  Parts'
<1>1. /\ UNCHANGED <<pxCurrentTCB, pendSV, ready, uxPriority, slipped, xTasksWaitingToReceive>>
      /\ xMutexHolder' = [xMutexHolder EXCEPT ![m] = t]
      /\ held' = [held EXCEPT ![t] = Append(@, m)]
      /\ retaken' = IF slipped THEN retaken \cup {m} ELSE retaken
      /\ Return(t) /\ NULL \notin Task /\ NULL \notin Mutex /\ Base \in [Task -> Nat]
  BY MutexAssumption DEF Acquire, sched
<1>2. /\ pc'[t] = "app" /\ pc'[t] # "window"
      /\ \A u \in Task \ {t} :
            /\ pc'[u] = pc[u] /\ wants'[u] = wants[u] /\ xTicksToWait'[u] = xTicksToWait[u]
            /\ xInheritanceOccurred'[u] = xInheritanceOccurred[u]
  BY <1>1, Returned DEF GInv
<1>3. t \in ready /\ uxPriority[t] = Base[t] /\ ready \subseteq Task
  BY DEF GInv, TypeOK, Running, Runs, Parts, Single
<1>4. \A n \in Mutex : Waiting(n)' = Waiting(n) /\ Waiting(n) \subseteq Task \ {t}
  BY <1>1, <1>3 DEF GInv, TypeOK, Queues, Waiting, Range
<1>5. \A n \in Mutex \ {m} : wants[t] # n /\ xMutexHolder'[n] = xMutexHolder[n]
  BY <1>1 DEF GInv, Calls, TypeOK
<1>6. Lists'
  BY <1>1, <1>2, <1>4 DEF Parts, Lists
<1>7. Asleep' /\ Single'
  <2>1. held'[t] = <<m>> /\ \A u \in Task \ {t} : held'[u] = held[u]
    BY <1>1 DEF GInv, TypeOK
  <2> QED BY <1>1, <1>2, <1>3, <2>1 DEF Parts, Asleep, Single
<1>8. Covered'
  <2> SUFFICES ASSUME NEW n \in Mutex, xMutexHolder'[n] = NULL, NEW w \in Waiting(n)
               PROVE  \E u \in ready : pc'[u] = "retry" /\ wants'[u] = n /\ Base[w] <= Base[u]
    BY <1>1, <1>4 DEF Covered
  <2>1. n # m
    BY <1>1 DEF GInv, TypeOK
  <2>2. PICK u \in ready : pc[u] = "retry" /\ wants[u] = n /\ Base[w] <= Base[u]
    BY <1>5, <2>1 DEF Parts, Covered
  <2>3. u \in Task \ {t}
    BY <1>3, <1>5, <2>1, <2>2
  <2> QED BY <1>2, <2>2, <2>3
<1>9. ASSUME ~slipped, NEW w \in Waiting(m)
      PROVE  Base[w] <= Base[t]
  <2>1. PICK u \in ready : Base[w] <= Base[u]
    BY DEF Parts, Covered
  <2>2. uxPriority[u] <= uxPriority[t] /\ Base[u] <= uxPriority[u]
    BY <1>3, <1>9 DEF GInv, HighestPriorityRuns, HighestReady, Runs, Parts, Single
  <2> QED BY <1>1, <1>3, <1>4, <2>1, <2>2 DEF GInv, TypeOK
<1>10. Served'
  <2> SUFFICES ASSUME NEW n \in Mutex \ retaken', xMutexHolder'[n] # NULL, NEW w \in Waiting(n)
               PROVE  /\ Base[w] <= uxPriority[xMutexHolder'[n]]
                      /\ Base[xMutexHolder'[n]] < Base[w] => xInheritanceOccurred'[w]
    BY <1>1, <1>4 DEF Served
  <2>1. CASE n = m
    <3>1. ~slipped /\ xMutexHolder'[n] = t
      BY <1>1, <2>1 DEF GInv, TypeOK
    <3>2. Base[w] <= Base[t]
      BY <1>9, <2>1, <3>1
    <3>3. w \in Task /\ Base[w] \in Nat /\ Base[t] \in Nat
      BY <1>1, <1>4
    <3> QED BY <1>3, <3>1, <3>2, <3>3
  <2>2. CASE n # m
    <3>1. n \in Mutex \ retaken /\ xMutexHolder'[n] = xMutexHolder[n] /\ w \in Task \ {t}
      BY <1>1, <1>4, <1>5, <2>2
    <3> QED BY <1>2, <3>1 DEF Parts, Served
  <2> QED BY <2>1, <2>2
<1>11. Caused'
  <2> SUFFICES ASSUME NEW n \in Mutex \ retaken', xMutexHolder'[n] # NULL,
                      Base[xMutexHolder'[n]] < uxPriority[xMutexHolder'[n]]
               PROVE  \E u \in Task : Lends(u, n)'
    BY <1>1 DEF Caused
  <2>1. n # m
    <3>1. CASE n = m
      <4>1. xMutexHolder'[n] = t
        BY <1>1, <3>1 DEF GInv, TypeOK
      <4> QED BY <1>1, <1>3, <4>1
    <3> QED BY <3>1
  <2>2. n \in Mutex \ retaken /\ xMutexHolder'[n] = xMutexHolder[n]
    BY <1>1, <1>5, <2>1
  <2>3. PICK u \in Task : Lends(u, n)
    BY <2>2 DEF Parts, Caused
  <2>4. u # t
    BY <1>5, <2>1, <2>3 DEF Lends
  <2> QED BY <1>2, <2>2, <2>3, <2>4 DEF Lends
<1> QED BY <1>6, <1>7, <1>8, <1>10, <1>11 DEF Parts

LEMMA TakeParts ==
    ASSUME OneAtATime, NEW t \in Task, NEW m \in Mutex, NEW limit \in {"some", "forever"}
    PROVE  GInv /\ Parts /\ xQueueSemaphoreTake(t, m, limit) => Parts'
<1> SUFFICES ASSUME GInv, Parts, xQueueSemaphoreTake(t, m, limit) PROVE Parts'
  OBVIOUS
<1>1. /\ Runs(t) /\ pc[t] = "app" /\ Append(held[t], m) \in Takes[t]
      /\ UNCHANGED <<sched, uxPriority, slipped>>
  BY DEF xQueueSemaphoreTake
<1>2. held[t] = <<>>
  <2>1. held[t] \in Seq(Mutex) /\ Len(Append(held[t], m)) < 2
    BY <1>1 DEF OneAtATime, GInv, TypeOK
  <2> QED BY <2>1
<1>3. CASE xMutexHolder[m] = NULL
  <2>1. Acquire(t, m)
    BY <1>3 DEF xQueueSemaphoreTake
  <2> QED BY <1>1, <1>2, <1>3, <2>1, AcquireParts
<1>4. CASE xMutexHolder[m] # NULL
  <2>1. /\ pc' = [pc EXCEPT ![t] = "window"] /\ wants' = [wants EXCEPT ![t] = m]
        /\ xTicksToWait' = [xTicksToWait EXCEPT ![t] = limit]
        /\ UNCHANGED <<xMutexHolder, xTasksWaitingToReceive, held, xInheritanceOccurred, retaken>>
    BY <1>4 DEF xQueueSemaphoreTake, Goto, mutexes
  <2>2. /\ \A u \in Task \ {t} :
              /\ pc'[u] = pc[u] /\ wants'[u] = wants[u] /\ xTicksToWait'[u] = xTicksToWait[u]
              /\ xInheritanceOccurred'[u] = xInheritanceOccurred[u]
        /\ xTicksToWait'[t] # "none"
    BY <2>1 DEF GInv, TypeOK
  <2>3. t \in ready /\ UNCHANGED <<ready, uxPriority>>
    BY <1>1 DEF Runs, sched, GInv, Running
  <2>4. \A n \in Mutex : ~Lends(t, n)
    BY <1>1, MutexAssumption DEF Lends, GInv, Calls
  <2> QED BY <1>1, <1>2, <2>1, <2>2, <2>3, <2>4, CallStep
<1> QED BY <1>3, <1>4

LEMMA AgainParts ==
    ASSUME NEW t \in Task PROVE GInv /\ Parts /\ TakeAgain(t) => Parts'
<1> SUFFICES ASSUME GInv, Parts, TakeAgain(t) PROVE Parts'
  OBVIOUS
<1>1. Runs(t) /\ pc[t] = "retry" /\ UNCHANGED <<sched, uxPriority, slipped>>
  BY DEF TakeAgain
<1>2. held[t] = <<>> /\ wants[t] \in Mutex
  BY <1>1 DEF Parts, Single, GInv, Calls, TypeOK
<1>3. CASE xMutexHolder[wants[t]] = NULL
  <2>1. Acquire(t, wants[t])
    BY <1>3 DEF TakeAgain
  <2> QED BY <1>1, <1>2, <1>3, <2>1, AcquireParts
<1>4. CASE xMutexHolder[wants[t]] # NULL
  <2>1. UNCHANGED <<xMutexHolder, xTasksWaitingToReceive, held, retaken>>
    BY <1>4 DEF TakeAgain, mutexes
  <2>2. t \in ready /\ UNCHANGED <<ready, uxPriority>>
    BY <1>1 DEF Runs, sched, GInv, Running
  <2>3. CASE xTicksToWait[t] = "none"
    <3>1. Return(t)
      BY <1>4, <2>3 DEF TakeAgain
    <3>2. /\ pc'[t] = "app"
          /\ \A u \in Task \ {t} :
                /\ pc'[u] = pc[u] /\ wants'[u] = wants[u] /\ xTicksToWait'[u] = xTicksToWait[u]
                /\ xInheritanceOccurred'[u] = xInheritanceOccurred[u]
      BY <3>1, Returned DEF GInv
    <3>3. \A n \in Mutex : ~Lends(t, n)
      BY <1>1, <2>3 DEF Lends
    <3> QED BY <1>4, <2>1, <2>2, <3>2, <3>3, CallStep
  <2>4. CASE xTicksToWait[t] # "none"
    <3>1. /\ pc' = [pc EXCEPT ![t] = "window"]
          /\ UNCHANGED <<wants, xTicksToWait, xInheritanceOccurred>>
      BY <1>4, <2>4 DEF TakeAgain, Goto
    <3>2. pc'[t] = "window" /\ \A u \in Task \ {t} : pc'[u] = pc[u]
      BY <3>1 DEF GInv, TypeOK
    <3>3. \A n \in Mutex : Lends(t, n) => Lends(t, n)'
      BY <2>1, <3>1, <3>2 DEF Lends
    <3> QED BY <1>2, <1>4, <2>1, <2>2, <2>4, <3>1, <3>2, <3>3, CallStep
  <2> QED BY <2>3, <2>4
<1> QED BY <1>3, <1>4

LEMMA LateParts ==
    ASSUME NEW t \in Task PROVE GInv /\ Parts /\ Late(t) => Parts'
<1> SUFFICES ASSUME GInv, Parts, Late(t) PROVE Parts'
  OBVIOUS
<1>1. /\ Runs(t) /\ pc[t] = "late"
      /\ UNCHANGED <<ready, uxPriority, xMutexHolder, xTasksWaitingToReceive, held, retaken>>
  BY DEF Late, sched, mutexes, history
<1>2. t \in ready /\ held[t] = <<>>
  BY <1>1 DEF Runs, GInv, Running, Parts, Single
<1>3. CASE Return(t) /\ ~xInheritanceOccurred[t]
  <2>1. /\ pc'[t] = "app"
        /\ \A u \in Task \ {t} :
              /\ pc'[u] = pc[u] /\ wants'[u] = wants[u] /\ xTicksToWait'[u] = xTicksToWait[u]
              /\ xInheritanceOccurred'[u] = xInheritanceOccurred[u]
    BY <1>3, Returned DEF GInv
  <2>2. \A n \in Mutex : ~Lends(t, n)
    BY <1>3 DEF Lends
  <2> QED BY <1>1, <1>2, <2>1, <2>2, CallStep
<1>4. ASSUME NEW label \in {"retry", "disinherit"}, Goto(t, label),
             UNCHANGED <<wants, xTicksToWait, xInheritanceOccurred>>,
             label = "retry" => xMutexHolder[wants[t]] = NULL
      PROVE  Parts'
  <2>1. pc'[t] = label /\ \A u \in Task \ {t} : pc'[u] = pc[u]
    BY <1>4 DEF Goto, GInv, TypeOK
  <2>2. \A n \in Mutex : xMutexHolder[n] # NULL /\ Lends(t, n) => Lends(t, n)'
    BY <1>1, <1>4, <2>1 DEF Lends
  <2> QED BY <1>1, <1>2, <1>4, <2>1, <2>2, CallStep
<1> QED BY <1>3, <1>4 DEF Late

LEMMA WindowParts ==
    ASSUME NEW t \in Task PROVE GInv /\ Parts /\ Window(t) => Parts'
<1> SUFFICES ASSUME GInv, Parts, Window(t) PROVE Parts'
  OBVIOUS
<1>1. /\ Runs(t) /\ pc[t] = "window"
      /\ UNCHANGED <<pxCurrentTCB, xMutexHolder, held, wants, slipped, retaken>>
      /\ NULL \notin Task /\ NULL \notin Mutex /\ Base \in [Task -> Nat]
  BY MutexAssumption DEF Window, history
<1>m. PICK m \in Mutex, h \in Task \cup {NULL} : m = wants[t] /\ h = xMutexHolder[m]
  <2>1. wants[t] \in Mutex
    BY <1>1 DEF GInv, Calls, TypeOK
  <2> QED BY <2>1 DEF GInv, TypeOK
<1>2. /\ t \in ready /\ held[t] = <<>> /\ uxPriority[t] = Base[t]
      /\ m = wants[t] /\ h = xMutexHolder[m] /\ h # t /\ xTicksToWait[t] # "none"
  BY <1>1, <1>m DEF Runs, GInv, Running, Calls, TypeOK, Parts, Single, Asleep
<1>3. CASE /\ UNCHANGED <<ready, pendSV, uxPriority, xTasksWaitingToReceive, xInheritanceOccurred>>
           /\ \/ Goto(t, "late") /\ xTicksToWait' = [xTicksToWait EXCEPT ![t] = "none"]
              \/ Goto(t, "retry") /\ UNCHANGED xTicksToWait /\ h = NULL
  <2>1. /\ pc'[t] \in {"late", "retry"}
        /\ \A u \in Task \ {t} : pc'[u] = pc[u] /\ xTicksToWait'[u] = xTicksToWait[u]
        /\ pc'[t] = "retry" => h = NULL
    BY <1>3 DEF Goto, GInv, TypeOK
  <2>2. \A n \in Mutex : xMutexHolder[n] # NULL /\ Lends(t, n) => Lends(t, n)'
    BY <1>1, <1>2, <1>3, <2>1 DEF Lends
  <2> QED BY <1>1, <1>2, <1>3, <2>1, <2>2, CallStep
<1>4. CASE /\ h # NULL /\ Goto(t, "retry") /\ UNCHANGED xTicksToWait
           /\ uxPriority' = Raised(h, t) /\ xTicksToWait[t] # "passed"
           /\ xInheritanceOccurred' = [xInheritanceOccurred EXCEPT ![t] = Base[h] < uxPriority[t]]
           /\ xTasksWaitingToReceive' = [xTasksWaitingToReceive EXCEPT ![m] = Queued(@, t)]
           /\ ready' = ready \ {t}
  <2>1. /\ pc'[t] = "retry" /\ \A u \in Task \ {t} : pc'[u] = pc[u]
        /\ xInheritanceOccurred'[t] = (Base[h] < Base[t])
        /\ \A u \in Task \ {t} : xInheritanceOccurred'[u] = xInheritanceOccurred[u]
    BY <1>2, <1>4 DEF Goto, GInv, TypeOK
  <2>2. /\ h \in Task /\ uxPriority' \in [Task -> Nat] /\ uxPriority \in [Task -> Nat]
        /\ \A u \in Task : uxPriority[u] <= uxPriority'[u]
        /\ \A u \in Task \ {h} : uxPriority'[u] = uxPriority[u]
        /\ uxPriority'[h] = IF uxPriority[h] < Base[t] THEN Base[t] ELSE uxPriority[h]
    BY <1>2, <1>4 DEF Raised, GInv, TypeOK
  <2>3. /\ held[h] # <<>> /\ \A n \in Mutex : xMutexHolder[n] = h => n = m
    BY <1>2, <2>2, HoldsOne DEF Parts
  <2>4. \A n \in Mutex : Waiting(n) \subseteq Task \ {t}
    BY <1>2 DEF GInv, TypeOK, Queues, Waiting, Range
  <2>5. /\ Sorted(Base, xTasksWaitingToReceive'[m]) /\ Waiting(m)' = Waiting(m) \cup {t}
    <3> DEFINE s == xTasksWaitingToReceive[m]
    <3>1. s \in Seq(Task) /\ IsInjective(s) /\ t \notin Range(s) /\ Sorted(Base, s)
      BY <1>2, <2>4 DEF GInv, TypeOK, Queues, Waiting, Parts, Lists
    <3>2. xTasksWaitingToReceive'[m] = Queued(s, t)
      BY <1>2, <1>4 DEF GInv, TypeOK
    <3>3. \A w \in Range(s) : uxPriority[w] = Base[w]
      BY <1>2, <2>4 DEF Parts, Lists, Single, Waiting
    <3> HIDE DEF s
    <3>4. Sorted(uxPriority, s)
      <4>1. \A i \in DOMAIN s : s[i] \in Range(s)
        BY DEF Range
      <4> QED BY <3>1, <3>3, <4>1 DEF Sorted
    <3>5. /\ Queued(s, t) \in Seq(Task) /\ Range(Queued(s, t)) = Range(s) \cup {t}
          /\ Sorted(uxPriority, Queued(s, t))
      BY <2>2, <3>1, <3>4, QueuedFacts
    <3>6. Sorted(Base, Queued(s, t))
      <4>1. \A i \in DOMAIN Queued(s, t) : Queued(s, t)[i] \in Range(Queued(s, t))
        BY DEF Range
      <4>2. \A w \in Range(s) \cup {t} : uxPriority[w] = Base[w]
        BY <1>2, <3>3
      <4> QED BY <3>5, <4>1, <4>2 DEF Sorted
    <3> QED BY <3>2, <3>5, <3>6 DEF Waiting, s
  <2>6. \A n \in Mutex \ {m} : xTasksWaitingToReceive'[n] = xTasksWaitingToReceive[n]
                               /\ Waiting(n)' = Waiting(n)
    BY <1>2, <1>4 DEF GInv, TypeOK, Waiting
  <2>7. Lists'
    <3> SUFFICES ASSUME NEW n \in Mutex
                 PROVE  /\ Sorted(Base, xTasksWaitingToReceive'[n])
                        /\ \A w \in Waiting(n)' : /\ pc'[w] = "retry" /\ wants'[w] = n
                                                  /\ xTicksToWait'[w] \in {"some", "forever"}
      BY DEF Lists
    <3>1. \A w \in Waiting(n) : /\ pc'[w] = "retry" /\ wants'[w] = n
                                /\ xTicksToWait'[w] \in {"some", "forever"}
      BY <1>1, <1>4, <2>1, <2>4 DEF Parts, Lists
    <3>2. xTicksToWait[t] \in {"some", "forever"}
      BY <1>2, <1>4 DEF GInv, TypeOK
    <3>3. CASE n = m
      BY <1>1, <1>2, <1>4, <2>1, <2>5, <3>1, <3>2, <3>3
    <3>4. CASE n # m
      BY <2>6, <3>1, <3>4 DEF Parts, Lists
    <3> QED BY <3>3, <3>4
  <2>8. Asleep'
    BY <1>4, <2>1 DEF Parts, Asleep
  <2>9. Single'
    <3> SUFFICES ASSUME NEW u \in Task
                 PROVE  /\ Len(held[u]) <= 1
                        /\ pc'[u] # "app" => held[u] = <<>>
                        /\ Base[u] <= uxPriority'[u]
                        /\ held[u] = <<>> => uxPriority'[u] = Base[u]
      BY <1>1 DEF Single
    <3>1. /\ Len(held[u]) <= 1
          /\ pc[u] # "app" => held[u] = <<>>
          /\ Base[u] <= uxPriority[u]
          /\ held[u] = <<>> => uxPriority[u] = Base[u]
      BY DEF Parts, Single
    <3>2. pc'[u] # "app" => held[u] = <<>>
      BY <1>2, <2>1, <3>1
    <3>3. Base[u] <= uxPriority'[u]
      BY <1>1, <2>2, <3>1
    <3>4. held[u] = <<>> => uxPriority'[u] = Base[u]
      BY <2>2, <2>3, <3>1
    <3> QED BY <3>1, <3>2, <3>3, <3>4
  <2>10. Covered'
    <3> SUFFICES ASSUME NEW n \in Mutex, xMutexHolder[n] = NULL, NEW w \in Waiting(n)'
                 PROVE  \E u \in ready' : pc'[u] = "retry" /\ wants'[u] = n /\ Base[w] <= Base[u]
      BY <1>1 DEF Covered
    <3>1. w \in Waiting(n)
      BY <1>1, <1>2, <1>4, <2>6
    <3>2. PICK u \in ready : pc[u] = "retry" /\ wants[u] = n /\ Base[w] <= Base[u]
      BY <3>1 DEF Parts, Covered
    <3>3. u \in Task /\ u # t
      BY <1>1, <3>2 DEF GInv, TypeOK
    <3> QED BY <1>1, <1>4, <2>1, <3>2, <3>3
  <2>11. Served'
    <3> SUFFICES ASSUME NEW n \in Mutex \ retaken, xMutexHolder[n] # NULL, NEW w \in Waiting(n)'
                 PROVE  /\ Base[w] <= uxPriority'[xMutexHolder[n]]
                        /\ Base[xMutexHolder[n]] < Base[w] => xInheritanceOccurred'[w]
      BY <1>1 DEF Served
    <3>1. CASE w \in Waiting(n)
      <4>1. /\ Base[w] <= uxPriority[xMutexHolder[n]]
            /\ Base[xMutexHolder[n]] < Base[w] => xInheritanceOccurred[w]
        BY <3>1 DEF Parts, Served
      <4>2. xMutexHolder[n] \in Task /\ w \in Task \ {t}
        BY <2>4, <3>1 DEF GInv, TypeOK
      <4> QED BY <1>1, <2>1, <2>2, <4>1, <4>2
    <3>2. CASE w \notin Waiting(n)
      <4>1. n = m /\ w = t
        BY <2>5, <2>6, <3>2
      <4>2. Base[t] <= uxPriority'[h]
        BY <1>1, <2>2
      <4>3. Base[h] < Base[t] => xInheritanceOccurred'[t]
        BY <2>1
      <4> QED BY <1>2, <4>1, <4>2, <4>3
    <3> QED BY <3>1, <3>2
  <2>12. Caused'
    <3> SUFFICES ASSUME NEW n \in Mutex \ retaken, xMutexHolder[n] # NULL,
                        Base[xMutexHolder[n]] < uxPriority'[xMutexHolder[n]]
                 PROVE  \E u \in Task : Lends(u, n)'
      BY <1>1 DEF Caused
    <3>1. CASE n = m /\ Base[h] < Base[t]
      <4>1. Lends(t, n)'
        BY <1>1, <1>2, <1>4, <2>1, <3>1 DEF Lends
      <4> QED BY <4>1
    <3>2. CASE n # m \/ ~(Base[h] < Base[t])
      <4>1. xMutexHolder[n] \in Task /\ uxPriority'[xMutexHolder[n]] = uxPriority[xMutexHolder[n]]
        <5>1. CASE n # m
          BY <2>2, <2>3, <5>1 DEF GInv, TypeOK
        <5>2. CASE n = m /\ ~(Base[h] < Base[t])
          <6>1. Base[h] <= uxPriority[h]
            BY <2>2 DEF Parts, Single
          <6> QED BY <1>1, <1>2, <2>2, <5>2, <6>1
        <5> QED BY <3>2, <5>1, <5>2
      <4>2. PICK u \in Task : Lends(u, n)
        BY <4>1 DEF Parts, Caused
      <4>3. u # t
        BY <1>1, <1>2, <3>2, <4>2 DEF Lends
      <4>4. Lends(u, n)'
        BY <1>1, <1>4, <2>1, <4>2, <4>3 DEF Lends
      <4> QED BY <4>4
    <3> QED BY <3>1, <3>2
  <2> QED BY <2>7, <2>8, <2>9, <2>10, <2>11, <2>12 DEF Parts
<1> QED BY <1>2, <1>3, <1>4 DEF Window

LEMMA DisinheritParts ==
    ASSUME NEW t \in Task
    PROVE  GInv /\ Parts /\ vTaskPriorityDisinheritAfterTimeout(t) => Parts'
<1> SUFFICES ASSUME GInv, Parts, vTaskPriorityDisinheritAfterTimeout(t) PROVE Parts'
  OBVIOUS
<1> DEFINE W == xTasksWaitingToReceive
<1>1. /\ Runs(t) /\ pc[t] = "disinherit" /\ Return(t)
      /\ UNCHANGED <<ready, xMutexHolder, xTasksWaitingToReceive, held, retaken>>
      /\ NULL \notin Task /\ NULL \notin Mutex /\ Base \in [Task -> Nat]
  BY MutexAssumption DEF vTaskPriorityDisinheritAfterTimeout, sched, mutexes
<1>2. t \in ready /\ wants[t] \in Mutex
  BY <1>1, MutexAssumption DEF GInv, TypeOK, Running, Calls, Runs
<1>3. PICK m \in Mutex, h \in Task \cup {NULL} : m = wants[t] /\ h = xMutexHolder[m]
  BY <1>2 DEF GInv, TypeOK
<1>4. /\ pc'[t] = "app"
      /\ \A u \in Task \ {t} :
            /\ pc'[u] = pc[u] /\ wants'[u] = wants[u] /\ xTicksToWait'[u] = xTicksToWait[u]
            /\ xInheritanceOccurred'[u] = xInheritanceOccurred[u]
  BY <1>1, Returned DEF GInv
<1>5. \A n \in Mutex : Waiting(n)' = Waiting(n) /\ Waiting(n) \subseteq Task \ {t}
  BY <1>1, <1>2 DEF GInv, TypeOK, Queues, Waiting, Range
<1>6. \A n \in Mutex \ {m} : xMutexHolder[n] # NULL => xMutexHolder[n] \in Task \ {h}
  BY <1>3, HoldsOne DEF GInv, TypeOK, Parts
<1>7. PICK p \in Nat :
         /\ h # NULL => uxPriority' = [uxPriority EXCEPT ![h] = IF Base[h] < p THEN p ELSE Base[h]]
         /\ h = NULL => uxPriority' = uxPriority
         /\ \A w \in Waiting(m) : Base[w] <= p
         /\ p # 0 => \E w \in Waiting(m) : p = Base[w]
  <2>1. W[m] \in Seq(Task) /\ Sorted(Base, W[m])
    BY DEF GInv, TypeOK, Parts, Lists
  <2>2. h # NULL => uxMutexesHeld[h] = 1
    BY <1>3, HoldsOne DEF Parts
  <2>3. /\ h # NULL => uxPriority' = [uxPriority EXCEPT ![h] =
                                         IF Base[h] < HighestWaiting(m) THEN HighestWaiting(m)
                                                                        ELSE Base[h]]
        /\ h = NULL => uxPriority' = uxPriority
    BY <1>3, <2>2 DEF vTaskPriorityDisinheritAfterTimeout
  <2>4. CASE W[m] = <<>>
    <3>1. HighestWaiting(m) = 0 /\ Waiting(m) = {}
      BY <2>4 DEF HighestWaiting, Waiting, Range
    <3> QED BY <2>3, <3>1
  <2>5. CASE W[m] # <<>>
    <3>1. /\ Head(W[m]) \in Waiting(m)
          /\ \A w \in Waiting(m) : w \in Task /\ Base[w] <= Base[Head(W[m])]
      BY <2>1, <2>5, HeadHighest DEF Waiting
    <3>2. uxPriority[Head(W[m])] = Base[Head(W[m])]
      BY <1>5, <3>1 DEF Parts, Lists, Single
    <3>3. HighestWaiting(m) = Base[Head(W[m])] /\ Base[Head(W[m])] \in Nat
      BY <1>1, <2>5, <3>1, <3>2 DEF HighestWaiting
    <3> QED BY <2>3, <3>1, <3>3
  <2> QED BY <2>4, <2>5
<1>8. /\ \A u \in Task \ {h} : uxPriority'[u] = uxPriority[u]
      /\ h # NULL => /\ h \in Task /\ held[h] # <<>>
                     /\ uxPriority'[h] = IF Base[h] < p THEN p ELSE Base[h]
  <2>1. h # NULL => h \in Task /\ held[h] # <<>>
    BY <1>3, HoldsOne DEF Parts
  <2> QED BY <1>7, <2>1 DEF GInv, TypeOK
<1>9. Lists'
  BY <1>1, <1>4, <1>5 DEF Parts, Lists
<1>10. Asleep'
  BY <1>1, <1>4 DEF Parts, Asleep
<1>11. Single'
  <2> SUFFICES ASSUME NEW u \in Task
               PROVE  /\ Len(held[u]) <= 1
                      /\ pc'[u] # "app" => held[u] = <<>>
                      /\ Base[u] <= uxPriority'[u]
                      /\ held[u] = <<>> => uxPriority'[u] = Base[u]
    BY <1>1 DEF Single
  <2>1. /\ Len(held[u]) <= 1
        /\ pc'[u] # "app" => held[u] = <<>>
    BY <1>4 DEF Parts, Single
  <2>2. CASE u = h
    BY <1>1, <1>8, <2>1, <2>2
  <2>3. CASE u # h
    BY <1>8, <2>1, <2>3 DEF Parts, Single
  <2> QED BY <2>2, <2>3
<1>12. Covered'
  <2> SUFFICES ASSUME NEW n \in Mutex, xMutexHolder[n] = NULL, NEW w \in Waiting(n)
               PROVE  \E u \in ready : pc'[u] = "retry" /\ wants'[u] = n /\ Base[w] <= Base[u]
    BY <1>1, <1>5 DEF Covered
  <2>1. PICK u \in ready : pc[u] = "retry" /\ wants[u] = n /\ Base[w] <= Base[u]
    BY DEF Parts, Covered
  <2>2. u \in Task \ {t}
    BY <1>1, <2>1 DEF GInv, TypeOK
  <2> QED BY <1>4, <2>1, <2>2
<1>13. Served'
  <2> SUFFICES ASSUME NEW n \in Mutex \ retaken, xMutexHolder[n] # NULL, NEW w \in Waiting(n)
               PROVE  /\ Base[w] <= uxPriority'[xMutexHolder[n]]
                      /\ Base[xMutexHolder[n]] < Base[w] => xInheritanceOccurred'[w]
    BY <1>1, <1>5 DEF Served
  <2>1. /\ Base[w] <= uxPriority[xMutexHolder[n]]
        /\ Base[xMutexHolder[n]] < Base[w] => xInheritanceOccurred'[w]
    BY <1>4, <1>5 DEF Parts, Served
  <2>2. CASE n = m
    <3>1. Base[w] <= p /\ Base[w] \in Nat /\ Base[h] \in Nat
      BY <1>1, <1>3, <1>5, <1>7, <1>8, <2>2
    <3>2. Base[w] <= uxPriority'[h]
      BY <1>3, <1>8, <2>2, <3>1
    <3> QED BY <1>3, <2>1, <2>2, <3>2
  <2>3. CASE n # m
    BY <1>6, <1>8, <2>1, <2>3
  <2> QED BY <2>2, <2>3
<1>14. Caused'
  <2> SUFFICES ASSUME NEW n \in Mutex \ retaken, xMutexHolder[n] # NULL,
                      Base[xMutexHolder[n]] < uxPriority'[xMutexHolder[n]]
               PROVE  \E u \in Task : Lends(u, n)'
    BY <1>1 DEF Caused
  <2>1. CASE n = m
    <3>1. Base[h] < p /\ p # 0
      BY <1>1, <1>3, <1>8, <2>1
    <3>2. PICK w \in Waiting(m) : p = Base[w]
      BY <1>7, <3>1
    <3>3. Base[h] < Base[w] /\ w \in Task \ {t}
      BY <1>5, <3>1, <3>2
    <3>4. /\ xInheritanceOccurred[w] /\ wants[w] = m /\ pc[w] = "retry"
          /\ xTicksToWait[w] # "none"
      BY <1>3, <2>1, <3>3 DEF Parts, Served, Lists
    <3>5. Lends(w, m)'
      BY <1>1, <1>3, <1>4, <3>3, <3>4 DEF Lends
    <3> QED BY <2>1, <3>3, <3>5
  <2>2. CASE n # m
    <3>1. uxPriority'[xMutexHolder[n]] = uxPriority[xMutexHolder[n]]
      BY <1>6, <1>8, <2>2
    <3>2. PICK u \in Task : Lends(u, n)
      BY <3>1 DEF Parts, Caused
    <3>3. u # t
      BY <1>3, <2>2, <3>2 DEF Lends
    <3>4. Lends(u, n)'
      BY <1>1, <1>4, <3>2, <3>3 DEF Lends
    <3> QED BY <3>4
  <2> QED BY <2>1, <2>2
<1> QED BY <1>9, <1>10, <1>11, <1>12, <1>13, <1>14 DEF Parts

LEMMA GiveParts ==
    ASSUME NEW t \in Task, NEW m \in Mutex PROVE GInv /\ Parts /\ Give(t, m) => Parts'
<1> SUFFICES ASSUME GInv, Parts, Give(t, m) PROVE Parts'
  OBVIOUS
<1> DEFINE W == xTasksWaitingToReceive
<1>1. /\ pc[t] = "app" /\ xMutexHolder[m] = t
      /\ uxPriority' = Disinherited(t)
      /\ xMutexHolder' = [xMutexHolder EXCEPT ![m] = NULL]
      /\ held' = [held EXCEPT ![t] = RemoveFirst(@, m)]
      /\ retaken' = retaken \ {m}
      /\ UNCHANGED <<pc, wants, xTicksToWait, xInheritanceOccurred>>
      /\ NULL \notin Task /\ Base \in [Task -> Nat]
  BY MutexAssumption DEF Give, calls
<1>2. /\ Len(held[t]) = 1 /\ uxMutexesHeld[t] = 1 /\ m \in Range(held[t])
      /\ \A n \in Mutex \ {m} : xMutexHolder[n] # t
  BY <1>1, HoldsOne DEF Parts, GInv, Owned
<1>3. /\ held'[t] = <<>> /\ \A u \in Task \ {t} : held'[u] = held[u]
  <2>1. held[t] \in Seq(Mutex) /\ IsInjective(held[t])
    BY DEF GInv, TypeOK, Owned
  <2>2. RemoveFirst(held[t], m) \in Seq(Mutex) /\ Len(RemoveFirst(held[t], m)) = 0
    BY <1>2, <2>1, Removed
  <2>3. RemoveFirst(held[t], m) = <<>>
    BY <2>2
  <2> QED BY <1>1, <2>3 DEF GInv, TypeOK
<1>4. uxPriority'[t] = Base[t] /\ \A u \in Task \ {t} : uxPriority'[u] = uxPriority[u]
  BY <1>1, <1>2 DEF Disinherited, GInv, TypeOK
<1>5. /\ xMutexHolder'[m] = NULL
      /\ \A n \in Mutex \ {m} : xMutexHolder'[n] = xMutexHolder[n]
  BY <1>1 DEF GInv, TypeOK
<1>6. /\ ready \subseteq ready'
      /\ \A n \in Mutex : /\ Waiting(n)' \subseteq Waiting(n)
                          /\ Sorted(Base, xTasksWaitingToReceive'[n])
      /\ \A w \in Waiting(m)' :
            \E u \in ready' : pc[u] = "retry" /\ wants[u] = m /\ Base[w] <= Base[u]
  <2>1. CASE W[m] = <<>>
    <3>1. UNCHANGED <<ready, xTasksWaitingToReceive>>
      BY <2>1 DEF Give
    <3>2. Waiting(m) = {}
      BY <2>1 DEF Waiting, Range
    <3> QED BY <3>1, <3>2 DEF Waiting, Parts, Lists
  <2>2. CASE W[m] # <<>>
    <3>1. PICK v : v = Head(W[m])
      OBVIOUS
    <3>2. ready' = ready \cup {v} /\ Leave(v)
      BY <2>2, <3>1 DEF Give
    <3>3. W[m] \in Seq(Task) /\ Sorted(Base, W[m])
      BY DEF GInv, TypeOK, Parts, Lists
    <3>4. v \in Waiting(m) /\ v \in Task /\ \A w \in Waiting(m) : Base[w] <= Base[v]
      BY <2>2, <3>1, <3>3, HeadHighest DEF Waiting
    <3>5. \A n \in Mutex : /\ Waiting(n)' = Waiting(n) \ {v}
                           /\ Sorted(Base, xTasksWaitingToReceive'[n])
      BY <3>2, <3>4, Left DEF GInv, Parts, Lists
    <3>6. pc[v] = "retry" /\ wants[v] = m
      BY <3>4 DEF Parts, Lists
    <3> QED BY <3>2, <3>4, <3>5, <3>6
  <2> QED BY <2>1, <2>2
<1>7. Lists'
  BY <1>1, <1>6 DEF Parts, Lists
<1>8. Asleep'
  BY <1>1, <1>6 DEF Parts, Asleep
<1>9. Single'
  <2> SUFFICES ASSUME NEW u \in Task
               PROVE  /\ Len(held'[u]) <= 1
                      /\ pc[u] # "app" => held'[u] = <<>>
                      /\ Base[u] <= uxPriority'[u]
                      /\ held'[u] = <<>> => uxPriority'[u] = Base[u]
    BY <1>1 DEF Single
  <2>1. CASE u = t
    BY <1>1, <1>3, <1>4, <2>1
  <2>2. CASE u # t
    BY <1>3, <1>4, <2>2 DEF Parts, Single
  <2> QED BY <2>1, <2>2
<1>10. Covered'
  <2> SUFFICES ASSUME NEW n \in Mutex, xMutexHolder'[n] = NULL, NEW w \in Waiting(n)'
               PROVE  \E u \in ready' : pc[u] = "retry" /\ wants[u] = n /\ Base[w] <= Base[u]
    BY <1>1 DEF Covered
  <2>1. CASE n = m
    BY <1>6, <2>1
  <2>2. CASE n # m
    BY <1>5, <1>6, <2>2 DEF Parts, Covered
  <2> QED BY <2>1, <2>2
<1>11. ASSUME NEW n \in Mutex \ retaken', xMutexHolder'[n] # NULL
       PROVE  /\ n \in Mutex \ retaken /\ xMutexHolder'[n] = xMutexHolder[n]
              /\ uxPriority'[xMutexHolder[n]] = uxPriority[xMutexHolder[n]]
  <2>1. n # m
    BY <1>5, <1>11
  <2>2. n \in Mutex \ retaken /\ xMutexHolder'[n] = xMutexHolder[n]
    BY <1>1, <1>5, <2>1
  <2>3. xMutexHolder[n] \in Task \ {t}
    BY <1>2, <1>11, <2>1, <2>2 DEF GInv, TypeOK
  <2> QED BY <1>4, <2>2, <2>3
<1>12. Served'
  BY <1>1, <1>6, <1>11 DEF Parts, Served
<1>13. Caused'
  <2> SUFFICES ASSUME NEW n \in Mutex \ retaken', xMutexHolder'[n] # NULL,
                      Base[xMutexHolder'[n]] < uxPriority'[xMutexHolder'[n]]
               PROVE  \E u \in Task : Lends(u, n)'
    BY DEF Caused
  <2>1. PICK u \in Task : Lends(u, n)
    BY <1>11 DEF Parts, Caused
  <2>2. Lends(u, n)'
    BY <1>1, <1>11, <2>1 DEF Lends
  <2> QED BY <2>2
<1> QED BY <1>7, <1>8, <1>9, <1>10, <1>12, <1>13 DEF Parts

\* Steps that no call of the mutexes makes.
LEMMA OtherParts ==
    GInv /\ Parts /\ ( \/ vTaskSwitchContext \/ xTaskIncrementTick
                       \/ \E t \in Task : vTaskDelay(t) \/ taskYIELD(t)
                       \/ UNCHANGED vars ) => Parts'
<1> SUFFICES ASSUME GInv, Parts,
                    \/ vTaskSwitchContext \/ xTaskIncrementTick
                    \/ \E t \in Task : vTaskDelay(t) \/ taskYIELD(t)
                    \/ UNCHANGED vars
             PROVE  Parts'
  OBVIOUS
<1>1. ASSUME UNCHANGED <<uxPriority, xMutexHolder, held, pc, wants, xInheritanceOccurred, retaken>>,
             \A n \in Mutex : /\ Waiting(n)' \subseteq Waiting(n)
                              /\ Sorted(Base, xTasksWaitingToReceive'[n]),
             \A u \in Task : /\ \/ xTicksToWait'[u] = xTicksToWait[u]
                                \/ u \in ready' \ ready /\ xTicksToWait'[u] = "passed"
                             /\ u \in ready \ ready' => pc[u] = "app",
             \A n \in Mutex : Waiting(n)' \cap ready' = {}
      PROVE  Parts'
  <2> USE DEF Parts
  <2>1. Lists'
    <3>1. \A n \in Mutex : Waiting(n) \subseteq Task
      BY DEF GInv, TypeOK, Waiting, Range
    <3> QED BY <1>1, <3>1 DEF Lists
  <2>2. Asleep' /\ Single'
    BY <1>1 DEF Asleep, Single
  <2>3. Covered'
    <3> SUFFICES ASSUME NEW n \in Mutex, xMutexHolder[n] = NULL, NEW w \in Waiting(n)'
                 PROVE  \E u \in ready' : pc[u] = "retry" /\ wants[u] = n /\ Base[w] <= Base[u]
      BY <1>1 DEF Covered
    <3>1. PICK u \in ready : pc[u] = "retry" /\ wants[u] = n /\ Base[w] <= Base[u]
      BY <1>1 DEF Covered
    <3>2. u \in ready'
      BY <1>1, <3>1 DEF GInv, TypeOK
    <3> QED BY <3>1, <3>2
  <2>4. Served'
    BY <1>1 DEF Served
  <2>5. Caused'
    <3> SUFFICES ASSUME NEW n \in Mutex \ retaken, xMutexHolder[n] # NULL,
                        Base[xMutexHolder[n]] < uxPriority[xMutexHolder[n]]
                 PROVE  \E u \in Task : Lends(u, n)'
      BY <1>1 DEF Caused
    <3>1. PICK u \in Task : Lends(u, n)
      BY DEF Caused
    <3>2. Lends(u, n)'
      BY <1>1, <3>1 DEF Lends
    <3> QED BY <3>2
  <2> QED BY <2>1, <2>2, <2>3, <2>4, <2>5
<1>2. \A n \in Mutex : Sorted(Base, xTasksWaitingToReceive[n]) /\ Waiting(n) \cap ready = {}
  BY DEF Parts, Lists, GInv, Queues
<1>3. CASE /\ UNCHANGED <<uxPriority, mutexes, calls, retaken>>
           /\ \A u \in ready \ ready' : pc[u] = "app"
           /\ ready' \subseteq ready
  <2>1. /\ UNCHANGED <<xMutexHolder, xTasksWaitingToReceive, held, pc, wants, xTicksToWait,
                       xInheritanceOccurred>>
        /\ \A n \in Mutex : Waiting(n)' = Waiting(n)
    BY <1>3 DEF mutexes, calls, Waiting
  <2>2. UNCHANGED <<uxPriority, xMutexHolder, held, pc, wants, xInheritanceOccurred, retaken>>
    BY <1>3, <2>1
  <2>3. \A n \in Mutex : /\ Waiting(n)' \subseteq Waiting(n)
                         /\ Sorted(Base, xTasksWaitingToReceive'[n])
    BY <1>2, <2>1
  <2>4. \A u \in Task : /\ \/ xTicksToWait'[u] = xTicksToWait[u]
                           \/ u \in ready' \ ready /\ xTicksToWait'[u] = "passed"
                        /\ u \in ready \ ready' => pc[u] = "app"
    BY <1>3, <2>1
  <2>5. \A n \in Mutex : Waiting(n)' \cap ready' = {}
    BY <1>2, <1>3, <2>1
  <2> QED BY <1>1, <2>2, <2>3, <2>4, <2>5
<1>4. CASE xTaskIncrementTick
  <2>1. UNCHANGED <<uxPriority, xMutexHolder, held, pc, wants, xInheritanceOccurred, retaken>>
    BY <1>4 DEF xTaskIncrementTick, history
  <2>2. CASE UNCHANGED <<ready, xTasksWaitingToReceive, xTicksToWait>>
    <3>1. UNCHANGED <<mutexes, calls>>
      BY <2>1, <2>2 DEF mutexes, calls
    <3> QED BY <1>3, <2>1, <2>2, <3>1
  <2>3. ASSUME NEW w \in Task \ ready, ready' = ready \cup {w}, Leave(w),
               xTicksToWait' = [xTicksToWait EXCEPT ![w] = IF pc[w] = "app" THEN @ ELSE "passed"]
        PROVE  Parts'
    <3>1. \A n \in Mutex : /\ Waiting(n)' = Waiting(n) \ {w}
                           /\ Sorted(Base, xTasksWaitingToReceive'[n])
      BY <1>2, <2>3, Left DEF GInv
    <3>2. \A u \in Task : \/ xTicksToWait'[u] = xTicksToWait[u]
                          \/ u = w /\ xTicksToWait'[u] = "passed"
      BY <2>3 DEF GInv, TypeOK
    <3>3. \A n \in Mutex : /\ Waiting(n)' \subseteq Waiting(n)
                           /\ Sorted(Base, xTasksWaitingToReceive'[n])
      BY <3>1
    <3>4. \A u \in Task : /\ \/ xTicksToWait'[u] = xTicksToWait[u]
                             \/ u \in ready' \ ready /\ xTicksToWait'[u] = "passed"
                          /\ u \in ready \ ready' => pc[u] = "app"
      BY <2>3, <3>2
    <3>5. \A n \in Mutex : Waiting(n)' \cap ready' = {}
      BY <1>2, <2>3, <3>1
    <3> QED BY <1>1, <2>1, <3>3, <3>4, <3>5
  <2> QED BY <1>4, <2>2, <2>3 DEF xTaskIncrementTick
<1>5. CASE vTaskSwitchContext \/ UNCHANGED vars \/ \E t \in Task : taskYIELD(t)
  BY <1>3, <1>5 DEF vTaskSwitchContext, taskYIELD, vars, sched, history
<1>6. ASSUME NEW t \in Task, vTaskDelay(t) PROVE Parts'
  BY <1>3, <1>6 DEF vTaskDelay, history
<1> QED BY <1>4, <1>5, <1>6

LEMMA PInit == Init => Parts
<1> SUFFICES ASSUME Init PROVE Parts
  OBVIOUS
<1> USE DEF Init
<1>1. DOMAIN <<>> = {} /\ Len(<<>>) = 0
  OBVIOUS
<1>2. \A m \in Mutex : Waiting(m) = {} /\ Sorted(Base, xTasksWaitingToReceive[m])
  BY <1>1 DEF Waiting, Range, Sorted
<1>3. Lists /\ Covered /\ Served
  BY <1>2 DEF Lists, Covered, Served
<1>4. Asleep /\ Single /\ Caused
  BY <1>1, MutexAssumption DEF Asleep, Single, Caused
<1> QED BY <1>3, <1>4 DEF Parts

LEMMA PNext == OneAtATime /\ GInv /\ Parts /\ [Next]_vars => Parts'
  BY TakeParts, AgainParts, WindowParts, LateParts, DisinheritParts, GiveParts, OtherParts
     DEF Next

LEMMA PartsNoInversion == GInv /\ Parts => NoInversion
<1> SUFFICES ASSUME GInv, Parts PROVE NoInversion
  OBVIOUS
<1>1. HolderAsHigh
  <2> SUFFICES ASSUME NEW m \in Mutex \ retaken, xMutexHolder[m] # NULL,
                      NEW i \in DOMAIN xTasksWaitingToReceive[m]
               PROVE  uxPriority[xMutexHolder[m]] >= Base[xTasksWaitingToReceive[m][i]]
    BY DEF HolderAsHigh
  <2>1. xTasksWaitingToReceive[m][i] \in Waiting(m) /\ xTasksWaitingToReceive[m][i] \in Task
    BY DEF Waiting, Range, GInv, TypeOK
  <2>2. Base[xTasksWaitingToReceive[m][i]] <= uxPriority[xMutexHolder[m]]
    BY <2>1 DEF Parts, Served
  <2> QED BY <2>1, <2>2, MutexAssumption DEF GInv, TypeOK
<1>2. PriorityGivenBack
  <2> SUFFICES ASSUME NEW t \in Task
               PROVE  /\ uxPriority[t] >= Base[t]
                      /\ uxPriority[t] > Base[t] =>
                            /\ held[t] # <<>>
                            /\ \/ Head(held[t]) \in retaken
                               \/ \E u \in Task : wants[u] = Head(held[t])
    BY DEF PriorityGivenBack
  <2>1. uxPriority[t] \in Nat /\ Base[t] \in Nat /\ Base[t] <= uxPriority[t]
    BY MutexAssumption DEF GInv, TypeOK, Parts, Single
  <2>2. ASSUME uxPriority[t] > Base[t]
        PROVE  held[t] # <<>> /\ ( Head(held[t]) \in retaken
                                   \/ \E u \in Task : wants[u] = Head(held[t]) )
    <3>1. held[t] # <<>> /\ held[t] \in Seq(Mutex)
      BY <2>1, <2>2 DEF Parts, Single, GInv, TypeOK
    <3>2. Head(held[t]) \in Mutex /\ Head(held[t]) \in Range(held[t])
      BY <3>1 DEF Range
    <3>3. xMutexHolder[Head(held[t])] = t /\ t # NULL
      BY <3>2, MutexAssumption DEF GInv, Owned, Own
    <3>4. Base[t] < uxPriority[t]
      BY <2>1, <2>2
    <3> QED BY <3>1, <3>2, <3>3, <3>4 DEF Parts, Caused, Lends
  <2> QED BY <2>1, <2>2
<1> QED BY <1>1, <1>2 DEF NoInversion

(* Where no task takes a mutex while it holds another there is no inversion,*)
(* whatever the tasks, their priorities, limits and mutexes: the holder is  *)
(* as high as every task that waits, and falls back when the last of those  *)
(* that raised it has given up.                                             *)
THEOREM NoInversionProved == OneAtATime => (Spec => []NoInversion)
<1> SUFFICES ASSUME OneAtATime PROVE Spec => []NoInversion
  OBVIOUS
<1>1. Init => GInv /\ Parts
  BY GInit, PInit
<1>2. GInv /\ Parts /\ [Next]_vars => (GInv /\ Parts)'
  BY GNext, PNext
<1>3. GInv /\ Parts => NoInversion
  BY PartsNoInversion
<1> QED BY <1>1, <1>2, <1>3, PTL DEF Spec

=============================================================================
