--------------------------- MODULE Detection_proofs -------------------------
(* Proofs about Detection: an attack is kept from teaching the baseline, a *)
(* source is compared with a fresh reference made of other sources, and a  *)
(* window keeps its cap, its sum and its span.                             *)
EXTENDS Detection, FiniteSetTheorems, SequenceTheorems, TLAPS

-----------------------------------------------------------------------------
(* The freeze.                                                             *)

(* What the freeze rests on: the baseline learnt nothing after the present,*)
(* and while there is an alert of this process, the freeze in force        *)
(* reaches at least as far as that alert asks for.                         *)
FreezeInv ==
  /\ {now, frozen, alarm, learnt} \subseteq Int
  /\ learnt <= now
  /\ alarm # Absent => frozen >= alarm + Freeze
  /\ AttackTeachesNothing

LEMMA FreezeInit == Init => FreezeInv
BY DEF Init, FreezeInv, AttackTeachesNothing, Absent

LEMMA FreezeStep == FreezeInv /\ [Next]_vars => FreezeInv'
<1> SUFFICES ASSUME FreezeInv, [Next]_vars PROVE FreezeInv'
  OBVIOUS
<1> USE DetectionAssumption DEF FreezeInv, AttackTeachesNothing, Absent
<1>1. CASE Tick
  BY <1>1 DEF Tick, history
<1>2. ASSUME NEW s \in Sources, NEW t \in Captured, NEW q \in Kinds, Observe(s, q, t)
      PROVE  FreezeInv'
  <2>1. UNCHANGED <<now, frozen, alarm>>
    BY <1>2 DEF Observe
  <2>2. learnt' = IF Learning THEN now ELSE learnt
    BY <1>2 DEF Observe
  <2> QED BY <2>1, <2>2 DEF Learning
<1>3. ASSUME NEW s \in Sources, NEW t \in Captured, NEW q \in Kinds,
             Response(s, t, q.mass)
      PROVE  FreezeInv'
  BY <1>3 DEF Response, history
<1>4. CASE Decide
  <2>1. UNCHANGED <<now, learnt>>
    BY <1>4 DEF Decide
  <2>2. \/ frozen' = FrozenUntil /\ alarm' = now
        \/ UNCHANGED <<frozen, alarm>>
    BY <1>4 DEF Decide
  <2> QED BY <2>1, <2>2 DEF FrozenUntil
<1>5. CASE CopySessions \/ OpenFile \/ Dump
  BY <1>5 DEF CopySessions, OpenFile, Dump, history
<1>6. CASE Crash
  BY <1>6 DEF Crash
<1>7. CASE Start
  BY <1>7 DEF Start
<1>8. CASE UNCHANGED vars
  BY <1>8 DEF vars, history
<1> QED BY <1>1, <1>2, <1>3, <1>4, <1>5, <1>6, <1>7, <1>8 DEF Next

(* While the freeze of the last alert runs, the baseline learns nothing:   *)
(* freeze_baseline and the test in update keep the promise however alerts, *)
(* packets, snapshots, kills and restarts interleave.                      *)
THEOREM AttacksTeachNothing == Spec => []AttackTeachesNothing
<1>1. FreezeInv => AttackTeachesNothing
  BY DEF FreezeInv
<1> QED BY FreezeInit, FreezeStep, <1>1, PTL DEF Spec

-----------------------------------------------------------------------------
(* The reference.                                                          *)

(* A reference that holds none of the traffic of the source it is for.     *)
Independent(st) ==
  st # NoStats => /\ st.at \in Int
                  /\ st.cnt >= MinOthers
                  /\ st.src \notin st.of

(* The cached reference is an independent one of its own source, and the   *)
(* one a query is tested against is that of its source and fresh.          *)
ReferenceInv ==
  /\ base = [n |-> base.n, pop |-> base.pop, cached |-> base.cached]
  /\ base.n \in Int
  /\ base.pop \in Seq(Sources \X Nat)
  /\ Independent(base.cached)
  /\ eng # Idle /\ eng.ref # NoStats =>
       /\ Independent(eng.ref)
       /\ eng.ref.src = eng.src
       /\ base.n - eng.ref.at < Recompute
  /\ ~ up => eng = Idle
  /\ file.kind = "whole" => file.n \in Int
  /\ saver.at = "opened" => saver.n \in Int

LEMMA ReferenceInit == Init => ReferenceInv
BY DEF Init, ReferenceInv, NewBase, NoFile, NoSave, Independent

(* What population_stats_excluding returns.                                *)
LEMMA ReferenceOf ==
  ASSUME NEW b, NEW src, b.n \in Int, b.pop \in Seq(Sources \X Nat),
         Independent(b.cached),
         Reference(b, src) # NoStats
  PROVE  /\ Independent(Reference(b, src))
         /\ Reference(b, src).src = src
         /\ b.n - Reference(b, src).at < Recompute
<1> USE DetectionAssumption
<1>1. CASE Cached(b, src)
  BY <1>1 DEF Cached, Reference, Independent
<1>2. CASE ~ Cached(b, src)
  <2>1. Reference(b, src) = Stats(b, src) /\ ~ (Cardinality(Others(b, src)) < MinOthers)
    BY <1>2 DEF Reference
  <2>2. Cardinality(Others(b, src)) \in Nat
    <3>1. Len(b.pop) \in Nat /\ DOMAIN b.pop = 1 .. Len(b.pop)
      BY LenProperties
    <3>2. IsFiniteSet(DOMAIN b.pop)
      <4>1. IsFiniteSet(1 .. Len(b.pop))
        BY <3>1, 1 \in Int, Len(b.pop) \in Int, FS_Interval, Zenon
      <4> QED BY <3>1, <4>1, Zenon
    <3>3. Others(b, src) \subseteq DOMAIN b.pop
      BY DEF Others
    <3> QED BY <3>2, <3>3, FS_Subset, FS_CardinalityType
  <2>3. src \notin {b.pop[i][1] : i \in Others(b, src)}
    BY DEF Others
  <2>4. Reference(b, src).cnt >= MinOthers
    <3>1. MinOthers \in Nat
      OBVIOUS
    <3> QED BY <2>1, <2>2, <3>1 DEF Stats
  <2>5. /\ Reference(b, src).src = src /\ Reference(b, src).at = b.n
        /\ Reference(b, src).src \notin Reference(b, src).of
    BY <2>1, <2>3 DEF Stats
  <2>6. b.n - b.n < Recompute
    OBVIOUS
  <2> QED BY <2>4, <2>5, <2>6 DEF Independent
<1> QED BY <1>1, <1>2

(* The window of the baseline stays a sequence of masses and sources.      *)
LEMMA LearnedTypes ==
  ASSUME NEW b, NEW src \in Sources, NEW m \in Nat,
         b = [n |-> b.n, pop |-> b.pop, cached |-> b.cached],
         b.n \in Int, b.pop \in Seq(Sources \X Nat)
  PROVE  /\ Learned(b, m, src).n \in Int
         /\ Learned(b, m, src).pop \in Seq(Sources \X Nat)
         /\ Learned(b, m, src).cached = b.cached
<1> DEFINE pop == Append(b.pop, <<src, m>>)
<1>1. pop \in Seq(Sources \X Nat) /\ Len(pop) \in Nat /\ Len(pop) > 0
  OBVIOUS
<1>2. SubSeq(pop, IF Len(pop) > PopCap THEN 2 ELSE 1, Len(pop)) \in Seq(Sources \X Nat)
  BY <1>1
<1> QED BY <1>2 DEF Learned

LEMMA ReferenceStep == ReferenceInv /\ [Next]_vars => ReferenceInv'
<1> SUFFICES ASSUME ReferenceInv, [Next]_vars PROVE ReferenceInv'
  OBVIOUS
<1> USE DetectionAssumption DEF ReferenceInv
<1>1. CASE Tick
  BY <1>1 DEF Tick
<1>2. ASSUME NEW s \in Sources, NEW t \in Captured, NEW q \in Kinds, Observe(s, q, t)
      PROVE  ReferenceInv'
  <2> DEFINE w   == Folded(sess[s], t, q.mass)
             b   == IF Learning THEN Learned(base, q.mass, s) ELSE base
             due == b.n >= Warmup /\ Len(w) >= MinQueries
             ref == IF due THEN Reference(b, s) ELSE NoStats
  <2>1. /\ base' = IF due THEN [b EXCEPT !.cached = ref] ELSE b
        /\ eng'.ref = ref /\ eng'.src = s
        /\ up /\ UNCHANGED <<up, file, saver>>
    BY <1>2 DEF Observe, Arrives
  <2>2. /\ b = [n |-> b.n, pop |-> b.pop, cached |-> b.cached]
        /\ b.n \in Int /\ b.pop \in Seq(Sources \X Nat)
        /\ b.cached = base.cached
    <3>1. q.mass \in Nat
      BY DEF Queries
    <3> QED BY <3>1, LearnedTypes DEF Learned
  <2> HIDE DEF b
  <2>3. ref # NoStats => /\ Independent(ref)
                         /\ ref.src = s
                         /\ b.n - ref.at < Recompute
    BY <2>2, ReferenceOf
  <2>4. base'.n = b.n /\ base'.pop = b.pop
    BY <2>1, <2>2
  <2>5. base' = [n |-> base'.n, pop |-> base'.pop, cached |-> base'.cached]
    BY <2>1, <2>2
  <2>6. Independent(base'.cached)
    <3>1. CASE due
      BY <3>1, <2>1, <2>2, <2>3 DEF Independent
    <3>2. CASE ~ due
      BY <3>2, <2>1, <2>2
    <3> QED BY <3>1, <3>2
  <2> QED BY <2>1, <2>2, <2>3, <2>4, <2>5, <2>6
<1>3. ASSUME NEW s \in Sources, NEW t \in Captured, NEW q \in Kinds,
             Response(s, t, q.mass)
      PROVE  ReferenceInv'
  BY <1>3 DEF Response
<1>4. CASE Decide
  BY <1>4 DEF Decide
<1>5. CASE CopySessions
  BY <1>5 DEF CopySessions
<1>6. CASE OpenFile
  BY <1>6 DEF OpenFile
<1>7. CASE Dump
  BY <1>7 DEF Dump, NoSave
<1>8. CASE Crash
  BY <1>8 DEF Crash, NewBase, NoSave, Independent
<1>9. CASE Start
  <2>1. base' = base \/ (file.kind = "whole" /\ base' = [NewBase EXCEPT !.n = file.n])
    BY <1>9 DEF Start
  <2>2. UNCHANGED <<eng, saver, file>>
    BY <1>9 DEF Start
  <2>3. eng = Idle
    BY <1>9 DEF Start
  <2>4. /\ base' = [n |-> base'.n, pop |-> base'.pop, cached |-> base'.cached]
        /\ base'.n \in Int /\ base'.pop \in Seq(Sources \X Nat)
        /\ base'.cached \in {base.cached, NoStats}
    <3>1. CASE base' = base
      BY <3>1, Zenon
    <3>2. CASE file.kind = "whole" /\ base' = [NewBase EXCEPT !.n = file.n]
      <4>1. base' = [n |-> file.n, pop |-> <<>>, cached |-> NoStats]
        BY <3>2 DEF NewBase
      <4>2. file.n \in Int
        BY <3>2
      <4> QED BY <4>1, <4>2
    <3> QED BY <2>1, <3>1, <3>2
  <2> QED BY <2>2, <2>3, <2>4 DEF Independent
<1>10. CASE UNCHANGED vars
  BY <1>10 DEF vars
<1> QED BY <1>1, <1>2, <1>3, <1>4, <1>5, <1>6, <1>7, <1>8, <1>9, <1>10 DEF Next

(* Whenever a source is tested against a reference, that reference holds   *)
(* none of its own traffic, enough of the others', and is fresh: also when *)
(* it comes from the cache of population_stats_excluding.                  *)
THEOREM ReferencesAreIndependent == Spec => []IndependentReference
<1>1. ReferenceInv => IndependentReference
  BY DEF ReferenceInv, Independent, IndependentReference
<1> QED BY ReferenceInit, ReferenceStep, <1>1, PTL DEF Spec

-----------------------------------------------------------------------------
(* The sum of a window.  Total folds a sequence in whatever order its      *)
(* places are chosen: what it comes to does not depend on that order.      *)
Step(w, it, s) ==
  IF s = {} THEN 0 ELSE LET x == CHOOSE x \in s : TRUE IN w[x][2] + it[s \ {x}]

IsFold(w, it) == it = [s \in SUBSET DOMAIN w |-> Step(w, it, s)]

LEMMA TotalFolds ==
  ASSUME NEW w
  PROVE  Total(w) = (CHOOSE it : IsFold(w, it))[DOMAIN w]
BY DEF Total, FoldSeq, FoldFunction, FoldFunctionOnSet, MapThenFoldSet, IsFold, Step

(* Of some finite sets one is smallest.                                    *)
LEMMA SmallestOf ==
  ASSUME NEW B, B # {}, \A s \in B : IsFiniteSet(s)
  PROVE  \E s \in B : \A r \in B : Cardinality(s) <= Cardinality(r)
<1> DEFINE N == {Cardinality(s) : s \in B}
<1>1. N \in SUBSET Nat /\ N # {}
  BY FS_CardinalityType
<1>2. IsWellFoundedOn(OpToRel(<, Nat), Nat)
  BY NatLessThanWellFounded
<1>3. PICK n \in N : \A k \in N : ~ (<<k, n>> \in OpToRel(<, Nat))
  BY <1>1, <1>2, WFMin
<1>4. \A k \in N : ~ (k < n)
  BY <1>1, <1>3 DEF OpToRel
<1>5. \A k \in N : n <= k
  BY <1>1, <1>4
<1>6. PICK s \in B : n = Cardinality(s)
  OBVIOUS
<1> QED BY <1>5, <1>6

LEMMA Places ==
  ASSUME NEW w \in Entries
  PROVE  /\ Len(w) \in Nat /\ DOMAIN w = 1 .. Len(w) /\ IsFiniteSet(DOMAIN w)
         /\ \A s \in SUBSET DOMAIN w : IsFiniteSet(s) /\ Cardinality(s) \in Nat
         /\ \A i \in DOMAIN w : w[i] \in Int \X Nat /\ w[i][2] \in Nat
<1>1. Len(w) \in Nat /\ DOMAIN w = 1 .. Len(w) /\ \A i \in DOMAIN w : w[i] \in Int \X Nat
  BY DEF Entries
<1>2. IsFiniteSet(1 .. Len(w))
  BY <1>1, FS_Interval
<1>3. \A s \in SUBSET DOMAIN w : IsFiniteSet(s) /\ Cardinality(s) \in Nat
  BY <1>1, <1>2, FS_Subset, FS_CardinalityType
<1> QED BY <1>1, <1>2, <1>3

LEMMA Without ==
  ASSUME NEW s, IsFiniteSet(s), NEW x \in s
  PROVE  /\ IsFiniteSet(s \ {x}) /\ Cardinality(s \ {x}) = Cardinality(s) - 1
         /\ Cardinality(s) \in Nat /\ Cardinality(s) > 0 /\ Cardinality(s \ {x}) \in Nat
<1>1. IsFiniteSet(s \ {x}) /\ Cardinality(s \ {x}) = Cardinality(s) - 1
  BY FS_RemoveElement
<1>2. Cardinality(s) \in Nat /\ Cardinality(s \ {x}) \in Nat
  BY <1>1, FS_CardinalityType
<1> QED BY <1>1, <1>2

(* The fold exists: up to every size of a set of places there is one.      *)
LEMMA FoldExists ==
  ASSUME NEW w \in Entries
  PROVE  \E it : IsFold(w, it)
<1> DEFINE D == DOMAIN w
           Upto(k) == \E it \in [SUBSET D -> Nat] :
                        \A s \in SUBSET D : Cardinality(s) <= k => it[s] = Step(w, it, s)
           Bad == {k \in Nat : ~ Upto(k)}
<1>1. Upto(0)
  <2> DEFINE it == [s \in SUBSET D |-> 0]
  <2>1. \A s \in SUBSET D : Cardinality(s) <= 0 => s = {}
    BY Places, FS_EmptySet
  <2>2. \A s \in SUBSET D : Cardinality(s) <= 0 => it[s] = Step(w, it, s)
    BY <2>1 DEF Step
  <2> QED BY <2>2
<1>2. ASSUME NEW k \in Nat, Upto(k)
      PROVE  Upto(k + 1)
  <2>1. PICK it \in [SUBSET D -> Nat] :
          \A s \in SUBSET D : Cardinality(s) <= k => it[s] = Step(w, it, s)
    BY <1>2
  <2> DEFINE next == [s \in SUBSET D |-> IF Cardinality(s) <= k THEN it[s] ELSE Step(w, it, s)]
  <2>2. \A s \in SUBSET D : Step(w, it, s) \in Nat
    BY Places DEF Step
  <2>3. next \in [SUBSET D -> Nat]
    BY <2>2
  <2>4. ASSUME NEW s \in SUBSET D, Cardinality(s) <= k + 1
        PROVE  next[s] = Step(w, next, s)
    <3>1. next[s] = Step(w, it, s)
      BY <2>1
    <3>2. CASE s = {}
      BY <3>1, <3>2 DEF Step
    <3>3. CASE s # {}
      <4> DEFINE x == CHOOSE x \in s : TRUE
      <4>1. x \in s
        BY <3>3
      <4>2. Cardinality(s \ {x}) <= k
        <5> HIDE DEF x
        <5>1. IsFiniteSet(s)
          BY Places
        <5>2. Cardinality(s \ {x}) = Cardinality(s) - 1 /\ Cardinality(s) \in Nat
          BY <4>1, <5>1, Without
        <5> QED BY <2>4, <5>2
      <4>3. next[s \ {x}] = it[s \ {x}]
        BY <4>2
      <4> HIDE DEF next
      <4>4. Step(w, it, s) = Step(w, next, s)
        BY <4>3 DEF Step
      <4> QED BY <3>1, <4>4
    <3> QED BY <3>2, <3>3
  <2> HIDE DEF next
  <2> QED BY <2>3, <2>4
<1>3. Bad = {}
  <2> SUFFICES ASSUME Bad # {} PROVE FALSE
    OBVIOUS
  <2> HIDE DEF Upto
  <2>1. IsWellFoundedOn(OpToRel(<, Nat), Nat) /\ Bad \in SUBSET Nat
    BY NatLessThanWellFounded
  <2>2. PICK n \in Bad : \A k \in Bad : ~ (<<k, n>> \in OpToRel(<, Nat))
    BY <2>1, WFMin
  <2>3. n \in Nat /\ ~ Upto(n) /\ \A k \in Bad : ~ (k < n)
    BY <2>2 DEF OpToRel
  <2>4. n # 0
    BY <1>1, <2>3
  <2>5. n - 1 \in Nat /\ n - 1 < n /\ n - 1 + 1 = n
    BY <2>3, <2>4
  <2>6. Upto(n - 1)
    BY <2>3, <2>5
  <2> QED BY <1>2, <2>3, <2>5, <2>6
<1>4. PICK it \in [SUBSET D -> Nat] :
        \A s \in SUBSET D : Cardinality(s) <= Cardinality(D) => it[s] = Step(w, it, s)
  <2>1. Cardinality(D) \in Nat
    BY Places
  <2> HIDE DEF D
  <2> QED BY <1>3, <2>1
<1>5. \A s \in SUBSET D : Cardinality(s) <= Cardinality(D)
  BY Places, FS_Subset
<1>6. it = [s \in SUBSET D |-> Step(w, it, s)]
  BY <1>4, <1>5
<1> QED BY <1>6 DEF IsFold

Fold(w) == CHOOSE it : IsFold(w, it)

(* Whatever place is taken first, the sum is the same.                     *)
LEMMA FoldOf ==
  ASSUME NEW w \in Entries
  PROVE  /\ Fold(w)[{}] = 0
         /\ \A s \in SUBSET DOMAIN w : Fold(w)[s] \in Nat
         /\ \A s \in SUBSET DOMAIN w : \A x \in s : Fold(w)[s] = w[x][2] + Fold(w)[s \ {x}]
<1> DEFINE D == DOMAIN w
           it == Fold(w)
<1>1. it = [s \in SUBSET D |-> Step(w, it, s)]
  <2>1. IsFold(w, it)
    BY FoldExists DEF Fold
  <2> QED BY <2>1 DEF IsFold
<1> HIDE DEF it
<1>2. \A s \in SUBSET D : it[s] = Step(w, it, s)
  BY <1>1
<1>3. it[{}] = 0
  BY <1>2 DEF Step
<1>4. ASSUME NEW s \in SUBSET D, s # {}
      PROVE  \E c \in s : it[s] = w[c][2] + it[s \ {c}]
  BY <1>2, <1>4 DEF Step
<1>5. \A s \in SUBSET D : it[s] \in Nat
  <2> DEFINE Bad == {s \in SUBSET D : it[s] \notin Nat}
  <2> SUFFICES ASSUME Bad # {} PROVE FALSE
    OBVIOUS
  <2>1. PICK s \in Bad : \A r \in Bad : Cardinality(s) <= Cardinality(r)
    BY SmallestOf, Places
  <2>2. s # {}
    BY <1>3
  <2>3. PICK c \in s : it[s] = w[c][2] + it[s \ {c}]
    BY <1>4, <2>2
  <2>4. ~ (Cardinality(s) <= Cardinality(s \ {c}))
    BY Places, Without
  <2>5. it[s \ {c}] \in Nat
    BY <2>1, <2>4
  <2> QED BY <2>3, <2>5, Places
<1>6. \A s \in SUBSET D : \A x \in s : it[s] = w[x][2] + it[s \ {x}]
  <2> DEFINE Bad == {s \in SUBSET D : \E x \in s : it[s] # w[x][2] + it[s \ {x}]}
  <2> SUFFICES ASSUME Bad # {} PROVE FALSE
    OBVIOUS
  <2>1. PICK s \in Bad : \A r \in Bad : Cardinality(s) <= Cardinality(r)
    BY SmallestOf, Places
  <2>2. PICK x \in s : it[s] # w[x][2] + it[s \ {x}]
    OBVIOUS
  <2>3. PICK c \in s : it[s] = w[c][2] + it[s \ {c}]
    BY <1>4
  <2>4. x # c
    BY <2>2, <2>3
  <2>5. /\ ~ (Cardinality(s) <= Cardinality(s \ {c}))
        /\ ~ (Cardinality(s) <= Cardinality(s \ {x}))
    <3>1. IsFiniteSet(s)
      BY Places
    <3>2. /\ Cardinality(s \ {c}) = Cardinality(s) - 1 /\ Cardinality(s) \in Nat
          /\ Cardinality(s \ {x}) = Cardinality(s) - 1
      BY <3>1, Without
    <3> QED BY <3>2
  <2>6. s \ {c} \notin Bad /\ s \ {x} \notin Bad
    BY <2>1, <2>5
  <2>7. /\ it[s \ {c}] = w[x][2] + it[(s \ {c}) \ {x}]
        /\ it[s \ {x}] = w[c][2] + it[(s \ {x}) \ {c}]
    BY <2>4, <2>6
  <2>8. (s \ {c}) \ {x} = (s \ {x}) \ {c}
    OBVIOUS
  <2>9. w[x][2] \in Nat /\ w[c][2] \in Nat /\ it[(s \ {x}) \ {c}] \in Nat
    BY <1>5, Places
  <2> DEFINE a == w[x][2]
             b == w[c][2]
             r == it[(s \ {x}) \ {c}]
  <2>10. b + (a + r) = a + (b + r)
    BY <2>9
  <2> QED BY <2>2, <2>3, <2>7, <2>8, <2>10
<1> QED BY <1>3, <1>5, <1>6 DEF it

(* The sum of a window and one more packet.                                *)
LEMMA TotalOf ==
  /\ Total(<<>>) = 0
  /\ \A w \in Entries : Total(w) \in Nat
  /\ \A w \in Entries, t \in Int, m \in Nat : Total(Append(w, <<t, m>>)) = Total(w) + m
<1>1. \A w : Total(w) = Fold(w)[DOMAIN w]
  BY TotalFolds DEF Fold
<1>2. Total(<<>>) = 0
  <2>1. <<>> \in Entries /\ DOMAIN <<>> = {}
    BY DEF Entries
  <2> QED BY <1>1, <2>1, FoldOf
<1>3. \A w \in Entries : Total(w) \in Nat
  BY <1>1, FoldOf
<1>4. ASSUME NEW w \in Entries, NEW t \in Int, NEW m \in Nat
      PROVE  Total(Append(w, <<t, m>>)) = Total(w) + m
  <2> DEFINE D == DOMAIN w
             n == Len(w) + 1
             more == Append(w, <<t, m>>)
  <2>1. more \in Entries
    BY DEF Entries
  <2>2. /\ DOMAIN more = D \cup {n} /\ n \notin D /\ more[n] = <<t, m>>
        /\ \A i \in D : more[i] = w[i]
    <3>1. /\ Len(more) = Len(w) + 1 /\ Len(w) \in Nat /\ more[n] = <<t, m>>
          /\ \A i \in 1 .. Len(w) : more[i] = w[i]
      BY DEF Entries
    <3>2. DOMAIN more = 1 .. n /\ D = 1 .. Len(w)
      BY <2>1, <3>1, Places
    <3>3. 1 .. n = 1 .. Len(w) \cup {n} /\ n \notin 1 .. Len(w)
      BY <3>1
    <3> QED BY <3>1, <3>2, <3>3
  <2> HIDE DEF more, n
  <2>3. Fold(more)[D \cup {n}] = m + Fold(more)[D]
    <3>1. (D \cup {n}) \ {n} = D
      BY <2>2
    <3>2. Fold(more)[D \cup {n}] = more[n][2] + Fold(more)[(D \cup {n}) \ {n}]
      BY <2>1, <2>2, FoldOf
    <3> QED BY <2>2, <3>1, <3>2
  <2>4. \A s \in SUBSET D : Fold(more)[s] = Fold(w)[s]
    <3> DEFINE Bad == {s \in SUBSET D : Fold(more)[s] # Fold(w)[s]}
    <3> SUFFICES ASSUME Bad # {} PROVE FALSE
      OBVIOUS
    <3>1. PICK s \in Bad : \A r \in Bad : Cardinality(s) <= Cardinality(r)
      BY SmallestOf, Places
    <3>2. s # {}
      BY <2>1, FoldOf
    <3>3. PICK x \in s : TRUE
      BY <3>2
    <3>4. ~ (Cardinality(s) <= Cardinality(s \ {x}))
      BY Places, Without
    <3>5. Fold(more)[s \ {x}] = Fold(w)[s \ {x}]
      BY <3>1, <3>4
    <3>6. Fold(w)[s] = w[x][2] + Fold(w)[s \ {x}]
      BY FoldOf
    <3>7. Fold(more)[s] = more[x][2] + Fold(more)[s \ {x}]
      BY <2>1, <2>2, FoldOf
    <3> QED BY <2>2, <3>5, <3>6, <3>7
  <2>5. Total(more) = m + Total(w)
    BY <1>1, <2>2, <2>3, <2>4
  <2>6. Total(w) \in Nat
    BY <1>3
  <2> QED BY <2>5, <2>6 DEF more
<1> QED BY <1>2, <1>3, <1>4

-----------------------------------------------------------------------------
(* The windows.  The interfaces share one queue: a packet is at most Lag   *)
(* older than any that was taken off before it, and none is of the future. *)
InArrivalOrder(w, n) ==
  \A i \in DOMAIN w : /\ w[i][1] <= n
                      /\ \A j \in DOMAIN w : i < j => w[i][1] - Lag <= w[j][1]

Sound(w, n) == w \in Entries /\ WithinWindow(w) /\ InArrivalOrder(w, n)

Sessions(f, n) == f \in [Sources -> Entries] /\ \A s \in Sources : Sound(f[s], n)

LEMMA LeastOf ==
  ASSUME NEW S \in SUBSET Nat, S # {}
  PROVE  \E i \in S : \A j \in S : i <= j
<1>1. IsWellFoundedOn(OpToRel(<, Nat), Nat)
  BY NatLessThanWellFounded
<1>2. PICK i \in S : \A j \in S : ~ (<<j, i>> \in OpToRel(<, Nat))
  BY <1>1, WFMin
<1>3. \A j \in S : ~ (j < i)
  BY <1>2 DEF OpToRel
<1> QED BY <1>3

(* What is left of a window when its head is dropped.                      *)
LEMMA SuffixOf ==
  ASSUME NEW w \in Entries, NEW n \in Int, InArrivalOrder(w, n), NEW k \in 1 .. Len(w)
  PROVE  LET p == SubSeq(w, k, Len(w)) IN
         /\ p \in Entries /\ Len(p) = Len(w) - k + 1 /\ InArrivalOrder(p, n)
         /\ DOMAIN p = 1 .. Len(w) - k + 1
         /\ \A i \in DOMAIN p : i + k - 1 \in DOMAIN w /\ p[i] = w[i + k - 1]
<1> DEFINE p == SubSeq(w, k, Len(w))
<1>1. Len(w) \in Nat /\ DOMAIN w = 1 .. Len(w)
  BY Places
<1>2. p \in Entries /\ Len(p) = Len(w) - k + 1
  BY <1>1 DEF Entries
<1>3. DOMAIN p = 1 .. Len(w) - k + 1
  BY <1>2, Places
<1>4. \A i \in DOMAIN p : i + k - 1 \in DOMAIN w /\ p[i] = w[i + k - 1]
  <2> TAKE i \in DOMAIN p
  <2>1. i + k - 1 \in DOMAIN w
    <3> HIDE DEF p
    <3> QED BY <1>1, <1>3
  <2>2. p[i] = w[i + k - 1]
    <3>1. \A j \in 1 .. Len(w) - k + 1 : p[j] = w[k + j - 1]
      <4>1. \A j \in k .. Len(w) : w[j] \in Int \X Nat
        BY <1>1, Places
      <4>2. k \in Int /\ Len(w) \in Int
        BY <1>1
      <4> QED BY <4>1, <4>2, SubSeqProperties
    <3>2. i \in 1 .. Len(w) - k + 1 /\ k + i - 1 = i + k - 1
      BY <1>3
    <3> QED BY <3>1, <3>2
  <2> QED BY <2>1, <2>2
<1> HIDE DEF p
<1>5. InArrivalOrder(p, n)
  <2> SUFFICES ASSUME NEW i \in DOMAIN p
               PROVE  /\ p[i][1] <= n
                      /\ \A j \in DOMAIN p : i < j => p[i][1] - Lag <= p[j][1]
    BY DEF InArrivalOrder
  <2>1. p[i][1] <= n
    BY <1>4 DEF InArrivalOrder
  <2>2. ASSUME NEW j \in DOMAIN p, i < j PROVE p[i][1] - Lag <= p[j][1]
    <3>1. i + k - 1 < j + k - 1
      BY <1>3, <2>2
    <3> QED BY <1>4, <3>1 DEF InArrivalOrder
  <2> QED BY <2>1, <2>2
<1> QED BY <1>2, <1>3, <1>4, <1>5 DEF p

LEMMA PrunedOf ==
  ASSUME NEW w \in Entries, NEW n \in Int, InArrivalOrder(w, n), NEW cutoff \in Int
  PROVE  /\ Pruned(w, cutoff) \in Entries /\ InArrivalOrder(Pruned(w, cutoff), n)
         /\ \A i \in DOMAIN Pruned(w, cutoff) : Pruned(w, cutoff)[i][1] > cutoff - Lag
<1> DEFINE live == {i \in DOMAIN w : w[i][1] > cutoff}
           p == Pruned(w, cutoff)
<1>0. Lag \in Nat
  BY DetectionAssumption
<1>1. CASE live = {}
  <2>1. p = <<>>
    BY <1>1 DEF Pruned
  <2>2. <<>> \in Entries /\ DOMAIN <<>> = {}
    BY DEF Entries
  <2> QED BY <2>1, <2>2 DEF InArrivalOrder
<1>2. CASE live # {}
  <2> DEFINE k == CHOOSE i \in live : \A j \in live : i <= j
  <2>1. live \in SUBSET Nat
    BY Places
  <2>2. \E i \in live : \A j \in live : i <= j
    BY <1>2, <2>1, LeastOf
  <2>3. k \in live
    BY <2>2
  <2>4. k \in 1 .. Len(w) /\ w[k][1] > cutoff
    BY <2>3, Places
  <2>5. p = SubSeq(w, k, Len(w))
    BY <1>2 DEF Pruned
  <2> HIDE DEF p, k
  <2>6. /\ p \in Entries /\ InArrivalOrder(p, n) /\ DOMAIN p = 1 .. Len(w) - k + 1
        /\ \A i \in DOMAIN p : p[i] = w[i + k - 1]
    BY <2>4, <2>5, SuffixOf
  <2>7. \A i \in DOMAIN p : p[i] \in Int \X Nat
    BY <2>6, Places
  <2>8. 1 \in DOMAIN p /\ p[1] = w[k]
    BY <2>4, <2>6, Places
  <2>9. ASSUME NEW i \in DOMAIN p PROVE p[i][1] > cutoff - Lag
    <3>1. i = 1 \/ 1 < i
      BY <2>6
    <3>2. i # 1 => p[1][1] - Lag <= p[i][1]
      BY <2>6, <2>8, <3>1 DEF InArrivalOrder
    <3>3. p[1][1] > cutoff /\ p[1][1] \in Int /\ p[i][1] \in Int
      BY <2>4, <2>7, <2>8
    <3>4. p[1][1] - Lag > cutoff - Lag /\ cutoff >= cutoff - Lag
      BY <1>0, <3>3
    <3> QED BY <1>0, <3>2, <3>3, <3>4
  <2> QED BY <2>6, <2>9 DEF p
<1> QED BY <1>1, <1>2

(* A packet folded in: nothing in the window is more than Lag too old, and *)
(* the running sum is the sum.                                             *)
LEMMA FoldedOf ==
  ASSUME NEW w \in Entries, now \in Nat, InArrivalOrder(w, now), NEW t \in Captured, NEW m \in Nat
  PROVE  /\ Sound(Folded(w, t, m), now) /\ Len(Folded(w, t, m)) > 0
         /\ Running(w, Total(w), t, m) = Total(Folded(w, t, m))
<1> DEFINE p == Pruned(w, t - Window)
           f == Folded(w, t, m)
<1>0. Lag \in Nat /\ Window \in Nat /\ Window > 0
  BY DetectionAssumption
<1>1. t \in Int /\ now - Lag <= t /\ t <= now
  BY <1>0 DEF Captured
<1>2. /\ p \in Entries /\ InArrivalOrder(p, now)
      /\ \A i \in DOMAIN p : p[i][1] > t - Window - Lag
  BY <1>0, <1>1, PrunedOf
<1>3. f = Append(p, <<t, m>>)
  BY DEF Folded
<1>4. Running(w, Total(w), t, m) = Total(f)
  <2>1. Total(f) = Total(p) + m /\ Total(p) \in Nat /\ Total(w) \in Nat
    BY <1>1, <1>2, <1>3, TotalOf
  <2>2. Running(w, Total(w), t, m) = Total(w) - (Total(w) - Total(p)) + m
    BY DEF Running
  <2> DEFINE a == Total(w)
             b == Total(p)
  <2> HIDE DEF a, b
  <2>3. a \in Nat /\ b \in Nat => a - (a - b) + m = b + m
    OBVIOUS
  <2> QED BY <2>1, <2>2, <2>3 DEF a, b
<1> HIDE DEF p, f
<1>5. f \in Entries /\ Len(f) = Len(p) + 1
  BY <1>1, <1>2, <1>3 DEF Entries
<1>6. /\ Len(p) \in Nat /\ DOMAIN p = 1 .. Len(p) /\ DOMAIN f = 1 .. Len(p) + 1
      /\ \A i \in DOMAIN p : p[i][1] \in Int
  BY <1>2, <1>5, Places
<1>7. f[Len(p) + 1] = <<t, m>> /\ \A i \in DOMAIN p : f[i] = p[i]
  BY <1>1, <1>2, <1>3, <1>6 DEF Entries
<1>8. \A i \in DOMAIN f : i \in DOMAIN p \/ i = Len(p) + 1
  BY <1>6
<1>9. WithinWindow(f)
  <2> SUFFICES ASSUME NEW i \in DOMAIN f PROVE f[i][1] > t - Window - Lag
    BY <1>5, <1>7 DEF WithinWindow
  <2>1. t > t - Window - Lag
    BY <1>0, <1>1
  <2> QED BY <1>2, <1>7, <1>8, <2>1
<1>10. InArrivalOrder(f, now)
  <2> SUFFICES ASSUME NEW i \in DOMAIN f
               PROVE  /\ f[i][1] <= now
                      /\ \A j \in DOMAIN f : i < j => f[i][1] - Lag <= f[j][1]
    BY DEF InArrivalOrder
  <2>1. f[i][1] <= now
    BY <1>1, <1>2, <1>7, <1>8 DEF InArrivalOrder
  <2>2. ASSUME NEW j \in DOMAIN f, i < j PROVE f[i][1] - Lag <= f[j][1]
    <3>1. i \in DOMAIN p
      BY <1>6, <1>8, <2>2
    <3>2. CASE j \in DOMAIN p
      BY <1>2, <1>7, <2>2, <3>1, <3>2 DEF InArrivalOrder
    <3>3. CASE j = Len(p) + 1
      <4>1. f[i][1] \in Int /\ f[i][1] <= now /\ f[j][1] = t
        BY <1>6, <1>7, <2>1, <3>1, <3>3
      <4> QED BY <1>0, <1>1, <4>1
    <3> QED BY <1>8, <3>2, <3>3
  <2> QED BY <2>1, <2>2
<1>11. Len(f) > 0
  BY <1>5, <1>6
<1> QED BY <1>4, <1>5, <1>9, <1>10, <1>11 DEF Sound, f

LEMMA CappedOf ==
  ASSUME NEW w, NEW n \in Int, Sound(w, n), Len(w) > 0
  PROVE  Sound(Capped(w), n) /\ Len(Capped(w)) <= DomCap
<1> DEFINE k == IF Len(w) > DomCap THEN Len(w) - DomCap + 1 ELSE 1
           p == Capped(w)
<1>1. DomCap \in Nat /\ DomCap > 0 /\ w \in Entries /\ Len(w) \in Nat
  BY DetectionAssumption, Places DEF Sound
<1>2. k \in 1 .. Len(w) /\ Len(w) - k + 1 <= DomCap
  BY <1>1
<1>3. p = SubSeq(w, k, Len(w))
  BY DEF Capped
<1> HIDE DEF k, p
<1>4. /\ p \in Entries /\ Len(p) = Len(w) - k + 1 /\ InArrivalOrder(p, n)
      /\ DOMAIN p = 1 .. Len(w) - k + 1
      /\ \A i \in DOMAIN p : i + k - 1 \in DOMAIN w /\ p[i] = w[i + k - 1]
  BY <1>1, <1>2, <1>3, SuffixOf DEF Sound
<1>5. Len(p) \in DOMAIN p /\ Len(p) + k - 1 = Len(w)
  BY <1>1, <1>2, <1>4
<1>6. p[Len(p)] = w[Len(w)]
  BY <1>4, <1>5
<1>7. WithinWindow(p)
  BY <1>4, <1>6 DEF WithinWindow, Sound
<1> QED BY <1>2, <1>4, <1>7 DEF Sound, p

-----------------------------------------------------------------------------
(* A restart brings back windows as sound as those that were saved.        *)
WindowsInv ==
  /\ ReferenceInv /\ TypeOK /\ CumMatches
  /\ Sessions(sess, now) /\ Sessions(dom, now) /\ Sessions(answers, now)
  /\ saver.at # "idle" => Sessions(saver.sess, now) /\ saver.alarm \in Absent .. Horizon
  /\ saver.at = "opened" => saver.n \in Nat
  /\ file.kind = "whole" =>
       Sessions(file.sess, now) /\ file.n \in Nat /\ file.alarm \in Absent .. Horizon

LEMMA WindowsHold == WindowsInv => WindowsSound
BY DEF WindowsInv, WindowsSound, WindowBounded, Sessions, Sound

LEMMA EmptySessions == Sessions(Empty, 0) /\ \A n \in Nat : Sessions(Empty, n)
<1>1. <<>> \in Entries /\ DOMAIN <<>> = {}
  BY DEF Entries
<1> QED BY <1>1 DEF Sessions, Sound, WithinWindow, InArrivalOrder, Empty

LEMMA SessionsLater ==
  ASSUME NEW f, NEW n \in Nat, NEW m \in Nat, n <= m, Sessions(f, n)
  PROVE  Sessions(f, m)
<1> SUFFICES ASSUME NEW s \in Sources PROVE Sound(f[s], m)
  BY DEF Sessions
<1>1. f[s] \in Entries /\ WithinWindow(f[s]) /\ InArrivalOrder(f[s], n)
  BY DEF Sessions, Sound
<1>2. \A i \in DOMAIN f[s] : f[s][i] \in Int \X Nat
  BY <1>1, Places
<1>3. \A i \in DOMAIN f[s] : f[s][i][1] \in Int /\ f[s][i][1] <= n
  BY <1>1, <1>2 DEF InArrivalOrder
<1>4. \A i \in DOMAIN f[s] : f[s][i][1] <= m
  BY <1>3
<1> QED BY <1>1, <1>4 DEF Sound, InArrivalOrder

LEMMA SessionsExcept ==
  ASSUME NEW f, NEW n \in Nat, Sessions(f, n), NEW s \in Sources, NEW w, Sound(w, n)
  PROVE  Sessions([f EXCEPT ![s] = w], n)
BY DEF Sessions, Sound

(* The cap of the baseline's window.                                       *)
LEMMA LearnedCap ==
  ASSUME NEW b, NEW src \in Sources, NEW m \in Nat,
         b = [n |-> b.n, pop |-> b.pop, cached |-> b.cached],
         b.n \in Nat, b.pop \in Seq(Sources \X Nat), Len(b.pop) <= PopCap
  PROVE  /\ Learned(b, m, src).n \in Nat
         /\ Learned(b, m, src).pop \in Seq(Sources \X Nat)
         /\ Len(Learned(b, m, src).pop) <= PopCap
         /\ Learned(b, m, src) = [n |-> Learned(b, m, src).n, pop |-> Learned(b, m, src).pop,
                                  cached |-> Learned(b, m, src).cached]
<1> DEFINE pop == Append(b.pop, <<src, m>>)
           k == IF Len(pop) > PopCap THEN 2 ELSE 1
           l == SubSeq(pop, k, Len(pop))
<1>1. pop \in Seq(Sources \X Nat) /\ Len(pop) = Len(b.pop) + 1 /\ Len(b.pop) \in Nat
  OBVIOUS
<1>2. PopCap \in Nat /\ PopCap > 0
  BY DetectionAssumption
<1>3. Learned(b, m, src) = [[b EXCEPT !.n = @ + 1] EXCEPT !.pop = l]
  BY DEF Learned
<1>4. k \in {1, 2} /\ k <= Len(pop) /\ Len(pop) - k + 1 <= PopCap
  <2> HIDE DEF pop
  <2> QED BY <1>1, <1>2
<1> HIDE DEF pop, k
<1>5. l \in Seq(Sources \X Nat) /\ Len(l) = Len(pop) - k + 1
  <2>1. k \in Int /\ Len(pop) \in Int /\ k <= Len(pop)
    BY <1>1, <1>4
  <2>2. \A i \in k .. Len(pop) : pop[i] \in Sources \X Nat
    BY <1>1, <1>4
  <2> QED BY <2>1, <2>2, SubSeqProperties
<1> HIDE DEF l
<1>6. Learned(b, m, src) = [n |-> b.n + 1, pop |-> l, cached |-> b.cached]
  BY <1>3
<1> QED BY <1>4, <1>5, <1>6

LEMMA WindowsInit == Init => WindowsInv
<1> SUFFICES ASSUME Init PROVE WindowsInv
  OBVIOUS
<1>1. ReferenceInv /\ Sessions(Empty, now)
  BY ReferenceInit, EmptySessions DEF Init
<1>2. CumMatches
  BY TotalOf DEF Init, CumMatches, Empty, Zero
<1>3. /\ now \in 0 .. Horizon /\ count \in [packets : 0 .. MaxPackets, crashes : 0 .. MaxCrashes]
      /\ {alarm, alarmed, learnt} \subseteq Absent .. Horizon
      /\ frozen \in Int /\ frozen <= Horizon + Freeze
  BY DetectionAssumption DEF Init, Absent
<1>4. \A s \in Sources : {sess[s], dom[s], answers[s]} \subseteq Entries /\ Len(dom[s]) <= DomCap
  BY DetectionAssumption DEF Init, Empty, Entries
<1>5. base.n \in Nat /\ base.pop \in Seq(Sources \X Nat) /\ Len(base.pop) <= PopCap
  BY DetectionAssumption DEF Init, NewBase
<1>6. {cum, respCum} \subseteq [Sources -> Nat]
  BY DEF Init, Zero
<1>7. saver.at = "idle" /\ file.kind = "none" /\ eng = Idle /\ up = TRUE
  BY DEF Init, NoSave, NoFile
<1>8. TypeOK
  BY <1>3, <1>4, <1>5, <1>6, <1>7 DEF TypeOK
<1>9. sess = Empty /\ dom = Empty /\ answers = Empty
  BY DEF Init
<1> QED BY <1>1, <1>2, <1>7, <1>8, <1>9 DEF WindowsInv

LEMMA Counts ==
  ASSUME WindowsInv
  PROVE  /\ Arrives => count' \in [packets : 0 .. MaxPackets, crashes : 0 .. MaxCrashes]
         /\ Crash => count' \in [packets : 0 .. MaxPackets, crashes : 0 .. MaxCrashes]
<1>1. /\ count \in [packets : 0 .. MaxPackets, crashes : 0 .. MaxCrashes]
      /\ MaxPackets \in Nat /\ MaxCrashes \in Nat
  BY DetectionAssumption DEF WindowsInv, TypeOK
<1>2. ASSUME Arrives PROVE count' \in [packets : 0 .. MaxPackets, crashes : 0 .. MaxCrashes]
  <2>1. count.packets < MaxPackets /\ count' = [count EXCEPT !.packets = @ + 1]
    BY <1>2 DEF Arrives
  <2>2. count.packets + 1 \in 0 .. MaxPackets
    BY <1>1, <2>1
  <2> QED BY <1>1, <2>1, <2>2
<1>3. ASSUME Crash PROVE count' \in [packets : 0 .. MaxPackets, crashes : 0 .. MaxCrashes]
  <2>1. count.crashes < MaxCrashes /\ count' = [count EXCEPT !.crashes = @ + 1]
    BY <1>3 DEF Crash
  <2>2. count.crashes + 1 \in 0 .. MaxCrashes
    BY <1>1, <2>1
  <2> QED BY <1>1, <2>1, <2>2
<1> QED BY <1>2, <1>3

LEMMA ObserveWindows ==
  ASSUME WindowsInv, ReferenceInv', NEW s \in Sources, NEW t \in Captured, NEW q \in Kinds,
         Observe(s, q, t)
  PROVE  WindowsInv'
<1> DEFINE w   == Folded(sess[s], t, q.mass)
           c   == Running(sess[s], cum[s], t, q.mass)
           f   == Folded(dom[s], t, q.mass)
           d   == Capped(f)
           b   == IF Learning THEN Learned(base, q.mass, s) ELSE base
           due == b.n >= Warmup /\ Len(w) >= MinQueries
           ref == IF due THEN Reference(b, s) ELSE NoStats
<1>1. /\ now \in Nat /\ now \in 0 .. Horizon /\ q.mass \in Nat
      /\ Sound(sess[s], now) /\ Sound(dom[s], now) /\ cum[s] = Total(sess[s])
  <2>1. Horizon \in Nat /\ q.mass \in Nat
    BY DetectionAssumption DEF Queries
  <2> QED BY <2>1 DEF WindowsInv, TypeOK, CumMatches, Sessions
<1>2. Sound(w, now) /\ Len(w) > 0 /\ c = Total(w) /\ c \in Nat
  <2>1. sess[s] \in Entries /\ InArrivalOrder(sess[s], now)
    BY <1>1 DEF Sound
  <2>2. Sound(w, now) /\ Len(w) > 0 /\ c = Total(w)
    BY <1>1, <2>1, FoldedOf
  <2>3. Total(w) \in Nat
    BY <2>2, TotalOf DEF Sound
  <2> QED BY <2>2, <2>3
<1>3. Sound(d, now) /\ Len(d) <= DomCap
  <2>1. dom[s] \in Entries /\ InArrivalOrder(dom[s], now)
    BY <1>1 DEF Sound
  <2>2. Sound(f, now) /\ Len(f) > 0
    BY <1>1, <2>1, FoldedOf
  <2> HIDE DEF f
  <2> QED BY <1>1, <2>2, CappedOf
<1>4. /\ b.n \in Nat /\ b.pop \in Seq(Sources \X Nat) /\ Len(b.pop) <= PopCap
      /\ b = [n |-> b.n, pop |-> b.pop, cached |-> b.cached]
  BY <1>1, LearnedCap DEF WindowsInv, TypeOK, ReferenceInv
<1>5. /\ sess' = [sess EXCEPT ![s] = w] /\ cum' = [cum EXCEPT ![s] = c]
      /\ dom' = [dom EXCEPT ![s] = d]
      /\ base' = IF due THEN [b EXCEPT !.cached = ref] ELSE b
      /\ UNCHANGED <<now, up, answers, respCum, frozen, saver, file, alarm, alarmed>>
      /\ learnt' \in {now, learnt}
  <2>1. d = Capped(Append(Pruned(dom[s], t - Window), <<t, q.mass>>))
    BY DEF Folded
  <2> QED BY <2>1 DEF Observe
<1>6. PICK flags \in BOOLEAN \X BOOLEAN \X BOOLEAN :
        eng' = [at |-> "decide", src |-> s, q |-> q, ref |-> ref,
                flagged |-> flags[1] \/ flags[2] \/ flags[3]]
  <2> DEFINE burst == Cardinality({i \in DOMAIN d : d[i][1] > t - Burst}) >= DomMin
  <2>1. \E drip \in IF due THEN Elevated(c, Len(w), ref) ELSE {FALSE},
           velocity \in IF burst /\ ~ q.popular THEN BOOLEAN ELSE {FALSE},
           beacon \in IF Len(w) >= MinQueries \/ Len(d) >= DomMin THEN BOOLEAN ELSE {FALSE} :
          eng' = [at |-> "decide", src |-> s, q |-> q, ref |-> ref,
                  flagged |-> drip \/ velocity \/ beacon]
    BY DEF Observe, Folded
  <2>2. Elevated(c, Len(w), ref) \subseteq BOOLEAN
    BY DEF Elevated
  <2> HIDE DEF burst, due, w, c, d, ref
  <2>3. PICK drip \in BOOLEAN, velocity \in BOOLEAN, beacon \in BOOLEAN :
          eng' = [at |-> "decide", src |-> s, q |-> q, ref |-> ref,
                  flagged |-> drip \/ velocity \/ beacon]
    BY <2>1, <2>2
  <2> WITNESS <<drip, velocity, beacon>> \in BOOLEAN \X BOOLEAN \X BOOLEAN
  <2> QED BY <2>3
<1> HIDE DEF w, c, f, d, b, due, ref
<1>7. eng'.src \in Sources /\ eng'.q \in Kinds /\ eng'.flagged \in BOOLEAN
  BY <1>6, Zenon
<1>8. base'.n = b.n /\ base'.pop = b.pop
  BY <1>4, <1>5
<1>9. count' \in [packets : 0 .. MaxPackets, crashes : 0 .. MaxCrashes]
  BY Counts DEF Observe
<1>10. Sessions(sess', now) /\ Sessions(dom', now)
  BY <1>1, <1>2, <1>3, <1>5, SessionsExcept DEF WindowsInv
<1>11. \A r \in Sources : cum'[r] = Total(sess'[r])
  <2>1. sess \in [Sources -> Entries] /\ cum \in [Sources -> Nat]
    BY DEF WindowsInv, Sessions, TypeOK
  <2> QED BY <1>2, <1>5, <2>1 DEF WindowsInv, CumMatches
<1>12. cum' \in [Sources -> Nat]
  BY <1>2, <1>5 DEF WindowsInv, TypeOK
<1>13. \A r \in Sources : Len(dom'[r]) <= DomCap
  <2>1. dom \in [Sources -> Entries]
    BY DEF WindowsInv, Sessions
  <2> QED BY <1>3, <1>5, <2>1 DEF WindowsInv, TypeOK
<1>14. learnt' \in Absent .. Horizon
  BY <1>1, <1>5 DEF WindowsInv, TypeOK, Absent
<1>15. TypeOK'
  <2>1. \A r \in Sources : {sess'[r], dom'[r], answers'[r]} \subseteq Entries
    BY <1>5, <1>10 DEF WindowsInv, Sessions
  <2> QED BY <1>4, <1>5, <1>7, <1>8, <1>9, <1>12, <1>13, <1>14, <2>1 DEF WindowsInv, TypeOK
<1>16. CumMatches'
  BY <1>5, <1>11 DEF WindowsInv, CumMatches
<1> QED BY <1>5, <1>10, <1>15, <1>16 DEF WindowsInv

LEMMA ResponseWindows ==
  ASSUME WindowsInv, ReferenceInv', NEW s \in Sources, NEW t \in Captured, NEW m \in Nat,
         Response(s, t, m)
  PROVE  WindowsInv'
<1> DEFINE w == Folded(answers[s], t, m)
           c == Running(answers[s], respCum[s], t, m)
<1>1. now \in Nat /\ Sound(answers[s], now) /\ respCum[s] = Total(answers[s])
  BY DetectionAssumption DEF WindowsInv, TypeOK, CumMatches, Sessions
<1>2. Sound(w, now) /\ c = Total(w) /\ c \in Nat
  <2>1. answers[s] \in Entries /\ InArrivalOrder(answers[s], now)
    BY <1>1 DEF Sound
  <2>2. Sound(w, now) /\ c = Total(w)
    BY <1>1, <2>1, FoldedOf
  <2>3. Total(w) \in Nat
    BY <2>2, TotalOf DEF Sound
  <2> QED BY <2>2, <2>3
<1>3. /\ answers' = [answers EXCEPT ![s] = w] /\ respCum' = [respCum EXCEPT ![s] = c]
      /\ UNCHANGED <<now, up, sess, cum, dom, base, frozen, eng, saver, file, alarm, alarmed, learnt>>
  BY DEF Response, history
<1> HIDE DEF w, c
<1>4. count' \in [packets : 0 .. MaxPackets, crashes : 0 .. MaxCrashes]
  BY Counts DEF Response
<1>5. Sessions(answers', now)
  BY <1>1, <1>2, <1>3, SessionsExcept DEF WindowsInv
<1>6. \A r \in Sources : respCum'[r] = Total(answers'[r])
  <2>1. answers \in [Sources -> Entries] /\ respCum \in [Sources -> Nat]
    BY DEF WindowsInv, Sessions, TypeOK
  <2> QED BY <1>2, <1>3, <2>1 DEF WindowsInv, CumMatches
<1>7. respCum' \in [Sources -> Nat]
  BY <1>2, <1>3 DEF WindowsInv, TypeOK
<1>8. TypeOK'
  <2>1. \A r \in Sources : {sess'[r], dom'[r], answers'[r]} \subseteq Entries
    BY <1>3, <1>5 DEF WindowsInv, Sessions
  <2> QED BY <1>3, <1>4, <1>7, <2>1 DEF WindowsInv, TypeOK
<1>9. CumMatches'
  BY <1>3, <1>6 DEF WindowsInv, CumMatches
<1> QED BY <1>3, <1>5, <1>8, <1>9 DEF WindowsInv

LEMMA WindowsStep == WindowsInv /\ [Next]_vars => WindowsInv'
<1> SUFFICES ASSUME WindowsInv, [Next]_vars PROVE WindowsInv'
  OBVIOUS
<1>0. ReferenceInv'
  BY ReferenceStep DEF WindowsInv
<1>1. now \in Nat /\ Horizon \in Nat /\ Freeze \in Nat
  BY DetectionAssumption DEF WindowsInv, TypeOK
<1>2. CASE Tick
  <2>1. /\ now' = now + 1 /\ now' \in 0 .. Horizon
        /\ UNCHANGED <<up, windows, base, frozen, eng, saver, file, count, history>>
    BY <1>1, <1>2 DEF Tick
  <2>2. \A f : Sessions(f, now) => Sessions(f, now')
    BY <1>1, <2>1, SessionsLater
  <2>3. TypeOK' /\ CumMatches'
    BY <2>1 DEF WindowsInv, TypeOK, CumMatches, windows, history
  <2>4. Sessions(sess', now') /\ Sessions(dom', now') /\ Sessions(answers', now')
    BY <2>1, <2>2 DEF WindowsInv, windows
  <2> QED BY <1>0, <2>1, <2>2, <2>3, <2>4 DEF WindowsInv
<1>3. ASSUME NEW s \in Sources, NEW t \in Captured, NEW q \in Kinds, Observe(s, q, t)
      PROVE  WindowsInv'
  BY <1>0, <1>3, ObserveWindows
<1>4. ASSUME NEW s \in Sources, NEW t \in Captured, NEW q \in Kinds, Response(s, t, q.mass)
      PROVE  WindowsInv'
  <2>1. q.mass \in Nat
    BY DetectionAssumption DEF Queries
  <2> QED BY <1>0, <1>4, <2>1, ResponseWindows
<1>5. CASE Decide
  <2>1. /\ eng' = Idle /\ UNCHANGED <<now, up, windows, base, saver, file, count, learnt>>
        /\ frozen' \in {frozen, FrozenUntil} /\ {alarm', alarmed'} \subseteq {alarm, alarmed, now}
    BY <1>5 DEF Decide
  <2>2. frozen' \in Int /\ frozen' <= Horizon + Freeze
    BY <1>1, <2>1 DEF FrozenUntil, WindowsInv, TypeOK
  <2>3. {alarm', alarmed', learnt'} \subseteq Absent .. Horizon
    BY <1>1, <2>1 DEF WindowsInv, TypeOK, Absent
  <2>4. TypeOK'
    BY <2>1, <2>2, <2>3 DEF WindowsInv, TypeOK, windows
  <2> QED BY <1>0, <2>1, <2>4 DEF WindowsInv, CumMatches, windows
<1>6. CASE CopySessions
  <2>1. /\ saver' = [at |-> "copied", sess |-> sess, alarm |-> alarmed]
        /\ UNCHANGED <<now, up, windows, base, frozen, eng, file, count, history>>
    BY <1>6 DEF CopySessions
  <2>2. saver'.at = "copied" /\ saver'.sess = sess /\ saver'.alarm = alarmed
    BY <2>1
  <2>3. TypeOK'
    BY <2>1, <2>2 DEF WindowsInv, TypeOK, windows, history
  <2> QED BY <1>0, <2>1, <2>2, <2>3 DEF WindowsInv, CumMatches, TypeOK, windows
<1>7. CASE OpenFile
  <2>1. /\ saver.at = "copied" /\ file' = [kind |-> "torn"]
        /\ saver' = [at |-> "opened", sess |-> saver.sess, alarm |-> saver.alarm, n |-> base.n]
        /\ UNCHANGED <<now, up, windows, base, frozen, eng, count, history>>
    BY <1>7 DEF OpenFile
  <2>2. /\ saver'.at = "opened" /\ saver'.sess = saver.sess /\ saver'.alarm = saver.alarm
        /\ saver'.n = base.n /\ file'.kind = "torn"
    BY <2>1
  <2>3. TypeOK'
    BY <2>1, <2>2 DEF WindowsInv, TypeOK, windows, history
  <2> QED BY <1>0, <2>1, <2>2, <2>3 DEF WindowsInv, CumMatches, TypeOK, windows
<1>8. CASE Dump
  <2>1. /\ saver.at = "opened" /\ saver' = NoSave
        /\ \/ file' = [kind |-> "whole", sess |-> saver.sess, n |-> saver.n, alarm |-> saver.alarm]
           \/ file' = [kind |-> "torn"]
        /\ UNCHANGED <<now, up, windows, base, frozen, eng, count, history>>
    BY <1>8 DEF Dump
  <2>2. /\ saver'.at = "idle"
        /\ \/ /\ file'.kind = "whole" /\ file'.sess = saver.sess /\ file'.n = saver.n
              /\ file'.alarm = saver.alarm
           \/ file'.kind = "torn"
    BY <2>1 DEF NoSave
  <2>3. TypeOK'
    BY <2>1, <2>2 DEF WindowsInv, TypeOK, windows, history
  <2> QED BY <1>0, <2>1, <2>2, <2>3 DEF WindowsInv, CumMatches, windows
<1>9. CASE Crash
  <2>1. /\ up' = FALSE /\ sess' = Empty /\ cum' = Zero /\ dom' = Empty
        /\ answers' = Empty /\ respCum' = Zero /\ base' = NewBase /\ frozen' = Absent
        /\ eng' = Idle /\ saver' = NoSave /\ alarm' = Absent /\ alarmed' = Absent
        /\ UNCHANGED <<now, file, learnt>>
    BY <1>9 DEF Crash
  <2>2. Sessions(Empty, now)
    BY <1>1, EmptySessions
  <2>3. CumMatches'
    BY <2>1, TotalOf DEF CumMatches, Empty, Zero
  <2>4. count' \in [packets : 0 .. MaxPackets, crashes : 0 .. MaxCrashes]
    BY <1>9, Counts
  <2>5. /\ frozen' \in Int /\ frozen' <= Horizon + Freeze
        /\ {alarm', alarmed', learnt'} \subseteq Absent .. Horizon
    BY <1>1, <2>1 DEF WindowsInv, TypeOK, Absent
  <2>6. /\ {cum', respCum'} \subseteq [Sources -> Nat]
        /\ base'.n \in Nat /\ base'.pop \in Seq(Sources \X Nat) /\ Len(base'.pop) <= PopCap
    BY <2>1, DetectionAssumption DEF Zero, NewBase
  <2>7. \A s \in Sources : {sess'[s], dom'[s], answers'[s]} \subseteq Entries /\ Len(dom'[s]) <= DomCap
    BY <2>1, DetectionAssumption DEF Empty, Entries
  <2>8. saver'.at = "idle"
    BY <2>1 DEF NoSave
  <2>9. TypeOK'
    BY <2>1, <2>4, <2>5, <2>6, <2>7, <2>8 DEF WindowsInv, TypeOK
  <2> QED BY <1>0, <2>1, <2>2, <2>3, <2>8, <2>9 DEF WindowsInv
<1>10. CASE Start
  <2>1. /\ up' = TRUE
        /\ UNCHANGED <<now, dom, answers, respCum, frozen, eng, saver, file, count, alarm, learnt>>
        /\ \/ /\ file.kind = "whole" /\ sess' = file.sess
              /\ cum' = [s \in Sources |-> Total(file.sess[s])]
              /\ base' = [NewBase EXCEPT !.n = file.n] /\ alarmed' = file.alarm
           \/ UNCHANGED <<sess, cum, base, alarmed>>
    BY <1>10 DEF Start
  <2>2. CASE UNCHANGED <<sess, cum, base, alarmed>>
    <3>1. TypeOK' /\ CumMatches'
      BY <2>1, <2>2 DEF WindowsInv, TypeOK, CumMatches
    <3> QED BY <1>0, <2>1, <2>2, <3>1 DEF WindowsInv
  <2>3. CASE /\ file.kind = "whole" /\ sess' = file.sess
             /\ cum' = [s \in Sources |-> Total(file.sess[s])]
             /\ base' = [NewBase EXCEPT !.n = file.n] /\ alarmed' = file.alarm
    <3>1. Sessions(file.sess, now) /\ file.n \in Nat /\ file.alarm \in Absent .. Horizon
      BY <2>3 DEF WindowsInv
    <3>2. \A s \in Sources : file.sess[s] \in Entries /\ Total(file.sess[s]) \in Nat
      BY <3>1, TotalOf DEF Sessions
    <3>3. cum' \in [Sources -> Nat] /\ CumMatches'
      BY <2>1, <2>3, <3>2 DEF CumMatches, WindowsInv
    <3>4. base' = [n |-> file.n, pop |-> <<>>, cached |-> NoStats]
      BY <2>3 DEF NewBase
    <3>5. base'.n \in Nat /\ base'.pop \in Seq(Sources \X Nat) /\ Len(base'.pop) <= PopCap
      BY <3>1, <3>4, DetectionAssumption
    <3>6. TypeOK'
      BY <2>1, <2>3, <3>1, <3>2, <3>3, <3>5 DEF WindowsInv, TypeOK
    <3> QED BY <1>0, <2>1, <2>3, <3>1, <3>3, <3>6 DEF WindowsInv
  <2> QED BY <2>1, <2>2, <2>3
<1>11. CASE UNCHANGED vars
  <2>1. TypeOK' /\ CumMatches'
    BY <1>11 DEF WindowsInv, TypeOK, CumMatches, vars, windows, history
  <2> QED BY <1>0, <1>11, <2>1 DEF WindowsInv, vars, windows
<1> QED BY <1>2, <1>3, <1>4, <1>5, <1>6, <1>7, <1>8, <1>9, <1>10, <1>11 DEF Next

(* The running sum of a source is the sum of its window, a window keeps    *)
(* its cap, and nothing stays in it for longer than the queue may lag:     *)
(* whatever the order in which packets arrive, however much leaves at      *)
(* once, and after a restart from whatever the saver wrote.                *)
THEOREM WindowsAreSound == Spec => []WindowsSound
BY WindowsInit, WindowsStep, WindowsHold, PTL DEF Spec

=============================================================================
