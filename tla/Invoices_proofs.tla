--------------------------- MODULE Invoices_proofs ---------------------------
(***************************************************************************)
(* Proofs about a job's invoices, for any quote, plans and numbers of      *)
(* requests, puts and faults (Billing), and about the reminders of one     *)
(* that is overdue, for any numbers of steps, days and faults              *)
(* (InvoiceChase).                                                         *)
(***************************************************************************)
EXTENDS Billing, InvoiceChase, FiniteSetTheorems, SequenceTheorems, WellFoundedInduction, TLAPS

-----------------------------------------------------------------------------
(* What a fold over a finite set comes to: induction over its subsets.     *)

\* A set of natural numbers has a least element.
LEMMA LeastNat ==
  ASSUME NEW S, S \subseteq Nat, S # {}
  PROVE  \E n \in S : \A m \in S : n <= m
<1>1. PICK R : IsWellFoundedOn(R, Nat) /\ R = { ss \in Nat \X Nat : ss[1] < ss[2] }
  BY NatLessThanWellFounded, Zenon DEF OpToRel
<1>2. PICK n \in S : \A m \in S : ~ (<< m, n >> \in R) BY <1>1, WFMin
<1>3. \A m \in S : m < n => << m, n >> \in R BY <1>1
<1>4. n \in Nat /\ \A m \in S : m \in Nat OBVIOUS
<1>5. \A m \in S : ~ (m < n) BY <1>2, <1>3
<1> QED BY <1>4, <1>5

\* What holds of the empty set, and of a set if it does without the element picked.
LEMMA FoldInduction ==
  ASSUME NEW S, IsFiniteSet(S), NEW good, {} \in good,
         NEW pick, \A s \in SUBSET S : s # {} => pick[s] \in s /\ (s \ {pick[s]} \in good => s \in good)
  PROVE  S \in good
<1>1. SUFFICES ASSUME S \notin good PROVE FALSE OBVIOUS
<1> DEFINE sizes == { Cardinality(s) : s \in (SUBSET S) \ good }
<1>2. \A s \in SUBSET S : IsFiniteSet(s) /\ Cardinality(s) \in Nat BY FS_Subset, FS_CardinalityType
<1>3. sizes \subseteq Nat BY <1>2
<1>4. Cardinality(S) \in sizes BY <1>1
<1>5. PICK n \in sizes : \A m \in sizes : n <= m
  <2> HIDE DEF sizes
  <2> QED BY <1>3, <1>4, LeastNat
<1>6. PICK s \in (SUBSET S) \ good : n = Cardinality(s) BY <1>5
<1>7. s # {} BY <1>6
<1>8. s \ {pick[s]} \in (SUBSET S) \ good BY <1>6, <1>7
<1>9. pick[s] \in s BY <1>6, <1>7
<1>10. Cardinality(s \ {pick[s]}) = Cardinality(s) - 1 BY <1>2, <1>6, <1>9, FS_RemoveElement
<1>11. Cardinality(s \ {pick[s]}) \in sizes BY <1>8
<1> HIDE DEF sizes
<1> QED BY <1>2, <1>3, <1>5, <1>6, <1>10, <1>11

\* The subsets of S of at most n elements.
Small(S, n) == { s \in SUBSET S : Cardinality(s) <= n }
\* The equations of a fold.
Folds(g, S, base, pick, st) ==
  \A s \in S : g[s] = IF s = {} THEN base ELSE st[<< s, g[s \ {pick[s]}] >>]

\* A fold over a finite set whose steps stay in T has a solution.
LEMMA FoldExists ==
  ASSUME NEW S, IsFiniteSet(S), NEW T, NEW base \in T,
         NEW pick, \A s \in SUBSET S : s # {} => pick[s] \in s,
         NEW st \in [(SUBSET S) \X T -> T]
  PROVE  \E g \in [SUBSET S -> T] : Folds(g, SUBSET S, base, pick, st)
<1> DEFINE bad == { n \in Nat : ~ \E g \in [Small(S, n) -> T] : Folds(g, Small(S, n), base, pick, st) }
<1>1. \A s \in SUBSET S : IsFiniteSet(s) /\ Cardinality(s) \in Nat BY FS_Subset, FS_CardinalityType
<1>2. 0 \notin bad
  <2>1. \A s \in Small(S, 0) : s = {} BY <1>1, FS_EmptySet DEF Small
  <2>2. PICK g : g = [s \in Small(S, 0) |-> base] OBVIOUS
  <2> QED BY <2>1, <2>2 DEF Folds
<1>3. \A n \in Nat : n \notin bad => n + 1 \notin bad
  <2>1. SUFFICES ASSUME NEW n \in Nat, NEW g \in [Small(S, n) -> T], Folds(g, Small(S, n), base, pick, st)
                 PROVE  \E h \in [Small(S, n + 1) -> T] : Folds(h, Small(S, n + 1), base, pick, st)
    OBVIOUS
  <2>2. \A s \in Small(S, n + 1) : s # {} => s \ {pick[s]} \in Small(S, n)
    <3> SUFFICES ASSUME NEW s \in Small(S, n + 1), s # {} PROVE s \ {pick[s]} \in Small(S, n) OBVIOUS
    <3>1. pick[s] \in s /\ s \in SUBSET S BY DEF Small
    <3>2. Cardinality(s \ {pick[s]}) = Cardinality(s) - 1 BY <1>1, <3>1, FS_RemoveElement
    <3> QED BY <1>1, <3>1, <3>2 DEF Small
  <2>3. \A s \in Small(S, n) : s \in Small(S, n + 1) BY <1>1 DEF Small
  <2>4. PICK h : h = [s \in Small(S, n + 1) |-> IF s = {} THEN base ELSE st[<< s, g[s \ {pick[s]}] >>]] OBVIOUS
  <2>5. \A s \in Small(S, n) : h[s] = g[s] BY <2>1, <2>3, <2>4 DEF Folds
  <2>6. \A s \in Small(S, n + 1) : s \in SUBSET S BY DEF Small
  <2>7. h \in [Small(S, n + 1) -> T]
    <3>1. \A s \in Small(S, n + 1) : (IF s = {} THEN base ELSE st[<< s, g[s \ {pick[s]}] >>]) \in T
      BY <2>2, <2>6
    <3> QED BY <2>4, <3>1
  <2>8. Folds(h, Small(S, n + 1), base, pick, st) BY <2>2, <2>4, <2>5 DEF Folds
  <2> QED BY <2>7, <2>8
<1>4. bad = {}
  <2>1. SUFFICES ASSUME bad # {} PROVE FALSE OBVIOUS
  <2>2. bad \subseteq Nat OBVIOUS
  <2> HIDE DEF bad
  <2>3. PICK n \in bad : \A m \in bad : n <= m BY <2>1, <2>2, LeastNat
  <2>4. n \in Nat /\ n # 0 BY <1>2, <2>2, <2>3
  <2>5. n - 1 \in Nat /\ n - 1 \notin bad BY <2>2, <2>3, <2>4
  <2>6. (n - 1) + 1 \notin bad BY <1>3, <2>5
  <2> QED BY <2>3, <2>4, <2>6
<1>5. PICK m \in Nat : m = Cardinality(S) BY <1>1
<1>6. Small(S, m) = SUBSET S
  <2>1. \A s \in SUBSET S : Cardinality(s) <= m BY <1>5, FS_Subset
  <2> QED BY <2>1 DEF Small
<1>7. \E g \in [Small(S, m) -> T] : Folds(g, Small(S, m), base, pick, st) BY <1>4
<1>8. PICK g \in [Small(S, m) -> T] : Folds(g, Small(S, m), base, pick, st) BY <1>7
<1>9. g \in [SUBSET S -> T] /\ Folds(g, SUBSET S, base, pick, st) BY <1>6, <1>8
<1> QED BY <1>9

\* A sum takes the element CHOOSE picks, and goes on without it.
LEMMA SumPicks ==
  ASSUME NEW f
  PROVE  /\ SumFunctionOnSet(f, {}) = 0
         /\ \A S : IsFiniteSet(S) /\ S # {} /\ (\A x \in S : f[x] \in Nat) =>
              SumFunctionOnSet(f, S) = f[CHOOSE x \in S : TRUE] + SumFunctionOnSet(f, S \ {CHOOSE x \in S : TRUE})
<1> DEFINE ch(s) == CHOOSE x \in s : TRUE
           body(g, s) == IF s = {} THEN 0 ELSE f[ch(s)] + g[s \ {ch(s)}]
           it(S) == CHOOSE g : g = [s \in SUBSET S |-> body(g, s)]
<1>1. \A S : SumFunctionOnSet(f, S) = it(S)[S]
  BY Zenon DEF SumFunctionOnSet, FoldFunctionOnSet, MapThenFoldSet
<1>2. ASSUME NEW S, IsFiniteSet(S), \A x \in S : f[x] \in Nat
      PROVE  it(S) = [s \in SUBSET S |-> body(it(S), s)]
  <2>1. PICK pick : pick = [s \in SUBSET S |-> ch(s)] OBVIOUS
  <2>2. PICK st : st = [p \in (SUBSET S) \X Nat |-> IF p[1] = {} THEN 0 ELSE f[ch(p[1])] + p[2]] OBVIOUS
  <2>3. \A s \in SUBSET S : s # {} => ch(s) \in s /\ pick[s] = ch(s) BY <2>1
  <2>4. st \in [(SUBSET S) \X Nat -> Nat] BY <1>2, <2>2, <2>3
  <2>5. PICK g \in [SUBSET S -> Nat] : Folds(g, SUBSET S, 0, pick, st)
    <3>1. \A s \in SUBSET S : s # {} => pick[s] \in s BY <2>3
    <3>2. 0 \in Nat OBVIOUS
    <3> QED BY <1>2, <2>4, <3>1, <3>2, FoldExists, Zenon
  <2>6. \A s \in SUBSET S : g[s] = body(g, s)
    <3> SUFFICES ASSUME NEW s \in SUBSET S, s # {} PROVE g[s] = body(g, s) BY <2>5 DEF Folds
    <3>1. g[s] = st[<< s, g[s \ {ch(s)}] >>] BY <2>3, <2>5 DEF Folds
    <3>2. << s, g[s \ {ch(s)}] >> \in (SUBSET S) \X Nat BY <2>5
    <3> QED BY <2>2, <3>1, <3>2
  <2>7. g = [s \in SUBSET S |-> body(g, s)] BY <2>5, <2>6
  <2> HIDE DEF body
  <2> QED BY <2>7, Zenon
<1>3. ASSUME NEW S, IsFiniteSet(S), \A x \in S : f[x] \in Nat, NEW T, T \subseteq S
      PROVE  it(S)[T] = it(T)[T]
  <2>1. PICK gS : gS = it(S) OBVIOUS
  <2>2. PICK gT : gT = it(T) OBVIOUS
  <2>f. IsFiniteSet(T) BY <1>3, FS_Subset
  <2>3. gS = [s \in SUBSET S |-> body(gS, s)]
    <3>1. it(S) = [s \in SUBSET S |-> body(it(S), s)] BY <1>2, <1>3
    <3> HIDE DEF body, it
    <3> QED BY <2>1, <3>1
  <2>4. gT = [s \in SUBSET T |-> body(gT, s)]
    <3>1. it(T) = [s \in SUBSET T |-> body(it(T), s)] BY <1>2, <1>3, <2>f
    <3> HIDE DEF body, it
    <3> QED BY <2>2, <3>1
  <2>5. PICK good : good = { s \in SUBSET T : gS[s] = gT[s] } OBVIOUS
  <2>6. PICK pick : pick = [s \in SUBSET T |-> ch(s)] OBVIOUS
  <2>7. {} \in good
    <3>1. gS[{}] = 0 /\ gT[{}] = 0 BY <2>3, <2>4
    <3> QED BY <2>5, <3>1
  <2>8. \A s \in SUBSET T : s # {} => pick[s] \in s /\ (s \ {pick[s]} \in good => s \in good)
    <3> SUFFICES ASSUME NEW s \in SUBSET T, s # {}
                 PROVE  ch(s) \in s /\ (s \ {ch(s)} \in good => s \in good)
      BY <2>6
    <3>1. ch(s) \in s OBVIOUS
    <3>2. gS[s] = f[ch(s)] + gS[s \ {ch(s)}] BY <1>3, <2>3
    <3>3. gT[s] = f[ch(s)] + gT[s \ {ch(s)}] BY <2>4
    <3> QED BY <2>5, <3>1, <3>2, <3>3
  <2>9. T \in good BY <2>f, <2>7, <2>8, FoldInduction
  <2> HIDE DEF it
  <2> QED BY <2>1, <2>2, <2>5, <2>9
<1>4. SumFunctionOnSet(f, {}) = 0
  <2>1. IsFiniteSet({}) BY FS_EmptySet
  <2>2. it({}) = [s \in SUBSET {} |-> body(it({}), s)] BY <1>2, <2>1
  <2>3. it({})[{}] = body(it({}), {})
    <3> HIDE DEF body, it
    <3> QED BY <2>2
  <2> QED BY <1>1, <2>3
<1>5. ASSUME NEW S, IsFiniteSet(S), S # {}, \A x \in S : f[x] \in Nat
      PROVE  SumFunctionOnSet(f, S) = f[ch(S)] + SumFunctionOnSet(f, S \ {ch(S)})
  <2>1. it(S) = [s \in SUBSET S |-> body(it(S), s)] BY <1>2, <1>5
  <2>2. it(S)[S] = body(it(S), S)
    <3> HIDE DEF body, it
    <3> QED BY <2>1
  <2>3. it(S)[S] = f[ch(S)] + it(S)[S \ {ch(S)}]
    <3> HIDE DEF it
    <3> QED BY <1>5, <2>2
  <2>4. it(S)[S \ {ch(S)}] = it(S \ {ch(S)})[S \ {ch(S)}]
    <3> HIDE DEF it
    <3> QED BY <1>3, <1>5
  <2>5. SumFunctionOnSet(f, S) = it(S)[S] /\ SumFunctionOnSet(f, S \ {ch(S)}) = it(S \ {ch(S)})[S \ {ch(S)}]
    BY <1>1
  <2> HIDE DEF it
  <2> QED BY <2>3, <2>4, <2>5
<1> QED BY <1>4, <1>5

\* A sum of natural numbers is one.
LEMMA SumIsNat ==
  ASSUME NEW S, IsFiniteSet(S), NEW f, \A x \in S : f[x] \in Nat
  PROVE  SumFunctionOnSet(f, S) \in Nat
<1>1. PICK good : good = { s \in SUBSET S : SumFunctionOnSet(f, s) \in Nat } OBVIOUS
<1>2. PICK pick : pick = [s \in SUBSET S |-> CHOOSE x \in s : TRUE] OBVIOUS
<1>3. {} \in good BY <1>1, SumPicks
<1>4. \A s \in SUBSET S : s # {} => pick[s] \in s /\ (s \ {pick[s]} \in good => s \in good)
  <2> SUFFICES ASSUME NEW s \in SUBSET S, s # {}
               PROVE  pick[s] \in s /\ (s \ {pick[s]} \in good => s \in good)
    OBVIOUS
  <2>1. pick[s] = CHOOSE x \in s : TRUE BY <1>2
  <2>2. pick[s] \in s BY <2>1
  <2>3. IsFiniteSet(s) BY FS_Subset
  <2>4. SumFunctionOnSet(f, s) = f[pick[s]] + SumFunctionOnSet(f, s \ {pick[s]}) BY <2>1, <2>3, SumPicks
  <2>5. f[pick[s]] \in Nat BY <2>2
  <2> QED BY <1>1, <2>2, <2>4, <2>5
<1>5. S \in good BY <1>3, <1>4, FoldInduction
<1> QED BY <1>1, <1>5

\* It may take any other element first.
LEMMA SumTakes ==
  ASSUME NEW S, IsFiniteSet(S), NEW f, \A x \in S : f[x] \in Nat, NEW x \in S
  PROVE  SumFunctionOnSet(f, S) = f[x] + SumFunctionOnSet(f, S \ {x})
<1> DEFINE sum(s) == SumFunctionOnSet(f, s)
           takes(s) == \A y \in s : sum(s) = f[y] + sum(s \ {y})
           sizes == { Cardinality(s) : s \in { s \in SUBSET S : ~ takes(s) } }
<1>1. \A s \in SUBSET S : IsFiniteSet(s) /\ Cardinality(s) \in Nat BY FS_Subset, FS_CardinalityType
<1>2. \A s \in SUBSET S : sum(s) \in Nat BY <1>1, SumIsNat
<1>3. ASSUME NEW s \in SUBSET S, ~ takes(s), \A m \in sizes : Cardinality(s) <= m
      PROVE  FALSE
  <2>1. PICK y \in s : sum(s) # f[y] + sum(s \ {y}) BY <1>3
  <2>2. PICK p : p = CHOOSE z \in s : TRUE OBVIOUS
  <2>3. p \in s BY <2>1, <2>2
  <2>4. sum(s) = f[p] + sum(s \ {p})
    <3>1. IsFiniteSet(s) /\ s # {} /\ \A z \in s : f[z] \in Nat BY <1>1, <2>1
    <3> QED BY <2>2, <3>1, SumPicks
  <2>5. \A z \in s : takes(s \ {z})
    <3> SUFFICES ASSUME NEW z \in s, ~ takes(s \ {z}) PROVE FALSE OBVIOUS
    <3>1. s \ {z} \in SUBSET S OBVIOUS
    <3>2. Cardinality(s \ {z}) \in sizes BY <3>1
    <3>3. Cardinality(s \ {z}) = Cardinality(s) - 1 BY <1>1, FS_RemoveElement
    <3> HIDE DEF sizes
    <3> QED BY <1>1, <1>3, <3>2, <3>3
  <2>6. p # y BY <2>1, <2>4
  <2>7. sum(s \ {p}) = f[y] + sum((s \ {p}) \ {y})
    <3>1. takes(s \ {p}) BY <2>3, <2>5
    <3>2. y \in s \ {p} BY <2>1, <2>6
    <3> HIDE DEF sum
    <3> QED BY <3>1, <3>2
  <2>8. sum(s \ {y}) = f[p] + sum((s \ {y}) \ {p})
    <3>1. takes(s \ {y}) BY <2>1, <2>5
    <3>2. p \in s \ {y} BY <2>3, <2>6
    <3> HIDE DEF sum
    <3> QED BY <3>1, <3>2
  <2>9. (s \ {y}) \ {p} = (s \ {p}) \ {y} OBVIOUS
  <2>10. f[p] \in Nat /\ f[y] \in Nat /\ sum((s \ {p}) \ {y}) \in Nat
    <3>1. (s \ {p}) \ {y} \in SUBSET S OBVIOUS
    <3> HIDE DEF sum
    <3> QED BY <1>2, <2>1, <2>3, <3>1
  <2> HIDE DEF sum
  <2> QED BY <2>1, <2>4, <2>7, <2>8, <2>9, <2>10
<1>4. takes(S)
  <2> SUFFICES ASSUME ~ takes(S) PROVE FALSE OBVIOUS
  <2>1. sizes \subseteq Nat BY <1>1
  <2>2. sizes # {} OBVIOUS
  <2>3. PICK n \in sizes : \A m \in sizes : n <= m
    <3> HIDE DEF sizes
    <3> QED BY <2>1, <2>2, LeastNat
  <2>4. PICK s \in SUBSET S : ~ takes(s) /\ n = Cardinality(s) BY <2>3
  <2> HIDE DEF sizes, takes
  <2> QED BY <1>3, <2>3, <2>4
<1> QED BY <1>4

\* Elements counted under other names.
LEMMA SumRenamed ==
  ASSUME NEW D, IsFiniteSet(D), NEW f, NEW h, \A j \in D : f[h[j]] \in Nat,
         \A j, k \in D : h[j] = h[k] => j = k,
         NEW g, \A j \in D : g[j] = f[h[j]]
  PROVE  SumFunctionOnSet(f, { h[j] : j \in D }) = SumFunctionOnSet(g, D)
<1> DEFINE image(s) == { h[j] : j \in s }
<1>1. PICK good : good = { s \in SUBSET D : SumFunctionOnSet(f, image(s)) = SumFunctionOnSet(g, s) } OBVIOUS
<1>2. PICK pick : pick = [s \in SUBSET D |-> CHOOSE x \in s : TRUE] OBVIOUS
<1>3. {} \in good
  <2>1. image({}) = {} OBVIOUS
  <2> HIDE DEF image
  <2> QED BY <1>1, <2>1, SumPicks
<1>4. \A s \in SUBSET D : s # {} => pick[s] \in s /\ (s \ {pick[s]} \in good => s \in good)
  <2> SUFFICES ASSUME NEW s \in SUBSET D, s # {}
               PROVE  pick[s] \in s /\ (s \ {pick[s]} \in good => s \in good)
    OBVIOUS
  <2>1. pick[s] \in s BY <1>2
  <2>2. PICK x \in s : x = pick[s] BY <2>1
  <2>3. image(s \ {x}) = image(s) \ {h[x]} BY <2>2
  <2>4. IsFiniteSet(s) /\ IsFiniteSet(image(s))
    <3>1. IsFiniteSet(s) BY FS_Subset
    <3>2. PICK names : names = [j \in s |-> h[j]] OBVIOUS
    <3>3. names \in Surjection(s, image(s)) BY <3>2 DEF Surjection
    <3>4. IsFiniteSet(image(s))
      <4> HIDE DEF image
      <4> QED BY <3>1, <3>3, FS_Surjection
    <3> QED BY <3>1, <3>4
  <2>5. SumFunctionOnSet(g, s) = g[x] + SumFunctionOnSet(g, s \ {x}) BY <2>4, SumTakes
  <2>6. SumFunctionOnSet(f, image(s)) = f[h[x]] + SumFunctionOnSet(f, image(s) \ {h[x]})
    <3>1. h[x] \in image(s) /\ \A y \in image(s) : f[y] \in Nat OBVIOUS
    <3> HIDE DEF image
    <3> QED BY <2>4, <3>1, SumTakes
  <2>7. g[x] = f[h[x]] OBVIOUS
  <2> HIDE DEF image
  <2> QED BY <1>1, <2>1, <2>2, <2>3, <2>5, <2>6, <2>7
<1>5. D \in good BY <1>3, <1>4, FoldInduction
<1> QED BY <1>1, <1>5

\* A bounded set of natural numbers has a greatest element, which Max is.
LEMMA MaxIsIn ==
  ASSUME NEW n \in Nat, NEW S, S \subseteq 1 .. n, S # {}
  PROVE  Max(S) \in S
<1> DEFINE gaps == { n - x : x \in S }
<1>1. gaps \subseteq Nat /\ gaps # {}
  <2>1. \A x \in S : n - x \in Nat OBVIOUS
  <2>2. PICK x \in S : n - x \in gaps OBVIOUS
  <2> QED BY <2>1, <2>2
<1>2. PICK m \in gaps : \A k \in gaps : m <= k
  <2> HIDE DEF gaps
  <2> QED BY <1>1, LeastNat
<1>3. PICK x \in S : m = n - x BY <1>2
<1>4. \A y \in S : n - x <= n - y BY <1>2, <1>3
<1>5. \A y \in S : x >= y BY <1>4
<1>6. \E z \in S : \A y \in S : z >= y BY <1>5
<1> QED BY <1>6, Zenon DEF Max

\* Rounding an amount that is not negative leaves one.
LEMMA RoundingsNat == \A n \in Nat, d \in Nat \ {0} : Roundings(n, d) \subseteq Nat
<1> SUFFICES ASSUME NEW n \in Nat, NEW d \in Nat \ {0} PROVE Roundings(n, d) \subseteq Nat OBVIOUS
<1>1. n \div d \in Nat OBVIOUS
<1> QED BY <1>1 DEF Roundings

PlanRow == [kind : { "deposit", "stage", "final" }, percent : 0 .. 100, fixed : Nat]

LEMMA PercentIsNat == \A row \in PlanRow : row.percent \in Nat
<1> SUFFICES ASSUME NEW row \in PlanRow PROVE row.percent \in Nat OBVIOUS
<1>1. row.percent \in 0 .. 100 BY DEF PlanRow
<1> QED BY <1>1

\* What the rows of a plan take of the subtotal, row by row.
TakenBy(it, seq, subtotal) ==
  /\ it \in [SUBSET DOMAIN seq -> SUBSET Nat]
  /\ it[{}] = {0}
  /\ \A s \in SUBSET DOMAIN seq : s # {} =>
       \E i \in s : it[s] = Sums(it[s \ {i}], Roundings(seq[i].percent * subtotal, 100))

LEMMA ConsumedIs ==
  ASSUME NEW seq \in Seq(PlanRow), NEW subtotal \in Nat
  PROVE  \E it : Consumed(seq, subtotal) = it[DOMAIN seq] /\ TakenBy(it, seq, subtotal)
<1> DEFINE ch(s) == CHOOSE x \in s : TRUE
           add(i, sums) == Sums(sums, Roundings(seq[i].percent * subtotal, 100))
           body(g, s) == IF s = {} THEN {0} ELSE add(ch(s), g[s \ {ch(s)}])
           D == DOMAIN seq
<1>1. PICK it : it = CHOOSE g : g = [s \in SUBSET D |-> body(g, s)] OBVIOUS
<1>2. Consumed(seq, subtotal) = it[D]
  BY <1>1, Zenon DEF Consumed, FoldSeq, FoldFunction, FoldFunctionOnSet, MapThenFoldSet
<1>3. PICK pick : pick = [s \in SUBSET D |-> ch(s)] OBVIOUS
<1>4. PICK st : st = [p \in (SUBSET D) \X (SUBSET Nat) |-> IF p[1] = {} THEN {0} ELSE add(ch(p[1]), p[2])] OBVIOUS
<1>5. \A s \in SUBSET D : s # {} => ch(s) \in s /\ pick[s] = ch(s) BY <1>3
<1>d. IsFiniteSet(D) BY FS_Interval
<1>a. \A i \in D, sums \in SUBSET Nat : add(i, sums) \in SUBSET Nat
  <2> SUFFICES ASSUME NEW i \in D, NEW sums \in SUBSET Nat PROVE add(i, sums) \subseteq Nat OBVIOUS
  <2>0. seq[i] \in PlanRow BY LenProperties
  <2>p. seq[i].percent \in Nat BY <2>0, PercentIsNat
  <2>1. seq[i].percent * subtotal \in Nat BY <2>p
  <2>2. Roundings(seq[i].percent * subtotal, 100) \subseteq Nat BY <2>1, RoundingsNat
  <2>3. \A s, t \in Nat : s + t \in Nat OBVIOUS
  <2> QED BY <2>2, <2>3 DEF Sums
<1> HIDE DEF add
<1>6. st \in [(SUBSET D) \X (SUBSET Nat) -> SUBSET Nat]
  <2>1. \A p \in (SUBSET D) \X (SUBSET Nat) : (IF p[1] = {} THEN {0} ELSE add(ch(p[1]), p[2])) \in SUBSET Nat
    BY <1>5, <1>a
  <2> QED BY <1>4, <2>1
<1>7. PICK g \in [SUBSET D -> SUBSET Nat] : Folds(g, SUBSET D, {0}, pick, st)
  <2>1. \A s \in SUBSET D : s # {} => pick[s] \in s BY <1>5
  <2>2. {0} \in SUBSET Nat OBVIOUS
  <2> HIDE DEF D
  <2> QED BY <1>d, <1>6, <2>1, <2>2, FoldExists, Zenon
<1>8. \A s \in SUBSET D : s # {} => s \ {ch(s)} \in SUBSET D OBVIOUS
<1>9. \A s \in SUBSET D : g[s] = body(g, s)
  <2> SUFFICES ASSUME NEW s \in SUBSET D, s # {} PROVE g[s] = body(g, s) BY <1>7 DEF Folds
  <2>1. g[s] = st[<< s, g[s \ {ch(s)}] >>] BY <1>5, <1>7 DEF Folds
  <2>2. << s, g[s \ {ch(s)}] >> \in (SUBSET D) \X (SUBSET Nat) BY <1>7, <1>8
  <2> QED BY <1>4, <2>1, <2>2
<1>10. g = [s \in SUBSET D |-> body(g, s)] BY <1>9
<1>11. it = [s \in SUBSET D |-> body(it, s)]
  <2> HIDE DEF body
  <2> QED BY <1>1, <1>10, Zenon
<1>12. PICK good : good = { s \in SUBSET D : it[s] \in SUBSET Nat } OBVIOUS
<1>13. {} \in good BY <1>11, <1>12
<1>14. \A s \in SUBSET D : s # {} => pick[s] \in s /\ (s \ {pick[s]} \in good => s \in good)
  <2> SUFFICES ASSUME NEW s \in SUBSET D, s # {}, s \ {ch(s)} \in good PROVE s \in good BY <1>5
  <2>1. it[s] = add(ch(s), it[s \ {ch(s)}]) BY <1>11
  <2>2. ch(s) \in D /\ it[s \ {ch(s)}] \in SUBSET Nat BY <1>5, <1>12
  <2> QED BY <1>12, <1>a, <2>1, <2>2
<1>15. \A T \in SUBSET D : T \in good
  <2> SUFFICES ASSUME NEW T \in SUBSET D PROVE T \in good OBVIOUS
  <2>1. IsFiniteSet(T) BY <1>d, FS_Subset
  <2>2. \A s \in SUBSET T : s # {} => pick[s] \in s /\ (s \ {pick[s]} \in good => s \in good) BY <1>14
  <2> HIDE DEF D
  <2> QED BY <1>13, <2>1, <2>2, FoldInduction
<1>16. it \in [SUBSET D -> SUBSET Nat]
  <2>1. \A s \in SUBSET D : it[s] \in SUBSET Nat BY <1>12, <1>15
  <2> HIDE DEF body, D
  <2> QED BY <1>11, <2>1
<1>17. it[{}] = {0} BY <1>11
<1>18. ASSUME NEW s \in SUBSET D, s # {}
       PROVE  \E i \in s : it[s] = Sums(it[s \ {i}], Roundings(seq[i].percent * subtotal, 100))
  <2>1. it[s] = add(ch(s), it[s \ {ch(s)}]) BY <1>11, <1>18
  <2>2. ch(s) \in s BY <1>5, <1>18
  <2> QED BY <2>1, <2>2 DEF add
<1>19. TakenBy(it, seq, subtotal) BY <1>16, <1>17, <1>18 DEF TakenBy
<1> QED BY <1>2, <1>19

LEMMA ConsumedType ==
  ASSUME NEW seq \in Seq(PlanRow), NEW subtotal \in Nat
  PROVE  Consumed(seq, subtotal) \subseteq Nat
<1>1. PICK it : Consumed(seq, subtotal) = it[DOMAIN seq] /\ TakenBy(it, seq, subtotal) BY ConsumedIs
<1>2. it \in [SUBSET DOMAIN seq -> SUBSET Nat] BY <1>1 DEF TakenBy
<1> QED BY <1>1, <1>2

\* The rows given by a percentage are a sequence of rows, each of which asks for something.
AskedRow == { row \in PlanRow : row.percent > 0 }

LEMMA PercentRowsAsk ==
  ASSUME NEW plan \in Plans
  PROVE  PercentRows(plan) \in Seq(AskedRow)
<1> DEFINE seq == Asking(plan)
           D == DOMAIN seq
           keep(i, kept) == IF seq[i].percent > 0 THEN Append(kept, seq[i]) ELSE kept
           body(g, s) == IF s = {} THEN << >> ELSE keep(Max(s), g[s \ {Max(s)}])
           T == Seq(AskedRow)
<1>a. plan.deposit \in 0 .. 100 /\ plan.stages \in Seq(0 .. 100) BY BillingAssumption
<1>b. seq \in Seq(PlanRow)
  <2>1. [i \in DOMAIN plan.stages |-> [kind |-> "stage", percent |-> plan.stages[i], fixed |-> 0]] \in Seq(PlanRow)
    <3>1. /\ Len(plan.stages) \in Nat /\ DOMAIN plan.stages = 1 .. Len(plan.stages)
          /\ \A i \in DOMAIN plan.stages : plan.stages[i] \in 0 .. 100
      BY <1>a, LenProperties
    <3>2. \A i \in DOMAIN plan.stages : [kind |-> "stage", percent |-> plan.stages[i], fixed |-> 0] \in PlanRow
      BY <3>1 DEF PlanRow
    <3> QED BY <3>1, <3>2, SeqDef
  <2>2. << [kind |-> "deposit", percent |-> plan.deposit, fixed |-> 0] >> \in Seq(PlanRow) BY <1>a DEF PlanRow
  <2> QED BY <2>1, <2>2 DEF Asking
<1>1. PICK it : it = CHOOSE g : g = [s \in SUBSET D |-> body(g, s)] OBVIOUS
<1>2. PercentRows(plan) = it[D] BY <1>1, Zenon DEF PercentRows, FoldLeft, MapThenFoldSet
<1> HIDE DEF seq
<1>3. PICK pick : pick = [s \in SUBSET D |-> Max(s)] OBVIOUS
<1>4. PICK st : st = [p \in (SUBSET D) \X T |-> IF p[1] = {} THEN << >> ELSE keep(Max(p[1]), p[2])] OBVIOUS
<1>5. \A s \in SUBSET D : s # {} => Max(s) \in s /\ pick[s] = Max(s)
  <2>1. D = 1 .. Len(seq) /\ Len(seq) \in Nat BY <1>b
  <2>2. \A s \in SUBSET D : s # {} => Max(s) \in s BY <2>1, MaxIsIn
  <2> QED BY <1>3, <2>2
<1>d. IsFiniteSet(D) BY <1>b, FS_Interval
<1>c. \A i \in D, kept \in T : keep(i, kept) \in T
  <2>1. \A i \in D : seq[i].percent > 0 => seq[i] \in AskedRow BY <1>b DEF AskedRow
  <2> QED BY <2>1
<1>e. << >> \in T OBVIOUS
<1> HIDE DEF keep, T
<1>6. st \in [(SUBSET D) \X T -> T]
  <2>1. \A p \in (SUBSET D) \X T : (IF p[1] = {} THEN << >> ELSE keep(Max(p[1]), p[2])) \in T
    BY <1>5, <1>c, <1>e
  <2> QED BY <1>4, <2>1
<1>7. PICK g \in [SUBSET D -> T] : Folds(g, SUBSET D, << >>, pick, st)
  <2>1. \A s \in SUBSET D : s # {} => pick[s] \in s BY <1>5
  <2> HIDE DEF D
  <2> QED BY <1>d, <1>e, <1>6, <2>1, FoldExists, Zenon
<1>8. \A s \in SUBSET D : s # {} => s \ {Max(s)} \in SUBSET D OBVIOUS
<1>9. \A s \in SUBSET D : g[s] = body(g, s)
  <2> SUFFICES ASSUME NEW s \in SUBSET D, s # {} PROVE g[s] = body(g, s) BY <1>7 DEF Folds
  <2>1. g[s] = st[<< s, g[s \ {Max(s)}] >>] BY <1>5, <1>7 DEF Folds
  <2>2. << s, g[s \ {Max(s)}] >> \in (SUBSET D) \X T BY <1>7, <1>8
  <2> QED BY <1>4, <2>1, <2>2
<1>10. g = [s \in SUBSET D |-> body(g, s)] BY <1>9
<1>11. it = [s \in SUBSET D |-> body(it, s)]
  <2> HIDE DEF body
  <2> QED BY <1>1, <1>10, Zenon
<1>12. PICK good : good = { s \in SUBSET D : it[s] \in T } OBVIOUS
<1>13. {} \in good BY <1>e, <1>11, <1>12
<1>14. \A s \in SUBSET D : s # {} => pick[s] \in s /\ (s \ {pick[s]} \in good => s \in good)
  <2> SUFFICES ASSUME NEW s \in SUBSET D, s # {}, s \ {Max(s)} \in good PROVE s \in good BY <1>5
  <2>1. it[s] = keep(Max(s), it[s \ {Max(s)}]) BY <1>11
  <2>2. Max(s) \in D /\ it[s \ {Max(s)}] \in T BY <1>5, <1>12
  <2> QED BY <1>12, <1>c, <2>1, <2>2
<1>15. D \in good
  <2> HIDE DEF D
  <2> QED BY <1>d, <1>13, <1>14, FoldInduction
<1> QED BY <1>2, <1>12, <1>15 DEF T

LEMMA PercentRowsType ==
  ASSUME NEW plan \in Plans
  PROVE  PercentRows(plan) \in Seq(PlanRow)
<1>1. PercentRows(plan) \in Seq(AskedRow) BY PercentRowsAsk
<1>2. AskedRow \subseteq PlanRow BY DEF AskedRow
<1> QED BY <1>1, <1>2

LEMMA ScheduleRowsType ==
  ASSUME NEW plan \in Plans, NEW subtotal \in Nat, NEW drafts \in ScheduleRows(plan, subtotal)
  PROVE  drafts \in Seq(PlanRow)
<1>1. PercentRows(plan) \in Seq(PlanRow) BY PercentRowsType
<1>2. PICK c \in Consumed(PercentRows(plan), subtotal) : drafts = PercentRows(plan) \o FinalRow(subtotal, c)
  BY DEF ScheduleRows
<1>3. c \in Nat BY <1>1, ConsumedType
<1>4. FinalRow(subtotal, c) \in Seq(PlanRow)
  <2>1. PICK fixed \in Nat : FinalRow(subtotal, c) \in { << >>, << [kind |-> "final", percent |-> 0, fixed |-> fixed] >> }
    <3>1. (IF c > subtotal THEN 0 ELSE subtotal - c) \in Nat BY <1>3
    <3> QED BY <3>1, Zenon DEF FinalRow
  <2>2. [kind |-> "final", percent |-> 0, fixed |-> fixed] \in PlanRow BY DEF PlanRow
  <2>3. \A r \in PlanRow : << r >> \in Seq(PlanRow) OBVIOUS
  <2>4. << >> \in Seq(PlanRow) OBVIOUS
  <2> QED BY <2>1, <2>2, <2>3, <2>4, Zenon
<1> QED BY <1>1, <1>2, <1>4

LEMMA WithVatType == \A p, v \in Nat : WithVat(p, v) \subseteq Nat
<1> SUFFICES ASSUME NEW p \in Nat, NEW v \in Nat PROVE WithVat(p, v) \subseteq Nat OBVIOUS
<1>1. p * (100 + v) \in Nat OBVIOUS
<1> QED BY <1>1, RoundingsNat DEF WithVat

LEMMA InvoiceTotalsType ==
  ASSUME NEW percent \in Nat, NEW fixed \in Nat, NEW subtotal \in Nat, NEW vat \in Nat,
         NEW row, row.percent = percent, row.fixed = fixed, NEW q, q.subtotal = subtotal, q.vat = vat
  PROVE  InvoiceTotals(row, q) \subseteq Nat
<1>1. subtotal * percent \in Nat /\ 100 + vat \in Nat OBVIOUS
<1>2. (subtotal * percent) * (100 + vat) \in Nat BY <1>1
<1>3. subtotal * percent * (100 + vat) \in Nat BY <1>2
<1> QED BY <1>3, RoundingsNat, WithVatType DEF InvoiceTotals

-----------------------------------------------------------------------------
(* Billing.                                                                *)

ScheduleRow == [kind : { "deposit", "stage", "final" }, percent : 0 .. 100, fixed : Nat, first : Nat, last : Nat,
                status : { "planned", "invoiced", "paid", "deleted" }, invoice : Nat]
InvoiceRow == [kind : Kinds, schedule : Nat, total : Nat, status : { "unpaid", "paid" }]
PCs == { "idle", "planDelete", "planInsert", "genInsert", "genLink", "reopen", "rewrite", "complete",
         "autoInvoices", "autoQuote", "autoInsert", "accept", "paySchedules" }
RequestRow == [pc : PCs, at : Nat, total : Nat, seen : Nat]

TypeOK ==
  /\ quote \in [subtotal : Nat, vat : 0 .. 100, total : Nat, accepted : BOOLEAN]
  /\ job \in { "open", "completed" }
  /\ schedules \in Seq(ScheduleRow) /\ invoices \in Seq(InvoiceRow)
  /\ req \in [Request -> RequestRow]
  /\ puts \in Nat /\ autos \in Nat /\ faults \in Nat

\* Rows, invoices and requests name rows and invoices there are.
RefersAt(r) ==
  /\ At(r, "genInsert") \/ At(r, "genLink") => req[r].at \in DOMAIN schedules
  /\ At(r, "genLink") => req[r].total \in DOMAIN invoices
  /\ At(r, "paySchedules") => req[r].at \in DOMAIN invoices
Refers ==
  /\ \A i \in DOMAIN invoices : invoices[i].schedule <= Len(schedules)
  /\ \A s \in DOMAIN schedules : schedules[s].invoice <= Len(invoices)
  /\ \A r \in Request : RefersAt(r)

TypeInv == TypeOK /\ Refers

\* A row without an invoice is a planned or a deleted one; an invoice named by a row,
\* or about to be, was made for it; a request settles rows of an invoice that is paid.
TruthAt(s) ==
  /\ schedules[s].invoice = 0 <=> schedules[s].status \in { "planned", "deleted" }
  /\ schedules[s].invoice # 0 => invoices[schedules[s].invoice].schedule = s
  /\ schedules[s].status = "paid" => invoices[schedules[s].invoice].status = "paid"
TruthOf(r) ==
  /\ At(r, "genLink") /\ req[r].at \in Live => invoices[req[r].total].schedule = req[r].at
  /\ At(r, "paySchedules") => invoices[req[r].at].status = "paid"
Truth == (\A s \in DOMAIN schedules : TruthAt(s)) /\ (\A r \in Request : TruthOf(r))

\* The invoices made for a row, and the requests that will make or link one.
Made(s) == { i \in DOMAIN invoices : invoices[i].schedule = s }
Inserting(s) == { r \in Request : At(r, "genInsert") /\ req[r].at = s }
Linking(s) == { r \in Request : At(r, "genLink") /\ req[r].at = s }

\* While a row is free each of its invoices is about to be linked or was broken off;
\* once it is taken nobody new begins.
MadeAt(s) ==
  IF schedules[s].invoice = 0
  THEN Cardinality(Made(s)) <= Cardinality(Linking(s)) + faults
  ELSE Cardinality(Made(s)) + Cardinality(Inserting(s)) <= Cardinality(Request) + faults
MadeInv == \A s \in Live : MadeAt(s)

\* Requests on their way to a completed job's invoice found none; the first ends it.
Autoing == { r \in Request : At(r, "autoQuote") \/ At(r, "autoInsert") }
AutosInv == autos + Cardinality(Autoing) <= Cardinality(Request) /\ (autos > 0 => FinalExists)

\* What they hold is what was missing when they read, which is what is missing still
\* if nothing has been inserted since.
BalanceAt(r) ==
  r \in Autoing =>
    /\ req[r].seen <= Len(invoices)
    /\ Len(invoices) = req[r].seen => Billed(DOMAIN invoices) + req[r].total = quote.total
Balance == \A r \in Request : BalanceAt(r)

\* The rows of a plan are those of a draft, in a block: where they are not deleted they
\* ask for what the draft does.
BlockAt(s) ==
  \E plan \in Plans : \E drafts \in ScheduleRows(plan, quote.subtotal) :
    /\ schedules[s].last = s + Len(drafts) - 1 /\ schedules[s].last <= Len(schedules)
    /\ \A j \in DOMAIN drafts : s + j - 1 \in Live =>
         schedules[s + j - 1].percent = drafts[j].percent /\ schedules[s + j - 1].fixed = drafts[j].fixed
Blocks == \A s \in DOMAIN schedules : schedules[s].first = s => BlockAt(s)

\* An invoice for a row that is not deleted is of its amount; the quote is as it was drafted.
PricedAt(i) ==
  invoices[i].schedule \in Live => invoices[i].total \in InvoiceTotals(schedules[invoices[i].schedule], quote)
Priced == \A i \in DOMAIN invoices : PricedAt(i)
Quoted ==
  /\ \E q \in Quotes : quote.vat = q.vat
  /\ quote.total \in WithVat(quote.subtotal, quote.vat)

\* A row that stays asks for the same; one that goes is a tombstone.
RowKept(s) ==
  \/ /\ schedules'[s].percent = schedules[s].percent /\ schedules'[s].fixed = schedules[s].fixed
     /\ schedules'[s].first = schedules[s].first /\ schedules'[s].last = schedules[s].last
     /\ s \in Live' => s \in Live
  \/ schedules'[s] = Deleted

-----------------------------------------------------------------------------
\* Sequences: a row added, rows replaced, rows joined on.
LEMMA Appended ==
  ASSUME NEW T, NEW s \in Seq(T), NEW e \in T, NEW t, t = Append(s, e)
  PROVE  /\ t \in Seq(T) /\ Len(t) = Len(s) + 1 /\ Len(s) \in Nat
         /\ DOMAIN s = 1 .. Len(s) /\ DOMAIN t = 1 .. Len(s) + 1
         /\ t[Len(s) + 1] = e /\ \A i \in DOMAIN s : t[i] = s[i]
OBVIOUS

LEMMA Replaced ==
  ASSUME NEW T, NEW s \in Seq(T), NEW t, t = [i \in DOMAIN s |-> t[i]], \A i \in DOMAIN s : t[i] \in T
  PROVE  t \in Seq(T) /\ Len(t) = Len(s) /\ DOMAIN t = DOMAIN s /\ DOMAIN s = 1 .. Len(s) /\ Len(s) \in Nat
<1>1. DOMAIN s = 1 .. Len(s) /\ Len(s) \in Nat BY LenProperties
<1>2. t \in [1 .. Len(s) -> T] BY <1>1
<1>3. t \in Seq(T) BY <1>1, <1>2, SeqDef
<1>4. Len(t) = Len(s) BY <1>1, <1>2, <1>3, LenProperties
<1> QED BY <1>1, <1>3, <1>4, LenProperties

LEMMA Rows ==
  ASSUME TypeOK
  PROVE  /\ DOMAIN schedules = 1 .. Len(schedules) /\ Len(schedules) \in Nat
         /\ DOMAIN invoices = 1 .. Len(invoices) /\ Len(invoices) \in Nat
         /\ \A s \in DOMAIN schedules : schedules[s] \in ScheduleRow
         /\ \A i \in DOMAIN invoices : invoices[i] \in InvoiceRow
         /\ Live \subseteq DOMAIN schedules
BY LenProperties, ElementOfSeq DEF TypeOK, Live

\* A request that is replaced by one of its type, that goes on, or that stops.
LEMMA Moves ==
  ASSUME TypeOK, NEW r \in Request, NEW q \in RequestRow, req' = [req EXCEPT ![r] = q]
  PROVE  req' \in [Request -> RequestRow] /\ req'[r] = q /\ \A p \in Request \ {r} : req'[p] = req[p]
BY DEF TypeOK

LEMMA Goes ==
  ASSUME TypeOK, NEW r \in Request, NEW pc \in PCs, Goto(r, pc)
  PROVE  /\ req' \in [Request -> RequestRow] /\ \A p \in Request \ {r} : req'[p] = req[p]
         /\ req'[r].pc = pc /\ req'[r].at = req[r].at /\ req'[r].total = req[r].total /\ req'[r].seen = req[r].seen
<1>1. req[r] \in RequestRow BY DEF TypeOK
<1>2. PICK q : q = [req[r] EXCEPT !.pc = pc] OBVIOUS
<1>3. q \in RequestRow /\ q.pc = pc /\ q.at = req[r].at /\ q.total = req[r].total /\ q.seen = req[r].seen
  BY <1>1, <1>2 DEF RequestRow
<1>4. req' = [req EXCEPT ![r] = q] BY <1>2 DEF Goto
<1> QED BY <1>3, <1>4, Moves

LEMMA Stops ==
  ASSUME TypeOK, NEW r \in Request, Stop(r)
  PROVE  /\ req' \in [Request -> RequestRow] /\ \A p \in Request \ {r} : req'[p] = req[p]
         /\ req'[r].pc = "idle"
<1>1. Idle \in RequestRow /\ Idle.pc = "idle" BY DEF Idle, RequestRow, PCs
<1> QED BY <1>1, Moves DEF Stop

\* One that reads: the await it goes to, and the row or invoice it has read.
LEMMA Reads ==
  ASSUME TypeOK, NEW r \in Request, NEW pc \in PCs, NEW n \in Nat,
         req' = [req EXCEPT ![r].pc = pc, ![r].at = n]
  PROVE  /\ req' \in [Request -> RequestRow] /\ \A p \in Request \ {r} : req'[p] = req[p]
         /\ req'[r].pc = pc /\ req'[r].at = n
<1>1. req[r] \in RequestRow BY DEF TypeOK
<1>2. PICK q : q = [req[r] EXCEPT !.pc = pc, !.at = n] OBVIOUS
<1>3. q \in RequestRow /\ q.pc = pc /\ q.at = n BY <1>1, <1>2 DEF RequestRow
<1>4. req' = [req EXCEPT ![r] = q] BY <1>2 DEF TypeOK
<1> QED BY <1>3, <1>4, Moves

\* Fresh rows: each is planned, without an invoice.
LEMMA FreshType ==
  ASSUME NEW drafts \in Seq(PlanRow), NEW n \in Nat
  PROVE  /\ Fresh(drafts, n) \in Seq(ScheduleRow)
         /\ \A k \in DOMAIN Fresh(drafts, n) : Fresh(drafts, n)[k].status = "planned" /\ Fresh(drafts, n)[k].invoice = 0
<1>1. DOMAIN drafts = 1 .. Len(drafts) /\ Len(drafts) \in Nat /\ \A k \in DOMAIN drafts : drafts[k] \in PlanRow
  BY LenProperties, ElementOfSeq
<1>2. PICK f : f = Fresh(drafts, n) OBVIOUS
<1>3. DOMAIN f = DOMAIN drafts /\ f = [k \in DOMAIN drafts |-> f[k]] BY <1>2 DEF Fresh
<1>4. ASSUME NEW k \in DOMAIN drafts
      PROVE  f[k] \in ScheduleRow /\ f[k].status = "planned" /\ f[k].invoice = 0
  <2>1. f[k] = [kind |-> drafts[k].kind, percent |-> drafts[k].percent, fixed |-> drafts[k].fixed,
                first |-> n + 1, last |-> n + Len(drafts), status |-> "planned", invoice |-> 0]
    BY <1>2 DEF Fresh
  <2>2. drafts[k] \in PlanRow /\ n + 1 \in Nat /\ n + Len(drafts) \in Nat BY <1>1
  <2> QED BY <2>1, <2>2 DEF PlanRow, ScheduleRow
<1>5. f \in [1 .. Len(drafts) -> ScheduleRow] BY <1>1, <1>3, <1>4
<1>6. f \in Seq(ScheduleRow) BY <1>1, <1>5, SeqDef
<1> QED BY <1>2, <1>3, <1>4, <1>6

\* The plan's rows join those there are.
LEMMA PlanRowsJoin ==
  ASSUME TypeOK, NEW plan \in Plans, NEW drafts \in ScheduleRows(plan, quote.subtotal),
         schedules' = schedules \o Fresh(drafts, Len(schedules))
  PROVE  /\ schedules' \in Seq(ScheduleRow) /\ Len(schedules') >= Len(schedules)
         /\ \A s \in DOMAIN schedules : s \in DOMAIN schedules' /\ schedules'[s] = schedules[s]
         /\ \A s \in DOMAIN schedules' \ DOMAIN schedules :
              s > Len(schedules) /\ schedules'[s].status = "planned" /\ schedules'[s].invoice = 0
<1>1. quote.subtotal \in Nat /\ Len(schedules) \in Nat BY LenProperties DEF TypeOK
<1>2. drafts \in Seq(PlanRow) BY <1>1, ScheduleRowsType
<1>3. PICK f : f = Fresh(drafts, Len(schedules)) OBVIOUS
<1>4. f \in Seq(ScheduleRow) /\ \A k \in DOMAIN f : f[k].status = "planned" /\ f[k].invoice = 0
  BY <1>1, <1>2, <1>3, FreshType
<1>5. schedules \in Seq(ScheduleRow) BY DEF TypeOK
<1>6. PICK t : t = schedules \o f OBVIOUS
<1>7. /\ t \in Seq(ScheduleRow) /\ Len(t) = Len(schedules) + Len(f)
      /\ \A i \in 1 .. Len(schedules) + Len(f) : t[i] = IF i <= Len(schedules) THEN schedules[i] ELSE f[i - Len(schedules)]
  BY <1>4, <1>5, <1>6, ConcatProperties
<1>8. Len(f) \in Nat /\ DOMAIN f = 1 .. Len(f) /\ DOMAIN schedules = 1 .. Len(schedules) /\ DOMAIN t = 1 .. Len(schedules) + Len(f)
  BY <1>4, <1>5, <1>7, LenProperties
<1>9. \A s \in DOMAIN schedules : s \in DOMAIN t /\ t[s] = schedules[s] BY <1>1, <1>7, <1>8
<1>10. ASSUME NEW s \in DOMAIN t, s \notin DOMAIN schedules
       PROVE  s > Len(schedules) /\ t[s].status = "planned" /\ t[s].invoice = 0
  <2>1. s > Len(schedules) /\ s - Len(schedules) \in DOMAIN f BY <1>1, <1>8, <1>10
  <2>2. t[s] = f[s - Len(schedules)] BY <1>1, <1>7, <1>8, <2>1
  <2> QED BY <1>4, <2>1, <2>2
<1>11. schedules' = t BY <1>3, <1>6
<1> QED BY <1>1, <1>7, <1>8, <1>9, <1>10, <1>11

\* An invoice with the schedule and the total it is given joins those there are.
LEMMA InvoiceJoins ==
  ASSUME TypeOK, NEW kind \in Kinds, NEW s \in Nat, NEW total \in Nat, Insert(Invoice(kind, s, total))
  PROVE  /\ invoices' \in Seq(InvoiceRow) /\ Len(invoices') = Len(invoices) + 1
         /\ DOMAIN invoices' = 1 .. Len(invoices) + 1
         /\ \A i \in DOMAIN invoices : i \in DOMAIN invoices' /\ invoices'[i] = invoices[i]
         /\ invoices'[Len(invoices) + 1] = Invoice(kind, s, total)
         /\ Invoice(kind, s, total).kind = kind /\ Invoice(kind, s, total).schedule = s
         /\ Invoice(kind, s, total).total = total
<1>1. Invoice(kind, s, total) \in InvoiceRow BY DEF Invoice, InvoiceRow
<1>2. invoices \in Seq(InvoiceRow) /\ invoices' = Append(invoices, Invoice(kind, s, total)) BY DEF TypeOK, Insert
<1>3. /\ invoices' \in Seq(InvoiceRow) /\ Len(invoices') = Len(invoices) + 1 /\ Len(invoices) \in Nat
      /\ DOMAIN invoices = 1 .. Len(invoices) /\ DOMAIN invoices' = 1 .. Len(invoices) + 1
      /\ invoices'[Len(invoices) + 1] = Invoice(kind, s, total) /\ \A i \in DOMAIN invoices : invoices'[i] = invoices[i]
  BY <1>1, <1>2, Appended
<1>4. \A i \in DOMAIN invoices : i \in DOMAIN invoices' BY <1>3
<1> QED BY <1>3, <1>4 DEF Invoice

-----------------------------------------------------------------------------
\* Deleted rows and paid ones: what the plan's deletion and the payments leave.
LEMMA RowsDeleted ==
  ASSUME TypeOK, NEW r \in Request, PlanDelete(r)
  PROVE  /\ schedules' \in Seq(ScheduleRow) /\ Len(schedules') = Len(schedules) /\ DOMAIN schedules' = DOMAIN schedules
         /\ invoices' \in Seq(InvoiceRow) /\ Len(invoices') = Len(invoices) /\ DOMAIN invoices' = DOMAIN invoices
         /\ \A s \in DOMAIN schedules : schedules'[s] = IF s \in Planned THEN Deleted ELSE schedules[s]
         /\ \A i \in DOMAIN invoices :
              /\ invoices'[i].schedule = IF invoices[i].schedule \in Planned THEN 0 ELSE invoices[i].schedule
              /\ invoices'[i].kind = invoices[i].kind /\ invoices'[i].total = invoices[i].total
              /\ invoices'[i].status = invoices[i].status
<1> USE Rows
<1>1. Deleted \in ScheduleRow BY DEF Deleted, ScheduleRow
<1>2. schedules' = [s \in DOMAIN schedules |-> IF s \in Planned THEN Deleted ELSE schedules[s]] BY DEF PlanDelete
<1>3. \A s \in DOMAIN schedules : schedules'[s] \in ScheduleRow BY <1>1, <1>2
<1>a. schedules \in Seq(ScheduleRow) /\ schedules' = [s \in DOMAIN schedules |-> schedules'[s]] BY <1>2 DEF TypeOK
<1>4. schedules' \in Seq(ScheduleRow) /\ Len(schedules') = Len(schedules) /\ DOMAIN schedules' = DOMAIN schedules
  BY <1>3, <1>a, Replaced
<1>5. invoices' = [i \in DOMAIN invoices |->
         IF invoices[i].schedule \in Planned THEN [invoices[i] EXCEPT !.schedule = 0] ELSE invoices[i]]
  BY DEF PlanDelete
<1>6. ASSUME NEW i \in DOMAIN invoices
      PROVE  /\ invoices'[i] \in InvoiceRow
             /\ invoices'[i].schedule = IF invoices[i].schedule \in Planned THEN 0 ELSE invoices[i].schedule
             /\ invoices'[i].kind = invoices[i].kind /\ invoices'[i].total = invoices[i].total
             /\ invoices'[i].status = invoices[i].status
  <2>1. invoices[i] \in InvoiceRow OBVIOUS
  <2>2. invoices'[i] = IF invoices[i].schedule \in Planned THEN [invoices[i] EXCEPT !.schedule = 0] ELSE invoices[i] BY <1>5
  <2> QED BY <2>1, <2>2 DEF InvoiceRow
<1>7. invoices' \in Seq(InvoiceRow) /\ Len(invoices') = Len(invoices) /\ DOMAIN invoices' = DOMAIN invoices
  BY <1>5, <1>6, Replaced DEF TypeOK
<1> QED BY <1>2, <1>4, <1>6, <1>7

LEMMA RowsPaid ==
  ASSUME TypeOK, NEW r \in Request, PaySchedules(r)
  PROVE  /\ schedules' \in Seq(ScheduleRow) /\ Len(schedules') = Len(schedules) /\ DOMAIN schedules' = DOMAIN schedules
         /\ \A s \in DOMAIN schedules :
              /\ schedules'[s].invoice = schedules[s].invoice
              /\ schedules'[s].status = IF schedules[s].invoice = req[r].at THEN "paid" ELSE schedules[s].status
<1> USE Rows
<1>1. schedules' = [s \in DOMAIN schedules |->
         IF schedules[s].invoice = req[r].at THEN [schedules[s] EXCEPT !.status = "paid"] ELSE schedules[s]]
  BY DEF PaySchedules
<1>2. ASSUME NEW s \in DOMAIN schedules
      PROVE  /\ schedules'[s] \in ScheduleRow /\ schedules'[s].invoice = schedules[s].invoice
             /\ schedules'[s].status = IF schedules[s].invoice = req[r].at THEN "paid" ELSE schedules[s].status
  <2>1. schedules[s] \in ScheduleRow OBVIOUS
  <2>2. schedules'[s] = IF schedules[s].invoice = req[r].at THEN [schedules[s] EXCEPT !.status = "paid"] ELSE schedules[s]
    BY <1>1
  <2>3. PICK paid : paid = [schedules[s] EXCEPT !.status = "paid"] OBVIOUS
  <2>4. paid \in ScheduleRow /\ paid.invoice = schedules[s].invoice /\ paid.status = "paid"
    BY <2>1, <2>3 DEF ScheduleRow
  <2>5. CASE schedules[s].invoice = req[r].at BY <2>2, <2>3, <2>4, <2>5
  <2>6. CASE schedules[s].invoice # req[r].at BY <2>1, <2>2, <2>6
  <2> QED BY <2>5, <2>6
<1>a. schedules \in Seq(ScheduleRow) /\ schedules' = [s \in DOMAIN schedules |-> schedules'[s]] BY <1>1 DEF TypeOK
<1>3. schedules' \in Seq(ScheduleRow) /\ Len(schedules') = Len(schedules) /\ DOMAIN schedules' = DOMAIN schedules
  BY <1>2, <1>a, Replaced
<1> QED BY <1>2, <1>3

\* An invoice that is paid.
LEMMA InvoicePaid ==
  ASSUME TypeOK, NEW i \in DOMAIN invoices, invoices' = [invoices EXCEPT ![i].status = "paid"]
  PROVE  /\ invoices' \in Seq(InvoiceRow) /\ Len(invoices') = Len(invoices) /\ DOMAIN invoices' = DOMAIN invoices
         /\ invoices'[i].status = "paid"
         /\ \A j \in DOMAIN invoices :
              /\ invoices'[j].schedule = invoices[j].schedule /\ invoices'[j].kind = invoices[j].kind
              /\ invoices'[j].total = invoices[j].total
              /\ invoices[j].status = "paid" => invoices'[j].status = "paid"
<1> USE Rows
<1>1. invoices[i] \in InvoiceRow OBVIOUS
<1>2. PICK e : e = [invoices[i] EXCEPT !.status = "paid"] OBVIOUS
<1>3. /\ e \in InvoiceRow /\ e.status = "paid" /\ e.schedule = invoices[i].schedule
      /\ e.kind = invoices[i].kind /\ e.total = invoices[i].total
  BY <1>1, <1>2 DEF InvoiceRow
<1>4. invoices' = [invoices EXCEPT ![i] = e] BY <1>2
<1>a. invoices \in Seq(InvoiceRow) /\ i \in 1 .. Len(invoices) BY DEF TypeOK
<1>5. /\ invoices' \in Seq(InvoiceRow) /\ Len(invoices') = Len(invoices)
      /\ \A j \in 1 .. Len(invoices) : invoices'[j] = IF j = i THEN e ELSE invoices[j]
  BY <1>3, <1>4, <1>a, ExceptSeq
<1> QED BY <1>3, <1>4, <1>5

\* A row that is linked to an invoice.
LEMMA RowLinked ==
  ASSUME TypeOK, NEW s \in DOMAIN schedules, NEW i \in Nat,
         schedules' = [schedules EXCEPT ![s].invoice = i, ![s].status = "invoiced"]
  PROVE  /\ schedules' \in Seq(ScheduleRow) /\ Len(schedules') = Len(schedules) /\ DOMAIN schedules' = DOMAIN schedules
         /\ schedules'[s].invoice = i /\ schedules'[s].status = "invoiced"
         /\ \A k \in DOMAIN schedules \ {s} : schedules'[k] = schedules[k]
<1> USE Rows
<1>1. schedules[s] \in ScheduleRow OBVIOUS
<1>2. PICK e : e = [schedules[s] EXCEPT !.invoice = i, !.status = "invoiced"] OBVIOUS
<1>3. e \in ScheduleRow /\ e.invoice = i /\ e.status = "invoiced" BY <1>1, <1>2 DEF ScheduleRow
<1>4. schedules' = [schedules EXCEPT ![s] = e] BY <1>2
<1>a. schedules \in Seq(ScheduleRow) /\ s \in 1 .. Len(schedules) BY DEF TypeOK
<1>5. /\ [schedules EXCEPT ![s] = e] \in Seq(ScheduleRow) /\ Len([schedules EXCEPT ![s] = e]) = Len(schedules)
      /\ \A k \in 1 .. Len(schedules) : [schedules EXCEPT ![s] = e][k] = IF k = s THEN e ELSE schedules[k]
  BY <1>3, <1>a, ExceptSeq, Zenon
<1>6. /\ schedules' \in Seq(ScheduleRow) /\ Len(schedules') = Len(schedules)
      /\ \A k \in 1 .. Len(schedules) : schedules'[k] = IF k = s THEN e ELSE schedules[k]
  BY <1>4, <1>5, Zenon
<1> QED BY <1>3, <1>6

\* The total of an invoice for a row is an amount.
LEMMA TotalType ==
  ASSUME TypeOK, NEW s \in DOMAIN schedules, NEW t \in InvoiceTotals(schedules[s], quote)
  PROVE  t \in Nat
<1>1. schedules[s] \in ScheduleRow BY Rows
<1>2. schedules[s].percent \in Nat /\ schedules[s].fixed \in Nat
  <2>1. schedules[s].percent \in 0 .. 100 /\ schedules[s].fixed \in Nat BY <1>1 DEF ScheduleRow
  <2> QED BY <2>1
<1>3. quote.subtotal \in Nat /\ quote.vat \in Nat
  <2>1. quote.subtotal \in Nat /\ quote.vat \in 0 .. 100 BY DEF TypeOK
  <2> QED BY <2>1
<1> QED BY <1>2, <1>3, InvoiceTotalsType

\* What is billed is an amount, and the same as long as the totals are.
LEMMA BilledType ==
  ASSUME TypeOK, NEW I, I \subseteq DOMAIN invoices
  PROVE  Billed(I) \in Nat
<1>1. IsFiniteSet(DOMAIN invoices) BY Rows, FS_Interval
<1>2. IsFiniteSet(I) BY <1>1, FS_Subset
<1>3. PICK f : f = [i \in DOMAIN invoices |-> invoices[i].total] OBVIOUS
<1>4. \A i \in I : f[i] \in Nat
  <2>1. \A i \in DOMAIN invoices : invoices[i].total \in Nat BY Rows DEF InvoiceRow
  <2> QED BY <1>3, <2>1
<1> QED BY <1>2, <1>3, <1>4, SumIsNat DEF Billed

LEMMA BilledSame ==
  ASSUME DOMAIN invoices' = DOMAIN invoices, \A i \in DOMAIN invoices : invoices'[i].total = invoices[i].total
  PROVE  Billed(DOMAIN invoices)' = Billed(DOMAIN invoices)
<1>1. [i \in DOMAIN invoices' |-> invoices'[i].total] = [i \in DOMAIN invoices |-> invoices[i].total] OBVIOUS
<1> QED BY <1>1, Zenon DEF Billed

-----------------------------------------------------------------------------
(* The type invariant.                                                     *)

LEMMA TypeInit == Init => TypeInv
<1> SUFFICES ASSUME Init PROVE TypeInv OBVIOUS
<1>1. quote \in [subtotal : Nat, vat : 0 .. 100, total : Nat, accepted : BOOLEAN]
  <2>a. PICK q \in Quotes : \E t \in WithVat(q.subtotal, q.vat) :
          quote = [subtotal |-> q.subtotal, vat |-> q.vat, total |-> t, accepted |-> FALSE]
    BY DEF Init
  <2>1. PICK t \in WithVat(q.subtotal, q.vat) :
          quote = [subtotal |-> q.subtotal, vat |-> q.vat, total |-> t, accepted |-> FALSE]
    BY <2>a
  <2>2. q \in [subtotal : Nat \ {0}, vat : 0 .. 100] BY BillingAssumption
  <2>3. q.subtotal \in Nat /\ q.vat \in 0 .. 100 BY <2>2
  <2>4. q.vat \in Nat BY <2>3
  <2>5. t \in Nat BY <2>1, <2>3, <2>4, WithVatType
  <2> QED BY <2>1, <2>3, <2>5
<1>a. PICK plan \in Plans : \E drafts \in ScheduleRows(plan, quote.subtotal) : schedules = Fresh(drafts, 0) BY DEF Init
<1>2. PICK drafts \in ScheduleRows(plan, quote.subtotal) : schedules = Fresh(drafts, 0) BY <1>a
<1>3. drafts \in Seq(PlanRow) BY <1>1, <1>2, ScheduleRowsType
<1>4. schedules \in Seq(ScheduleRow) /\ \A s \in DOMAIN schedules : schedules[s].invoice = 0 BY <1>2, <1>3, FreshType
<1>5. Idle \in RequestRow BY DEF Idle, RequestRow, PCs
<1>6. invoices = << >> /\ req = [r \in Request |-> Idle] /\ job = "open" /\ puts = 0 /\ autos = 0 /\ faults = 0 BY DEF Init
<1>7. invoices \in Seq(InvoiceRow) /\ Len(invoices) = 0 /\ DOMAIN invoices = {} BY <1>6
<1>8. TypeOK BY <1>1, <1>4, <1>5, <1>6, <1>7 DEF TypeOK
<1>9. \A r \in Request : RefersAt(r) BY <1>6 DEF RefersAt, At, Idle
<1> QED BY <1>4, <1>7, <1>8, <1>9 DEF TypeInv, Refers

\* The rows of the others' requests are still there.
LEMMA OthersRefer ==
  ASSUME TypeInv, NEW r \in Request, \A p \in Request \ {r} : req'[p] = req[p],
         DOMAIN schedules \subseteq DOMAIN schedules', DOMAIN invoices \subseteq DOMAIN invoices', RefersAt(r)'
  PROVE  \A p \in Request : RefersAt(p)'
<1> SUFFICES ASSUME NEW p \in Request, p # r PROVE RefersAt(p)' OBVIOUS
<1>1. RefersAt(p) BY DEF TypeInv, Refers
<1>2. req'[p] = req[p] OBVIOUS
<1> QED BY <1>1, <1>2 DEF RefersAt, At

\* A step that touches neither rows nor invoices.
LEMMA RequestMoved ==
  ASSUME TypeInv, NEW r \in Request, UNCHANGED << schedules, invoices >>,
         \A p \in Request \ {r} : req'[p] = req[p], RefersAt(r)'
  PROVE  Refers'
<1>1. \A p \in Request : RefersAt(p)' BY OthersRefer
<1>2. /\ \A i \in DOMAIN invoices : invoices[i].schedule <= Len(schedules)
      /\ \A s \in DOMAIN schedules : schedules[s].invoice <= Len(invoices)
  BY DEF TypeInv, Refers
<1> QED BY <1>1, <1>2 DEF Refers

\* One that only stops, or goes on to an await that names nothing.
LEMMA RequestStopped ==
  ASSUME TypeInv, NEW r \in Request, UNCHANGED << schedules, invoices >>,
         \A p \in Request \ {r} : req'[p] = req[p],
         req'[r].pc \notin { "genInsert", "genLink", "paySchedules" }
  PROVE  Refers'
<1>1. RefersAt(r)' BY DEF RefersAt, At
<1> QED BY <1>1, RequestMoved

\* One that adds an invoice for a row there is, or for none.
LEMMA InvoiceRefers ==
  ASSUME TypeInv, NEW r \in Request, NEW kind \in Kinds, NEW s \in Nat, s <= Len(schedules), NEW total \in Nat,
         Insert(Invoice(kind, s, total)), UNCHANGED schedules,
         \A p \in Request \ {r} : req'[p] = req[p], RefersAt(r)'
  PROVE  Refers'
<1> USE DEF TypeInv
<1>1. /\ Len(invoices') = Len(invoices) + 1 /\ DOMAIN invoices' = 1 .. Len(invoices) + 1
      /\ \A i \in DOMAIN invoices : i \in DOMAIN invoices' /\ invoices'[i] = invoices[i]
      /\ invoices'[Len(invoices) + 1] = Invoice(kind, s, total) /\ Invoice(kind, s, total).schedule = s
  BY InvoiceJoins
<1>2. DOMAIN invoices = 1 .. Len(invoices) /\ Len(invoices) \in Nat
      /\ \A k \in DOMAIN schedules : schedules[k] \in ScheduleRow
  BY Rows
<1>3. \A p \in Request : RefersAt(p)' BY <1>1, OthersRefer
<1>4. \A i \in DOMAIN invoices' : invoices'[i].schedule <= Len(schedules')
  <2> SUFFICES ASSUME NEW i \in DOMAIN invoices' PROVE invoices'[i].schedule <= Len(schedules) OBVIOUS
  <2>1. CASE i \in DOMAIN invoices BY <1>1, <2>1 DEF Refers
  <2>2. CASE i \notin DOMAIN invoices
    <3>1. i = Len(invoices) + 1 BY <1>1, <1>2, <2>2
    <3> QED BY <1>1, <3>1
  <2> QED BY <2>1, <2>2
<1>5. \A k \in DOMAIN schedules' : schedules'[k].invoice <= Len(invoices')
  <2> SUFFICES ASSUME NEW k \in DOMAIN schedules PROVE schedules[k].invoice <= Len(invoices) + 1 BY <1>1
  <2>1. schedules[k].invoice <= Len(invoices) BY DEF Refers
  <2>2. schedules[k].invoice \in Nat BY <1>2 DEF ScheduleRow
  <2> QED BY <1>2, <2>1, <2>2
<1> QED BY <1>3, <1>4, <1>5 DEF Refers

LEMMA TypeStep == TypeInv /\ [Next]_vars => TypeInv'
<1> SUFFICES ASSUME TypeInv, [Next]_vars PROVE TypeInv' OBVIOUS
<1>t. TypeOK /\ Refers BY DEF TypeInv
<1>r. /\ DOMAIN schedules = 1 .. Len(schedules) /\ Len(schedules) \in Nat
      /\ DOMAIN invoices = 1 .. Len(invoices) /\ Len(invoices) \in Nat /\ Live \subseteq DOMAIN schedules
      /\ \A s \in DOMAIN schedules : schedules[s] \in ScheduleRow
      /\ \A i \in DOMAIN invoices : invoices[i] \in InvoiceRow
  BY <1>t, Rows
<1>q. quote.subtotal \in Nat /\ quote.total \in Nat BY <1>t DEF TypeOK
<1>p. \A r \in Request : req[r] \in RequestRow BY <1>t DEF TypeOK
<1>n. \A r \in Request : req[r].at \in Nat /\ req[r].total \in Nat /\ req[r].seen \in Nat BY <1>p DEF RequestRow
<1>1. CASE Accept
  <2>1. TypeOK' BY <1>t, <1>1 DEF Accept, TypeOK, history
  <2>2. Refers' BY <1>t, <1>1 DEF Accept, Refers, RefersAt, At, history
  <2> QED BY <2>1, <2>2 DEF TypeInv
<1>2. ASSUME NEW r \in Request, PutPlan(r) PROVE TypeInv'
  <2>1. Goto(r, "planDelete") /\ UNCHANGED << schedules, invoices >> BY <1>2 DEF PutPlan
  <2>2. "planDelete" \in PCs BY DEF PCs
  <2>3. req' \in [Request -> RequestRow] /\ (\A p \in Request \ {r} : req'[p] = req[p]) /\ req'[r].pc = "planDelete"
    BY <1>t, <2>1, <2>2, Goes
  <2>4. Refers' BY <2>1, <2>3, RequestStopped
  <2>5. TypeOK' BY <1>t, <1>2, <2>3 DEF PutPlan, TypeOK
  <2> QED BY <2>4, <2>5 DEF TypeInv
<1>3. ASSUME NEW r \in Request, PlanDelete(r) PROVE TypeInv'
  <2>1. Goto(r, "planInsert") BY <1>3 DEF PlanDelete
  <2>2. "planInsert" \in PCs BY DEF PCs
  <2>3. req' \in [Request -> RequestRow] /\ (\A p \in Request \ {r} : req'[p] = req[p]) /\ req'[r].pc = "planInsert"
    BY <1>t, <2>1, <2>2, Goes
  <2>4. /\ schedules' \in Seq(ScheduleRow) /\ Len(schedules') = Len(schedules) /\ DOMAIN schedules' = DOMAIN schedules
        /\ invoices' \in Seq(InvoiceRow) /\ Len(invoices') = Len(invoices) /\ DOMAIN invoices' = DOMAIN invoices
        /\ \A s \in DOMAIN schedules : schedules'[s] = IF s \in Planned THEN Deleted ELSE schedules[s]
        /\ \A i \in DOMAIN invoices :
             invoices'[i].schedule = IF invoices[i].schedule \in Planned THEN 0 ELSE invoices[i].schedule
    BY <1>t, <1>3, RowsDeleted
  <2>5. RefersAt(r)' BY <2>3 DEF RefersAt, At
  <2>6. \A p \in Request : RefersAt(p)' BY <2>3, <2>4, <2>5, OthersRefer
  <2>7. \A i \in DOMAIN invoices' : invoices'[i].schedule <= Len(schedules') BY <1>t, <1>r, <2>4 DEF Refers
  <2>8. \A s \in DOMAIN schedules' : schedules'[s].invoice <= Len(invoices') BY <1>t, <1>r, <2>4 DEF Refers, Deleted
  <2>9. TypeOK' BY <1>t, <1>3, <2>3, <2>4 DEF PlanDelete, TypeOK, history
  <2> QED BY <2>6, <2>7, <2>8, <2>9 DEF TypeInv, Refers
<1>4. ASSUME NEW r \in Request, PlanInsert(r) PROVE TypeInv'
  <2>1. Stop(r) BY <1>4 DEF PlanInsert
  <2>2. req' \in [Request -> RequestRow] /\ (\A p \in Request \ {r} : req'[p] = req[p]) /\ req'[r].pc = "idle"
    BY <1>t, <2>1, Stops
  <2>a. PICK plan \in Plans :
          \E drafts \in ScheduleRows(plan, quote.subtotal) : schedules' = schedules \o Fresh(drafts, Len(schedules))
    BY <1>4 DEF PlanInsert
  <2>3. PICK drafts \in ScheduleRows(plan, quote.subtotal) : schedules' = schedules \o Fresh(drafts, Len(schedules))
    BY <2>a
  <2>4. /\ schedules' \in Seq(ScheduleRow) /\ Len(schedules') >= Len(schedules)
        /\ \A s \in DOMAIN schedules : s \in DOMAIN schedules' /\ schedules'[s] = schedules[s]
        /\ \A s \in DOMAIN schedules' \ DOMAIN schedules : schedules'[s].invoice = 0
    BY <1>t, <2>3, PlanRowsJoin
  <2>5. UNCHANGED << quote, job, invoices, history, faults >> BY <1>4 DEF PlanInsert
  <2>6. RefersAt(r)' BY <2>2 DEF RefersAt, At
  <2>7. \A p \in Request : RefersAt(p)' BY <2>2, <2>4, <2>5, <2>6, OthersRefer
  <2>8. \A i \in DOMAIN invoices' : invoices'[i].schedule <= Len(schedules')
    <3>1. Len(schedules') \in Nat BY <2>4
    <3>2. \A i \in DOMAIN invoices : invoices[i].schedule \in Nat BY <1>r DEF InvoiceRow
    <3> QED BY <1>t, <1>r, <2>4, <2>5, <3>1, <3>2 DEF Refers
  <2>9. \A s \in DOMAIN schedules' : schedules'[s].invoice <= Len(invoices') BY <1>t, <1>r, <2>4, <2>5 DEF Refers
  <2>10. TypeOK' BY <1>t, <2>2, <2>4, <2>5 DEF TypeOK, history
  <2> QED BY <2>7, <2>8, <2>9, <2>10 DEF TypeInv, Refers
<1>5. ASSUME NEW r \in Request, Select(r) PROVE TypeInv'
  <2>1. PICK s \in Live : req' = [req EXCEPT ![r].pc = "genInsert", ![r].at = s] BY <1>5 DEF Select
  <2>2. "genInsert" \in PCs /\ s \in Nat /\ s \in DOMAIN schedules BY <1>r, <2>1 DEF PCs
  <2>3. req' \in [Request -> RequestRow] /\ (\A p \in Request \ {r} : req'[p] = req[p])
        /\ req'[r].pc = "genInsert" /\ req'[r].at = s
    BY <1>t, <2>1, <2>2, Reads
  <2>4. UNCHANGED << quote, job, schedules, invoices, history, faults >> BY <1>5 DEF Select
  <2>5. RefersAt(r)' BY <2>2, <2>3, <2>4 DEF RefersAt, At
  <2>6. Refers' BY <2>3, <2>4, <2>5, RequestMoved
  <2>7. TypeOK' BY <1>t, <2>3, <2>4 DEF TypeOK, history
  <2> QED BY <2>6, <2>7 DEF TypeInv
<1>6. ASSUME NEW r \in Request, GenInsert(r) PROVE TypeInv'
  <2>0. UNCHANGED << quote, job, schedules, history, faults >> /\ At(r, "genInsert") BY <1>6 DEF GenInsert
  <2>1. CASE req[r].at \in Live
    <3>1. PICK s : s = req[r].at OBVIOUS
    <3>2. PICK t \in InvoiceTotals(schedules[s], quote) : Insert(Invoice(schedules[s].kind, s, t)) BY <1>6, <2>1, <3>1 DEF GenInsert
    <3>3. s \in DOMAIN schedules /\ s \in Nat /\ s <= Len(schedules) BY <1>r, <2>1, <3>1
    <3>4. t \in Nat BY <1>t, <3>2, <3>3, TotalType
    <3>5. schedules[s].kind \in Kinds BY <1>r, <3>3 DEF ScheduleRow, Kinds, Progress
    <3>6. /\ invoices' \in Seq(InvoiceRow) /\ Len(invoices') = Len(invoices) + 1
          /\ DOMAIN invoices' = 1 .. Len(invoices) + 1
      BY <1>t, <3>2, <3>3, <3>4, <3>5, InvoiceJoins
    <3>7. req' = [req EXCEPT ![r].pc = "genLink", ![r].total = Len(invoices) + 1] BY <1>6, <2>1 DEF GenInsert
    <3>8. PICK q : q = [req[r] EXCEPT !.pc = "genLink", !.total = Len(invoices) + 1] OBVIOUS
    <3>a. PICK n \in Nat : n = Len(invoices) + 1 BY <1>r
    <3>b. req[r] \in RequestRow BY <1>p
    <3>c. q = [req[r] EXCEPT !.pc = "genLink", !.total = n] BY <3>8, <3>a
    <3>d. q \in RequestRow /\ q.pc = "genLink" /\ q.at = req[r].at /\ q.total = n
      BY <3>b, <3>c DEF RequestRow, PCs
    <3>9. q \in RequestRow /\ q.pc = "genLink" /\ q.at = s /\ q.total = Len(invoices) + 1
      BY <3>1, <3>a, <3>d
    <3>10. req' = [req EXCEPT ![r] = q] BY <1>t, <3>7, <3>8 DEF TypeOK
    <3>11. req' \in [Request -> RequestRow] /\ req'[r] = q /\ \A p \in Request \ {r} : req'[p] = req[p]
      BY <1>t, <3>9, <3>10, Moves
    <3>12. RefersAt(r)'
      <4>1. Len(invoices) + 1 \in DOMAIN invoices' BY <1>r, <3>6
      <4> QED BY <2>0, <3>3, <3>9, <3>11, <4>1 DEF RefersAt, At
    <3>13. Refers' BY <2>0, <3>2, <3>3, <3>4, <3>5, <3>11, <3>12, InvoiceRefers
    <3>14. TypeOK' BY <1>t, <2>0, <3>6, <3>11 DEF TypeOK, history
    <3> QED BY <3>13, <3>14 DEF TypeInv
  <2>2. CASE req[r].at \notin Live
    <3>1. Stop(r) /\ UNCHANGED invoices BY <1>6, <2>2 DEF GenInsert
    <3>2. req' \in [Request -> RequestRow] /\ (\A p \in Request \ {r} : req'[p] = req[p]) /\ req'[r].pc = "idle"
      BY <1>t, <3>1, Stops
    <3>3. Refers' BY <2>0, <3>1, <3>2, RequestStopped
    <3>4. TypeOK' BY <1>t, <2>0, <3>1, <3>2 DEF TypeOK, history
    <3> QED BY <3>3, <3>4 DEF TypeInv
  <2> QED BY <2>1, <2>2
<1>7. ASSUME NEW r \in Request, GenLink(r) PROVE TypeInv'
  <2>0. UNCHANGED << quote, job, invoices, history, faults >> /\ Stop(r) /\ At(r, "genLink") BY <1>7 DEF GenLink
  <2>1. req' \in [Request -> RequestRow] /\ (\A p \in Request \ {r} : req'[p] = req[p]) /\ req'[r].pc = "idle"
    BY <1>t, <2>0, Stops
  <2>2. CASE req[r].at \in Live
    <3>1. PICK s : s = req[r].at OBVIOUS
    <3>2. PICK i : i = req[r].total OBVIOUS
    <3>3. s \in DOMAIN schedules /\ i \in Nat /\ i \in DOMAIN invoices BY <1>t, <1>r, <1>n, <2>0, <2>2, <3>1, <3>2 DEF Refers, RefersAt
    <3>4. schedules' = [schedules EXCEPT ![s].invoice = i, ![s].status = "invoiced"] BY <1>7, <2>2, <3>1, <3>2 DEF GenLink
    <3>5. /\ schedules' \in Seq(ScheduleRow) /\ Len(schedules') = Len(schedules) /\ DOMAIN schedules' = DOMAIN schedules
          /\ schedules'[s].invoice = i /\ schedules'[s].status = "invoiced"
          /\ \A k \in DOMAIN schedules \ {s} : schedules'[k] = schedules[k]
      BY <1>t, <3>3, <3>4, RowLinked
    <3>6. RefersAt(r)' BY <2>1 DEF RefersAt, At
    <3>7. \A p \in Request : RefersAt(p)' BY <2>0, <2>1, <3>5, <3>6, OthersRefer
    <3>8. \A k \in DOMAIN schedules' : schedules'[k].invoice <= Len(invoices') BY <1>t, <1>r, <2>0, <3>3, <3>5 DEF Refers
    <3>9. \A k \in DOMAIN invoices' : invoices'[k].schedule <= Len(schedules') BY <1>t, <2>0, <3>5 DEF Refers
    <3>10. TypeOK' BY <1>t, <2>0, <2>1, <3>5 DEF TypeOK, history
    <3> QED BY <3>7, <3>8, <3>9, <3>10 DEF TypeInv, Refers
  <2>3. CASE req[r].at \notin Live
    <3>1. UNCHANGED schedules BY <1>7, <2>3 DEF GenLink
    <3>2. Refers' BY <2>0, <2>1, <3>1, RequestStopped
    <3>3. TypeOK' BY <1>t, <2>0, <2>1, <3>1 DEF TypeOK, history
    <3> QED BY <3>2, <3>3 DEF TypeInv
  <2> QED BY <2>2, <2>3
<1>8. ASSUME NEW r \in Request, PatchJob(r) PROVE TypeInv'
  <2>0. UNCHANGED << quote, job, schedules, invoices, history, faults >> BY <1>8 DEF PatchJob
  <2>1. PICK pc \in { "reopen", "rewrite", "complete" } : Goto(r, pc) BY <1>8, Zenon DEF PatchJob
  <2>2. pc \in PCs BY DEF PCs
  <2>3. req' \in [Request -> RequestRow] /\ (\A p \in Request \ {r} : req'[p] = req[p]) /\ req'[r].pc = pc
    BY <1>t, <2>1, <2>2, Goes
  <2>4. Refers' BY <2>0, <2>3, RequestStopped
  <2>5. TypeOK' BY <1>t, <2>0, <2>3 DEF TypeOK, history
  <2> QED BY <2>4, <2>5 DEF TypeInv
<1>9. ASSUME NEW r \in Request, Reopen(r) \/ Rewrite(r) PROVE TypeInv'
  <2>0. UNCHANGED << quote, schedules, invoices, history, faults >> /\ Stop(r) /\ job' \in { "open", "completed" }
    BY <1>9 DEF Reopen, Rewrite
  <2>1. req' \in [Request -> RequestRow] /\ (\A p \in Request \ {r} : req'[p] = req[p]) /\ req'[r].pc = "idle"
    BY <1>t, <2>0, Stops
  <2>2. Refers' BY <2>0, <2>1, RequestStopped
  <2>3. TypeOK' BY <1>t, <2>0, <2>1 DEF TypeOK, history
  <2> QED BY <2>2, <2>3 DEF TypeInv
<1>10. ASSUME NEW r \in Request, Complete(r) PROVE TypeInv'
  <2>0. UNCHANGED << quote, schedules, invoices, history, faults >> /\ job' = "completed" /\ Goto(r, "autoInvoices")
    BY <1>10 DEF Complete
  <2>1. "autoInvoices" \in PCs BY DEF PCs
  <2>2. req' \in [Request -> RequestRow] /\ (\A p \in Request \ {r} : req'[p] = req[p]) /\ req'[r].pc = "autoInvoices"
    BY <1>t, <2>0, <2>1, Goes
  <2>3. Refers' BY <2>0, <2>2, RequestStopped
  <2>4. TypeOK' BY <1>t, <2>0, <2>2 DEF TypeOK, history
  <2> QED BY <2>3, <2>4 DEF TypeInv
<1>11. ASSUME NEW r \in Request, AutoInvoices(r) PROVE TypeInv'
  <2>0. UNCHANGED << quote, job, schedules, invoices, history, faults >> BY <1>11 DEF AutoInvoices
  <2>1. PICK balance : balance = FinalBalance(quote.total, Billed(PaidProgress)) OBVIOUS
  <2>2. balance \in Nat
    <3>1. PaidProgress \subseteq DOMAIN invoices BY DEF PaidProgress
    <3>2. PICK b : b = Billed(PaidProgress) OBVIOUS
    <3>3. b \in Nat BY <1>t, <3>1, <3>2, BilledType
    <3> QED BY <1>q, <2>1, <3>2, <3>3 DEF FinalBalance
  <2>3. PICK q : q = [pc |-> "autoQuote", at |-> 0, total |-> balance, seen |-> Len(invoices)] OBVIOUS
  <2>4. q \in RequestRow /\ q.pc = "autoQuote" BY <1>r, <2>2, <2>3 DEF RequestRow, PCs
  <2>5. Stop(r) \/ req' = [req EXCEPT ![r] = q] BY <1>11, <2>1, <2>3, Zenon DEF AutoInvoices
  <2>6. /\ req' \in [Request -> RequestRow] /\ \A p \in Request \ {r} : req'[p] = req[p]
        /\ req'[r].pc \in { "idle", "autoQuote" }
    <3>1. CASE Stop(r) BY <1>t, <3>1, Stops
    <3>2. CASE req' = [req EXCEPT ![r] = q] BY <1>t, <2>4, <3>2, Moves
    <3> QED BY <2>5, <3>1, <3>2
  <2>7. Refers' BY <2>0, <2>6, RequestStopped
  <2>8. TypeOK' BY <1>t, <2>0, <2>6 DEF TypeOK, history
  <2> QED BY <2>7, <2>8 DEF TypeInv
<1>12. ASSUME NEW r \in Request, AutoQuote(r) PROVE TypeInv'
  <2>0. UNCHANGED << quote, job, schedules, invoices, history, faults >> BY <1>12 DEF AutoQuote
  <2>1. Goto(r, "autoInsert") \/ Stop(r) BY <1>12 DEF AutoQuote
  <2>2. "autoInsert" \in PCs BY DEF PCs
  <2>3. /\ req' \in [Request -> RequestRow] /\ \A p \in Request \ {r} : req'[p] = req[p]
        /\ req'[r].pc \in { "idle", "autoInsert" }
    <3>1. CASE Stop(r) BY <1>t, <3>1, Stops
    <3>2. CASE Goto(r, "autoInsert") BY <1>t, <2>2, <3>2, Goes
    <3> QED BY <2>1, <3>1, <3>2
  <2>4. Refers' BY <2>0, <2>3, RequestStopped
  <2>5. TypeOK' BY <1>t, <2>0, <2>3 DEF TypeOK, history
  <2> QED BY <2>4, <2>5 DEF TypeInv
<1>13. ASSUME NEW r \in Request, AutoInsert(r) PROVE TypeInv'
  <2>0. UNCHANGED << quote, job, schedules, puts, faults >> /\ Stop(r) /\ autos' = autos + 1
        /\ Insert(Invoice("final", 0, req[r].total))
    BY <1>13 DEF AutoInsert
  <2>1. req' \in [Request -> RequestRow] /\ (\A p \in Request \ {r} : req'[p] = req[p]) /\ req'[r].pc = "idle"
    BY <1>t, <2>0, Stops
  <2>2. "final" \in Kinds /\ 0 \in Nat /\ 0 <= Len(schedules) BY <1>r DEF Kinds
  <2>3. invoices' \in Seq(InvoiceRow) BY <1>t, <1>n, <2>0, <2>2, InvoiceJoins
  <2>4. RefersAt(r)' BY <2>1 DEF RefersAt, At
  <2>5. Refers' BY <1>n, <2>0, <2>1, <2>2, <2>4, InvoiceRefers
  <2>6. TypeOK' BY <1>t, <2>0, <2>1, <2>3 DEF TypeOK
  <2> QED BY <2>5, <2>6 DEF TypeInv
<1>14. ASSUME NEW r \in Request, Convert(r) PROVE TypeInv'
  <2>0. UNCHANGED << quote, job, schedules, history, faults >> /\ Goto(r, "accept")
        /\ Insert(Invoice("standard", 0, quote.total))
    BY <1>14 DEF Convert
  <2>a. "accept" \in PCs BY DEF PCs
  <2>1. req' \in [Request -> RequestRow] /\ (\A p \in Request \ {r} : req'[p] = req[p]) /\ req'[r].pc = "accept"
    BY <1>t, <2>0, <2>a, Goes
  <2>2. "standard" \in Kinds /\ 0 \in Nat /\ 0 <= Len(schedules) BY <1>r DEF Kinds
  <2>3. invoices' \in Seq(InvoiceRow) BY <1>t, <1>q, <2>0, <2>2, InvoiceJoins
  <2>4. RefersAt(r)' BY <2>1 DEF RefersAt, At
  <2>5. Refers' BY <1>q, <2>0, <2>1, <2>2, <2>4, InvoiceRefers
  <2>6. TypeOK' BY <1>t, <2>0, <2>1, <2>3 DEF TypeOK, history
  <2> QED BY <2>5, <2>6 DEF TypeInv
<1>15. ASSUME NEW r \in Request, ConvertAccept(r) PROVE TypeInv'
  <2>0. UNCHANGED << job, schedules, invoices, history, faults >> /\ Stop(r) /\ quote' = [quote EXCEPT !.accepted = TRUE]
    BY <1>15 DEF ConvertAccept
  <2>1. req' \in [Request -> RequestRow] /\ (\A p \in Request \ {r} : req'[p] = req[p]) /\ req'[r].pc = "idle"
    BY <1>t, <2>0, Stops
  <2>2. Refers' BY <2>0, <2>1, RequestStopped
  <2>3. TypeOK' BY <1>t, <2>0, <2>1 DEF TypeOK, history
  <2> QED BY <2>2, <2>3 DEF TypeInv
<1>16. ASSUME NEW r \in Request, Pay(r) PROVE TypeInv'
  <2>0. UNCHANGED << quote, job, schedules, history, faults >> BY <1>16 DEF Pay
  <2>1. PICK i \in DOMAIN invoices :
          /\ invoices' = [invoices EXCEPT ![i].status = "paid"]
          /\ req' = [req EXCEPT ![r].pc = "paySchedules", ![r].at = i]
    BY <1>16 DEF Pay
  <2>2. /\ invoices' \in Seq(InvoiceRow) /\ Len(invoices') = Len(invoices) /\ DOMAIN invoices' = DOMAIN invoices
        /\ \A j \in DOMAIN invoices : invoices'[j].schedule = invoices[j].schedule
    BY <1>t, <2>1, InvoicePaid
  <2>3. "paySchedules" \in PCs /\ i \in Nat BY <1>r DEF PCs
  <2>4. req' \in [Request -> RequestRow] /\ (\A p \in Request \ {r} : req'[p] = req[p])
        /\ req'[r].pc = "paySchedules" /\ req'[r].at = i
    BY <1>t, <2>1, <2>3, Reads
  <2>5. RefersAt(r)' BY <2>2, <2>4 DEF RefersAt, At
  <2>6. \A p \in Request : RefersAt(p)' BY <2>0, <2>2, <2>4, <2>5, OthersRefer
  <2>7. \A k \in DOMAIN invoices' : invoices'[k].schedule <= Len(schedules') BY <1>t, <2>0, <2>2 DEF Refers
  <2>8. \A s \in DOMAIN schedules' : schedules'[s].invoice <= Len(invoices') BY <1>t, <2>0, <2>2 DEF Refers
  <2>9. TypeOK' BY <1>t, <2>0, <2>2, <2>4 DEF TypeOK, history
  <2> QED BY <2>6, <2>7, <2>8, <2>9 DEF TypeInv, Refers
<1>17. ASSUME NEW r \in Request, PaySchedules(r) PROVE TypeInv'
  <2>0. UNCHANGED << quote, job, invoices, history, faults >> /\ Stop(r) BY <1>17 DEF PaySchedules
  <2>1. req' \in [Request -> RequestRow] /\ (\A p \in Request \ {r} : req'[p] = req[p]) /\ req'[r].pc = "idle"
    BY <1>t, <2>0, Stops
  <2>2. /\ schedules' \in Seq(ScheduleRow) /\ Len(schedules') = Len(schedules) /\ DOMAIN schedules' = DOMAIN schedules
        /\ \A s \in DOMAIN schedules : schedules'[s].invoice = schedules[s].invoice
    BY <1>t, <1>17, RowsPaid
  <2>3. RefersAt(r)' BY <2>1 DEF RefersAt, At
  <2>4. \A p \in Request : RefersAt(p)' BY <2>0, <2>1, <2>2, <2>3, OthersRefer
  <2>5. \A k \in DOMAIN invoices' : invoices'[k].schedule <= Len(schedules') BY <1>t, <2>0, <2>2 DEF Refers
  <2>6. \A s \in DOMAIN schedules' : schedules'[s].invoice <= Len(invoices') BY <1>t, <2>0, <2>2 DEF Refers
  <2>7. TypeOK' BY <1>t, <2>0, <2>1, <2>2 DEF TypeOK, history
  <2> QED BY <2>4, <2>5, <2>6, <2>7 DEF TypeInv, Refers
<1>18. ASSUME NEW r \in Request, Die(r) PROVE TypeInv'
  <2>0. UNCHANGED << quote, job, schedules, invoices, history >> /\ Stop(r) /\ faults' = faults + 1 BY <1>18 DEF Die, Fault
  <2>1. req' \in [Request -> RequestRow] /\ (\A p \in Request \ {r} : req'[p] = req[p]) /\ req'[r].pc = "idle"
    BY <1>t, <2>0, Stops
  <2>2. Refers' BY <2>0, <2>1, RequestStopped
  <2>3. TypeOK' BY <1>t, <2>0, <2>1 DEF TypeOK, history
  <2> QED BY <2>2, <2>3 DEF TypeInv
<1>19. CASE UNCHANGED vars
  <2>1. TypeOK' BY <1>t, <1>19 DEF TypeOK, vars, history
  <2>2. Refers' BY <1>t, <1>19 DEF Refers, RefersAt, At, vars
  <2> QED BY <2>1, <2>2 DEF TypeInv
<1> QED
  BY <1>1, <1>2, <1>3, <1>4, <1>5, <1>6, <1>7, <1>8, <1>9, <1>10, <1>11, <1>12, <1>13, <1>14, <1>15, <1>16, <1>17,
     <1>18, <1>19
  DEF Next, Plan, Generate, Patch, Payment, Conversion

\* Rows, invoices and requests keep their types, and name rows and invoices there are, whatever
\* requests overlap, are killed or put another plan: what the handlers' foreign keys rest on.
THEOREM TypeCorrect == Spec => []TypeInv
<1>1. Init => TypeInv BY TypeInit
<1>2. TypeInv /\ [Next]_vars => TypeInv' BY TypeStep
<1> QED BY <1>1, <1>2, PTL DEF Spec

-----------------------------------------------------------------------------
(* What the rows and the invoices say of each other.                       *)

\* A row that stays, with the invoice it names.
LEMMA RowTrue ==
  ASSUME NEW s \in DOMAIN schedules, TruthAt(s), schedules'[s] = schedules[s],
         schedules[s].invoice # 0 =>
           /\ invoices'[schedules[s].invoice].schedule = invoices[schedules[s].invoice].schedule
           /\ invoices[schedules[s].invoice].status = "paid" => invoices'[schedules[s].invoice].status = "paid"
  PROVE  TruthAt(s)'
BY DEF TruthAt

\* What the other requests have made for a row, or paid, stays so.
LEMMA OthersTrue ==
  ASSUME TypeInv, Truth, NEW r \in Request, \A p \in Request \ {r} : req'[p] = req[p],
         \A s \in Live' \cap DOMAIN schedules : s \in Live,
         \A i \in DOMAIN invoices :
           /\ invoices[i].schedule \in Live' => invoices'[i].schedule = invoices[i].schedule
           /\ invoices[i].status = "paid" => invoices'[i].status = "paid",
         TruthOf(r)'
  PROVE  \A p \in Request : TruthOf(p)'
<1> SUFFICES ASSUME NEW p \in Request, p # r PROVE TruthOf(p)' OBVIOUS
<1>1. RefersAt(p) /\ TruthOf(p) BY DEF TypeInv, Refers, Truth
<1>2. req'[p] = req[p] OBVIOUS
<1>3. ASSUME At(p, "genLink")', req'[p].at \in Live' PROVE invoices'[req'[p].total].schedule = req'[p].at
  <2>1. At(p, "genLink") /\ req[p].at \in DOMAIN schedules /\ req[p].total \in DOMAIN invoices
    BY <1>1, <1>2, <1>3 DEF At, RefersAt
  <2>2. req[p].at \in Live BY <1>2, <1>3, <2>1
  <2>3. invoices[req[p].total].schedule = req[p].at BY <1>1, <2>1, <2>2 DEF TruthOf
  <2> QED BY <1>2, <1>3, <2>1, <2>3
<1>4. ASSUME At(p, "paySchedules")' PROVE invoices'[req'[p].at].status = "paid"
  <2>1. At(p, "paySchedules") /\ req[p].at \in DOMAIN invoices BY <1>1, <1>2, <1>4 DEF At, RefersAt
  <2>2. invoices[req[p].at].status = "paid" BY <1>1, <2>1 DEF TruthOf
  <2> QED BY <1>2, <2>1, <2>2
<1> QED BY <1>3, <1>4 DEF TruthOf

\* A step that touches neither rows nor invoices and links and pays nothing.
LEMMA TrueSame ==
  ASSUME TypeInv, Truth, NEW r \in Request, UNCHANGED << schedules, invoices >>,
         \A p \in Request \ {r} : req'[p] = req[p], req'[r].pc \notin { "genLink", "paySchedules" }
  PROVE  Truth'
<1>1. TruthOf(r)' BY DEF TruthOf, At
<1>2. Live' = Live BY DEF Live
<1>3. \A p \in Request : TruthOf(p)' BY <1>1, <1>2, OthersTrue
<1>4. \A s \in DOMAIN schedules : TruthAt(s)' BY RowTrue DEF Truth
<1> QED BY <1>3, <1>4 DEF Truth

\* A step that adds an invoice, for a row or for none.
LEMMA TrueWithInvoice ==
  ASSUME TypeInv, Truth, NEW r \in Request, UNCHANGED schedules,
         \A i \in DOMAIN invoices : i \in DOMAIN invoices' /\ invoices'[i] = invoices[i],
         \A p \in Request \ {r} : req'[p] = req[p], TruthOf(r)'
  PROVE  Truth'
<1>1. Live' = Live BY DEF Live
<1>2. \A p \in Request : TruthOf(p)' BY <1>1, OthersTrue
<1>r. /\ DOMAIN invoices = 1 .. Len(invoices) /\ Len(invoices) \in Nat
      /\ \A s \in DOMAIN schedules : schedules[s] \in ScheduleRow
  BY Rows DEF TypeInv
<1>3. \A s \in DOMAIN schedules : TruthAt(s)'
  <2> SUFFICES ASSUME NEW s \in DOMAIN schedules PROVE TruthAt(s)' OBVIOUS
  <2>1. schedules[s].invoice <= Len(invoices) BY DEF TypeInv, Refers
  <2>2. schedules[s].invoice \in Nat BY <1>r DEF ScheduleRow
  <2>3. schedules[s].invoice # 0 => schedules[s].invoice \in DOMAIN invoices BY <1>r, <2>1, <2>2
  <2>4. TruthAt(s) BY DEF Truth
  <2> QED BY <2>3, <2>4, RowTrue
<1> QED BY <1>2, <1>3 DEF Truth

LEMMA TruthInit == Init => Truth
<1> SUFFICES ASSUME Init PROVE Truth OBVIOUS
<1>1. PICK plan \in Plans : \E drafts \in ScheduleRows(plan, quote.subtotal) : schedules = Fresh(drafts, 0) BY DEF Init
<1>2. PICK drafts \in ScheduleRows(plan, quote.subtotal) : schedules = Fresh(drafts, 0) BY <1>1
<1>3. quote.subtotal \in Nat BY TypeInit DEF TypeInv, TypeOK
<1>4. \A s \in DOMAIN schedules : schedules[s].status = "planned" /\ schedules[s].invoice = 0
  BY <1>2, <1>3, ScheduleRowsType, FreshType
<1>5. \A r \in Request : req[r].pc = "idle" BY DEF Init, Idle
<1> QED BY <1>4, <1>5 DEF Truth, TruthAt, TruthOf, At

LEMMA TruthStep == TypeInv /\ Truth /\ [Next]_vars => Truth'
<1> SUFFICES ASSUME TypeInv, Truth, [Next]_vars PROVE Truth' OBVIOUS
<1>t. TypeOK /\ Refers BY DEF TypeInv
<1>r. /\ DOMAIN schedules = 1 .. Len(schedules) /\ Len(schedules) \in Nat
      /\ DOMAIN invoices = 1 .. Len(invoices) /\ Len(invoices) \in Nat /\ Live \subseteq DOMAIN schedules
      /\ \A s \in DOMAIN schedules : schedules[s] \in ScheduleRow
      /\ \A i \in DOMAIN invoices : invoices[i] \in InvoiceRow
  BY <1>t, Rows
<1>n. \A s \in DOMAIN schedules : schedules[s].invoice \in Nat /\ (schedules[s].invoice # 0 => schedules[s].invoice \in DOMAIN invoices)
  BY <1>t, <1>r DEF Refers, ScheduleRow
<1>q. quote.total \in Nat BY <1>t DEF TypeOK
<1>p. \A r \in Request : req[r].total \in Nat BY <1>t DEF TypeOK, RequestRow
\* The steps that read, and those that only stop.
<1>1. CASE Accept \/ UNCHANGED vars
  <2>1. UNCHANGED << schedules, invoices, req >> BY <1>1 DEF Accept, vars
  <2> QED BY <2>1 DEF Truth, TruthAt, TruthOf, At, Live
<1>2. ASSUME NEW r \in Request, UNCHANGED << schedules, invoices >>,
             \/ Stop(r)
             \/ \E pc \in PCs \ { "genLink", "paySchedules" } : Goto(r, pc)
             \/ \E s \in Nat : req' = [req EXCEPT ![r].pc = "genInsert", ![r].at = s]
             \/ \E q \in RequestRow : q.pc = "autoQuote" /\ req' = [req EXCEPT ![r] = q]
      PROVE  Truth'
  <2>1. (\A p \in Request \ {r} : req'[p] = req[p]) /\ req'[r].pc \notin { "genLink", "paySchedules" }
    <3>1. CASE Stop(r) BY <1>t, <3>1, Stops
    <3>2. CASE \E pc \in PCs \ { "genLink", "paySchedules" } : Goto(r, pc) BY <1>t, <3>2, Goes
    <3>3. CASE \E s \in Nat : req' = [req EXCEPT ![r].pc = "genInsert", ![r].at = s]
      <4>1. "genInsert" \in PCs BY DEF PCs
      <4>2. PICK s \in Nat : req' = [req EXCEPT ![r].pc = "genInsert", ![r].at = s] BY <3>3
      <4>3. (\A p \in Request \ {r} : req'[p] = req[p]) /\ req'[r].pc = "genInsert" BY <1>t, <4>1, <4>2, Reads
      <4> QED BY <4>3
    <3>4. CASE \E q \in RequestRow : q.pc = "autoQuote" /\ req' = [req EXCEPT ![r] = q] BY <1>t, <3>4, Moves
    <3> QED BY <1>2, <3>1, <3>2, <3>3, <3>4
  <2> QED BY <1>2, <2>1, TrueSame
<1>3. ASSUME NEW r \in Request, PlanDelete(r) PROVE Truth'
  <2>1. Goto(r, "planInsert") /\ "planInsert" \in PCs BY <1>3 DEF PlanDelete, PCs
  <2>2. (\A p \in Request \ {r} : req'[p] = req[p]) /\ req'[r].pc = "planInsert" BY <1>t, <2>1, Goes
  <2>3. /\ DOMAIN schedules' = DOMAIN schedules /\ DOMAIN invoices' = DOMAIN invoices
        /\ \A s \in DOMAIN schedules : schedules'[s] = IF s \in Planned THEN Deleted ELSE schedules[s]
        /\ \A i \in DOMAIN invoices :
             /\ invoices'[i].schedule = IF invoices[i].schedule \in Planned THEN 0 ELSE invoices[i].schedule
             /\ invoices'[i].status = invoices[i].status
    BY <1>t, <1>3, RowsDeleted
  <2>4. \A s \in DOMAIN schedules : s \in Live' => s \in Live /\ s \notin Planned
    BY <2>3 DEF Live, Planned, Deleted
  <2>5. TruthOf(r)' BY <2>2 DEF TruthOf, At
  <2>6. \A i \in DOMAIN invoices :
          /\ invoices[i].schedule \in Live' => invoices'[i].schedule = invoices[i].schedule
          /\ invoices[i].status = "paid" => invoices'[i].status = "paid"
    <3>1. Live' \subseteq DOMAIN schedules BY <2>3 DEF Live
    <3> QED BY <2>3, <2>4, <3>1
  <2>7. \A p \in Request : TruthOf(p)' BY <2>2, <2>4, <2>5, <2>6, OthersTrue
  <2>8. ASSUME NEW s \in DOMAIN schedules PROVE TruthAt(s)'
    <3>1. CASE s \in Planned
      <4>1. schedules'[s] = Deleted BY <2>3, <3>1
      <4> QED BY <4>1 DEF TruthAt, Deleted
    <3>2. CASE s \notin Planned
      <4>1. schedules'[s] = schedules[s] /\ TruthAt(s) BY <2>3, <3>2 DEF Truth
      <4>2. ASSUME schedules[s].invoice # 0
            PROVE  /\ invoices'[schedules[s].invoice].schedule = invoices[schedules[s].invoice].schedule
                   /\ invoices[schedules[s].invoice].status = "paid" => invoices'[schedules[s].invoice].status = "paid"
        <5>1. schedules[s].invoice \in DOMAIN invoices /\ invoices[schedules[s].invoice].schedule = s
          BY <1>n, <4>1, <4>2 DEF TruthAt
        <5> QED BY <2>3, <3>2, <5>1
      <4> QED BY <4>1, <4>2, RowTrue
    <3> QED BY <3>1, <3>2
  <2> QED BY <2>3, <2>7, <2>8 DEF Truth
<1>4. ASSUME NEW r \in Request, PlanInsert(r) PROVE Truth'
  <2>1. Stop(r) /\ UNCHANGED invoices BY <1>4 DEF PlanInsert
  <2>2. (\A p \in Request \ {r} : req'[p] = req[p]) /\ req'[r].pc = "idle" BY <1>t, <2>1, Stops
  <2>3. PICK plan \in Plans :
          \E drafts \in ScheduleRows(plan, quote.subtotal) : schedules' = schedules \o Fresh(drafts, Len(schedules))
    BY <1>4 DEF PlanInsert
  <2>4. PICK drafts \in ScheduleRows(plan, quote.subtotal) : schedules' = schedules \o Fresh(drafts, Len(schedules))
    BY <2>3
  <2>5. /\ \A s \in DOMAIN schedules : s \in DOMAIN schedules' /\ schedules'[s] = schedules[s]
        /\ \A s \in DOMAIN schedules' \ DOMAIN schedules : schedules'[s].status = "planned" /\ schedules'[s].invoice = 0
    BY <1>t, <2>4, PlanRowsJoin
  <2>6. \A s \in Live' \cap DOMAIN schedules : s \in Live BY <2>5 DEF Live
  <2>7. TruthOf(r)' BY <2>2 DEF TruthOf, At
  <2>8. \A p \in Request : TruthOf(p)' BY <2>1, <2>2, <2>6, <2>7, OthersTrue
  <2>9. ASSUME NEW s \in DOMAIN schedules' PROVE TruthAt(s)'
    <3>1. CASE s \in DOMAIN schedules BY <2>1, <2>5, <3>1, RowTrue DEF Truth
    <3>2. CASE s \notin DOMAIN schedules
      <4>1. schedules'[s].status = "planned" /\ schedules'[s].invoice = 0 BY <2>5, <2>9, <3>2
      <4> QED BY <4>1 DEF TruthAt
    <3> QED BY <3>1, <3>2
  <2> QED BY <2>8, <2>9 DEF Truth
<1>5. ASSUME NEW r \in Request, GenInsert(r), req[r].at \in Live PROVE Truth'
  <2>1. PICK s : s = req[r].at OBVIOUS
  <2>2. PICK t \in InvoiceTotals(schedules[s], quote) : Insert(Invoice(schedules[s].kind, s, t)) BY <1>5, <2>1 DEF GenInsert
  <2>3. s \in DOMAIN schedules /\ s \in Nat BY <1>r, <1>5, <2>1
  <2>4. t \in Nat BY <1>t, <2>2, <2>3, TotalType
  <2>5. schedules[s].kind \in Kinds BY <1>r, <2>3 DEF ScheduleRow, Kinds, Progress
  <2>6. /\ \A i \in DOMAIN invoices : i \in DOMAIN invoices' /\ invoices'[i] = invoices[i]
        /\ invoices'[Len(invoices) + 1].schedule = s
    <3>1. /\ \A i \in DOMAIN invoices : i \in DOMAIN invoices' /\ invoices'[i] = invoices[i]
          /\ invoices'[Len(invoices) + 1] = Invoice(schedules[s].kind, s, t)
          /\ Invoice(schedules[s].kind, s, t).schedule = s
      BY <1>t, <2>2, <2>3, <2>4, <2>5, InvoiceJoins
    <3> QED BY <3>1
  <2>7. req' = [req EXCEPT ![r].pc = "genLink", ![r].total = Len(invoices) + 1] /\ UNCHANGED schedules
    BY <1>5 DEF GenInsert
  <2>8. /\ \A p \in Request \ {r} : req'[p] = req[p]
        /\ req'[r].pc = "genLink" /\ req'[r].at = s /\ req'[r].total = Len(invoices) + 1
    <3>1. req \in [Request -> RequestRow] BY <1>t DEF TypeOK
    <3>2. req[r] \in RequestRow BY <3>1
    <3>3. PICK q : q = [req[r] EXCEPT !.pc = "genLink", !.total = Len(invoices) + 1] OBVIOUS
    <3>4. q.pc = "genLink" /\ q.at = s /\ q.total = Len(invoices) + 1 BY <2>1, <3>2, <3>3 DEF RequestRow
    <3>5. req' = [req EXCEPT ![r] = q] BY <2>7, <3>1, <3>3
    <3> QED BY <3>1, <3>4, <3>5
  <2>9. TruthOf(r)' BY <2>6, <2>8 DEF TruthOf, At
  <2> QED BY <2>6, <2>7, <2>8, <2>9, TrueWithInvoice
<1>6. ASSUME NEW r \in Request, GenLink(r), req[r].at \in Live PROVE Truth'
  <2>0. UNCHANGED invoices /\ Stop(r) /\ At(r, "genLink") BY <1>6 DEF GenLink
  <2>1. (\A p \in Request \ {r} : req'[p] = req[p]) /\ req'[r].pc = "idle" BY <1>t, <2>0, Stops
  <2>2. PICK s : s = req[r].at OBVIOUS
  <2>3. PICK i : i = req[r].total OBVIOUS
  <2>4. s \in DOMAIN schedules /\ i \in DOMAIN invoices BY <1>t, <1>r, <1>6, <2>0, <2>2, <2>3 DEF Refers, RefersAt
  <2>5. i \in Nat /\ i # 0 BY <1>r, <2>4
  <2>6. schedules' = [schedules EXCEPT ![s].invoice = i, ![s].status = "invoiced"] BY <1>6, <2>2, <2>3 DEF GenLink
  <2>7. /\ DOMAIN schedules' = DOMAIN schedules /\ schedules'[s].invoice = i /\ schedules'[s].status = "invoiced"
        /\ \A k \in DOMAIN schedules \ {s} : schedules'[k] = schedules[k]
    BY <1>t, <2>4, <2>5, <2>6, RowLinked
  <2>8. invoices[i].schedule = s
    <3>1. TruthOf(r) BY DEF Truth
    <3> QED BY <1>6, <2>0, <2>2, <2>3, <3>1 DEF TruthOf
  <2>9. \A k \in Live' \cap DOMAIN schedules : k \in Live
    <3>1. s \in Live BY <1>6, <2>2
    <3> QED BY <2>7, <3>1 DEF Live
  <2>10. TruthOf(r)' BY <2>1 DEF TruthOf, At
  <2>11. \A p \in Request : TruthOf(p)' BY <2>0, <2>1, <2>9, <2>10, OthersTrue
  <2>12. TruthAt(s)' BY <2>0, <2>5, <2>7, <2>8 DEF TruthAt
  <2>13. \A k \in DOMAIN schedules \ {s} : TruthAt(k)' BY <2>0, <2>7, RowTrue DEF Truth
  <2> QED BY <2>7, <2>11, <2>12, <2>13 DEF Truth
<1>7. ASSUME NEW r \in Request, AutoInsert(r) \/ Convert(r) PROVE Truth'
  <2>1. PICK kind \in Kinds, total \in Nat : Insert(Invoice(kind, 0, total))
    BY <1>p, <1>q, <1>7 DEF AutoInsert, Convert, Kinds
  <2>2. \A i \in DOMAIN invoices : i \in DOMAIN invoices' /\ invoices'[i] = invoices[i]
    <3>1. 0 \in Nat OBVIOUS
    <3> QED BY <1>t, <2>1, <3>1, InvoiceJoins
  <2>3. UNCHANGED schedules BY <1>7 DEF AutoInsert, Convert
  <2>4. Stop(r) \/ Goto(r, "accept") BY <1>7 DEF AutoInsert, Convert
  <2>5. (\A p \in Request \ {r} : req'[p] = req[p]) /\ req'[r].pc \in { "idle", "accept" }
    <3>1. "accept" \in PCs BY DEF PCs
    <3>2. CASE Stop(r) BY <1>t, <3>2, Stops
    <3>3. CASE Goto(r, "accept") BY <1>t, <3>1, <3>3, Goes
    <3> QED BY <2>4, <3>2, <3>3
  <2>6. TruthOf(r)' BY <2>5 DEF TruthOf, At
  <2> QED BY <2>2, <2>3, <2>5, <2>6, TrueWithInvoice
<1>8. ASSUME NEW r \in Request, Pay(r) PROVE Truth'
  <2>0. UNCHANGED schedules BY <1>8 DEF Pay
  <2>1. PICK i \in DOMAIN invoices :
          /\ invoices' = [invoices EXCEPT ![i].status = "paid"]
          /\ req' = [req EXCEPT ![r].pc = "paySchedules", ![r].at = i]
    BY <1>8 DEF Pay
  <2>2. /\ invoices'[i].status = "paid"
        /\ \A j \in DOMAIN invoices :
             /\ invoices'[j].schedule = invoices[j].schedule
             /\ invoices[j].status = "paid" => invoices'[j].status = "paid"
    BY <1>t, <2>1, InvoicePaid
  <2>3. "paySchedules" \in PCs /\ i \in Nat BY <1>r DEF PCs
  <2>4. (\A p \in Request \ {r} : req'[p] = req[p]) /\ req'[r].pc = "paySchedules" /\ req'[r].at = i
    BY <1>t, <2>1, <2>3, Reads
  <2>5. TruthOf(r)' BY <2>2, <2>4 DEF TruthOf, At
  <2>6. Live' = Live BY <2>0 DEF Live
  <2>7. \A p \in Request : TruthOf(p)' BY <2>2, <2>4, <2>5, <2>6, OthersTrue
  <2>8. \A s \in DOMAIN schedules : TruthAt(s)' BY <1>n, <2>0, <2>2, RowTrue DEF Truth
  <2> QED BY <2>0, <2>7, <2>8 DEF Truth
<1>9. ASSUME NEW r \in Request, PaySchedules(r) PROVE Truth'
  <2>0. UNCHANGED invoices /\ Stop(r) /\ At(r, "paySchedules") BY <1>9 DEF PaySchedules
  <2>1. (\A p \in Request \ {r} : req'[p] = req[p]) /\ req'[r].pc = "idle" BY <1>t, <2>0, Stops
  <2>2. /\ DOMAIN schedules' = DOMAIN schedules
        /\ \A s \in DOMAIN schedules :
             /\ schedules'[s].invoice = schedules[s].invoice
             /\ schedules'[s].status = IF schedules[s].invoice = req[r].at THEN "paid" ELSE schedules[s].status
    BY <1>t, <1>9, RowsPaid
  <2>3. req[r].at \in DOMAIN invoices /\ invoices[req[r].at].status = "paid"
    BY <1>t, <2>0 DEF Refers, RefersAt, Truth, TruthOf
  <2>4. req[r].at # 0 BY <1>r, <2>3
  <2>5. ASSUME NEW s \in DOMAIN schedules PROVE TruthAt(s)' /\ (s \in Live' => s \in Live)
    <3>1. TruthAt(s) BY DEF Truth
    <3>2. CASE schedules[s].invoice = req[r].at
      <4>1. schedules[s].status \notin { "planned", "deleted" } BY <2>4, <3>1, <3>2 DEF TruthAt
      <4> QED BY <2>0, <2>2, <2>3, <2>4, <3>1, <3>2, <4>1 DEF TruthAt, Live
    <3>3. CASE schedules[s].invoice # req[r].at BY <2>0, <2>2, <3>1, <3>3 DEF TruthAt, Live
    <3> QED BY <3>2, <3>3
  <2>6. TruthOf(r)' BY <2>1 DEF TruthOf, At
  <2>7. \A p \in Request : TruthOf(p)' BY <2>0, <2>1, <2>5, <2>6, OthersTrue
  <2> QED BY <2>2, <2>5, <2>7 DEF Truth
\* The remaining steps, as <1>2 has them.
<1>10. ASSUME NEW r \in Request, PutPlan(r) PROVE Truth'
  <2>1. "planDelete" \in PCs \ { "genLink", "paySchedules" } BY DEF PCs
  <2> QED BY <1>2, <1>10, <2>1 DEF PutPlan
<1>11. ASSUME NEW r \in Request, Select(r) PROVE Truth'
  <2>1. PICK s \in Live : req' = [req EXCEPT ![r].pc = "genInsert", ![r].at = s] BY <1>11 DEF Select
  <2>2. s \in Nat BY <1>r
  <2> QED BY <1>2, <1>11, <2>1, <2>2 DEF Select
<1>12. ASSUME NEW r \in Request, GenInsert(r), req[r].at \notin Live PROVE Truth'
  <2>1. Stop(r) /\ UNCHANGED << schedules, invoices >> BY <1>12 DEF GenInsert
  <2> QED BY <1>2, <2>1
<1>13. ASSUME NEW r \in Request, GenLink(r), req[r].at \notin Live PROVE Truth'
  <2>1. Stop(r) /\ UNCHANGED << schedules, invoices >> BY <1>13 DEF GenLink
  <2> QED BY <1>2, <2>1
<1>14. ASSUME NEW r \in Request, PatchJob(r) \/ Complete(r) \/ AutoQuote(r) PROVE Truth'
  <2>1. UNCHANGED << schedules, invoices >> BY <1>14 DEF PatchJob, Complete, AutoQuote
  <2>2. Stop(r) \/ \E pc \in { "reopen", "rewrite", "complete", "autoInvoices", "autoInsert" } : Goto(r, pc)
    BY <1>14, Zenon DEF PatchJob, Complete, AutoQuote
  <2>3. { "reopen", "rewrite", "complete", "autoInvoices", "autoInsert" } \subseteq PCs \ { "genLink", "paySchedules" } BY DEF PCs
  <2> QED BY <1>2, <2>1, <2>2, <2>3, Zenon
<1>15. ASSUME NEW r \in Request, Reopen(r) \/ Rewrite(r) \/ ConvertAccept(r) \/ Die(r) PROVE Truth'
  <2>1. Stop(r) /\ UNCHANGED << schedules, invoices >> BY <1>15 DEF Reopen, Rewrite, ConvertAccept, Die
  <2> QED BY <1>2, <2>1
<1>16. ASSUME NEW r \in Request, AutoInvoices(r) PROVE Truth'
  <2>0. UNCHANGED << schedules, invoices >> BY <1>16 DEF AutoInvoices
  <2>1. PICK balance : balance = FinalBalance(quote.total, Billed(PaidProgress)) OBVIOUS
  <2>2. balance \in Nat
    <3>1. PaidProgress \subseteq DOMAIN invoices BY DEF PaidProgress
    <3>2. PICK b : b = Billed(PaidProgress) OBVIOUS
    <3>3. b \in Nat BY <1>t, <3>1, <3>2, BilledType
    <3> QED BY <1>q, <2>1, <3>2, <3>3 DEF FinalBalance
  <2>3. PICK q : q = [pc |-> "autoQuote", at |-> 0, total |-> balance, seen |-> Len(invoices)] OBVIOUS
  <2>4. q \in RequestRow /\ q.pc = "autoQuote" BY <1>r, <2>2, <2>3 DEF RequestRow, PCs
  <2>5. Stop(r) \/ req' = [req EXCEPT ![r] = q] BY <1>16, <2>1, <2>3, Zenon DEF AutoInvoices
  <2> QED BY <1>2, <2>0, <2>4, <2>5
<1> QED
  BY <1>1, <1>3, <1>4, <1>5, <1>6, <1>7, <1>8, <1>9, <1>10, <1>11, <1>12, <1>13, <1>14, <1>15, <1>16
  DEF Next, Plan, Generate, Patch, Payment, Conversion

\* SchedulesTellTruth: a row that is not planned names an invoice made for it, and a paid row a
\* paid one, wherever generating, payment and a new plan interleave or break off.
THEOREM TruthCorrect == Spec => []SchedulesTellTruth
<1>1. Init => TypeInv /\ Truth BY TypeInit, TruthInit
<1>2. TypeInv /\ Truth /\ [Next]_vars => TypeInv' /\ Truth' BY TypeStep, TruthStep
<1>3. TypeInv /\ Truth => SchedulesTellTruth
  <2> SUFFICES ASSUME Truth, NEW s \in Live
               PROVE  /\ schedules[s].status # "planned" =>
                           schedules[s].invoice # 0 /\ invoices[schedules[s].invoice].schedule = s
                      /\ schedules[s].status = "paid" => invoices[schedules[s].invoice].status = "paid"
    BY DEF SchedulesTellTruth
  <2>1. s \in DOMAIN schedules /\ schedules[s].status # "deleted" BY DEF Live
  <2> QED BY <2>1 DEF Truth, TruthAt
<1> QED BY <1>1, <1>2, <1>3, PTL DEF Spec

-----------------------------------------------------------------------------
(* The invoice of a completed job.                                         *)

\* Accepting it is all that happens to the quote.
LEMMA QuoteStep ==
  ASSUME TypeInv, [Next]_vars
  PROVE  quote'.subtotal = quote.subtotal /\ quote'.vat = quote.vat /\ quote'.total = quote.total
<1>1. quote' = quote \/ quote' = [quote EXCEPT !.accepted = TRUE]
  BY DEF Next, vars, Accept, Plan, PutPlan, PlanDelete, PlanInsert, Generate, Select, GenInsert, GenLink, Patch,
         PatchJob, Reopen, Rewrite, Complete, AutoInvoices, AutoQuote, AutoInsert, Payment, Pay, PaySchedules,
         Conversion, Convert, ConvertAccept, Die
<1>2. quote \in [subtotal : Nat, vat : 0 .. 100, total : Nat, accepted : BOOLEAN] BY DEF TypeInv, TypeOK
<1> QED BY <1>1, <1>2

\* Kinds and totals of invoices and the total of the quote stay; one is added or none.
LEMMA InvoicesStep ==
  ASSUME TypeInv, [Next]_vars
  PROVE  /\ quote'.total = quote.total
         /\ \A i \in DOMAIN invoices :
              /\ i \in DOMAIN invoices'
              /\ invoices'[i].kind = invoices[i].kind /\ invoices'[i].total = invoices[i].total
         /\ Len(invoices') > Len(invoices) \/ DOMAIN invoices' = DOMAIN invoices
<1>t. TypeOK BY DEF TypeInv
<1>r. Len(invoices) \in Nat BY <1>t, Rows
<1>1. quote'.total = quote.total BY QuoteStep
<1>2. \/ UNCHANGED invoices
      \/ \E r \in Request : PlanDelete(r)
      \/ \E i \in DOMAIN invoices : invoices' = [invoices EXCEPT ![i].status = "paid"]
      \/ \E kind, s, total : Insert(Invoice(kind, s, total))
  BY DEF Next, vars, Accept, Plan, PutPlan, PlanInsert, Generate, Select, GenInsert, GenLink, Patch,
         PatchJob, Reopen, Rewrite, Complete, AutoInvoices, AutoQuote, AutoInsert, Payment, Pay, PaySchedules,
         Conversion, Convert, ConvertAccept, Die
<1>3. CASE \E r \in Request : PlanDelete(r) BY <1>t, <1>1, <1>3, RowsDeleted
<1>4. CASE \E i \in DOMAIN invoices : invoices' = [invoices EXCEPT ![i].status = "paid"] BY <1>t, <1>1, <1>4, InvoicePaid
<1>5. CASE \E kind, s, total : Insert(Invoice(kind, s, total))
  <2>1. PICK e : invoices' = Append(invoices, e) BY <1>5 DEF Insert
  <2>2. invoices \in Seq(InvoiceRow) BY <1>t DEF TypeOK
  <2>3. /\ Len(invoices') = Len(invoices) + 1
        /\ \A i \in DOMAIN invoices : i \in DOMAIN invoices' /\ invoices'[i] = invoices[i]
    BY <2>1, <2>2
  <2> QED BY <1>1, <1>r, <2>3
<1> QED BY <1>1, <1>2, <1>3, <1>4, <1>5

\* Who is on the way to a completed job's invoice: another, one less, or the same with what it holds.
LEMMA AutoStep ==
  ASSUME TypeInv, [Next]_vars
  PROVE  \/ /\ UNCHANGED autos
            /\ \A p \in Autoing' : p \in Autoing /\ req'[p].total = req[p].total /\ req'[p].seen = req[p].seen
         \/ \E r \in Request :
              /\ AutoInvoices(r) /\ ~FinalExists /\ ~OpenProgress
              /\ \A p \in Request \ {r} : req'[p] = req[p]
              /\ req'[r].total = FinalBalance(quote.total, Billed(PaidProgress)) /\ req'[r].total # 0
              /\ req'[r].seen = Len(invoices)
         \/ \E r \in Request :
              /\ AutoInsert(r)
              /\ \A p \in Request \ {r} : req'[p] = req[p]
              /\ req'[r].pc = "idle"
<1>t. TypeOK BY DEF TypeInv
<1>r. Live \subseteq Nat /\ DOMAIN invoices \subseteq Nat /\ Len(invoices) \in Nat BY <1>t, Rows
<1> DEFINE Kept == \A p \in Autoing' : p \in Autoing /\ req'[p].total = req[p].total /\ req'[p].seen = req[p].seen
           Off == PCs \ { "autoQuote", "autoInsert" }
<1>1. ASSUME NEW r \in Request, \A p \in Request \ {r} : req'[p] = req[p], req'[r].pc \in Off
      PROVE  Kept
  BY <1>1 DEF Autoing, At
<1>2. ASSUME NEW r \in Request, Stop(r) PROVE Kept
  <2>1. (\A p \in Request \ {r} : req'[p] = req[p]) /\ req'[r].pc = "idle" BY <1>t, <1>2, Stops
  <2> QED BY <1>1, <2>1 DEF PCs
<1>3. ASSUME NEW r \in Request, NEW pc \in Off, Goto(r, pc) PROVE Kept
  <2>1. (\A p \in Request \ {r} : req'[p] = req[p]) /\ req'[r].pc = pc BY <1>t, <1>3, Goes
  <2> QED BY <1>1, <2>1
<1>4. ASSUME NEW r \in Request, NEW pc \in Off, NEW n \in Nat, req' = [req EXCEPT ![r].pc = pc, ![r].at = n] PROVE Kept
  <2>1. (\A p \in Request \ {r} : req'[p] = req[p]) /\ req'[r].pc = pc BY <1>t, <1>4, Reads
  <2> QED BY <1>1, <2>1
<1>5. { "planDelete", "planInsert", "genInsert", "genLink", "reopen", "rewrite", "complete", "autoInvoices", "accept",
        "paySchedules" } \subseteq Off
  BY DEF PCs
<1>6. CASE UNCHANGED vars \/ Accept
  <2>1. UNCHANGED << req, autos >> BY <1>6 DEF vars, Accept, history
  <2> QED BY <2>1 DEF Autoing, At
<1> HIDE DEF Kept, Off
<1>a. (UNCHANGED autos /\ Kept) =>
        /\ UNCHANGED autos
        /\ \A p \in Autoing' : p \in Autoing /\ req'[p].total = req[p].total /\ req'[p].seen = req[p].seen
  BY DEF Kept
<1>7. ASSUME NEW r \in Request, Plan(r) PROVE UNCHANGED autos /\ Kept
  <2>1. UNCHANGED autos BY <1>7 DEF Plan, PutPlan, PlanDelete, PlanInsert, history
  <2>2. Stop(r) \/ Goto(r, "planDelete") \/ Goto(r, "planInsert") BY <1>7 DEF Plan, PutPlan, PlanDelete, PlanInsert
  <2> QED BY <1>2, <1>3, <1>5, <2>1, <2>2
<1>8. ASSUME NEW r \in Request, Generate(r) PROVE UNCHANGED autos /\ Kept
  <2>1. UNCHANGED autos BY <1>8 DEF Generate, Select, GenInsert, GenLink, history
  <2>2. CASE Select(r)
    <3>1. PICK s \in Live : req' = [req EXCEPT ![r].pc = "genInsert", ![r].at = s] BY <2>2 DEF Select
    <3> QED BY <1>r, <1>4, <1>5, <2>1, <3>1
  <2>3. CASE Stop(r) BY <1>2, <2>1, <2>3
  <2>4. CASE req' = [req EXCEPT ![r].pc = "genLink", ![r].total = Len(invoices) + 1]
    <3>1. req \in [Request -> RequestRow] BY <1>t DEF TypeOK
    <3>2. req[r] \in RequestRow BY <3>1
    <3>3. PICK q : q = [req[r] EXCEPT !.pc = "genLink", !.total = Len(invoices) + 1] OBVIOUS
    <3>4. q.pc = "genLink" BY <3>2, <3>3 DEF RequestRow
    <3>5. req' = [req EXCEPT ![r] = q] BY <2>4, <3>1, <3>3
    <3>6. (\A p \in Request \ {r} : req'[p] = req[p]) /\ req'[r].pc = "genLink" BY <3>1, <3>4, <3>5
    <3> QED BY <1>1, <1>5, <2>1, <3>6
  <2>5. Select(r) \/ Stop(r) \/ req' = [req EXCEPT ![r].pc = "genLink", ![r].total = Len(invoices) + 1]
    BY <1>8 DEF Generate, GenInsert, GenLink
  <2> QED BY <2>2, <2>3, <2>4, <2>5
<1>9. ASSUME NEW r \in Request, PatchJob(r) \/ Reopen(r) \/ Rewrite(r) \/ Complete(r) PROVE UNCHANGED autos /\ Kept
  <2>1. UNCHANGED autos BY <1>9 DEF PatchJob, Reopen, Rewrite, Complete, history
  <2>2. Stop(r) \/ \E pc \in { "reopen", "rewrite", "complete", "autoInvoices" } : Goto(r, pc)
    BY <1>9, Zenon DEF PatchJob, Reopen, Rewrite, Complete
  <2>3. CASE Stop(r) BY <1>2, <2>1, <2>3
  <2>4. CASE \E pc \in { "reopen", "rewrite", "complete", "autoInvoices" } : Goto(r, pc) BY <1>3, <1>5, <2>1, <2>4
  <2> QED BY <2>2, <2>3, <2>4
<1>10. ASSUME NEW r \in Request, Payment(r) PROVE UNCHANGED autos /\ Kept
  <2>1. UNCHANGED autos BY <1>10 DEF Payment, Pay, PaySchedules, history
  <2>2. Stop(r) \/ \E i \in DOMAIN invoices : req' = [req EXCEPT ![r].pc = "paySchedules", ![r].at = i]
    BY <1>10 DEF Payment, Pay, PaySchedules
  <2> QED BY <1>r, <1>2, <1>4, <1>5, <2>1, <2>2
<1>11. ASSUME NEW r \in Request, Conversion(r) \/ Die(r) PROVE UNCHANGED autos /\ Kept
  <2>1. UNCHANGED autos BY <1>11 DEF Conversion, Convert, ConvertAccept, Die, history
  <2>2. Stop(r) \/ Goto(r, "accept") BY <1>11 DEF Conversion, Convert, ConvertAccept, Die
  <2> QED BY <1>2, <1>3, <1>5, <2>1, <2>2
<1>12. ASSUME NEW r \in Request, AutoQuote(r) PROVE UNCHANGED autos /\ Kept
  <2>1. UNCHANGED autos /\ (Stop(r) \/ Goto(r, "autoInsert")) /\ At(r, "autoQuote") BY <1>12 DEF AutoQuote, history
  <2>2. CASE Goto(r, "autoInsert")
    <3>1. "autoInsert" \in PCs BY DEF PCs
    <3>2. /\ \A p \in Request \ {r} : req'[p] = req[p]
          /\ req'[r].total = req[r].total /\ req'[r].seen = req[r].seen
      BY <1>t, <2>2, <3>1, Goes
    <3>3. r \in Autoing BY <2>1 DEF Autoing
    <3> QED BY <2>1, <3>2, <3>3 DEF Kept, Autoing, At
  <2> QED BY <1>2, <2>1, <2>2
<1>13. ASSUME NEW r \in Request, AutoInsert(r)
       PROVE  (\A p \in Request \ {r} : req'[p] = req[p]) /\ req'[r].pc = "idle"
  <2>1. Stop(r) BY <1>13 DEF AutoInsert
  <2> QED BY <1>t, <2>1, Stops
<1>14. ASSUME NEW r \in Request, AutoInvoices(r)
       PROVE  \/ UNCHANGED autos /\ Kept
              \/ /\ ~FinalExists /\ ~OpenProgress
                 /\ \A p \in Request \ {r} : req'[p] = req[p]
                 /\ req'[r].total = FinalBalance(quote.total, Billed(PaidProgress)) /\ req'[r].total # 0
                 /\ req'[r].seen = Len(invoices)
  <2>1. UNCHANGED autos BY <1>14 DEF AutoInvoices, history
  <2>2. PICK balance : balance = FinalBalance(quote.total, Billed(PaidProgress)) OBVIOUS
  <2>3. CASE Stop(r) BY <1>2, <2>1, <2>3
  <2>4. CASE ~Stop(r)
    <3>1. /\ ~FinalExists /\ ~OpenProgress /\ balance # 0
          /\ req' = [req EXCEPT ![r] = [pc |-> "autoQuote", at |-> 0, total |-> balance, seen |-> Len(invoices)]]
      BY <1>14, <2>2, <2>4, Zenon DEF AutoInvoices
    <3>2. req \in [Request -> RequestRow] BY <1>t DEF TypeOK
    <3>3. /\ req'[r] = [pc |-> "autoQuote", at |-> 0, total |-> balance, seen |-> Len(invoices)]
          /\ \A p \in Request \ {r} : req'[p] = req[p]
      BY <3>1, <3>2
    <3>4. req'[r].total = balance /\ req'[r].seen = Len(invoices) BY <3>3
    <3> QED BY <2>2, <3>1, <3>3, <3>4
  <2> QED BY <2>3, <2>4
<1> QED
  BY <1>a, <1>6, <1>7, <1>8, <1>9, <1>10, <1>11, <1>12, <1>13, <1>14 DEF Next, Patch

LEMMA AutosInit == Init => AutosInv /\ Balance
<1> SUFFICES ASSUME Init PROVE AutosInv /\ Balance OBVIOUS
<1>1. \A r \in Request : req[r].pc = "idle" BY DEF Init, Idle
<1>2. Autoing = {} BY <1>1 DEF Autoing, At
<1>3. Cardinality(Request) \in Nat /\ Cardinality({}) = 0 BY BillingAssumption, FS_CardinalityType, FS_EmptySet
<1>4. autos = 0 BY DEF Init
<1> QED BY <1>2, <1>3, <1>4 DEF AutosInv, Balance, BalanceAt

LEMMA AutosStep == TypeInv /\ AutosInv /\ [Next]_vars => AutosInv'
<1> SUFFICES ASSUME TypeInv, AutosInv, [Next]_vars PROVE AutosInv' OBVIOUS
<1>f. /\ IsFiniteSet(Request) /\ Cardinality(Request) \in Nat
      /\ \A S \in SUBSET Request : IsFiniteSet(S) /\ Cardinality(S) \in Nat /\ Cardinality(S) <= Cardinality(Request)
  BY BillingAssumption, FS_CardinalityType, FS_Subset
<1>n. autos \in Nat BY DEF TypeInv, TypeOK
<1>1. PICK before : before = Autoing OBVIOUS
<1>2. PICK after : after = Autoing' OBVIOUS
<1>3. before \in SUBSET Request /\ after \in SUBSET Request BY <1>1, <1>2 DEF Autoing
<1>4. Cardinality(before) \in Nat /\ Cardinality(after) \in Nat /\ Cardinality(after) <= Cardinality(Request) BY <1>f, <1>3
<1>5. autos + Cardinality(before) <= Cardinality(Request) /\ (autos > 0 => FinalExists) BY <1>1 DEF AutosInv
<1>6. FinalExists => FinalExists' BY InvoicesStep DEF FinalExists
<1>g. SUFFICES autos' + Cardinality(after) <= Cardinality(Request) /\ (autos' > 0 => FinalExists') BY <1>2 DEF AutosInv
<1>7. CASE UNCHANGED autos /\ after \subseteq before
  <2>1. Cardinality(after) <= Cardinality(before) BY <1>f, <1>3, <1>7, FS_Subset
  <2> QED BY <1>f, <1>n, <1>4, <1>5, <1>6, <1>7, <2>1
<1>8. CASE \E r \in Request : AutoInvoices(r) /\ ~FinalExists
  <2>1. UNCHANGED autos /\ autos = 0 BY <1>n, <1>5, <1>8 DEF AutoInvoices, history
  <2> QED BY <1>4, <2>1
<1>9. ASSUME NEW r \in Request, AutoInsert(r), \A p \in Request \ {r} : req'[p] = req[p], req'[r].pc = "idle"
      PROVE  autos' + Cardinality(after) <= Cardinality(Request) /\ (autos' > 0 => FinalExists')
  <2>1. r \in before /\ r \notin after /\ after \subseteq before \ {r} BY <1>1, <1>2, <1>9 DEF AutoInsert, Autoing, At
  <2>2. Cardinality(before \ {r}) = Cardinality(before) - 1 BY <1>f, <1>3, <2>1, FS_RemoveElement
  <2>3. Cardinality(after) <= Cardinality(before \ {r}) BY <1>f, <1>3, <2>1, FS_Subset
  <2>4. autos' = autos + 1 BY <1>9 DEF AutoInsert
  <2>5. FinalExists'
    <3>1. Insert(Invoice("final", 0, req[r].total)) BY <1>9 DEF AutoInsert
    <3>2. "final" \in Kinds /\ 0 \in Nat /\ req[r].total \in Nat BY DEF Kinds, TypeInv, TypeOK, RequestRow
    <3>3. TypeOK BY DEF TypeInv
    <3>4. /\ DOMAIN invoices' = 1 .. Len(invoices) + 1 /\ invoices'[Len(invoices) + 1] = Invoice("final", 0, req[r].total)
          /\ Invoice("final", 0, req[r].total).kind = "final"
      BY <3>1, <3>2, <3>3, InvoiceJoins
    <3>5. Len(invoices) + 1 \in DOMAIN invoices' BY <3>3, <3>4, Rows
    <3>6. invoices'[Len(invoices) + 1].kind \notin Progress BY <3>4 DEF Progress
    <3> QED BY <3>5, <3>6 DEF FinalExists
  <2> QED BY <1>f, <1>n, <1>4, <1>5, <2>2, <2>3, <2>4, <2>5
<1>10. \/ UNCHANGED autos /\ after \subseteq before
       \/ \E r \in Request : AutoInvoices(r) /\ ~FinalExists
       \/ \E r \in Request : AutoInsert(r) /\ (\A p \in Request \ {r} : req'[p] = req[p]) /\ req'[r].pc = "idle"
  BY <1>1, <1>2, AutoStep
<1> QED BY <1>7, <1>8, <1>9, <1>10

\* What is billed is the same if no invoice is added.
LEMMA BilledStep ==
  ASSUME TypeInv, [Next]_vars
  PROVE  /\ Len(invoices') >= Len(invoices) /\ Len(invoices) \in Nat
         /\ Len(invoices') = Len(invoices) => Billed(DOMAIN invoices)' = Billed(DOMAIN invoices)
<1>1. Len(invoices) \in Nat /\ DOMAIN invoices = 1 .. Len(invoices) BY Rows DEF TypeInv
<1>2. TypeInv' BY TypeStep
<1>3. Len(invoices') \in Nat /\ DOMAIN invoices' = 1 .. Len(invoices') BY <1>2, LenProperties DEF TypeInv, TypeOK
<1>4. Len(invoices') > Len(invoices) \/ DOMAIN invoices' = DOMAIN invoices BY InvoicesStep
<1>5. DOMAIN invoices' = DOMAIN invoices => Len(invoices') = Len(invoices)
  <2> SUFFICES ASSUME 1 .. Len(invoices') = 1 .. Len(invoices) PROVE Len(invoices') = Len(invoices) BY <1>1, <1>3
  <2>1. \A a, b \in Nat : 1 .. a = 1 .. b => a <= b
    <3> SUFFICES ASSUME NEW a \in Nat, NEW b \in Nat, 1 .. a = 1 .. b, a # 0 PROVE a <= b OBVIOUS
    <3>1. a \in 1 .. b OBVIOUS
    <3> QED BY <3>1
  <2>2. \A a, b \in Nat : a <= b /\ b <= a => a = b OBVIOUS
  <2> QED BY <1>1, <1>3, <2>1, <2>2
<1>6. ASSUME Len(invoices') = Len(invoices) PROVE Billed(DOMAIN invoices)' = Billed(DOMAIN invoices)
  <2>1. DOMAIN invoices' = DOMAIN invoices BY <1>1, <1>3, <1>6
  <2> QED BY <2>1, InvoicesStep, BilledSame
<1>7. Len(invoices') >= Len(invoices) /\ Len(invoices) \in Nat
  <2>1. Len(invoices') > Len(invoices) \/ Len(invoices') = Len(invoices) BY <1>4, <1>5, Zenon
  <2>2. Len(invoices') \in Nat /\ Len(invoices) \in Nat BY <1>1, <1>3
  <2> QED BY <2>1, <2>2
<1> QED BY <1>6, <1>7, Zenon

LEMMA BalanceStep == TypeInv /\ Balance /\ [Next]_vars => Balance'
<1> SUFFICES ASSUME TypeInv, Balance, [Next]_vars, NEW p \in Request PROVE BalanceAt(p)' BY DEF Balance
<1>t. TypeOK BY DEF TypeInv
<1>n. req[p].seen \in Nat /\ quote.total \in Nat BY <1>t DEF TypeOK, RequestRow
<1>1. /\ Len(invoices') >= Len(invoices) /\ Len(invoices) \in Nat
      /\ Len(invoices') = Len(invoices) => Billed(DOMAIN invoices)' = Billed(DOMAIN invoices)
      /\ quote'.total = quote.total
  BY BilledStep, InvoicesStep
<1>2. Len(invoices') \in Nat
  <2>1. TypeInv' BY TypeStep
  <2> QED BY <2>1, LenProperties DEF TypeInv, TypeOK
<1>3. ASSUME p \in Autoing, req'[p].total = req[p].total, req'[p].seen = req[p].seen PROVE BalanceAt(p)'
  <2>1. /\ req[p].seen <= Len(invoices)
        /\ Len(invoices) = req[p].seen => Billed(DOMAIN invoices) + req[p].total = quote.total
    BY <1>3 DEF Balance, BalanceAt
  <2>2. req'[p].seen <= Len(invoices') BY <1>n, <1>1, <1>2, <1>3, <2>1
  <2>3. ASSUME Len(invoices') = req'[p].seen PROVE Billed(DOMAIN invoices)' + req'[p].total = quote'.total
    <3>1. Len(invoices) = req[p].seen /\ Len(invoices') = Len(invoices) BY <1>n, <1>1, <1>2, <1>3, <2>1, <2>3
    <3> QED BY <1>1, <1>3, <2>1, <3>1
  <2> QED BY <2>2, <2>3 DEF BalanceAt
<1>4. ASSUME NEW r \in Request, AutoInvoices(r), ~FinalExists, ~OpenProgress,
             req'[r].total = FinalBalance(quote.total, Billed(PaidProgress)), req'[r].total # 0,
             req'[r].seen = Len(invoices)
      PROVE  BalanceAt(r)'
  <2>1. UNCHANGED << quote, invoices >> BY <1>4 DEF AutoInvoices
  <2>2. PaidProgress = DOMAIN invoices BY <1>4 DEF PaidProgress, FinalExists, OpenProgress
  <2>3. PICK b : b = Billed(DOMAIN invoices) OBVIOUS
  <2>4. b \in Nat BY <1>t, <2>3, BilledType
  <2>5. b + req'[r].total = quote.total BY <1>n, <1>4, <2>2, <2>3, <2>4 DEF FinalBalance
  <2>6. Billed(DOMAIN invoices)' = b BY <2>1, <2>3, BilledSame
  <2> QED BY <1>1, <1>4, <2>1, <2>5, <2>6 DEF BalanceAt
<1>5. ASSUME NEW r \in Request, p # r, \A k \in Request \ {r} : req'[k] = req[k] PROVE BalanceAt(p)'
  <2>1. req'[p] = req[p] BY <1>5
  <2>2. p \in Autoing' => p \in Autoing BY <2>1 DEF Autoing, At
  <2> QED BY <1>3, <2>1, <2>2 DEF BalanceAt
<1>6. CASE \A k \in Autoing' : k \in Autoing /\ req'[k].total = req[k].total /\ req'[k].seen = req[k].seen
  BY <1>3, <1>6 DEF BalanceAt
<1>7. ASSUME NEW r \in Request, AutoInsert(r), \A k \in Request \ {r} : req'[k] = req[k], req'[r].pc = "idle" PROVE BalanceAt(p)'
  <2>1. CASE p = r
    <3>1. p \notin Autoing' BY <1>7, <2>1 DEF Autoing, At
    <3> QED BY <3>1 DEF BalanceAt
  <2> QED BY <1>5, <1>7, <2>1
<1> QED BY <1>4, <1>5, <1>6, <1>7, AutoStep

\* AutoBalances: the invoice a completed job gets brings what is billed to exactly the quote's
\* total, unless another invoice was made after the job's invoices were read.
THEOREM BalancesCorrect == Spec => []AutoBalances
<1>1. Init => TypeInv /\ Balance BY TypeInit, AutosInit
<1>2. TypeInv /\ Balance /\ [Next]_vars => TypeInv' /\ Balance' BY TypeStep, BalanceStep
<1>3. Balance => AutoBalances BY DEF AutoBalances, Balance, BalanceAt, Autoing
<1> QED BY <1>1, <1>2, <1>3, PTL DEF Spec

-----------------------------------------------------------------------------
(* How many invoices a schedule row has.                                   *)

LEMMA MadeFinite ==
  ASSUME TypeInv, NEW s
  PROVE  /\ IsFiniteSet(Made(s)) /\ Cardinality(Made(s)) \in Nat
         /\ IsFiniteSet(Request) /\ Cardinality(Request) \in Nat
         /\ IsFiniteSet(Inserting(s)) /\ Cardinality(Inserting(s)) \in Nat
         /\ IsFiniteSet(Linking(s)) /\ Cardinality(Linking(s)) \in Nat
         /\ Cardinality(Inserting(s)) + Cardinality(Linking(s)) <= Cardinality(Request)
<1>1. IsFiniteSet(DOMAIN invoices) BY Rows, FS_Interval DEF TypeInv
<1>2. Made(s) \subseteq DOMAIN invoices BY DEF Made
<1>3. IsFiniteSet(Made(s)) /\ Cardinality(Made(s)) \in Nat BY <1>1, <1>2, FS_Subset, FS_CardinalityType
<1>4. PICK a : a = Inserting(s) OBVIOUS
<1>5. PICK b : b = Linking(s) OBVIOUS
<1>6. a \subseteq Request /\ b \subseteq Request /\ a \cap b = {} BY <1>4, <1>5 DEF Inserting, Linking, At
<1>7. IsFiniteSet(Request) /\ Cardinality(Request) \in Nat BY BillingAssumption, FS_CardinalityType
<1>8. IsFiniteSet(a) /\ Cardinality(a) \in Nat /\ IsFiniteSet(b) /\ Cardinality(b) \in Nat
  BY <1>6, <1>7, FS_Subset, FS_CardinalityType
<1>9. Cardinality(a \cup b) = Cardinality(a) + Cardinality(b) - Cardinality(a \cap b) BY <1>8, FS_Union
<1>10. Cardinality(a \cap b) = 0 BY <1>6, FS_EmptySet
<1>11. Cardinality(a \cup b) <= Cardinality(Request) BY <1>6, <1>7, FS_Subset
<1>12. Cardinality(a) + Cardinality(b) <= Cardinality(Request) BY <1>8, <1>9, <1>10, <1>11
<1> QED BY <1>3, <1>4, <1>5, <1>7, <1>8, <1>12

\* A step after which the row has no more invoices and nobody new begins to make one, and no linker is lost.
LEMMA MadeKept ==
  ASSUME TypeInv, NEW s, MadeAt(s), UNCHANGED faults, schedules'[s].invoice = schedules[s].invoice,
         Made(s)' \subseteq Made(s), Linking(s) \subseteq Linking(s)',
         schedules[s].invoice # 0 => Inserting(s)' \subseteq Inserting(s)
  PROVE  MadeAt(s)'
<1>1. PICK m : m = Made(s)' OBVIOUS
<1>2. PICK k : k = Linking(s)' OBVIOUS
<1>3. PICK n : n = Inserting(s)' OBVIOUS
<1>4. /\ IsFiniteSet(Made(s)) /\ Cardinality(Made(s)) \in Nat
      /\ IsFiniteSet(Inserting(s)) /\ Cardinality(Inserting(s)) \in Nat
      /\ IsFiniteSet(Linking(s)) /\ Cardinality(Linking(s)) \in Nat /\ Cardinality(Request) \in Nat
  BY MadeFinite
<1>5. k \subseteq Request BY <1>2 DEF Linking
<1>6. IsFiniteSet(k) BY <1>5, BillingAssumption, FS_Subset
<1>7. Cardinality(m) \in Nat /\ Cardinality(m) <= Cardinality(Made(s)) BY <1>1, <1>4, FS_Subset, FS_CardinalityType
<1>8. Cardinality(k) \in Nat /\ Cardinality(Linking(s)) <= Cardinality(k) BY <1>2, <1>6, FS_Subset, FS_CardinalityType
<1>9. schedules[s].invoice # 0 => Cardinality(n) \in Nat /\ Cardinality(n) <= Cardinality(Inserting(s))
  BY <1>3, <1>4, FS_Subset, FS_CardinalityType
<1>10. faults \in Nat BY DEF TypeInv, TypeOK
<1>11. CASE schedules[s].invoice = 0
  <2>1. Cardinality(Made(s)) <= Cardinality(Linking(s)) + faults BY <1>11 DEF MadeAt
  <2>2. Cardinality(m) <= Cardinality(k) + faults BY <1>4, <1>7, <1>8, <1>10, <2>1
  <2> QED BY <1>1, <1>2, <1>11, <2>2 DEF MadeAt
<1>12. CASE schedules[s].invoice # 0
  <2>1. Cardinality(Made(s)) + Cardinality(Inserting(s)) <= Cardinality(Request) + faults BY <1>12 DEF MadeAt
  <2>2. Cardinality(m) + Cardinality(n) <= Cardinality(Request) + faults BY <1>4, <1>7, <1>9, <1>10, <1>12, <2>1
  <2> QED BY <1>1, <1>3, <1>12, <2>2 DEF MadeAt
<1> QED BY <1>11, <1>12

\* Another's step does not show among the requests that make or link an invoice.
LEMMA OthersMake ==
  ASSUME NEW r \in Request, \A p \in Request \ {r} : req'[p] = req[p],
         req[r].pc \notin { "genInsert", "genLink" }, req'[r].pc \notin { "genInsert", "genLink" }, NEW s
  PROVE  Inserting(s)' = Inserting(s) /\ Linking(s)' = Linking(s)
<1>1. \A p \in Request : (At(p, "genInsert")' <=> At(p, "genInsert")) /\ (At(p, "genLink")' <=> At(p, "genLink")) BY DEF At
<1>2. \A p \in Request : At(p, "genInsert") \/ At(p, "genLink") => req'[p].at = req[p].at BY DEF At
<1> QED BY <1>1, <1>2 DEF Inserting, Linking

\* A request that has read a row without an invoice.
LEMMA RowSelected ==
  ASSUME TypeOK, NEW r \in Request, Select(r)
  PROVE  \E k \in Live :
           /\ schedules[k].invoice = 0 /\ \A p \in Request \ {r} : req'[p] = req[p]
           /\ req'[r].pc = "genInsert" /\ req'[r].at = k
<1>1. PICK k \in Live : schedules[k].invoice = 0 /\ req' = [req EXCEPT ![r].pc = "genInsert", ![r].at = k] BY DEF Select
<1>2. "genInsert" \in PCs /\ k \in Nat BY Rows DEF PCs
<1>3. req' = [req EXCEPT ![r].pc = "genInsert", ![r].at = k] BY <1>1
<1>4. PICK q : q = [req[r] EXCEPT !.pc = "genInsert", !.at = k] OBVIOUS
<1>5. req[r] \in RequestRow BY DEF TypeOK
<1>6. q \in RequestRow /\ q.pc = "genInsert" /\ q.at = k BY <1>2, <1>4, <1>5 DEF RequestRow
<1>7. req' = [req EXCEPT ![r] = q] BY <1>3, <1>4 DEF TypeOK
<1>8. req'[r] = q /\ \A p \in Request \ {r} : req'[p] = req[p] BY <1>6, <1>7, Moves
<1> QED BY <1>1, <1>6, <1>8

LEMMA MadeInit == Init => MadeInv
<1> SUFFICES ASSUME Init, NEW s \in Live PROVE MadeAt(s) BY DEF MadeInv
<1>1. PICK plan \in Plans : \E drafts \in ScheduleRows(plan, quote.subtotal) : schedules = Fresh(drafts, 0) BY DEF Init
<1>2. PICK drafts \in ScheduleRows(plan, quote.subtotal) : schedules = Fresh(drafts, 0) BY <1>1
<1>3. TypeInv BY TypeInit
<1>4. quote.subtotal \in Nat /\ s \in DOMAIN schedules BY <1>3 DEF TypeInv, TypeOK, Live
<1>5. schedules[s].invoice = 0 BY <1>2, <1>4, ScheduleRowsType, FreshType
<1>6. DOMAIN invoices = {} BY DEF Init
<1>7. Made(s) = {} BY <1>6 DEF Made
<1>8. Cardinality(Linking(s)) \in Nat /\ faults = 0 BY <1>3, MadeFinite DEF Init
<1>9. Cardinality(Made(s)) <= Cardinality(Linking(s)) + faults BY <1>7, <1>8, FS_EmptySet
<1> QED BY <1>5, <1>9 DEF MadeAt

LEMMA MadeStep == TypeInv /\ Truth /\ MadeInv /\ [Next]_vars => MadeInv'
<1> SUFFICES ASSUME TypeInv, Truth, MadeInv, [Next]_vars, NEW s \in Live' PROVE MadeAt(s)' BY DEF MadeInv
<1>t. TypeOK /\ Refers /\ TypeInv' BY TypeStep DEF TypeInv
<1>r. /\ DOMAIN schedules = 1 .. Len(schedules) /\ Len(schedules) \in Nat
      /\ DOMAIN invoices = 1 .. Len(invoices) /\ Len(invoices) \in Nat /\ Live \subseteq DOMAIN schedules
      /\ \A k \in DOMAIN schedules : schedules[k] \in ScheduleRow
      /\ \A i \in DOMAIN invoices : invoices[i] \in InvoiceRow
  BY <1>t, Rows
<1>f. /\ IsFiniteSet(Made(s)) /\ Cardinality(Made(s)) \in Nat
      /\ IsFiniteSet(Inserting(s)) /\ Cardinality(Inserting(s)) \in Nat
      /\ IsFiniteSet(Linking(s)) /\ Cardinality(Linking(s)) \in Nat /\ Cardinality(Request) \in Nat
      /\ Cardinality(Inserting(s)) + Cardinality(Linking(s)) <= Cardinality(Request)
  BY MadeFinite
<1>n. faults \in Nat /\ \A r \in Request : req[r] \in RequestRow BY <1>t DEF TypeOK
<1>m. s \in Live => MadeAt(s) BY DEF MadeInv
\* A step that leaves the rows, their invoices and those who make them alone.
<1>1. ASSUME NEW r \in Request, s \in Live, UNCHANGED faults, schedules'[s].invoice = schedules[s].invoice,
             Made(s)' = Made(s), \A p \in Request \ {r} : req'[p] = req[p],
             req[r].pc \notin { "genInsert", "genLink" }, req'[r].pc \notin { "genInsert", "genLink" }
      PROVE  MadeAt(s)'
  <2>1. Inserting(s)' = Inserting(s) /\ Linking(s)' = Linking(s) BY <1>1, OthersMake
  <2> QED BY <1>m, <1>t, <1>1, <2>1, MadeKept
<1>2. CASE Accept \/ UNCHANGED vars
  <2>1. UNCHANGED << schedules, invoices, req, faults >> BY <1>2 DEF Accept, vars
  <2>2. s \in Live /\ MadeAt(s) BY <1>m, <2>1 DEF Live
  <2> QED BY <2>1, <2>2 DEF MadeAt, Made, Linking, Inserting, At
<1>3. ASSUME NEW r \in Request, NEW pc \in PCs \ { "genInsert", "genLink" }, Stop(r) \/ Goto(r, pc),
             req[r].pc \notin { "genInsert", "genLink" }, UNCHANGED << schedules, invoices, faults >>
      PROVE  MadeAt(s)'
  <2>1. (\A p \in Request \ {r} : req'[p] = req[p]) /\ req'[r].pc \notin { "genInsert", "genLink" }
    <3>1. CASE Stop(r) BY <1>t, <3>1, Stops
    <3>2. CASE Goto(r, pc) BY <1>t, <3>2, Goes
    <3> QED BY <1>3, <3>1, <3>2
  <2>2. s \in Live /\ Made(s)' = Made(s) BY <1>3 DEF Live, Made
  <2> QED BY <1>1, <1>3, <2>1, <2>2
<1>4. ASSUME NEW r \in Request, PlanDelete(r) PROVE MadeAt(s)'
  <2>1. Goto(r, "planInsert") /\ "planInsert" \in PCs /\ At(r, "planDelete") /\ UNCHANGED faults BY <1>4 DEF PlanDelete, PCs
  <2>2. (\A p \in Request \ {r} : req'[p] = req[p]) /\ req'[r].pc = "planInsert" BY <1>t, <2>1, Goes
  <2>3. /\ DOMAIN schedules' = DOMAIN schedules /\ DOMAIN invoices' = DOMAIN invoices
        /\ \A k \in DOMAIN schedules : schedules'[k] = IF k \in Planned THEN Deleted ELSE schedules[k]
        /\ \A i \in DOMAIN invoices :
             invoices'[i].schedule = IF invoices[i].schedule \in Planned THEN 0 ELSE invoices[i].schedule
    BY <1>t, <1>4, RowsDeleted
  <2>4. s \in DOMAIN schedules /\ s \in Live /\ s \notin Planned BY <2>3 DEF Live, Planned, Deleted
  <2>5. \A i \in DOMAIN invoices : invoices'[i].schedule = s <=> invoices[i].schedule = s
    <3>1. s # 0 BY <1>r, <2>4
    <3> QED BY <2>3, <2>4, <3>1
  <2>6. Made(s)' = Made(s) BY <2>3, <2>5 DEF Made
  <2>7. schedules'[s].invoice = schedules[s].invoice BY <2>3, <2>4
  <2> QED BY <1>1, <2>1, <2>2, <2>4, <2>6, <2>7 DEF At
<1>5. ASSUME NEW r \in Request, PlanInsert(r) PROVE MadeAt(s)'
  <2>1. Stop(r) /\ At(r, "planInsert") /\ UNCHANGED << invoices, faults >> BY <1>5 DEF PlanInsert
  <2>2. (\A p \in Request \ {r} : req'[p] = req[p]) /\ req'[r].pc = "idle" BY <1>t, <2>1, Stops
  <2>3. PICK plan \in Plans :
          \E drafts \in ScheduleRows(plan, quote.subtotal) : schedules' = schedules \o Fresh(drafts, Len(schedules))
    BY <1>5 DEF PlanInsert
  <2>4. PICK drafts \in ScheduleRows(plan, quote.subtotal) : schedules' = schedules \o Fresh(drafts, Len(schedules))
    BY <2>3
  <2>5. /\ \A k \in DOMAIN schedules : k \in DOMAIN schedules' /\ schedules'[k] = schedules[k]
        /\ \A k \in DOMAIN schedules' \ DOMAIN schedules : k > Len(schedules) /\ schedules'[k].invoice = 0
    BY <1>t, <2>4, PlanRowsJoin
  <2>6. CASE s \in DOMAIN schedules
    <3>1. s \in Live BY <2>5, <2>6 DEF Live
    <3>2. Made(s)' = Made(s) BY <2>1 DEF Made
    <3> QED BY <1>1, <2>1, <2>2, <2>5, <2>6, <3>1, <3>2 DEF At
  <2>7. CASE s \notin DOMAIN schedules
    <3>1. s \in DOMAIN schedules' BY DEF Live
    <3>2. s > Len(schedules) /\ schedules'[s].invoice = 0 BY <2>5, <2>7, <3>1
    <3>3. \A i \in DOMAIN invoices : invoices[i].schedule # s
      <4> SUFFICES ASSUME NEW i \in DOMAIN invoices PROVE invoices[i].schedule # s OBVIOUS
      <4>1. invoices[i].schedule <= Len(schedules) BY <1>t DEF Refers
      <4>2. invoices[i].schedule \in Nat BY <1>r DEF InvoiceRow
      <4> QED BY <1>r, <3>2, <4>1, <4>2
    <3>4. Made(s)' = {} BY <2>1, <3>3 DEF Made
    <3>5. PICK k : k = Linking(s)' OBVIOUS
    <3>6. k \subseteq Request BY <3>5 DEF Linking
    <3>7. Cardinality(k) \in Nat BY <3>6, BillingAssumption, FS_Subset, FS_CardinalityType
    <3>8. Cardinality({}) <= Cardinality(k) + faults BY <1>n, <3>7, FS_EmptySet
    <3> QED BY <2>1, <3>2, <3>4, <3>5, <3>8 DEF MadeAt
  <2> QED BY <2>6, <2>7
<1>6. ASSUME NEW r \in Request, Select(r) PROVE MadeAt(s)'
  <2>1. PICK k \in Live :
          /\ schedules[k].invoice = 0 /\ \A p \in Request \ {r} : req'[p] = req[p]
          /\ req'[r].pc = "genInsert" /\ req'[r].at = k
    BY <1>t, <1>6, RowSelected, Zenon
  <2>3. (\A p \in Request \ {r} : req'[p] = req[p]) /\ req'[r].pc = "genInsert" /\ req'[r].at = k BY <2>1
  <2>4. UNCHANGED << schedules, invoices, faults >> /\ At(r, "idle") BY <1>6 DEF Select
  <2>5. s \in Live /\ Made(s)' = Made(s) BY <2>4 DEF Live, Made
  <2>6. Linking(s) \subseteq Linking(s)' BY <2>3, <2>4 DEF Linking, At
  <2>7. schedules[s].invoice # 0 => Inserting(s)' \subseteq Inserting(s)
    <3> SUFFICES ASSUME s # k PROVE Inserting(s)' \subseteq Inserting(s) BY <2>1
    <3> QED BY <2>3, <2>4 DEF Inserting, At
  <2> QED BY <1>m, <1>t, <2>4, <2>5, <2>6, <2>7, MadeKept
<1>7. ASSUME NEW r \in Request, GenInsert(r) PROVE MadeAt(s)'
  <2>0. UNCHANGED << schedules, faults >> /\ At(r, "genInsert") BY <1>7 DEF GenInsert
  <2>a. s \in Live BY <2>0 DEF Live
  <2>1. CASE req[r].at \notin Live
    <3>1. Stop(r) /\ UNCHANGED invoices BY <1>7, <2>1 DEF GenInsert
    <3>2. (\A p \in Request \ {r} : req'[p] = req[p]) /\ req'[r].pc = "idle" BY <1>t, <3>1, Stops
    <3>3. Made(s)' = Made(s) BY <3>1 DEF Made
    <3>4. Linking(s) \subseteq Linking(s)' BY <2>0, <3>2 DEF Linking, At
    <3>5. Inserting(s)' \subseteq Inserting(s) BY <3>2 DEF Inserting, At
    <3> QED BY <1>m, <1>t, <2>0, <2>a, <3>3, <3>4, <3>5, MadeKept
  <2>2. CASE req[r].at \in Live
    <3>1. PICK k : k = req[r].at OBVIOUS
    <3>2. PICK t \in InvoiceTotals(schedules[k], quote) : Insert(Invoice(schedules[k].kind, k, t)) BY <1>7, <2>2, <3>1 DEF GenInsert
    <3>3. k \in DOMAIN schedules /\ k \in Nat BY <1>r, <2>2, <3>1
    <3>4. t \in Nat BY <1>t, <3>2, <3>3, TotalType
    <3>5. schedules[k].kind \in Kinds BY <1>r, <3>3 DEF ScheduleRow, Kinds, Progress
    <3>6. PICK n \in Nat : n = Len(invoices) + 1 BY <1>r
    <3>7. /\ DOMAIN invoices' = 1 .. Len(invoices) + 1
          /\ \A i \in DOMAIN invoices : i \in DOMAIN invoices' /\ invoices'[i] = invoices[i]
          /\ invoices'[n] = Invoice(schedules[k].kind, k, t) /\ Invoice(schedules[k].kind, k, t).schedule = k
      BY <1>t, <3>2, <3>3, <3>4, <3>5, <3>6, InvoiceJoins
    <3>8. DOMAIN invoices' = DOMAIN invoices \cup {n} /\ n \notin DOMAIN invoices BY <1>r, <3>6, <3>7
    <3>9. req' = [req EXCEPT ![r].pc = "genLink", ![r].total = n] BY <1>7, <2>2, <3>6 DEF GenInsert
    <3>10. (\A p \in Request \ {r} : req'[p] = req[p]) /\ req'[r].pc = "genLink" /\ req'[r].at = k
      <4>1. req \in [Request -> RequestRow] /\ req[r] \in RequestRow BY <1>t DEF TypeOK
      <4>2. PICK q : q = [req[r] EXCEPT !.pc = "genLink", !.total = n] OBVIOUS
      <4>3. q.pc = "genLink" /\ q.at = k BY <3>1, <4>1, <4>2 DEF RequestRow
      <4>4. req' = [req EXCEPT ![r] = q] BY <3>9, <4>1, <4>2
      <4> QED BY <4>1, <4>3, <4>4
    <3>11. CASE k # s
      <4>1. Made(s)' \subseteq Made(s) BY <3>7, <3>8, <3>11 DEF Made
      <4>2. Linking(s) \subseteq Linking(s)' BY <2>0, <3>10 DEF Linking, At
      <4>3. Inserting(s)' \subseteq Inserting(s) BY <3>10 DEF Inserting, At
      <4> QED BY <1>m, <1>t, <2>0, <2>a, <4>1, <4>2, <4>3, MadeKept
    <3>12. CASE k = s
      <4>1. Made(s)' = Made(s) \cup {n} /\ n \notin Made(s) BY <3>7, <3>8, <3>12 DEF Made
      <4>2. Linking(s)' = Linking(s) \cup {r} /\ r \notin Linking(s) BY <2>0, <3>10, <3>12 DEF Linking, At
      <4>3. Inserting(s)' = Inserting(s) \ {r} /\ r \in Inserting(s) BY <2>0, <3>1, <3>10, <3>12 DEF Inserting, At
      <4>4. Cardinality(Made(s) \cup {n}) = Cardinality(Made(s)) + 1 BY <1>f, <4>1, FS_AddElement
      <4>5. Cardinality(Linking(s) \cup {r}) = Cardinality(Linking(s)) + 1 BY <1>f, <4>2, FS_AddElement
      <4>6. Cardinality(Inserting(s) \ {r}) = Cardinality(Inserting(s)) - 1 BY <1>f, <4>3, FS_RemoveElement
      <4>7. schedules'[s].invoice = schedules[s].invoice /\ faults' = faults /\ MadeAt(s) BY <1>m, <2>0, <2>a
      <4>8. CASE schedules[s].invoice = 0
        <5>1. Cardinality(Made(s)) <= Cardinality(Linking(s)) + faults BY <4>7, <4>8 DEF MadeAt
        <5>2. Cardinality(Made(s) \cup {n}) <= Cardinality(Linking(s) \cup {r}) + faults BY <1>f, <1>n, <4>4, <4>5, <5>1
        <5> QED BY <4>1, <4>2, <4>7, <4>8, <5>2 DEF MadeAt
      <4>9. CASE schedules[s].invoice # 0
        <5>1. Cardinality(Made(s)) + Cardinality(Inserting(s)) <= Cardinality(Request) + faults BY <4>7, <4>9 DEF MadeAt
        <5>2. Cardinality(Made(s) \cup {n}) + Cardinality(Inserting(s) \ {r}) <= Cardinality(Request) + faults
          BY <1>f, <1>n, <4>4, <4>6, <5>1
        <5> QED BY <4>1, <4>3, <4>7, <4>9, <5>2 DEF MadeAt
      <4> QED BY <4>8, <4>9
    <3> QED BY <3>11, <3>12
  <2> QED BY <2>1, <2>2
<1>8. ASSUME NEW r \in Request, GenLink(r) PROVE MadeAt(s)'
  <2>0. UNCHANGED << invoices, faults >> /\ Stop(r) /\ At(r, "genLink") BY <1>8 DEF GenLink
  <2>1. (\A p \in Request \ {r} : req'[p] = req[p]) /\ req'[r].pc = "idle" BY <1>t, <2>0, Stops
  <2>2. Made(s)' = Made(s) BY <2>0 DEF Made
  <2>3. Inserting(s)' = Inserting(s)
    <3>1. \A p \in Request : At(p, "genInsert")' <=> At(p, "genInsert") BY <2>0, <2>1 DEF At
    <3>2. \A p \in Request : At(p, "genInsert") => req'[p] = req[p] BY <2>0, <2>1 DEF At
    <3> QED BY <3>1, <3>2 DEF Inserting
  <2>4. CASE req[r].at # s \/ req[r].at \notin Live
    <3>1. s \in Live /\ schedules'[s].invoice = schedules[s].invoice
      <4>1. CASE req[r].at \notin Live
        <5>1. UNCHANGED schedules BY <1>8, <4>1 DEF GenLink
        <5> QED BY <5>1 DEF Live
      <4>2. CASE req[r].at \in Live
        <5>1. PICK k : k = req[r].at OBVIOUS
        <5>2. PICK i : i = req[r].total OBVIOUS
        <5>3. k \in DOMAIN schedules /\ i \in Nat BY <1>n, <1>r, <4>2, <5>1, <5>2 DEF RequestRow
        <5>4. schedules' = [schedules EXCEPT ![k].invoice = i, ![k].status = "invoiced"] BY <1>8, <4>2, <5>1, <5>2 DEF GenLink
        <5>5. DOMAIN schedules' = DOMAIN schedules /\ \A j \in DOMAIN schedules \ {k} : schedules'[j] = schedules[j]
          BY <1>t, <5>3, <5>4, RowLinked
        <5>6. s # k BY <2>4, <4>2, <5>1
        <5> QED BY <5>5, <5>6 DEF Live
      <4> QED BY <4>1, <4>2
    <3>2. Linking(s) \subseteq Linking(s)'
      <4>1. req[r].at # s
        <5>1. s \in Live BY <3>1
        <5> QED BY <2>4, <5>1
      <4> QED BY <2>1, <4>1 DEF Linking, At
    <3> QED BY <1>m, <1>t, <2>0, <2>2, <2>3, <3>1, <3>2, MadeKept
  <2>5. CASE req[r].at = s /\ req[r].at \in Live
    <3>1. PICK i : i = req[r].total OBVIOUS
    <3>2. s \in DOMAIN schedules /\ i \in Nat /\ i \in DOMAIN invoices BY <1>t, <1>r, <1>n, <2>0, <2>5, <3>1 DEF Refers, RefersAt
    <3>3. schedules' = [schedules EXCEPT ![s].invoice = i, ![s].status = "invoiced"] BY <1>8, <2>5, <3>1 DEF GenLink
    <3>4. schedules'[s].invoice = i BY <1>t, <3>2, <3>3, RowLinked
    <3>5. i # 0 BY <1>r, <3>2
    <3>6. r \in Linking(s) BY <2>0, <2>5 DEF Linking
    <3>7. Cardinality(Made(s)) + Cardinality(Inserting(s)) <= Cardinality(Request) + faults
      <4>1. MadeAt(s) BY <1>m, <2>5
      <4>2. CASE schedules[s].invoice # 0 BY <4>1, <4>2 DEF MadeAt
      <4>3. CASE schedules[s].invoice = 0
        <5>1. Cardinality(Made(s)) <= Cardinality(Linking(s)) + faults BY <4>1, <4>3 DEF MadeAt
        <5> QED BY <1>f, <1>n, <5>1
      <4> QED BY <4>2, <4>3
    <3> QED BY <2>0, <2>2, <2>3, <3>4, <3>5, <3>7 DEF MadeAt
  <2> QED BY <2>4, <2>5
<1>9. ASSUME NEW r \in Request, AutoInsert(r) \/ Convert(r) PROVE MadeAt(s)'
  <2>0. UNCHANGED << schedules, faults >> /\ req[r].pc \in { "autoInsert", "idle" } BY <1>9 DEF AutoInsert, Convert, At
  <2>1. PICK kind \in Kinds, total \in Nat : Insert(Invoice(kind, 0, total))
    BY <1>t, <1>n, <1>9 DEF AutoInsert, Convert, Kinds, TypeOK, RequestRow
  <2>2. /\ DOMAIN invoices' = 1 .. Len(invoices) + 1
        /\ \A i \in DOMAIN invoices : i \in DOMAIN invoices' /\ invoices'[i] = invoices[i]
        /\ invoices'[Len(invoices) + 1] = Invoice(kind, 0, total) /\ Invoice(kind, 0, total).schedule = 0
    <3>1. 0 \in Nat OBVIOUS
    <3> QED BY <1>t, <2>1, <3>1, InvoiceJoins
  <2>3. s \in Live /\ s # 0 BY <1>r, <2>0 DEF Live
  <2>4. Made(s)' = Made(s)
    <3>1. DOMAIN invoices' = DOMAIN invoices \cup { Len(invoices) + 1 } BY <1>r, <2>2
    <3> QED BY <2>2, <2>3, <3>1 DEF Made
  <2>5. Stop(r) \/ Goto(r, "accept") BY <1>9 DEF AutoInsert, Convert
  <2>6. (\A p \in Request \ {r} : req'[p] = req[p]) /\ req'[r].pc \in { "idle", "accept" }
    <3>1. "accept" \in PCs BY DEF PCs
    <3>2. CASE Stop(r) BY <1>t, <3>2, Stops
    <3>3. CASE Goto(r, "accept") BY <1>t, <3>1, <3>3, Goes
    <3> QED BY <2>5, <3>2, <3>3
  <2>7. req[r].pc \notin { "genInsert", "genLink" } /\ req'[r].pc \notin { "genInsert", "genLink" } BY <2>0, <2>6
  <2> QED BY <1>1, <2>0, <2>3, <2>4, <2>6, <2>7
<1>10. ASSUME NEW r \in Request, Pay(r) PROVE MadeAt(s)'
  <2>0. UNCHANGED << schedules, faults >> /\ At(r, "idle") BY <1>10 DEF Pay
  <2>1. PICK i \in DOMAIN invoices :
          /\ invoices' = [invoices EXCEPT ![i].status = "paid"]
          /\ req' = [req EXCEPT ![r].pc = "paySchedules", ![r].at = i]
    BY <1>10 DEF Pay
  <2>2. DOMAIN invoices' = DOMAIN invoices /\ \A j \in DOMAIN invoices : invoices'[j].schedule = invoices[j].schedule
    BY <1>t, <2>1, InvoicePaid
  <2>3. "paySchedules" \in PCs /\ i \in Nat BY <1>r DEF PCs
  <2>4. (\A p \in Request \ {r} : req'[p] = req[p]) /\ req'[r].pc = "paySchedules" BY <1>t, <2>1, <2>3, Reads
  <2>5. s \in Live /\ Made(s)' = Made(s) BY <2>0, <2>2 DEF Live, Made
  <2> QED BY <1>1, <2>0, <2>4, <2>5 DEF At
<1>11. ASSUME NEW r \in Request, PaySchedules(r) PROVE MadeAt(s)'
  <2>0. UNCHANGED << invoices, faults >> /\ Stop(r) /\ At(r, "paySchedules") BY <1>11 DEF PaySchedules
  <2>1. (\A p \in Request \ {r} : req'[p] = req[p]) /\ req'[r].pc = "idle" BY <1>t, <2>0, Stops
  <2>2. /\ DOMAIN schedules' = DOMAIN schedules
        /\ \A k \in DOMAIN schedules :
             /\ schedules'[k].invoice = schedules[k].invoice
             /\ schedules'[k].status = IF schedules[k].invoice = req[r].at THEN "paid" ELSE schedules[k].status
    BY <1>t, <1>11, RowsPaid
  <2>3. s \in DOMAIN schedules /\ Made(s)' = Made(s) BY <2>0, <2>2 DEF Live, Made
  <2>4. CASE s \in Live BY <1>1, <2>0, <2>1, <2>2, <2>3, <2>4 DEF At
  <2>5. CASE s \notin Live
    <3>1. schedules[s].status = "deleted" /\ schedules'[s].status # "deleted" BY <2>3, <2>5 DEF Live
    <3>2. schedules[s].invoice = req[r].at BY <2>2, <2>3, <3>1
    <3>3. req[r].at # 0 BY <1>t, <1>r, <2>0 DEF Refers, RefersAt
    <3>4. schedules[s].invoice = 0 BY <2>3, <3>1 DEF Truth, TruthAt
    <3> QED BY <3>2, <3>3, <3>4
  <2> QED BY <2>4, <2>5
<1>12. ASSUME NEW r \in Request, Die(r) PROVE MadeAt(s)'
  <2>0. UNCHANGED << schedules, invoices >> /\ Stop(r) /\ faults' = faults + 1 BY <1>12 DEF Die, Fault
  <2>1. (\A p \in Request \ {r} : req'[p] = req[p]) /\ req'[r].pc = "idle" BY <1>t, <2>0, Stops
  <2>2. s \in Live /\ Made(s)' = Made(s) /\ schedules'[s].invoice = schedules[s].invoice BY <2>0 DEF Live, Made
  <2>3. PICK k : k = Linking(s)' OBVIOUS
  <2>4. PICK n : n = Inserting(s)' OBVIOUS
  <2>5. Linking(s) \ {r} \subseteq k /\ k \subseteq Linking(s) BY <2>1, <2>3 DEF Linking, At
  <2>6. n \subseteq Inserting(s) BY <2>1, <2>4 DEF Inserting, At
  <2>7. IsFiniteSet(k) /\ Cardinality(k) \in Nat BY <1>f, <2>5, FS_Subset, FS_CardinalityType
  <2>8. Cardinality(n) \in Nat /\ Cardinality(n) <= Cardinality(Inserting(s)) BY <1>f, <2>6, FS_Subset, FS_CardinalityType
  <2>9. Cardinality(Linking(s)) <= Cardinality(k) + 1
    <3>1. IsFiniteSet(k \cup {r}) /\ Cardinality(k \cup {r}) <= Cardinality(k) + 1
      <4>1. CASE r \in k
        <5>1. k \cup {r} = k BY <4>1
        <5> QED BY <2>7, <5>1
      <4>2. CASE r \notin k
        <5>1. IsFiniteSet(k \cup {r}) /\ Cardinality(k \cup {r}) = Cardinality(k) + 1 BY <2>7, <4>2, FS_AddElement, Zenon
        <5> QED BY <2>7, <5>1
      <4> QED BY <4>1, <4>2
    <3>2. Linking(s) \subseteq k \cup {r} BY <2>5
    <3>3. Cardinality(Linking(s)) <= Cardinality(k \cup {r}) BY <3>1, <3>2, FS_Subset
    <3>4. Cardinality(k \cup {r}) \in Nat BY <3>1, FS_CardinalityType
    <3> QED BY <1>f, <2>7, <3>1, <3>3, <3>4
  <2>10. CASE schedules[s].invoice = 0
    <3>1. Cardinality(Made(s)) <= Cardinality(Linking(s)) + faults BY <1>m, <2>2, <2>10 DEF MadeAt
    <3>2. Cardinality(Made(s)) <= Cardinality(k) + (faults + 1) BY <1>f, <1>n, <2>7, <2>9, <3>1
    <3> QED BY <2>0, <2>2, <2>3, <2>10, <3>2 DEF MadeAt
  <2>11. CASE schedules[s].invoice # 0
    <3>1. Cardinality(Made(s)) + Cardinality(Inserting(s)) <= Cardinality(Request) + faults BY <1>m, <2>2, <2>11 DEF MadeAt
    <3>2. Cardinality(Made(s)) + Cardinality(n) <= Cardinality(Request) + (faults + 1) BY <1>f, <1>n, <2>8, <3>1
    <3> QED BY <2>0, <2>2, <2>4, <2>11, <3>2 DEF MadeAt
  <2> QED BY <2>10, <2>11
\* The remaining steps, as <1>3 has them.
<1>13. ASSUME NEW r \in Request, PutPlan(r) \/ PatchJob(r) \/ Complete(r) \/ AutoQuote(r) PROVE MadeAt(s)'
  <2>1. UNCHANGED << schedules, invoices, faults >> BY <1>13 DEF PutPlan, PatchJob, Complete, AutoQuote
  <2>2. req[r].pc \in { "idle", "complete", "autoQuote" } BY <1>13 DEF PutPlan, PatchJob, Complete, AutoQuote, At
  <2>3. \E pc \in { "planDelete", "reopen", "rewrite", "complete", "autoInvoices", "autoInsert" } : Stop(r) \/ Goto(r, pc)
    BY <1>13, Zenon DEF PutPlan, PatchJob, Complete, AutoQuote
  <2>4. PICK pc \in { "planDelete", "reopen", "rewrite", "complete", "autoInvoices", "autoInsert" } : Stop(r) \/ Goto(r, pc)
    BY <2>3
  <2>5. pc \in PCs \ { "genInsert", "genLink" } /\ req[r].pc \notin { "genInsert", "genLink" } BY <2>2 DEF PCs
  <2> QED BY <1>3, <2>1, <2>4, <2>5
<1>14. ASSUME NEW r \in Request, Reopen(r) \/ Rewrite(r) \/ ConvertAccept(r) PROVE MadeAt(s)'
  <2>1. UNCHANGED << schedules, invoices, faults >> /\ Stop(r) BY <1>14 DEF Reopen, Rewrite, ConvertAccept
  <2>2. req[r].pc \notin { "genInsert", "genLink" } BY <1>14 DEF Reopen, Rewrite, ConvertAccept, At
  <2>3. "idle" \in PCs \ { "genInsert", "genLink" } BY DEF PCs
  <2> QED BY <1>3, <2>1, <2>2, <2>3
<1>15. ASSUME NEW r \in Request, AutoInvoices(r) PROVE MadeAt(s)'
  <2>0. UNCHANGED << schedules, invoices, faults >> /\ At(r, "autoInvoices") BY <1>15 DEF AutoInvoices
  <2>1. (\A p \in Request \ {r} : req'[p] = req[p]) /\ req'[r].pc \in { "idle", "autoQuote" }
    <3>1. CASE Stop(r) BY <1>t, <3>1, Stops
    <3>2. CASE ~Stop(r)
      <4>1. PICK balance : req' = [req EXCEPT ![r] = [pc |-> "autoQuote", at |-> 0, total |-> balance, seen |-> Len(invoices)]]
        BY <1>15, <3>2, Zenon DEF AutoInvoices
      <4>2. req \in [Request -> RequestRow] BY <1>t DEF TypeOK
      <4> QED BY <4>1, <4>2
    <3> QED BY <3>1, <3>2
  <2>2. s \in Live /\ Made(s)' = Made(s) /\ schedules'[s].invoice = schedules[s].invoice BY <2>0 DEF Live, Made
  <2>3. req[r].pc \notin { "genInsert", "genLink" } /\ req'[r].pc \notin { "genInsert", "genLink" } BY <2>0, <2>1 DEF At
  <2> QED BY <1>1, <2>0, <2>1, <2>2, <2>3
<1> QED
  BY <1>2, <1>4, <1>5, <1>6, <1>7, <1>8, <1>9, <1>10, <1>11, <1>12, <1>13, <1>14, <1>15
  DEF Next, Plan, Generate, Patch, Payment, Conversion

\* DuplicatesBounded: a schedule row is billed twice, and a job invoiced twice, only by requests that
\* overlap or die halfway: once for each, however often they are repeated.
THEOREM DuplicatesCorrect == Spec => []DuplicatesBounded
<1>1. Init => TypeInv /\ Truth /\ MadeInv /\ AutosInv BY TypeInit, TruthInit, MadeInit, AutosInit
<1>2. TypeInv /\ Truth /\ MadeInv /\ AutosInv /\ [Next]_vars => TypeInv' /\ Truth' /\ MadeInv' /\ AutosInv'
  BY TypeStep, TruthStep, MadeStep, AutosStep
<1>3. TypeInv /\ MadeInv /\ AutosInv => DuplicatesBounded
  <2> SUFFICES ASSUME TypeInv, MadeInv, AutosInv PROVE DuplicatesBounded OBVIOUS
  <2>1. ASSUME NEW s \in Live PROVE Cardinality(Made(s)) <= Cardinality(Request) + faults
    <3>1. MadeAt(s) BY DEF MadeInv
    <3>2. /\ Cardinality(Made(s)) \in Nat /\ Cardinality(Inserting(s)) \in Nat /\ Cardinality(Linking(s)) \in Nat
          /\ Cardinality(Request) \in Nat /\ Cardinality(Inserting(s)) + Cardinality(Linking(s)) <= Cardinality(Request)
      BY MadeFinite
    <3>3. faults \in Nat BY DEF TypeInv, TypeOK
    <3>4. CASE schedules[s].invoice = 0
      <4>1. Cardinality(Made(s)) <= Cardinality(Linking(s)) + faults BY <3>1, <3>4 DEF MadeAt
      <4> QED BY <3>2, <3>3, <4>1
    <3>5. CASE schedules[s].invoice # 0
      <4>1. Cardinality(Made(s)) + Cardinality(Inserting(s)) <= Cardinality(Request) + faults BY <3>1, <3>5 DEF MadeAt
      <4> QED BY <3>2, <3>3, <4>1
    <3> QED BY <3>4, <3>5
  <2>2. autos <= Cardinality(Request)
    <3>1. autos + Cardinality(Autoing) <= Cardinality(Request) BY DEF AutosInv
    <3>2. Autoing \subseteq Request BY DEF Autoing
    <3>3. Cardinality(Autoing) \in Nat /\ Cardinality(Request) \in Nat BY <3>2, BillingAssumption, FS_Subset, FS_CardinalityType
    <3>4. autos \in Nat BY DEF TypeInv, TypeOK
    <3> QED BY <3>1, <3>3, <3>4
  <2> QED BY <2>1, <2>2 DEF DuplicatesBounded, Made
<1> QED BY <1>1, <1>2, <1>3, PTL DEF Spec

-----------------------------------------------------------------------------
(* What the rows of a plan come to.                                        *)

\* 100 and one of the rates of VAT there are.
Factors == { 100, 105, 120 }

\* A row's share is rounded without VAT, and its invoice with it.  In hundredths of a penny
\* they differ by at most 100, 102.5 or 110 at the three rates, and by a multiple of 100,
\* 5 or 20: by a penny at most.
LEMMA RowRounds ==
  ASSUME NEW a \in Nat, NEW V \in Factors,
         NEW c \in Roundings(a, 100), NEW t \in Roundings(a * V, 10000)
  PROVE  /\ 100 * t <= V * c + 100 /\ V * c <= 100 * t + 100
         /\ 10000 * t <= V * a + 5000
<1>1. a * V \in Nat BY DEF Factors
<1>2. t \in Nat /\ c \in Nat BY <1>1, RoundingsNat
<1>3. /\ 2 * a <= (2 * c + 1) * 100 /\ 2 * c * 100 <= 2 * a + 100
      /\ 2 * (a * V) <= (2 * t + 1) * 10000 /\ 2 * t * 10000 <= 2 * (a * V) + 10000
  BY DEF Roundings
<1>4. CASE V = 100 BY <1>2, <1>3, <1>4
<1>5. CASE V = 105 BY <1>2, <1>3, <1>5
<1>6. CASE V = 120 BY <1>2, <1>3, <1>6
<1> QED BY <1>4, <1>5, <1>6 DEF Factors

\* The final row, and the quote: to the penny.
LEMMA VatRounds ==
  ASSUME NEW p \in Nat, NEW vat \in { 0, 5, 20 }, NEW t \in WithVat(p, vat)
  PROVE  t \in Nat /\ 100 * t <= (100 + vat) * p + 50 /\ (100 + vat) * p <= 100 * t + 50
<1>1. p * (100 + vat) \in Nat OBVIOUS
<1>2. t \in Nat BY <1>1, RoundingsNat DEF WithVat
<1>3. 2 * (p * (100 + vat)) <= (2 * t + 1) * 100 /\ 2 * t * 100 <= 2 * (p * (100 + vat)) + 100
  BY DEF WithVat, Roundings
<1>4. CASE vat = 0 BY <1>2, <1>3, <1>4
<1>5. CASE vat = 5 BY <1>2, <1>3, <1>5
<1>6. CASE vat = 20 BY <1>2, <1>3, <1>6
<1> QED BY <1>4, <1>5, <1>6

\* What each of some rows asks for, in percent.
Percents(seq) == [i \in DOMAIN seq |-> seq[i].percent]


\* Amounts of the invoices for the rows of a plan.
PricedBy(t, seq, subtotal, V) == \A i \in DOMAIN seq : t[i] \in Roundings((seq[i].percent * subtotal) * V, 10000)

\* How far n invoices of S pence may be from x pence taken of a subtotal, and from what
\* the rows asked for of it, with VAT.
Close(S, x, share, n, V) ==
  /\ 100 * S <= V * x + 100 * n /\ V * x <= 100 * S + 100 * n
  /\ 10000 * S <= V * share + 5000 * n

LEMMA CloseStep ==
  ASSUME NEW V \in Factors, NEW S \in Nat, NEW x \in Nat, NEW share \in Nat, NEW n \in Nat,
         Close(S, x, share, n, V),
         NEW a \in Nat, NEW r \in Roundings(a, 100), NEW t \in Roundings(a * V, 10000)
  PROVE  Close(t + S, x + r, a + share, n + 1, V)
<1>1. r \in Nat /\ t \in Nat
  <2>1. a * V \in Nat BY DEF Factors
  <2> QED BY <2>1, RoundingsNat
<1>2. /\ 100 * t <= V * r + 100 /\ V * r <= 100 * t + 100
      /\ 10000 * t <= V * a + 5000
  BY RowRounds
<1>3. /\ 100 * S <= V * x + 100 * n /\ V * x <= 100 * S + 100 * n
      /\ 10000 * S <= V * share + 5000 * n
  BY DEF Close
<1>4. CASE V = 100 BY <1>1, <1>2, <1>3, <1>4 DEF Close
<1>5. CASE V = 105 BY <1>1, <1>2, <1>3, <1>5 DEF Close
<1>6. CASE V = 120 BY <1>1, <1>2, <1>3, <1>6 DEF Close
<1> QED BY <1>4, <1>5, <1>6 DEF Factors

\* What row i asks for of the subtotal.
Share(seq, subtotal, i) == seq[i].percent * subtotal

\* Invoices for the rows of a plan, by what these rows take of the subtotal and by what
\* they ask for.
LEMMA RowsRound ==
  ASSUME NEW seq \in Seq(PlanRow), NEW subtotal \in Nat, NEW V \in Factors,
         NEW t, PricedBy(t, seq, subtotal, V), NEW c \in Consumed(seq, subtotal)
  PROVE  /\ SumFunctionOnSet(t, DOMAIN seq) \in Nat /\ c \in Nat /\ Asked(seq) \in Nat
         /\ Close(SumFunctionOnSet(t, DOMAIN seq), c, subtotal * Asked(seq), Len(seq), V)
<1> DEFINE D == DOMAIN seq
           sum(s) == SumFunctionOnSet(t, s)
           ask(s) == SumFunctionOnSet(Percents(seq), s)
           Good(s, x) == Close(sum(s), x, subtotal * ask(s), Cardinality(s), V)
<1>1. D = 1 .. Len(seq) /\ Len(seq) \in Nat BY LenProperties
<1>2. IsFiniteSet(D) /\ Cardinality(D) = Len(seq)
  <2>1. PICK m \in Nat : m = Len(seq) BY <1>1
  <2>2. 1 \in Int /\ m \in Int OBVIOUS
  <2>3. IsFiniteSet(1 .. m) /\ Cardinality(1 .. m) = IF 1 > m THEN 0 ELSE m - 1 + 1 BY <2>2, FS_Interval, Zenon
  <2>4. Cardinality(1 .. m) = m BY <2>1, <2>3
  <2> QED BY <1>1, <2>1, <2>3, <2>4
<1>3. \A i \in D : seq[i].percent \in Nat /\ Percents(seq)[i] = seq[i].percent
  <2>1. \A i \in D : seq[i] \in PlanRow BY LenProperties
  <2> QED BY <2>1, PercentIsNat DEF Percents
<1>4. \A i \in D : Share(seq, subtotal, i) \in Nat BY <1>3 DEF Share
<1>5. \A i \in D : t[i] \in Roundings(Share(seq, subtotal, i) * V, 10000) BY DEF PricedBy, Share
<1>6. \A i \in D : t[i] \in Nat
  <2> SUFFICES ASSUME NEW i \in D PROVE t[i] \in Nat OBVIOUS
  <2>1. PICK a \in Nat : a = Share(seq, subtotal, i) BY <1>4
  <2>2. a * V \in Nat BY DEF Factors
  <2>3. Roundings(a * V, 10000) \subseteq Nat BY <2>2, RoundingsNat
  <2> QED BY <1>5, <2>1, <2>3
<1>7. \A s \in SUBSET D : IsFiniteSet(s) /\ Cardinality(s) \in Nat BY <1>2, FS_Subset, FS_CardinalityType
<1>8. \A s \in SUBSET D : sum(s) \in Nat /\ ask(s) \in Nat
  <2> SUFFICES ASSUME NEW s \in SUBSET D PROVE sum(s) \in Nat /\ ask(s) \in Nat OBVIOUS
  <2>1. IsFiniteSet(s) /\ (\A i \in s : t[i] \in Nat) /\ (\A i \in s : Percents(seq)[i] \in Nat) BY <1>3, <1>6, <1>7
  <2> QED BY <2>1, SumIsNat
<1>9. PICK it : Consumed(seq, subtotal) = it[D] /\ TakenBy(it, seq, subtotal) BY ConsumedIs
<1>10. PICK good : good = { s \in SUBSET D : \A x \in it[s] : Good(s, x) } OBVIOUS
<1>11. {} \in good
  <2>1. it[{}] = {0} BY <1>9 DEF TakenBy
  <2>2. sum({}) = 0 /\ ask({}) = 0 /\ Cardinality({}) = 0 BY SumPicks, FS_EmptySet
  <2>3. Close(0, 0, 0, 0, V) BY DEF Close, Factors
  <2>4. subtotal * 0 = 0 OBVIOUS
  <2>5. Good({}, 0)
    <3> HIDE DEF sum, ask
    <3> QED BY <2>2, <2>3, <2>4
  <2> HIDE DEF Good
  <2> QED BY <1>10, <2>1, <2>5
<1>12. ASSUME NEW s \in SUBSET D, NEW i \in s, s \ {i} \in good,
              it[s] = Sums(it[s \ {i}], Roundings(Share(seq, subtotal, i), 100))
       PROVE  s \in good
  <2> SUFFICES ASSUME NEW x \in it[s] PROVE Good(s, x)
    <3> HIDE DEF Good
    <3> QED BY <1>10
  <2>1. PICK y \in it[s \ {i}], r \in Roundings(Share(seq, subtotal, i), 100) : x = y + r
    <3>1. PICK taken, more : taken = it[s \ {i}] /\ more = Roundings(Share(seq, subtotal, i), 100) OBVIOUS
    <3>2. x \in Sums(taken, more) BY <1>12, <3>1
    <3>3. \E y \in taken, r \in more : x = y + r BY <3>2 DEF Sums
    <3> QED BY <3>1, <3>3
  <2>2. PICK a \in Nat : a = Share(seq, subtotal, i) BY <1>4
  <2>3. s \ {i} \in SUBSET D OBVIOUS
  <2>4. Good(s \ {i}, y)
    <3> HIDE DEF Good
    <3> QED BY <1>10, <1>12, <2>1
  <2>5. y \in Nat BY <1>9, <2>1, <2>3 DEF TakenBy
  <2>6. PICK S1 \in Nat, A1 \in Nat, n1 \in Nat :
          S1 = sum(s \ {i}) /\ A1 = ask(s \ {i}) /\ n1 = Cardinality(s \ {i})
    <3>1. sum(s \ {i}) \in Nat /\ ask(s \ {i}) \in Nat /\ Cardinality(s \ {i}) \in Nat BY <1>7, <1>8, <2>3
    <3> HIDE DEF sum, ask
    <3> QED BY <3>1
  <2>7. sum(s) = t[i] + S1
    <3>1. IsFiniteSet(s) /\ \A k \in s : t[k] \in Nat BY <1>6, <1>7
    <3>2. sum(s) = t[i] + sum(s \ {i}) BY <3>1, SumTakes
    <3> HIDE DEF sum
    <3> QED BY <2>6, <3>2
  <2>8. ask(s) = seq[i].percent + A1
    <3>1. IsFiniteSet(s) /\ \A k \in s : Percents(seq)[k] \in Nat BY <1>3, <1>7
    <3>2. ask(s) = Percents(seq)[i] + ask(s \ {i}) BY <3>1, SumTakes
    <3>3. Percents(seq)[i] = seq[i].percent BY <1>3
    <3> HIDE DEF ask
    <3> QED BY <2>6, <3>2, <3>3
  <2>9. Cardinality(s) = n1 + 1
    <3>1. Cardinality(s \ {i}) = Cardinality(s) - 1 BY <1>7, FS_RemoveElement
    <3> QED BY <1>7, <2>6, <3>1
  <2>10. subtotal * ask(s) = a + subtotal * A1
    <3>1. PICK p \in Nat : p = seq[i].percent BY <1>3
    <3>2. subtotal * (p + A1) = p * subtotal + subtotal * A1 OBVIOUS
    <3>3. a = p * subtotal BY <2>2, <3>1 DEF Share
    <3> HIDE DEF ask
    <3> QED BY <2>8, <3>1, <3>2, <3>3
  <2>11. PICK B \in Nat : B = subtotal * A1 OBVIOUS
  <2>12. Close(S1, y, B, n1, V)
    <3> HIDE DEF sum, ask
    <3> QED BY <2>4, <2>6, <2>11
  <2>13. Close(t[i] + S1, y + r, a + B, n1 + 1, V)
    <3>1. r \in Roundings(a, 100) BY <2>1, <2>2
    <3>2. t[i] \in Roundings(a * V, 10000) BY <1>5, <2>2
    <3>3. PICK ti : ti = t[i] OBVIOUS
    <3>4. Close(ti + S1, y + r, a + B, n1 + 1, V)
      <4>1. ti \in Roundings(a * V, 10000) BY <3>2, <3>3
      <4>2. /\ V \in Factors /\ S1 \in Nat /\ y \in Nat /\ B \in Nat /\ n1 \in Nat /\ a \in Nat
            /\ Close(S1, y, B, n1, V) /\ r \in Roundings(a, 100) /\ ti \in Roundings(a * V, 10000)
        BY <2>5, <2>12, <3>1, <4>1
      <4> QED BY <4>2, CloseStep
    <3> QED BY <3>3, <3>4
  <2>14. subtotal * ask(s) = a + B BY <2>10, <2>11
  <2> HIDE DEF sum, ask
  <2> QED BY <2>1, <2>7, <2>9, <2>13, <2>14
<1>13. PICK pick : pick = [s \in SUBSET D |->
         CHOOSE i \in s : it[s] = Sums(it[s \ {i}], Roundings(Share(seq, subtotal, i), 100))]
  OBVIOUS
<1>14. \A s \in SUBSET D : s # {} => pick[s] \in s /\ (s \ {pick[s]} \in good => s \in good)
  <2> SUFFICES ASSUME NEW s \in SUBSET D, s # {}
               PROVE  pick[s] \in s /\ (s \ {pick[s]} \in good => s \in good)
    OBVIOUS
  <2>1. \E i \in s : it[s] = Sums(it[s \ {i}], Roundings(Share(seq, subtotal, i), 100))
    BY <1>9 DEF TakenBy, Share
  <2>2. pick[s] = CHOOSE i \in s : it[s] = Sums(it[s \ {i}], Roundings(Share(seq, subtotal, i), 100)) BY <1>13
  <2>3. pick[s] \in s /\ it[s] = Sums(it[s \ {pick[s]}], Roundings(Share(seq, subtotal, pick[s]), 100))
    BY <2>1, <2>2, Zenon
  <2> QED BY <1>12, <2>3
<1>15. D \in good
  <2>1. IsFiniteSet(D) BY <1>2
  <2> HIDE DEF D
  <2> QED BY <2>1, <1>11, <1>14, FoldInduction, Zenon
<1>16. Good(D, c)
  <2> HIDE DEF Good
  <2> QED BY <1>9, <1>10, <1>15
<1>17. c \in Nat BY <1>9 DEF TakenBy
<1>18. sum(D) \in Nat /\ ask(D) \in Nat BY <1>8
<1>19. sum(D) = SumFunctionOnSet(t, DOMAIN seq) /\ ask(D) = Asked(seq) BY DEF Asked, Percents
<1> HIDE DEF sum, ask
<1> QED BY <1>2, <1>16, <1>17, <1>18, <1>19

\* The whole of a plan whose rows take the subtotal to the penny, and of one with a final row.
LEMMA WholeRounds ==
  ASSUME NEW V \in Factors, NEW S \in Nat, NEW subtotal \in Nat, NEW share \in Nat, NEW n \in Nat,
         Close(S, subtotal, share, n, V),
         NEW total \in Nat, 100 * total <= V * subtotal + 50, V * subtotal <= 100 * total + 50
  PROVE  S <= total + n /\ total <= S + n
<1>1. 100 * S <= V * subtotal + 100 * n /\ V * subtotal <= 100 * S + 100 * n BY DEF Close
<1>2. CASE V = 100 BY <1>1, <1>2
<1>3. CASE V = 105 BY <1>1, <1>3
<1>4. CASE V = 120 BY <1>1, <1>4
<1> QED BY <1>2, <1>3, <1>4 DEF Factors

LEMMA FinalRounds ==
  ASSUME NEW V \in Factors, NEW S \in Nat, NEW c \in Nat, NEW subtotal \in Nat, NEW share \in Nat, NEW n \in Nat,
         Close(S, c, share, n, V), share <= 100 * subtotal,
         NEW total \in Nat, 100 * total <= V * subtotal + 50, V * subtotal <= 100 * total + 50,
         NEW fixed \in Nat, fixed = IF c > subtotal THEN 0 ELSE subtotal - c,
         NEW final \in Nat, 100 * final <= V * fixed + 50, V * fixed <= 100 * final + 50
  PROVE  final + S <= total + (n + 1) /\ total <= (final + S) + (n + 1)
<1>1. /\ 100 * S <= V * c + 100 * n /\ V * c <= 100 * S + 100 * n
      /\ 10000 * S <= V * share + 5000 * n
  BY DEF Close
<1>2. CASE V = 100 BY <1>1, <1>2
<1>3. CASE V = 105 BY <1>1, <1>3
<1>4. CASE V = 120 BY <1>1, <1>4
<1> QED BY <1>2, <1>3, <1>4 DEF Factors

\* The invoices for all the rows of a plan come to the quote's total, to a penny for each.
LEMMA PlanRounds ==
  ASSUME NEW plan \in Plans, Asked(PercentRows(plan)) <= 100,
         NEW q, NEW subtotal \in Nat, q.subtotal = subtotal, NEW vat \in { 0, 5, 20 }, q.vat = vat,
         NEW total \in WithVat(subtotal, vat), NEW drafts \in ScheduleRows(plan, subtotal),
         NEW t, \A j \in DOMAIN drafts : t[j] \in InvoiceTotals(drafts[j], q)
  PROVE  /\ SumFunctionOnSet(t, DOMAIN drafts) <= total + Len(drafts)
         /\ total <= SumFunctionOnSet(t, DOMAIN drafts) + Len(drafts)
<1>1. PICK seq : seq = PercentRows(plan) OBVIOUS
<1>2. PICK c \in Consumed(seq, subtotal) : drafts = seq \o FinalRow(subtotal, c) BY <1>1 DEF ScheduleRows
<1>3. seq \in Seq(AskedRow) BY <1>1, PercentRowsAsk
<1>4. \A row \in AskedRow : row \in PlanRow /\ row.percent > 0 BY DEF AskedRow
<1>5. seq \in Seq(PlanRow) BY <1>1, PercentRowsType
<1>6. DOMAIN seq = 1 .. Len(seq) /\ Len(seq) \in Nat BY <1>3, LenProperties
<1>7. PICK V : V = 100 + vat OBVIOUS
<1>8. V \in Factors BY <1>7 DEF Factors
<1>9. \A j \in DOMAIN seq : j \in DOMAIN drafts /\ drafts[j] = seq[j]
  <2>1. \E rest : FinalRow(subtotal, c) \in { << >>, << rest >> }
    BY Zenon DEF FinalRow
  <2>2. PICK rest : FinalRow(subtotal, c) = << >> \/ FinalRow(subtotal, c) = << rest >> BY <2>1
  <2>3. CASE FinalRow(subtotal, c) = << >> BY <1>2, <1>3, <1>6, <2>3
  <2>4. CASE FinalRow(subtotal, c) = << rest >> BY <1>2, <1>3, <1>6, <2>4
  <2> QED BY <2>2, <2>3, <2>4
<1>10. PricedBy(t, seq, subtotal, V)
  <2> SUFFICES ASSUME NEW j \in DOMAIN seq PROVE t[j] \in Roundings((seq[j].percent * subtotal) * V, 10000)
    BY DEF PricedBy
  <2>1. seq[j] \in AskedRow BY <1>3, <1>6
  <2>2. seq[j].percent > 0 BY <1>4, <2>1
  <2>3. t[j] \in InvoiceTotals(seq[j], q) BY <1>9
  <2>4. t[j] \in Roundings(subtotal * seq[j].percent * V, 10000) BY <1>7, <2>2, <2>3 DEF InvoiceTotals
  <2>5. seq[j].percent \in Nat BY <1>4, <2>1, PercentIsNat
  <2>6. subtotal * seq[j].percent = seq[j].percent * subtotal BY <2>5
  <2>7. PICK a : a = subtotal * seq[j].percent OBVIOUS
  <2>8. t[j] \in Roundings(a * V, 10000) BY <2>4, <2>7
  <2>9. a = seq[j].percent * subtotal BY <2>6, <2>7
  <2> QED BY <2>8, <2>9
<1>11. PICK S : S = SumFunctionOnSet(t, DOMAIN seq) OBVIOUS
<1>12. /\ S \in Nat /\ c \in Nat /\ Asked(seq) \in Nat
       /\ Close(S, c, subtotal * Asked(seq), Len(seq), V)
  BY <1>5, <1>8, <1>10, <1>11, RowsRound
<1>13. PICK share \in Nat : share = subtotal * Asked(seq) BY <1>12
<1>14. share <= 100 * subtotal
  <2>1. PICK A \in Nat : A = Asked(seq) BY <1>12
  <2>2. A <= 100 BY <1>1, <2>1
  <2>3. subtotal * A <= subtotal * 100 BY <2>2
  <2> QED BY <1>13, <2>1, <2>3
<1>15. Close(S, c, share, Len(seq), V) BY <1>12, <1>13
<1>16. total \in Nat /\ 100 * total <= V * subtotal + 50 /\ V * subtotal <= 100 * total + 50
  BY <1>7, VatRounds
<1>17. CASE c = subtotal
  <2>1. drafts = seq BY <1>2, <1>3, <1>17 DEF FinalRow
  <2>2. S <= total + Len(seq) /\ total <= S + Len(seq)
    <3>1. Close(S, subtotal, share, Len(seq), V) BY <1>15, <1>17
    <3> QED BY <1>6, <1>8, <1>12, <1>16, <3>1, WholeRounds
  <2> QED BY <1>11, <2>1, <2>2
<1>18. CASE c # subtotal
  <2>1. PICK fixed : fixed = IF c > subtotal THEN 0 ELSE subtotal - c OBVIOUS
  <2>2. fixed \in Nat BY <1>12, <2>1
  <2>3. PICK last : last = [kind |-> "final", percent |-> 0, fixed |-> fixed] OBVIOUS
  <2>4. drafts = seq \o << last >> BY <1>2, <1>18, <2>1, <2>3 DEF FinalRow
  <2>5. PICK n \in Nat : n = Len(seq) BY <1>6
  <2>6. Len(drafts) = n + 1 /\ DOMAIN drafts = 1 .. n + 1 /\ drafts[n + 1] = last
    BY <1>3, <2>4, <2>5
  <2>7. PICK final : final = t[n + 1] OBVIOUS
  <2>8. final \in Nat /\ 100 * final <= V * fixed + 50 /\ V * fixed <= 100 * final + 50
    <3>1. n + 1 \in DOMAIN drafts BY <2>6
    <3>2. final \in InvoiceTotals(last, q) BY <2>6, <2>7, <3>1
    <3>3. final \in WithVat(fixed, vat) BY <2>3, <3>2 DEF InvoiceTotals
    <3> QED BY <1>7, <2>2, <3>3, VatRounds
  <2>9. SumFunctionOnSet(t, DOMAIN drafts) = final + S
    <3>1. \A j \in DOMAIN drafts : t[j] \in Nat
      <4>1. ASSUME NEW j \in DOMAIN drafts, j # n + 1 PROVE t[j] \in Nat
        <5>1. j \in DOMAIN seq BY <1>6, <2>5, <2>6, <4>1
        <5>2. PICK a \in Nat : a = seq[j].percent * subtotal
          <6>1. seq[j] \in PlanRow BY <1>5, <5>1
          <6> QED BY <6>1, PercentIsNat
        <5>3. t[j] \in Roundings(a * V, 10000) BY <1>10, <5>1, <5>2 DEF PricedBy
        <5>4. a * V \in Nat BY <1>8 DEF Factors
        <5> QED BY <5>3, <5>4, RoundingsNat
      <4> QED BY <2>7, <2>8, <4>1
    <3>2. IsFiniteSet(DOMAIN drafts)
      <4>1. 1 \in Int /\ n + 1 \in Int OBVIOUS
      <4>2. IsFiniteSet(1 .. n + 1) BY <4>1, FS_Interval, Zenon
      <4> QED BY <2>6, <4>2
    <3>3. n + 1 \in DOMAIN drafts /\ DOMAIN drafts \ {n + 1} = DOMAIN seq BY <1>6, <2>5, <2>6
    <3>4. SumFunctionOnSet(t, DOMAIN drafts) = t[n + 1] + SumFunctionOnSet(t, DOMAIN drafts \ {n + 1})
      BY <3>1, <3>2, <3>3, SumTakes
    <3> QED BY <1>11, <2>7, <3>3, <3>4
  <2>10. final + S <= total + (n + 1) /\ total <= (final + S) + (n + 1)
    <3>1. Close(S, c, share, n, V) BY <1>15, <2>5
    <3> QED BY <1>8, <1>12, <1>14, <1>16, <2>1, <2>2, <2>8, <3>1, FinalRounds
  <2> QED BY <2>6, <2>9, <2>10
<1> QED BY <1>17, <1>18

-----------------------------------------------------------------------------
(* What has been invoiced for a plan.                                      *)

\* What becomes of the rows there are, and where new ones come from.
LEMMA RowsStep ==
  ASSUME TypeInv, Truth, [Next]_vars
  PROVE  /\ Len(schedules') >= Len(schedules)
         /\ \A s \in DOMAIN schedules : s \in DOMAIN schedules' /\ RowKept(s)
         /\ \/ DOMAIN schedules' = DOMAIN schedules
            \/ \E plan \in Plans : \E drafts \in ScheduleRows(plan, quote.subtotal) :
                 schedules' = schedules \o Fresh(drafts, Len(schedules))
<1>t. TypeOK /\ Refers BY DEF TypeInv
<1>r. /\ DOMAIN schedules = 1 .. Len(schedules) /\ Len(schedules) \in Nat
      /\ \A s \in DOMAIN schedules : schedules[s] \in ScheduleRow
      /\ Live \subseteq DOMAIN schedules
  BY <1>t, Rows
<1>1. \/ UNCHANGED schedules
      \/ \E r \in Request : PlanDelete(r) \/ PaySchedules(r)
      \/ \E r \in Request : GenLink(r)
      \/ \E plan \in Plans : \E drafts \in ScheduleRows(plan, quote.subtotal) :
           schedules' = schedules \o Fresh(drafts, Len(schedules))
  BY DEF Next, vars, Accept, Plan, PutPlan, PlanInsert, Generate, Select, GenInsert, Patch,
         PatchJob, Reopen, Rewrite, Complete, AutoInvoices, AutoQuote, AutoInsert, Payment, Pay,
         Conversion, Convert, ConvertAccept, Die
<1>2. CASE UNCHANGED schedules BY <1>r, <1>2 DEF RowKept, Live
<1>3. ASSUME NEW r \in Request, PlanDelete(r) PROVE DOMAIN schedules' = DOMAIN schedules /\ Len(schedules') = Len(schedules)
                                                      /\ \A s \in DOMAIN schedules : RowKept(s)
  <2>1. /\ Len(schedules') = Len(schedules) /\ DOMAIN schedules' = DOMAIN schedules
        /\ \A s \in DOMAIN schedules : schedules'[s] = IF s \in Planned THEN Deleted ELSE schedules[s]
    BY <1>t, <1>3, RowsDeleted
  <2> QED BY <2>1 DEF RowKept, Live
<1>4. ASSUME NEW r \in Request, PaySchedules(r) PROVE DOMAIN schedules' = DOMAIN schedules /\ Len(schedules') = Len(schedules)
                                                        /\ \A s \in DOMAIN schedules : RowKept(s)
  <2>1. /\ Len(schedules') = Len(schedules) /\ DOMAIN schedules' = DOMAIN schedules
        /\ \A s \in DOMAIN schedules :
             schedules'[s].status = IF schedules[s].invoice = req[r].at THEN "paid" ELSE schedules[s].status
    BY <1>t, <1>4, RowsPaid
  <2>2. req[r].at # 0
    <3>1. req[r].at \in DOMAIN invoices BY <1>t, <1>4 DEF Refers, RefersAt, PaySchedules
    <3> QED BY <1>t, <3>1, Rows
  <2>3. ASSUME NEW s \in DOMAIN schedules PROVE RowKept(s)
    <3>1. schedules'[s] = IF schedules[s].invoice = req[r].at THEN [schedules[s] EXCEPT !.status = "paid"] ELSE schedules[s]
      BY <1>4 DEF PaySchedules
    <3>2. schedules[s] \in ScheduleRow BY <1>r
    <3>3. PICK paid : paid = [schedules[s] EXCEPT !.status = "paid"] OBVIOUS
    <3>4. /\ paid.percent = schedules[s].percent /\ paid.fixed = schedules[s].fixed
          /\ paid.first = schedules[s].first /\ paid.last = schedules[s].last
      BY <3>2, <3>3 DEF ScheduleRow
    <3>5. s \in Live' => s \in Live
      <4>1. TruthAt(s) BY DEF Truth
      <4> QED BY <2>1, <2>2, <4>1 DEF TruthAt, Live
    <3> QED BY <3>1, <3>3, <3>4, <3>5 DEF RowKept
  <2> QED BY <2>1, <2>3
<1>5. ASSUME NEW r \in Request, GenLink(r) PROVE DOMAIN schedules' = DOMAIN schedules /\ Len(schedules') = Len(schedules)
                                                   /\ \A s \in DOMAIN schedules : RowKept(s)
  <2>1. CASE req[r].at \notin Live
    <3>1. UNCHANGED schedules BY <1>5, <2>1 DEF GenLink
    <3> QED BY <3>1 DEF RowKept, Live
  <2>2. CASE req[r].at \in Live
    <3>1. PICK k \in DOMAIN schedules : k = req[r].at BY <1>r, <2>2
    <3>2. PICK e : e = [schedules[k] EXCEPT !.invoice = req[r].total, !.status = "invoiced"] OBVIOUS
    <3>3. schedules' = [schedules EXCEPT ![k] = e] BY <1>5, <2>2, <3>1, <3>2 DEF GenLink
    <3>4. schedules[k] \in ScheduleRow BY <1>r
    <3>5. /\ e.percent = schedules[k].percent /\ e.fixed = schedules[k].fixed
          /\ e.first = schedules[k].first /\ e.last = schedules[k].last
      BY <3>2, <3>4 DEF ScheduleRow
    <3>6. DOMAIN schedules' = DOMAIN schedules /\ schedules'[k] = e
          /\ \A s \in DOMAIN schedules \ {k} : schedules'[s] = schedules[s]
      BY <3>3
    <3>7. Len(schedules') = Len(schedules)
      <4>1. req[r].total \in Nat BY <1>t DEF TypeOK, RequestRow
      <4>2. schedules' = [schedules EXCEPT ![k].invoice = req[r].total, ![k].status = "invoiced"]
        BY <1>5, <2>2, <3>1 DEF GenLink
      <4> QED BY <1>t, <4>1, <4>2, RowLinked
    <3>8. ASSUME NEW s \in DOMAIN schedules PROVE RowKept(s)
      <4>1. CASE s = k BY <2>2, <3>1, <3>5, <3>6, <4>1 DEF RowKept
      <4>2. CASE s # k BY <3>6, <4>2 DEF RowKept, Live
      <4> QED BY <4>1, <4>2
    <3> QED BY <3>6, <3>7, <3>8
  <2> QED BY <2>1, <2>2
<1>6. ASSUME NEW plan \in Plans, NEW drafts \in ScheduleRows(plan, quote.subtotal),
             schedules' = schedules \o Fresh(drafts, Len(schedules))
      PROVE  Len(schedules') >= Len(schedules) /\ \A s \in DOMAIN schedules : s \in DOMAIN schedules' /\ RowKept(s)
  <2>1. /\ Len(schedules') >= Len(schedules)
        /\ \A s \in DOMAIN schedules : s \in DOMAIN schedules' /\ schedules'[s] = schedules[s]
    BY <1>t, <1>6, PlanRowsJoin
  <2> QED BY <2>1 DEF RowKept, Live
<1>7. ASSUME DOMAIN schedules' = DOMAIN schedules, Len(schedules') = Len(schedules),
             \A s \in DOMAIN schedules : RowKept(s)
      PROVE  /\ Len(schedules') >= Len(schedules) /\ DOMAIN schedules' = DOMAIN schedules
             /\ \A s \in DOMAIN schedules : s \in DOMAIN schedules' /\ RowKept(s)
  <2>1. Len(schedules') >= Len(schedules) BY <1>r, <1>7
  <2> QED BY <1>7, <2>1
<1>8. CASE \E r \in Request : PlanDelete(r) \/ PaySchedules(r) \/ GenLink(r)
  <2>1. /\ DOMAIN schedules' = DOMAIN schedules /\ Len(schedules') = Len(schedules)
        /\ \A s \in DOMAIN schedules : RowKept(s)
    BY <1>3, <1>4, <1>5, <1>8, Zenon
  <2> QED BY <1>7, <2>1
<1>9. CASE \E plan \in Plans : \E drafts \in ScheduleRows(plan, quote.subtotal) :
             schedules' = schedules \o Fresh(drafts, Len(schedules))
  BY <1>6, <1>9, Zenon
<1> QED BY <1>1, <1>2, <1>8, <1>9, Zenon

\* What a row comes to depends on what it asks for, and on the quote as drafted.
LEMMA TotalsSame ==
  ASSUME NEW a, NEW b, a.percent = b.percent, a.fixed = b.fixed,
         NEW q, NEW p, q.subtotal = p.subtotal, q.vat = p.vat
  PROVE  InvoiceTotals(a, q) = InvoiceTotals(b, p)
BY DEF InvoiceTotals

LEMMA QuotedInit == Init => Quoted
<1> SUFFICES ASSUME Init PROVE Quoted OBVIOUS
<1>1. PICK q \in Quotes : \E t \in WithVat(q.subtotal, q.vat) :
        quote = [subtotal |-> q.subtotal, vat |-> q.vat, total |-> t, accepted |-> FALSE]
  BY DEF Init
<1>2. quote.subtotal = q.subtotal /\ quote.vat = q.vat /\ quote.total \in WithVat(q.subtotal, q.vat) BY <1>1
<1>3. quote.total \in WithVat(quote.subtotal, quote.vat) BY <1>2, Zenon
<1> QED BY <1>2, <1>3 DEF Quoted

LEMMA QuotedStep == TypeInv /\ Quoted /\ [Next]_vars => Quoted'
<1> SUFFICES ASSUME TypeInv, Quoted, [Next]_vars PROVE Quoted' OBVIOUS
<1>1. quote'.subtotal = quote.subtotal /\ quote'.vat = quote.vat /\ quote'.total = quote.total BY QuoteStep
<1>2. quote'.total \in WithVat(quote'.subtotal, quote'.vat) BY <1>1, Zenon DEF Quoted
<1> QED BY <1>1, <1>2 DEF Quoted

\* A block that stays one: whatever is left of its rows asks for what it did.
LEMMA BlockKept ==
  ASSUME TypeInv, NEW s \in DOMAIN schedules, BlockAt(s), schedules'[s].last = schedules[s].last,
         quote'.subtotal = quote.subtotal, Len(schedules') \in Nat, Len(schedules') >= Len(schedules),
         \A k \in DOMAIN schedules : k \in DOMAIN schedules' /\ RowKept(k)
  PROVE  BlockAt(s)'
<1>t. TypeOK BY DEF TypeInv
<1>r. /\ DOMAIN schedules = 1 .. Len(schedules) /\ Len(schedules) \in Nat
      /\ \A k \in DOMAIN schedules : schedules[k] \in ScheduleRow
  BY <1>t, Rows
<1>a. PICK plan \in Plans : \E drafts \in ScheduleRows(plan, quote.subtotal) :
        /\ schedules[s].last = s + Len(drafts) - 1 /\ schedules[s].last <= Len(schedules)
        /\ \A j \in DOMAIN drafts : s + j - 1 \in Live =>
             schedules[s + j - 1].percent = drafts[j].percent /\ schedules[s + j - 1].fixed = drafts[j].fixed
  BY DEF BlockAt
<1>1. PICK drafts \in ScheduleRows(plan, quote.subtotal) :
        /\ schedules[s].last = s + Len(drafts) - 1 /\ schedules[s].last <= Len(schedules)
        /\ \A j \in DOMAIN drafts : s + j - 1 \in Live =>
             schedules[s + j - 1].percent = drafts[j].percent /\ schedules[s + j - 1].fixed = drafts[j].fixed
  BY <1>a
<1>2. DOMAIN drafts = 1 .. Len(drafts) /\ Len(drafts) \in Nat
  <2>1. quote.subtotal \in Nat BY <1>t DEF TypeOK
  <2>2. drafts \in Seq(PlanRow) BY <2>1, ScheduleRowsType
  <2> QED BY <2>2, LenProperties
<1>3. ASSUME NEW j \in DOMAIN drafts, s + j - 1 \in Live'
      PROVE  schedules'[s + j - 1].percent = drafts[j].percent /\ schedules'[s + j - 1].fixed = drafts[j].fixed
  <2>1. PICK k : k = s + j - 1 OBVIOUS
  <2>2. k \in DOMAIN schedules BY <1>r, <1>1, <1>2, <2>1
  <2>3. k \in Live' BY <1>3, <2>1
  <2>4. schedules'[k] # Deleted BY <2>3 DEF Live, Deleted
  <2>5. k \in Live /\ schedules'[k].percent = schedules[k].percent /\ schedules'[k].fixed = schedules[k].fixed
    BY <2>2, <2>3, <2>4 DEF RowKept
  <2> QED BY <1>1, <2>1, <2>5
<1>4. schedules'[s].last = s + Len(drafts) - 1 /\ schedules'[s].last <= Len(schedules')
  <2>1. schedules[s].last \in Nat BY <1>r DEF ScheduleRow
  <2> QED BY <1>r, <1>1, <2>1
<1>5. drafts \in ScheduleRows(plan, quote'.subtotal) BY Zenon
<1> QED BY <1>3, <1>4, <1>5 DEF BlockAt

\* The rows of a draft, as they are inserted after n others.
LEMMA FreshRows ==
  ASSUME NEW drafts \in Seq(PlanRow), NEW n \in Nat
  PROVE  /\ Fresh(drafts, n) \in Seq(ScheduleRow) /\ Len(Fresh(drafts, n)) = Len(drafts)
         /\ DOMAIN drafts = 1 .. Len(drafts) /\ Len(drafts) \in Nat
         /\ \A k \in DOMAIN drafts :
              /\ Fresh(drafts, n)[k].percent = drafts[k].percent /\ Fresh(drafts, n)[k].fixed = drafts[k].fixed
              /\ Fresh(drafts, n)[k].first = n + 1 /\ Fresh(drafts, n)[k].last = n + Len(drafts)
<1>1. DOMAIN drafts = 1 .. Len(drafts) /\ Len(drafts) \in Nat BY LenProperties
<1>2. PICK f : f = Fresh(drafts, n) OBVIOUS
<1>3. f \in Seq(ScheduleRow) BY <1>2, FreshType
<1>4. DOMAIN f = DOMAIN drafts BY <1>2 DEF Fresh
<1>5. Len(f) = Len(drafts) BY <1>1, <1>3, <1>4, LenProperties
<1>6. ASSUME NEW k \in DOMAIN drafts
      PROVE  f[k].percent = drafts[k].percent /\ f[k].fixed = drafts[k].fixed
             /\ f[k].first = n + 1 /\ f[k].last = n + Len(drafts)
  <2>1. f[k] = [kind |-> drafts[k].kind, percent |-> drafts[k].percent, fixed |-> drafts[k].fixed,
                first |-> n + 1, last |-> n + Len(drafts), status |-> "planned", invoice |-> 0]
    BY <1>2 DEF Fresh
  <2> QED BY <2>1
<1> QED BY <1>1, <1>2, <1>3, <1>5, <1>6

LEMMA BlocksInit == Init => Blocks
<1> SUFFICES ASSUME Init PROVE Blocks OBVIOUS
<1>1. TypeOK BY TypeInit DEF TypeInv
<1>2. PICK plan \in Plans : \E drafts \in ScheduleRows(plan, quote.subtotal) : schedules = Fresh(drafts, 0) BY DEF Init
<1>3. PICK drafts \in ScheduleRows(plan, quote.subtotal) : schedules = Fresh(drafts, 0) BY <1>2
<1>4. quote.subtotal \in Nat BY <1>1 DEF TypeOK
<1>5. drafts \in Seq(PlanRow) BY <1>4, ScheduleRowsType
<1>6. /\ schedules \in Seq(ScheduleRow) /\ Len(schedules) = Len(drafts)
      /\ DOMAIN drafts = 1 .. Len(drafts) /\ Len(drafts) \in Nat
      /\ \A k \in DOMAIN drafts :
           /\ schedules[k].percent = drafts[k].percent /\ schedules[k].fixed = drafts[k].fixed
           /\ schedules[k].first = 0 + 1 /\ schedules[k].last = 0 + Len(drafts)
  BY <1>3, <1>5, FreshRows
<1>7. DOMAIN schedules = DOMAIN drafts BY <1>6, LenProperties
<1>8. SUFFICES ASSUME NEW s \in DOMAIN schedules, schedules[s].first = s PROVE BlockAt(s) BY DEF Blocks
<1>9. s = 1 /\ schedules[s].last = Len(drafts) BY <1>6, <1>7, <1>8
<1>10. \A j \in DOMAIN drafts : s + j - 1 = j BY <1>6, <1>9
<1>11. \A j \in DOMAIN drafts : schedules[s + j - 1].percent = drafts[j].percent /\ schedules[s + j - 1].fixed = drafts[j].fixed
  BY <1>6, <1>10
<1>12. schedules[s].last = s + Len(drafts) - 1 /\ schedules[s].last <= Len(schedules) BY <1>6, <1>9
<1> QED BY <1>11, <1>12 DEF BlockAt

LEMMA BlocksStep == TypeInv /\ Truth /\ Blocks /\ [Next]_vars => Blocks'
<1> SUFFICES ASSUME TypeInv, Truth, Blocks, [Next]_vars,
                    NEW s \in DOMAIN schedules', schedules'[s].first = s
             PROVE  BlockAt(s)'
  BY DEF Blocks
<1>t. TypeOK BY DEF TypeInv
<1>r. /\ DOMAIN schedules = 1 .. Len(schedules) /\ Len(schedules) \in Nat
      /\ \A k \in DOMAIN schedules : schedules[k] \in ScheduleRow
  BY <1>t, Rows
<1>q. quote'.subtotal = quote.subtotal BY QuoteStep
<1>1. /\ Len(schedules') >= Len(schedules)
      /\ \A k \in DOMAIN schedules : k \in DOMAIN schedules' /\ RowKept(k)
      /\ \/ DOMAIN schedules' = DOMAIN schedules
         \/ \E plan \in Plans : \E drafts \in ScheduleRows(plan, quote.subtotal) :
              schedules' = schedules \o Fresh(drafts, Len(schedules))
  BY RowsStep
<1>2. DOMAIN schedules' = 1 .. Len(schedules') /\ Len(schedules') \in Nat
  <2>1. TypeInv' BY TypeStep
  <2> QED BY <2>1, LenProperties DEF TypeInv, TypeOK
<1>3. CASE s \in DOMAIN schedules
  <2>1. schedules'[s] # Deleted
    <3>1. s # 0 BY <1>r, <1>3
    <3> QED BY <3>1 DEF Deleted
  <2>2. schedules'[s].first = schedules[s].first /\ schedules'[s].last = schedules[s].last
    BY <1>1, <1>3, <2>1 DEF RowKept
  <2>3. BlockAt(s) BY <1>3, <2>2 DEF Blocks
  <2> QED BY <1>1, <1>2, <1>3, <1>q, <2>2, <2>3, BlockKept
<1>4. CASE s \notin DOMAIN schedules
  <2>a. PICK plan \in Plans : \E drafts \in ScheduleRows(plan, quote.subtotal) :
          schedules' = schedules \o Fresh(drafts, Len(schedules))
    BY <1>1, <1>4
  <2>1. PICK drafts \in ScheduleRows(plan, quote.subtotal) :
          schedules' = schedules \o Fresh(drafts, Len(schedules))
    BY <2>a
  <2>2. quote.subtotal \in Nat BY <1>t DEF TypeOK
  <2>3. drafts \in Seq(PlanRow) BY <2>2, ScheduleRowsType
  <2>4. PICK n \in Nat : n = Len(schedules) BY <1>r
  <2>5. PICK f : f = Fresh(drafts, n) OBVIOUS
  <2>6. /\ f \in Seq(ScheduleRow) /\ Len(f) = Len(drafts)
        /\ DOMAIN drafts = 1 .. Len(drafts) /\ Len(drafts) \in Nat
        /\ \A k \in DOMAIN drafts :
             /\ f[k].percent = drafts[k].percent /\ f[k].fixed = drafts[k].fixed
             /\ f[k].first = n + 1 /\ f[k].last = n + Len(drafts)
    BY <2>3, <2>5, FreshRows
  <2>7. /\ Len(schedules') = n + Len(drafts)
        /\ \A i \in 1 .. n + Len(drafts) : schedules'[i] = IF i <= n THEN schedules[i] ELSE f[i - n]
    <3>1. schedules \in Seq(ScheduleRow) /\ schedules' = schedules \o f BY <1>t, <2>1, <2>4, <2>5 DEF TypeOK
    <3>2. PICK t : t = schedules \o f OBVIOUS
    <3>3. /\ Len(t) = Len(schedules) + Len(f)
          /\ \A i \in 1 .. Len(schedules) + Len(f) :
               t[i] = IF i <= Len(schedules) THEN schedules[i] ELSE f[i - Len(schedules)]
      <4>1. f \in Seq(ScheduleRow) /\ schedules \in Seq(ScheduleRow) BY <2>6, <3>1
      <4> QED BY <3>2, <4>1, ConcatProperties
    <3>4. t = schedules' BY <3>1, <3>2
    <3>5. Len(schedules) = n /\ Len(f) = Len(drafts) BY <2>4, <2>6
    <3> QED BY <3>3, <3>4, <3>5, Zenon
  <2>8. \A k \in DOMAIN drafts : n + k \in 1 .. n + Len(drafts) /\ ~ (n + k <= n) /\ (n + k) - n = k BY <2>6
  <2>9. \A k \in DOMAIN drafts : schedules'[n + k] = f[k] BY <2>7, <2>8
  <2>10. s - n \in DOMAIN drafts /\ s = n + (s - n)
    <3>1. s \in 1 .. n + Len(drafts) BY <1>2, <2>7
    <3>2. s \notin 1 .. n BY <1>4, <1>r, <2>4
    <3>3. s - n \in 1 .. Len(drafts) /\ s = n + (s - n) BY <2>6, <3>1, <3>2
    <3> QED BY <2>6, <3>3
  <2>11. schedules'[s] = f[s - n] BY <2>9, <2>10
  <2>12. s = n + 1 /\ schedules'[s].last = n + Len(drafts) BY <2>6, <2>10, <2>11
  <2>13. \A j \in DOMAIN drafts : s + j - 1 = n + j BY <2>6, <2>12
  <2>14. \A j \in DOMAIN drafts :
           schedules'[s + j - 1].percent = drafts[j].percent /\ schedules'[s + j - 1].fixed = drafts[j].fixed
    BY <2>6, <2>9, <2>13
  <2>15. schedules'[s].last = s + Len(drafts) - 1 /\ schedules'[s].last <= Len(schedules') BY <2>6, <2>7, <2>12
  <2>16. drafts \in ScheduleRows(plan, quote'.subtotal) BY <1>q, Zenon
  <2> QED BY <2>14, <2>15, <2>16 DEF BlockAt
<1> QED BY <1>3, <1>4

LEMMA PricedStep == TypeInv /\ Truth /\ Priced /\ [Next]_vars => Priced'
<1> SUFFICES ASSUME TypeInv, Truth, Priced, [Next]_vars, NEW i \in DOMAIN invoices', invoices'[i].schedule \in Live'
             PROVE  invoices'[i].total \in InvoiceTotals(schedules'[invoices'[i].schedule], quote')
  BY DEF Priced, PricedAt
<1>t. TypeOK /\ Refers BY DEF TypeInv
<1>r. /\ DOMAIN schedules = 1 .. Len(schedules) /\ Len(schedules) \in Nat
      /\ DOMAIN invoices = 1 .. Len(invoices) /\ Len(invoices) \in Nat
      /\ \A k \in DOMAIN invoices : invoices[k] \in InvoiceRow
      /\ Live \subseteq DOMAIN schedules
  BY <1>t, Rows
<1>q. quote'.subtotal = quote.subtotal /\ quote'.vat = quote.vat BY QuoteStep
<1>k. \A k \in DOMAIN schedules : k \in DOMAIN schedules' /\ RowKept(k) BY RowsStep
<1>z. 0 \notin Live'
  <2>1. TypeInv' BY TypeStep
  <2>2. DOMAIN schedules' = 1 .. Len(schedules') BY <2>1, LenProperties DEF TypeInv, TypeOK
  <2> QED BY <2>2 DEF Live
<1>1. ASSUME NEW s \in DOMAIN schedules, s \in Live', s = invoices'[i].schedule,
             NEW total \in InvoiceTotals(schedules[s], quote), invoices'[i].total = total
      PROVE  invoices'[i].total \in InvoiceTotals(schedules'[invoices'[i].schedule], quote')
  <2>1. schedules'[s] # Deleted BY <1>1 DEF Live, Deleted
  <2>2. schedules'[s].percent = schedules[s].percent /\ schedules'[s].fixed = schedules[s].fixed
    BY <1>k, <1>1, <2>1 DEF RowKept
  <2>3. InvoiceTotals(schedules'[s], quote') = InvoiceTotals(schedules[s], quote) BY <1>q, <2>2, TotalsSame
  <2> QED BY <1>1, <2>3
<1>2. CASE i \in DOMAIN invoices
  <2>1. invoices'[i].total = invoices[i].total BY <1>2, InvoicesStep
  <2>2. invoices'[i].schedule = 0 \/ invoices'[i].schedule = invoices[i].schedule
    <3>1. \/ UNCHANGED invoices
          \/ \E r \in Request : PlanDelete(r)
          \/ \E j \in DOMAIN invoices : invoices' = [invoices EXCEPT ![j].status = "paid"]
          \/ \E kind, s, total : Insert(Invoice(kind, s, total))
      BY DEF Next, vars, Accept, Plan, PutPlan, PlanInsert, Generate, Select, GenInsert, GenLink, Patch,
             PatchJob, Reopen, Rewrite, Complete, AutoInvoices, AutoQuote, AutoInsert, Payment, Pay, PaySchedules,
             Conversion, Convert, ConvertAccept, Die
    <3>2. CASE \E r \in Request : PlanDelete(r) BY <1>t, <1>2, <3>2, RowsDeleted
    <3>3. CASE \E j \in DOMAIN invoices : invoices' = [invoices EXCEPT ![j].status = "paid"] BY <1>t, <1>2, <3>3, InvoicePaid
    <3>4. CASE \E kind, s, total : Insert(Invoice(kind, s, total))
      <4>1. PICK e : invoices' = Append(invoices, e) BY <3>4 DEF Insert
      <4>2. invoices \in Seq(InvoiceRow) BY <1>t DEF TypeOK
      <4>3. invoices'[i] = invoices[i] BY <1>2, <4>1, <4>2
      <4> QED BY <4>3
    <3> QED BY <3>1, <3>2, <3>3, <3>4
  <2>3. PICK s : s = invoices[i].schedule OBVIOUS
  <2>4. s = invoices'[i].schedule /\ s \in Live' BY <1>z, <2>2, <2>3
  <2>5. s \in DOMAIN schedules
    <3>1. s \in Nat /\ s <= Len(schedules) BY <1>r, <1>t, <1>2, <2>3 DEF Refers, InvoiceRow
    <3>2. s # 0 BY <1>z, <2>4
    <3> QED BY <1>r, <3>1, <3>2
  <2>6. s \in Live
    <3>1. schedules'[s] # Deleted BY <2>4 DEF Live, Deleted
    <3> QED BY <1>k, <2>4, <2>5, <3>1 DEF RowKept
  <2>7. invoices[i].total \in InvoiceTotals(schedules[s], quote) BY <1>2, <2>3, <2>6 DEF Priced, PricedAt
  <2> QED BY <1>1, <2>1, <2>4, <2>5, <2>7
<1>3. CASE i \notin DOMAIN invoices
  <2>1. \/ DOMAIN invoices' = DOMAIN invoices
        \/ \E r \in Request : GenInsert(r) /\ req[r].at \in Live
        \/ \E kind, total : Insert(Invoice(kind, 0, total))
    <3>1. \/ UNCHANGED invoices
          \/ \E r \in Request : PlanDelete(r)
          \/ \E j \in DOMAIN invoices : invoices' = [invoices EXCEPT ![j].status = "paid"]
          \/ \E r \in Request : GenInsert(r) /\ req[r].at \in Live
          \/ \E kind, total : Insert(Invoice(kind, 0, total))
      BY DEF Next, vars, Accept, Plan, PutPlan, PlanInsert, Generate, Select, GenInsert, GenLink, Patch,
             PatchJob, Reopen, Rewrite, Complete, AutoInvoices, AutoQuote, AutoInsert, Payment, Pay, PaySchedules,
             Conversion, Convert, ConvertAccept, Die
    <3>2. CASE \E r \in Request : PlanDelete(r) BY <1>t, <3>2, RowsDeleted
    <3> QED BY <3>1, <3>2
  <2>2. ASSUME NEW e, invoices' = Append(invoices, e) PROVE invoices'[i] = e
    <3>1. invoices \in Seq(InvoiceRow) BY <1>t DEF TypeOK
    <3>2. i = Len(invoices) + 1 BY <1>r, <1>3, <2>2, <3>1
    <3> QED BY <2>2, <3>1, <3>2
  <2>3. CASE \E kind, total : Insert(Invoice(kind, 0, total))
    <3>1. PICK kind, total : invoices' = Append(invoices, Invoice(kind, 0, total)) BY <2>3 DEF Insert
    <3>2. invoices'[i] = Invoice(kind, 0, total) BY <2>2, <3>1
    <3>3. invoices'[i].schedule = 0 BY <3>2 DEF Invoice
    <3> QED BY <1>z, <3>3
  <2>4. CASE \E r \in Request : GenInsert(r) /\ req[r].at \in Live
    <3>1. PICK r \in Request : GenInsert(r) /\ req[r].at \in Live BY <2>4
    <3>2. PICK s \in DOMAIN schedules : s = req[r].at BY <1>r, <3>1
    <3>3. PICK total \in InvoiceTotals(schedules[s], quote) : invoices' = Append(invoices, Invoice(schedules[s].kind, s, total))
      BY <3>1, <3>2 DEF GenInsert, Insert
    <3>4. invoices'[i] = Invoice(schedules[s].kind, s, total) BY <2>2, <3>3
    <3>5. invoices'[i].schedule = s /\ invoices'[i].total = total BY <3>4 DEF Invoice
    <3> QED BY <1>1, <3>5
  <2> QED BY <1>3, <2>1, <2>3, <2>4
<1> QED BY <1>2, <1>3

LEMMA PricedInit == Init => Priced
BY DEF Init, Priced

\* VAT is at one of the rates there are.
RatesInUse == \A q \in Quotes : q.vat \in { 0, 5, 20 }

LEMMA NearlyReconciles ==
  ASSUME RatesInUse, TypeInv, Truth, Blocks, Priced, Quoted
  PROVE  PlanNearlyReconciles
<1>t. TypeOK /\ Refers BY DEF TypeInv
<1>r. /\ DOMAIN schedules = 1 .. Len(schedules) /\ Len(schedules) \in Nat
      /\ DOMAIN invoices = 1 .. Len(invoices) /\ Len(invoices) \in Nat
      /\ \A s \in DOMAIN schedules : schedules[s] \in ScheduleRow
      /\ \A i \in DOMAIN invoices : invoices[i] \in InvoiceRow
      /\ Live \subseteq DOMAIN schedules
  BY <1>t, Rows
<1> SUFFICES ASSUME NEW s \in DOMAIN schedules, PlanBilled(s)
             PROVE  /\ PlanTotal(s) <= quote.total + Cardinality(PlanRows(s))
                    /\ quote.total <= PlanTotal(s) + Cardinality(PlanRows(s))
  BY DEF PlanNearlyReconciles
<1>1. schedules[s].first = s /\ \A k \in s .. schedules[s].last : k \in Live /\ schedules[k].invoice # 0
  BY DEF PlanBilled
<1>2. PICK plan \in Plans : \E drafts \in ScheduleRows(plan, quote.subtotal) :
        /\ schedules[s].last = s + Len(drafts) - 1 /\ schedules[s].last <= Len(schedules)
        /\ \A j \in DOMAIN drafts : s + j - 1 \in Live =>
             schedules[s + j - 1].percent = drafts[j].percent /\ schedules[s + j - 1].fixed = drafts[j].fixed
  BY <1>1 DEF Blocks, BlockAt
<1>3. PICK drafts \in ScheduleRows(plan, quote.subtotal) :
        /\ schedules[s].last = s + Len(drafts) - 1 /\ schedules[s].last <= Len(schedules)
        /\ \A j \in DOMAIN drafts : s + j - 1 \in Live =>
             schedules[s + j - 1].percent = drafts[j].percent /\ schedules[s + j - 1].fixed = drafts[j].fixed
  BY <1>2
<1>4. quote.subtotal \in Nat BY <1>t DEF TypeOK
<1>5. PICK L \in Nat : L = Len(drafts) /\ DOMAIN drafts = 1 .. L
  <2>1. drafts \in Seq(PlanRow) BY <1>4, ScheduleRowsType
  <2> QED BY <2>1, LenProperties
<1>6. PlanRows(s) = s .. s + L - 1 /\ s \in Nat BY <1>r, <1>3, <1>5 DEF PlanRows
<1>7. PICK h : h = [j \in 1 .. L |-> schedules[s + j - 1].invoice] OBVIOUS
<1>8. PICK f : f = [i \in DOMAIN invoices |-> invoices[i].total] OBVIOUS
<1>9. ASSUME NEW j \in 1 .. L
      PROVE  /\ h[j] \in DOMAIN invoices /\ f[h[j]] \in Nat
             /\ invoices[h[j]].schedule = s + j - 1 /\ f[h[j]] \in InvoiceTotals(drafts[j], quote)
  <2>1. PICK k : k = s + j - 1 OBVIOUS
  <2>2. k \in Live /\ schedules[k].invoice # 0
    <3>1. schedules[s].last = s + L - 1 BY <1>3, <1>5
    <3>2. k \in s .. s + L - 1 BY <1>6, <2>1
    <3> QED BY <1>1, <3>1, <3>2
  <2>3. h[j] = schedules[k].invoice BY <1>7, <2>1
  <2>4. k \in DOMAIN schedules BY <1>r, <2>2
  <2>5. h[j] \in DOMAIN invoices
    <3>1. schedules[k].invoice \in Nat /\ schedules[k].invoice <= Len(invoices) BY <1>r, <1>t, <2>4 DEF Refers, ScheduleRow
    <3> QED BY <1>r, <2>2, <2>3, <3>1
  <2>6. invoices[h[j]].schedule = k BY <2>2, <2>3, <2>4 DEF Truth, TruthAt
  <2>7. f[h[j]] = invoices[h[j]].total BY <1>8, <2>5
  <2>8. f[h[j]] \in Nat BY <1>r, <2>5, <2>7 DEF InvoiceRow
  <2>9. invoices[h[j]].total \in InvoiceTotals(schedules[k], quote) BY <2>2, <2>5, <2>6 DEF Priced, PricedAt
  <2>10. schedules[k].percent = drafts[j].percent /\ schedules[k].fixed = drafts[j].fixed BY <1>3, <1>5, <2>1, <2>2
  <2>11. InvoiceTotals(schedules[k], quote) = InvoiceTotals(drafts[j], quote) BY <2>10, TotalsSame
  <2> QED BY <2>1, <2>5, <2>6, <2>7, <2>8, <2>9, <2>11
<1>10. \A j, k \in 1 .. L : h[j] = h[k] => j = k
  <2> SUFFICES ASSUME NEW j \in 1 .. L, NEW k \in 1 .. L, h[j] = h[k] PROVE j = k OBVIOUS
  <2>1. s + j - 1 = s + k - 1 BY <1>9
  <2> QED BY <1>6, <2>1
<1>11. { schedules[k].invoice : k \in PlanRows(s) } = { h[j] : j \in 1 .. L }
  <2>1. ASSUME NEW k \in PlanRows(s) PROVE \E j \in 1 .. L : schedules[k].invoice = h[j]
    <3>1. PICK j : j = k - s + 1 OBVIOUS
    <3>2. j \in 1 .. L /\ k = s + j - 1 BY <1>6, <2>1, <3>1
    <3> QED BY <1>7, <3>2
  <2>2. ASSUME NEW j \in 1 .. L PROVE \E k \in PlanRows(s) : h[j] = schedules[k].invoice
    <3>1. s + j - 1 \in PlanRows(s) BY <1>6
    <3> QED BY <1>7, <3>1
  <2> QED BY <2>1, <2>2
<1>12. PICK t : t = [j \in 1 .. L |-> f[h[j]]] OBVIOUS
<1>13. IsFiniteSet(1 .. L)
  <2>1. 1 \in Int /\ L \in Int OBVIOUS
  <2> QED BY <2>1, FS_Interval, Zenon
<1>14. PlanTotal(s) = SumFunctionOnSet(t, 1 .. L)
  <2>1. SumFunctionOnSet(f, { h[j] : j \in 1 .. L }) = SumFunctionOnSet(t, 1 .. L)
    <3>1. (\A j \in 1 .. L : f[h[j]] \in Nat) /\ (\A j \in 1 .. L : t[j] = f[h[j]]) BY <1>9, <1>12
    <3>2. PICK D : D = 1 .. L OBVIOUS
    <3>3. /\ IsFiniteSet(D) /\ (\A j \in D : f[h[j]] \in Nat) /\ (\A j, k \in D : h[j] = h[k] => j = k)
          /\ \A j \in D : t[j] = f[h[j]]
      BY <1>10, <1>13, <3>1, <3>2, Zenon
    <3>4. SumFunctionOnSet(f, { h[j] : j \in D }) = SumFunctionOnSet(t, D) BY <3>3, SumRenamed
    <3> QED BY <3>2, <3>4, Zenon
  <2>2. PlanTotal(s) = SumFunctionOnSet(f, { schedules[k].invoice : k \in PlanRows(s) })
    BY <1>8, Zenon DEF PlanTotal, Billed
  <2> QED BY <1>11, <2>1, <2>2
<1>15. Cardinality(PlanRows(s)) = L
  <2>1. s \in Int /\ s + L - 1 \in Int BY <1>6
  <2>2. Cardinality(s .. s + L - 1) = IF s > s + L - 1 THEN 0 ELSE (s + L - 1) - s + 1 BY <2>1, FS_Interval, Zenon
  <2>3. (IF s > s + L - 1 THEN 0 ELSE (s + L - 1) - s + 1) = L BY <1>6
  <2> QED BY <1>6, <2>2, <2>3
<1>16. PICK vat \in { 0, 5, 20 } : vat = quote.vat
  <2>1. PICK q \in Quotes : quote.vat = q.vat BY DEF Quoted
  <2> QED BY <2>1 DEF RatesInUse
<1>17. /\ SumFunctionOnSet(t, DOMAIN drafts) <= quote.total + Len(drafts)
       /\ quote.total <= SumFunctionOnSet(t, DOMAIN drafts) + Len(drafts)
  <2>1. Asked(PercentRows(plan)) <= 100 BY PlansAddUp
  <2>2. \A j \in DOMAIN drafts : t[j] \in InvoiceTotals(drafts[j], quote) BY <1>5, <1>9, <1>12
  <2>3. PICK subtotal, total : subtotal \in Nat /\ subtotal = quote.subtotal /\ total = quote.total BY <1>4
  <2>4. total \in WithVat(subtotal, vat) /\ drafts \in ScheduleRows(plan, subtotal) BY <1>16, <2>3 DEF Quoted
  <2>5. PICK q : q = quote OBVIOUS
  <2>6. q.subtotal = subtotal /\ q.vat = vat /\ \A j \in DOMAIN drafts : t[j] \in InvoiceTotals(drafts[j], q)
    BY <1>16, <2>2, <2>3, <2>5
  <2> QED BY <2>1, <2>3, <2>4, <2>6, PlanRounds
<1> QED BY <1>5, <1>14, <1>15, <1>17

\* PlanNearlyReconciles: the invoices of a plan differ from the quote's total by at most a penny
\* for each row, if VAT is at one of the rates there are.
THEOREM NearlyCorrect ==
  ASSUME RatesInUse
  PROVE  Spec => []PlanNearlyReconciles
<1>1. Init => TypeInv /\ Truth /\ Blocks /\ Priced /\ Quoted
  BY TypeInit, TruthInit, BlocksInit, PricedInit, QuotedInit
<1>2. TypeInv /\ Truth /\ Blocks /\ Priced /\ Quoted /\ [Next]_vars
        => TypeInv' /\ Truth' /\ Blocks' /\ Priced' /\ Quoted'
  BY TypeStep, TruthStep, BlocksStep, PricedStep, QuotedStep
<1>3. TypeInv /\ Truth /\ Blocks /\ Priced /\ Quoted => PlanNearlyReconciles BY NearlyReconciles
<1> QED BY <1>1, <1>2, <1>3, PTL DEF Spec

-----------------------------------------------------------------------------
(* InvoiceChase.                                                           *)

ChaseTypeOK ==
  /\ day \in Nat /\ claimed \in BOOLEAN
  /\ status \in { "unpaid", "paid" }
  /\ rows \in [Steps -> { "absent", "pending", "sent", "cancelled" }]
  /\ sched \in [pc : { "idle", "load", "upsert", "flag" }, step : Steps]
  /\ payer \in { "none", "cancel", "done" }
  /\ held \subseteq Steps
  /\ sending = {} \/ \E k \in Steps : sending = {k}
  /\ requiresCall \in BOOLEAN /\ finalSent \in BOOLEAN
  /\ sent \in [Steps -> Nat] /\ late \in [Steps -> Nat] /\ resets \in [Steps -> Nat]

\* A send that is still to come: its row is held, or waits to be read.
Coming(k) == k \in held \/ (rows[k] = "pending" /\ k \notin sending)

\* Each send to come has a scheduling of its own.
Covered == held \cap sending = {} /\ \A k \in Steps : sent[k] <= resets[k] /\ (Coming(k) => sent[k] < resets[k])

\* A job that has found the invoice unpaid and will schedule the step yet.
Rescheduling(k) == sched.pc = "upsert" /\ sched.step <= k

\* What can still go out of a step after the payment has cancelled the sequence.
Spent ==
  /\ payer # "none" => status = "paid"
  /\ payer # "done" => \A k \in Steps : late[k] = 0
  /\ payer = "done" => \A k \in Steps :
       /\ late[k] <= 2
       /\ Coming(k) \/ Rescheduling(k) => late[k] <= 1
       /\ Coming(k) /\ Rescheduling(k) => late[k] = 0

\* The last step's row is marked sent after its email only.
Earned ==
  /\ requiresCall => finalSent
  /\ rows[NumSteps] = "sent" \/ NumSteps \in sending => finalSent

-----------------------------------------------------------------------------
LEMMA StepsAre == NumSteps \in Steps /\ 1 \in Steps /\ Steps \subseteq Nat
BY ChaseAssumption DEF Steps

LEMMA CancelType ==
  ASSUME ChaseTypeOK, CancelSequence
  PROVE  /\ rows' \in [Steps -> { "absent", "pending", "sent", "cancelled" }]
         /\ \A k \in Steps : /\ rows'[k] # "pending"
                             /\ rows'[k] = rows[k] \/ (rows[k] = "pending" /\ rows'[k] = "cancelled")
BY DEF ChaseTypeOK, CancelSequence

\* Rows, requests and counters keep their types: one step for each action.
LEMMA ChaseTypeStep == ChaseTypeOK /\ [ChaseNext]_chaseVars => ChaseTypeOK'
<1> SUFFICES ASSUME ChaseTypeOK, [ChaseNext]_chaseVars PROVE ChaseTypeOK' OBVIOUS
<1> USE StepsAre
<1>a. ASSUME NEW pc \in { "idle", "load", "upsert", "flag" }, GotoSched(pc)
      PROVE  sched' \in [pc : { "idle", "load", "upsert", "flag" }, step : Steps]
  BY <1>a DEF GotoSched, ChaseTypeOK
<1>1. CASE NextDay
  <2>1. day' \in Nat /\ claimed' \in BOOLEAN
    <3>1. day \in Nat BY DEF ChaseTypeOK
    <3>2. day' = day + 1 /\ claimed' = FALSE BY <1>1 DEF NextDay
    <3>3. day' \in Nat BY <3>1, <3>2
    <3>4. claimed' \in BOOLEAN BY <3>2, Zenon
    <3> QED BY <3>3, <3>4, Zenon
  <2>2. UNCHANGED << status, rows, sched, payer, held, sending, requiresCall, finalSent, sent, late, resets >>
    BY <1>1 DEF NextDay, dispatcher, chaseHistory
  <2> QED BY <2>1, <2>2 DEF ChaseTypeOK
<1>2. CASE SelectDue BY <1>2, <1>a DEF SelectDue, ChaseTypeOK, dispatcher, chaseHistory
<1>3. CASE Load BY <1>3, <1>a, CancelType DEF Load, ChaseTypeOK, clock, dispatcher, chaseHistory
<1>4. CASE Upsert
  <2>1. sched.step \in Steps BY DEF ChaseTypeOK
  <2>2. sched.step # NumSteps => sched.step + 1 \in Steps BY <2>1, ChaseAssumption DEF Steps
  <2>3. sched' \in [pc : { "idle", "load", "upsert", "flag" }, step : Steps] BY <1>4, <2>2 DEF Upsert, ChaseTypeOK
  <2> QED BY <1>4, <2>1, <2>3 DEF Upsert, ChaseTypeOK, clock, dispatcher
<1>5. CASE Flag BY <1>5 DEF Flag, ChaseTypeOK, clock, dispatcher, chaseHistory
<1>6. CASE JobDies BY <1>6 DEF JobDies, ChaseTypeOK, clock, dispatcher, chaseHistory
<1>7. CASE MarkPaid BY <1>7 DEF MarkPaid, ChaseTypeOK, clock, dispatcher, chaseHistory
<1>8. CASE CancelChase BY <1>8, CancelType DEF CancelChase, ChaseTypeOK, clock, dispatcher, chaseHistory
<1>9. CASE PaymentDies BY <1>9 DEF PaymentDies, ChaseTypeOK, clock, dispatcher, chaseHistory
<1>10. CASE Read BY <1>10 DEF Read, ChaseTypeOK, clock, chaseHistory
<1>11. ASSUME NEW k \in Steps, Send(k) PROVE ChaseTypeOK' BY <1>11 DEF Send, ChaseTypeOK, clock
<1>12. ASSUME NEW k \in Steps, MarkSent(k) PROVE ChaseTypeOK' BY <1>12 DEF MarkSent, ChaseTypeOK, clock, chaseHistory
<1>13. CASE UNCHANGED chaseVars BY <1>13 DEF chaseVars, ChaseTypeOK
<1> QED BY <1>1, <1>2, <1>3, <1>4, <1>5, <1>6, <1>7, <1>8, <1>9, <1>10, <1>11, <1>12, <1>13
        DEF ChaseNext, ChaseJob, ChasePayment, ChaseDispatch

LEMMA ChaseTypeInit == ChaseInit => ChaseTypeOK
<1> SUFFICES ASSUME ChaseInit PROVE ChaseTypeOK OBVIOUS
<1>1. sched \in [pc : { "idle", "load", "upsert", "flag" }, step : Steps] BY StepsAre DEF ChaseInit
<1>2. rows \in [Steps -> { "absent", "pending", "sent", "cancelled" }] BY DEF ChaseInit
<1>3. sent \in [Steps -> Nat] /\ late \in [Steps -> Nat] /\ resets \in [Steps -> Nat] BY DEF ChaseInit
<1>4. day \in Nat /\ held \subseteq Steps /\ sending = {} BY DEF ChaseInit
<1> QED BY <1>1, <1>2, <1>3, <1>4 DEF ChaseInit, ChaseTypeOK

-----------------------------------------------------------------------------
LEMMA CoveredStep == ChaseTypeOK /\ Covered /\ [ChaseNext]_chaseVars => Covered'
<1> SUFFICES ASSUME ChaseTypeOK, Covered, [ChaseNext]_chaseVars PROVE Covered' OBVIOUS
<1> USE StepsAre
\* Nothing new is to come, and nothing is sent.
<1>a. ASSUME UNCHANGED << sent, resets, held, sending >>, \A k \in Steps : rows'[k] = "pending" => rows[k] = "pending"
      PROVE  Covered'
  BY <1>a DEF Covered, Coming
<1>1. CASE NextDay \/ SelectDue \/ Flag \/ JobDies \/ MarkPaid \/ PaymentDies
  BY <1>1, <1>a DEF NextDay, SelectDue, Flag, JobDies, MarkPaid, PaymentDies, dispatcher, chaseHistory
<1>2. CASE Load BY <1>2, <1>a, CancelType DEF Load, dispatcher, chaseHistory
<1>3. CASE Upsert
  <2>1. sched.step \in Steps BY DEF ChaseTypeOK
  <2> QED BY <1>3, <2>1 DEF Upsert, Covered, Coming, ChaseTypeOK, dispatcher
<1>4. CASE CancelChase BY <1>4, <1>a, CancelType DEF CancelChase, dispatcher, chaseHistory
<1>5. CASE Read
  <2>1. \A k \in Steps : Coming(k)' => Coming(k) BY <1>5 DEF Read, Coming
  <2>2. held' \cap sending' = {} BY <1>5 DEF Read
  <2> QED BY <1>5, <2>1, <2>2 DEF Read, Covered, chaseHistory
<1>6. ASSUME NEW k \in Steps, Send(k) PROVE Covered'
  <2>1. sent[k] < resets[k] BY <1>6 DEF Send, Covered, Coming
  <2>2. ~Coming(k)' BY <1>6 DEF Send, Coming
  <2>3. \A j \in Steps \ {k} : (Coming(j)' => Coming(j)) /\ sent'[j] = sent[j] BY <1>6 DEF Send, Coming, ChaseTypeOK
  <2>4. sent'[k] = sent[k] + 1 /\ resets' = resets BY <1>6 DEF Send, ChaseTypeOK
  <2>5. held' \cap sending' = {} BY <1>6 DEF Send
  <2> QED BY <2>1, <2>2, <2>3, <2>4, <2>5 DEF Covered, ChaseTypeOK
<1>7. ASSUME NEW k \in Steps, MarkSent(k) PROVE Covered'
  <2>1. k \notin held /\ rows'[k] # "pending" /\ held' = held /\ sending' = {} BY <1>7 DEF MarkSent, Covered, ChaseTypeOK
  <2>2. ~Coming(k)' BY <2>1 DEF Coming
  <2>3. \A j \in Steps \ {k} : Coming(j)' => Coming(j) BY <1>7 DEF MarkSent, Coming, ChaseTypeOK
  <2> QED BY <1>7, <2>1, <2>2, <2>3 DEF MarkSent, Covered, chaseHistory
<1>8. CASE UNCHANGED chaseVars BY <1>8, <1>a DEF chaseVars
<1> QED BY <1>1, <1>2, <1>3, <1>4, <1>5, <1>6, <1>7, <1>8 DEF ChaseNext, ChaseJob, ChasePayment, ChaseDispatch

\* A reminder goes out at most once each time the daily job schedules it, whatever
\* the payment, the job and the dispatcher do between its reading, its sending and
\* its marking (invoice-chase.ts:147).
THEOREM OnceCorrect == ChaseSpec => []OncePerReset
<1>1. ChaseInit => Covered BY DEF ChaseInit, Covered, Coming
<1>2. Covered => OncePerReset BY DEF Covered, OncePerReset
<1> QED BY <1>1, <1>2, ChaseTypeInit, ChaseTypeStep, CoveredStep, PTL DEF ChaseSpec

-----------------------------------------------------------------------------
LEMMA SpentStep == ChaseTypeOK /\ Covered /\ Spent /\ [ChaseNext]_chaseVars => Spent'
<1> SUFFICES ASSUME ChaseTypeOK, Covered, Spent, [ChaseNext]_chaseVars PROVE Spent' OBVIOUS
<1> USE StepsAre
\* Nothing new is to come, nobody begins to schedule, nothing is sent.
<1>a. ASSUME late' = late, payer' = payer, payer # "none" => status' = "paid",
             \A k \in Steps : (Coming(k)' => Coming(k)) /\ (payer = "done" /\ Rescheduling(k)' => Rescheduling(k))
      PROVE  Spent'
  BY <1>a DEF Spent, ChaseTypeOK
<1>1. CASE NextDay BY <1>1, <1>a DEF NextDay, Spent, Coming, Rescheduling, dispatcher, chaseHistory
<1>2. CASE SelectDue
  <2>1. \A k \in Steps : ~Rescheduling(k)' BY <1>2 DEF SelectDue, GotoSched, Rescheduling, ChaseTypeOK
  <2> QED BY <1>2, <1>a, <2>1 DEF SelectDue, Spent, Coming, dispatcher, chaseHistory
<1>3. CASE Load
  <2>1. CASE status = "unpaid"
    <3>1. payer # "done" BY <2>1 DEF Spent
    <3> QED BY <1>3, <1>a, <2>1, <3>1 DEF Load, Spent, Coming, clock, dispatcher, chaseHistory
  <2>2. CASE status # "unpaid"
    <3>1. \A k \in Steps : ~Rescheduling(k)' BY <1>3, <2>2 DEF Load, GotoSched, Rescheduling, ChaseTypeOK
    <3>2. \A k \in Steps : Coming(k)' => Coming(k) BY <1>3, <2>2, CancelType DEF Load, Coming, dispatcher
    <3> QED BY <1>3, <1>a, <3>1, <3>2 DEF Load, Spent, clock, dispatcher, chaseHistory
  <2> QED BY <2>1, <2>2
<1>4. CASE Upsert
  <2>1. PICK k \in Steps : k = sched.step BY DEF ChaseTypeOK
  <2>2. Rescheduling(k) BY <1>4, <2>1 DEF Upsert, Rescheduling
  <2>3. ~Rescheduling(k)'
    <3>1. CASE k = NumSteps BY <1>4, <2>1, <3>1 DEF Upsert, Rescheduling
    <3>2. CASE k # NumSteps
      <4>1. sched' = [sched EXCEPT !.step = k + 1] BY <1>4, <2>1, <3>2 DEF Upsert
      <4>2. sched'.step = k + 1 BY <4>1 DEF ChaseTypeOK
      <4> QED BY <4>2 DEF Rescheduling
    <3> QED BY <3>1, <3>2
  <2>4. \A j \in Steps \ {k} : (Coming(j)' => Coming(j)) /\ (Rescheduling(j)' => Rescheduling(j))
    <3>1. \A j \in Steps \ {k} : Coming(j)' => Coming(j) BY <1>4, <2>1 DEF Upsert, Coming, ChaseTypeOK, dispatcher
    <3>2. CASE k = NumSteps BY <1>4, <2>1, <3>1, <3>2 DEF Upsert, Rescheduling
    <3>3. CASE k # NumSteps
      <4>1. sched' = [sched EXCEPT !.step = k + 1] BY <1>4, <2>1, <3>3 DEF Upsert
      <4>2. sched'.step = k + 1 /\ sched.pc = "upsert" BY <1>4, <4>1 DEF ChaseTypeOK, Upsert
      <4>3. \A j \in Steps : k + 1 <= j => k <= j OBVIOUS
      <4> QED BY <2>1, <3>1, <4>2, <4>3 DEF Rescheduling
    <3> QED BY <3>2, <3>3
  <2>5. UNCHANGED << late, payer, status >> BY <1>4 DEF Upsert
  <2> QED BY <2>2, <2>3, <2>4, <2>5 DEF Spent, ChaseTypeOK
<1>5. CASE Flag
  <2>1. \A k \in Steps : ~Rescheduling(k)' BY <1>5 DEF Flag, Rescheduling
  <2> QED BY <1>5, <1>a, <2>1 DEF Flag, Spent, Coming, dispatcher, chaseHistory
<1>6. CASE JobDies
  <2>1. \A k \in Steps : ~Rescheduling(k)' BY <1>6 DEF JobDies, Rescheduling
  <2> QED BY <1>6, <1>a, <2>1 DEF JobDies, Spent, Coming, dispatcher, chaseHistory
<1>7. CASE MarkPaid BY <1>7 DEF MarkPaid, Spent, chaseHistory
<1>8. CASE CancelChase BY <1>8 DEF CancelChase, Spent, chaseHistory
<1>9. CASE PaymentDies BY <1>9 DEF PaymentDies, Spent, chaseHistory
<1>10. CASE Read
  <2>1. \A k \in Steps : Coming(k)' => Coming(k) BY <1>10 DEF Read, Coming
  <2> QED BY <1>10, <1>a, <2>1 DEF Read, Spent, Rescheduling, chaseHistory
<1>11. ASSUME NEW k \in Steps, Send(k) PROVE Spent'
  <2>1. Coming(k) /\ ~Coming(k)' BY <1>11 DEF Send, Coming
  <2>2. \A j \in Steps \ {k} : (Coming(j)' => Coming(j)) /\ late'[j] = late[j] BY <1>11 DEF Send, Coming, ChaseTypeOK
  <2>3. UNCHANGED << payer, status, sched >> BY <1>11 DEF Send
  <2>4. CASE payer = "done"
    <3>1. late'[k] = late[k] + 1 BY <1>11, <2>4 DEF Send, ChaseTypeOK
    <3>2. \A j \in Steps : Rescheduling(j)' <=> Rescheduling(j) BY <2>3 DEF Rescheduling
    <3> QED BY <2>1, <2>2, <2>3, <2>4, <3>1, <3>2 DEF Spent, ChaseTypeOK
  <2>5. CASE payer # "done" BY <1>11, <2>3, <2>5 DEF Send, Spent
  <2> QED BY <2>4, <2>5
<1>12. ASSUME NEW k \in Steps, MarkSent(k) PROVE Spent'
  <2>1. \A j \in Steps : Coming(j)' => Coming(j)
    <3>1. k \notin held /\ rows'[k] # "pending" /\ held' = held /\ sending' = {} BY <1>12 DEF MarkSent, Covered, ChaseTypeOK
    <3>2. \A j \in Steps \ {k} : Coming(j)' => Coming(j) BY <1>12 DEF MarkSent, Coming, ChaseTypeOK
    <3> QED BY <3>1, <3>2 DEF Coming
  <2> QED BY <1>12, <1>a, <2>1 DEF MarkSent, Spent, Rescheduling, chaseHistory
<1>13. CASE UNCHANGED chaseVars BY <1>13, <1>a DEF chaseVars, Spent, Coming, Rescheduling
<1> QED BY <1>1, <1>2, <1>3, <1>4, <1>5, <1>6, <1>7, <1>8, <1>9, <1>10, <1>11, <1>12, <1>13
        DEF ChaseNext, ChaseJob, ChasePayment, ChaseDispatch

\* After the payment has cancelled the sequence, at most two emails of a step still
\* go out: of the row the dispatcher holds, and of the one that a job re-creates which
\* read the invoice before it was paid (invoice-chase.ts:120-171).
THEOREM LateCorrect == ChaseSpec => []LateBounded
<1> DEFINE Inv == Covered /\ Spent
<1>1. ChaseInit => Inv BY DEF ChaseInit, Covered, Spent, Coming
<1>2. ChaseTypeOK /\ Inv /\ [ChaseNext]_chaseVars => Inv' BY CoveredStep, SpentStep
<1>3. ChaseTypeOK /\ Inv => LateBounded BY DEF Spent, LateBounded, ChaseTypeOK
<1> QED BY <1>1, <1>2, <1>3, ChaseTypeInit, ChaseTypeStep, PTL DEF ChaseSpec

-----------------------------------------------------------------------------
LEMMA EarnedStep == ChaseTypeOK /\ Earned /\ [ChaseNext]_chaseVars => Earned'
<1> SUFFICES ASSUME ChaseTypeOK, Earned, [ChaseNext]_chaseVars PROVE Earned' OBVIOUS
<1> USE StepsAre
<1>1. CASE NextDay \/ SelectDue \/ JobDies \/ MarkPaid \/ PaymentDies
  BY <1>1 DEF NextDay, SelectDue, JobDies, MarkPaid, PaymentDies, Earned, dispatcher, chaseHistory
<1>2. CASE Load BY <1>2, CancelType DEF Load, Earned, dispatcher, chaseHistory
<1>3. CASE Upsert BY <1>3 DEF Upsert, Earned, ChaseTypeOK, dispatcher
<1>4. CASE Flag BY <1>4 DEF Flag, Earned, dispatcher, chaseHistory
<1>5. CASE CancelChase BY <1>5, CancelType DEF CancelChase, Earned, dispatcher, chaseHistory
<1>6. CASE Read BY <1>6 DEF Read, Earned, chaseHistory
<1>7. ASSUME NEW k \in Steps, Send(k) PROVE Earned' BY <1>7 DEF Send, Earned
<1>8. ASSUME NEW k \in Steps, MarkSent(k) PROVE Earned' BY <1>8 DEF MarkSent, Earned, ChaseTypeOK, chaseHistory
<1>9. CASE UNCHANGED chaseVars BY <1>9 DEF chaseVars, Earned
<1> QED BY <1>1, <1>2, <1>3, <1>4, <1>5, <1>6, <1>7, <1>8, <1>9 DEF ChaseNext, ChaseJob, ChasePayment, ChaseDispatch

\* A customer is flagged for a call only after the final reminder has gone out
\* (flagFinalChaseCustomers).
THEOREM FlagCorrect == ChaseSpec => []FlagIsEarned
<1>1. ChaseInit => Earned BY StepsAre DEF ChaseInit, Earned
<1>2. Earned => FlagIsEarned BY DEF Earned, FlagIsEarned
<1> QED BY <1>1, <1>2, ChaseTypeInit, ChaseTypeStep, EarnedStep, PTL DEF ChaseSpec
=============================================================================
