--------------------------- MODULE DepositsProofs ---------------------------
(***************************************************************************)
(* Theorems about the deposits of a case, for every number of parties,     *)
(* payments and concurrent requests, with or without crashes: the parties  *)
(* are asked for fair shares, to the cent, of any total (the allocation    *)
(* engine); payments and their ledger entries are never apart; no share is *)
(* paid with money not received; requests one at a time leave books that   *)
(* agree.                                                                  *)
(*                                                                         *)
(* The first sections are about sums over finite sets, of which the        *)
(* engine's totals and the money received on a share are made.             *)
(***************************************************************************)
EXTENDS MCDeposits, FiniteSetTheorems, WellFoundedInduction, TLAPS

LEMMA Least ==
  ASSUME NEW T \in SUBSET Nat, T # {}
  PROVE  \E x \in T : \A y \in T : x <= y
<1>1. IsWellFoundedOn(OpToRel(<, Nat), Nat)
  BY NatLessThanWellFounded
<1>2. PICK x \in T : \A y \in T : <<y, x>> \notin OpToRel(<, Nat)
  BY <1>1, WFMin
<1>3. \A y \in T : ~(y < x)
  BY <1>2 DEF OpToRel
<1>4. QED BY <1>3

LEMMA Upward ==
  ASSUME NEW T \in SUBSET Nat, 0 \in T, \A n \in T : n + 1 \in T
  PROVE  T = Nat
<1> SUFFICES ASSUME Nat \ T # {} PROVE FALSE
  OBVIOUS
<1>1. PICK x \in Nat \ T : \A y \in Nat \ T : x <= y
  BY Least
<1>2. x # 0 /\ x - 1 \in T
  BY <1>1
<1>3. QED BY <1>1, <1>2

\* Finite sets are reached from the empty set, one element at a time.
LEMMA OneByOne ==
  \A S, F : /\ IsFiniteSet(S) /\ {} \in F
            /\ \A T \in SUBSET S : \A x \in S \ T : T \in F => T \cup {x} \in F
            => S \in F
<1> SUFFICES ASSUME NEW S, NEW F, IsFiniteSet(S), {} \in F,
                    \A T \in SUBSET S : \A x \in S \ T : T \in F => T \cup {x} \in F
             PROVE  S \in F
  OBVIOUS
<1>1. PICK N : N = {n \in Nat : \A T \in SUBSET S : Cardinality(T) = n => T \in F}
  OBVIOUS
<1>2. \A T \in SUBSET S : IsFiniteSet(T) /\ Cardinality(T) \in Nat
  BY FS_Subset, FS_CardinalityType
<1>3. 0 \in N
  BY <1>1, <1>2, FS_EmptySet
<1>4. ASSUME NEW n \in N PROVE n + 1 \in N
  <2>1. n \in Nat /\ n + 1 \in Nat
    BY <1>1
  <2>2. ASSUME NEW T \in SUBSET S, Cardinality(T) = n + 1 PROVE T \in F
    <3>0. IsFiniteSet(T) /\ (T = {} => Cardinality(T) = 0)
      BY <1>2, FS_EmptySet
    <3>1. T # {}
      BY <2>1, <2>2, <3>0
    <3>2. PICK x \in T : TRUE
      BY <3>1
    <3>3. Cardinality(T \ {x}) = n
      <4>1. Cardinality(T \ {x}) = Cardinality(T) - 1
        BY <3>0, <3>2, FS_RemoveElement
      <4>2. QED BY <2>1, <2>2, <4>1
    <3>4. T \ {x} \in F
      BY <1>1, <3>3
    <3>5. (T \ {x}) \cup {x} \in F
      BY <3>4
    <3>6. (T \ {x}) \cup {x} = T
      OBVIOUS
    <3>7. QED BY <3>5, <3>6
  <2>3. QED BY <1>1, <2>1, <2>2
<1>5. N \in SUBSET Nat
  BY <1>1
<1>6. N = Nat
  BY <1>3, <1>4, <1>5, Upward
<1>7. QED BY <1>1, <1>2, <1>6

\* The recursive function that a fold is defined by.
Folds(g, f, D) ==
  g = [s \in SUBSET D |-> IF s = {} THEN 0
                          ELSE f[CHOOSE x \in s : TRUE] + g[s \ {CHOOSE x \in s : TRUE}]]

LEMMA TotalIs ==
  \A f : Total(f) = (CHOOSE g : Folds(g, f, DOMAIN f))[DOMAIN f]
BY DEF Total, FoldFunction, FoldFunctionOnSet, MapThenFoldSet, Folds

LEMMA FoldExists ==
  ASSUME NEW f, NEW D, IsFiniteSet(D)
  PROVE  \E g : Folds(g, f, D)
<1>1. PICK some : some = [s \in SUBSET D |-> CHOOSE x \in s : TRUE]
  OBVIOUS
<1>2. \A s \in SUBSET D : s # {} => some[s] \in s
  BY <1>1
<1> DEFINE Part(n) == {s \in SUBSET D : Cardinality(s) <= n}
           Solves(g, n) == g = [s \in Part(n) |-> IF s = {} THEN 0 ELSE f[some[s]] + g[s \ {some[s]}]]
<1>3. \A s \in SUBSET D : IsFiniteSet(s) /\ Cardinality(s) \in Nat
  BY FS_Subset, FS_CardinalityType
<1>4. PICK N : N = {n \in Nat : \E g : Solves(g, n)}
  OBVIOUS
<1>5. 0 \in N
  <2>1. \A s \in Part(0) : s = {}
    BY <1>3, FS_EmptySet
  <2>2. PICK g : g = [s \in Part(0) |-> 0]
    OBVIOUS
  <2>3. Solves(g, 0)
    BY <2>1, <2>2
  <2>4. QED BY <1>4, <2>3
<1>6. ASSUME NEW n \in N PROVE n + 1 \in N
  <2>1. n \in Nat /\ n + 1 \in Nat
    BY <1>4
  <2>2. PICK g : Solves(g, n)
    BY <1>4
  <2>3. PICK h : h = [s \in Part(n + 1) |-> IF s = {} THEN 0 ELSE f[some[s]] + g[s \ {some[s]}]]
    OBVIOUS
  <2>4. ASSUME NEW s \in Part(n + 1), s # {} PROVE h[s \ {some[s]}] = g[s \ {some[s]}]
    <3>1. PICK t : t = s \ {some[s]}
      OBVIOUS
    <3>2. some[s] \in s
      BY <1>2, <2>4
    <3>3. Cardinality(t) = Cardinality(s) - 1 /\ t \in SUBSET D
      BY <1>3, <3>1, <3>2, FS_RemoveElement
    <3>4. t \in Part(n) /\ t \in Part(n + 1)
      BY <1>3, <2>1, <3>3
    <3>5. g[t] = IF t = {} THEN 0 ELSE f[some[t]] + g[t \ {some[t]}]
      BY <2>2, <3>4
    <3>6. h[t] = IF t = {} THEN 0 ELSE f[some[t]] + g[t \ {some[t]}]
      BY <2>3, <3>4
    <3>7. QED BY <3>1, <3>5, <3>6
  <2>5. h = [s \in Part(n + 1) |-> IF s = {} THEN 0 ELSE f[some[s]] + h[s \ {some[s]}]]
    BY <2>3, <2>4
  <2>6. \E k : Solves(k, n + 1)
    BY <2>5
  <2>7. QED BY <1>4, <2>1, <2>6, Zenon
<1>7. N \in SUBSET Nat
  BY <1>4
<1>8. N = Nat
  BY <1>5, <1>6, <1>7, Upward
<1>9. PICK g : Solves(g, Cardinality(D))
  BY <1>3, <1>4, <1>8
<1>10. Part(Cardinality(D)) = SUBSET D
  BY <1>3, FS_Subset
<1>11. g = [s \in SUBSET D |-> IF s = {} THEN 0 ELSE f[some[s]] + g[s \ {some[s]}]]
  BY <1>9, <1>10
<1>12. Folds(g, f, D)
  BY <1>1, <1>11 DEF Folds
<1>13. QED BY <1>12

\* What a fold gives on each subset, whichever element it takes first.
Additive(g, f, D) ==
  /\ g[{}] = 0
  /\ \A s \in SUBSET D : g[s] \in Int
  /\ \A s \in SUBSET D : \A x \in s : g[s] = f[x] + g[s \ {x}]

LEMMA FoldStep ==
  ASSUME NEW f, NEW D, IsFiniteSet(D), \A x \in D : f[x] \in Int, NEW g, Folds(g, f, D)
  PROVE  Additive(g, f, D)
<1>1. PICK some : some = [s \in SUBSET D |-> CHOOSE x \in s : TRUE]
  OBVIOUS
<1>2. \A s \in SUBSET D : s # {} => some[s] \in s
  BY <1>1
<1>3. g = [s \in SUBSET D |-> IF s = {} THEN 0 ELSE f[some[s]] + g[s \ {some[s]}]]
  BY <1>1 DEF Folds
<1>4. g[{}] = 0
  BY <1>3
<1>5. \A s \in SUBSET D : s # {} => g[s] = f[some[s]] + g[s \ {some[s]}]
  BY <1>3
<1>6. \A s \in SUBSET D : IsFiniteSet(s) /\ Cardinality(s) \in Nat
  BY FS_Subset, FS_CardinalityType
<1>7. \A s \in SUBSET D : \A x \in s : Cardinality(s \ {x}) = Cardinality(s) - 1 /\ Cardinality(s) > 0
  <2> SUFFICES ASSUME NEW s \in SUBSET D, NEW x \in s
               PROVE  Cardinality(s \ {x}) = Cardinality(s) - 1 /\ Cardinality(s) > 0
    OBVIOUS
  <2>1. Cardinality(s \ {x}) = Cardinality(s) - 1
    BY <1>6, FS_RemoveElement
  <2>2. Cardinality(s \ {x}) \in Nat
    BY <1>6
  <2>3. QED BY <1>6, <2>1, <2>2
<1> DEFINE Right(s) == g[s] \in Int /\ \A x \in s : g[s] = f[x] + g[s \ {x}]
<1>8. PICK N : N = {n \in Nat : \A s \in SUBSET D : Cardinality(s) <= n => Right(s)}
  OBVIOUS
<1>9. 0 \in N
  <2>1. \A s \in SUBSET D : Cardinality(s) <= 0 => s = {}
    BY <1>6, FS_EmptySet
  <2>2. Right({})
    BY <1>4
  <2>3. \A s \in SUBSET D : Cardinality(s) <= 0 => Right(s)
    BY <2>1, <2>2
  <2>4. QED BY <1>8, <2>3
<1>10. ASSUME NEW n \in N PROVE n + 1 \in N
  <2>1. n \in Nat /\ n + 1 \in Nat
    BY <1>8
  <2>2. ASSUME NEW s \in SUBSET D, Cardinality(s) <= n + 1 PROVE Right(s)
    <3>1. CASE s = {}
      BY <1>4, <3>1
    <3>2. CASE s # {}
      <4>1. PICK c \in s : c = some[s]
        BY <1>2, <3>2
      <4>2. ASSUME NEW x \in s PROVE s \ {x} \in SUBSET D /\ Right(s \ {x})
        <5>1. s \ {x} \in SUBSET D /\ Cardinality(s \ {x}) <= n
          BY <1>6, <1>7, <2>1, <2>2
        <5>2. QED BY <1>8, <5>1
      <4>3. g[s] = f[c] + g[s \ {c}]
        BY <1>5, <3>2, <4>1
      <4>4. g[s] \in Int
        <5>1. f[c] \in Int /\ g[s \ {c}] \in Int
          BY <4>2
        <5>2. QED BY <4>3, <5>1
      <4>5. ASSUME NEW x \in s PROVE g[s] = f[x] + g[s \ {x}]
        <5>1. CASE x = c
          BY <4>3, <5>1
        <5>2. CASE x # c
          <6>1. g[s \ {c}] = f[x] + g[(s \ {c}) \ {x}] /\ g[s \ {x}] = f[c] + g[(s \ {x}) \ {c}]
            BY <4>2, <5>2
          <6>2. (s \ {c}) \ {x} = (s \ {x}) \ {c}
            OBVIOUS
          <6>3. PICK e : e = g[(s \ {c}) \ {x}]
            OBVIOUS
          <6>4. (s \ {c}) \ {x} \in SUBSET D /\ Cardinality((s \ {c}) \ {x}) <= n
            <7>1. s \ {c} \in SUBSET D /\ x \in s \ {c} /\ (s \ {c}) \ {x} \in SUBSET D
              BY <5>2
            <7>2. Cardinality((s \ {c}) \ {x}) = Cardinality(s \ {c}) - 1
              BY <1>7, <7>1
            <7>3. Cardinality(s \ {c}) = Cardinality(s) - 1
              BY <1>7
            <7>4. QED BY <1>6, <2>1, <2>2, <7>1, <7>2, <7>3
          <6>5. e \in Int
            BY <1>8, <6>3, <6>4
          <6>6. f[x] \in Int /\ f[c] \in Int
            OBVIOUS
          <6>7. g[s \ {c}] = f[x] + e /\ g[s \ {x}] = f[c] + e
            BY <6>1, <6>2, <6>3
          <6>8. QED BY <4>3, <6>5, <6>6, <6>7
        <5>3. QED BY <5>1, <5>2
      <4>6. QED BY <4>4, <4>5
    <3>3. QED BY <3>1, <3>2
  <2>3. QED BY <1>8, <2>1, <2>2
<1>11. N \in SUBSET Nat
  BY <1>8
<1>12. N = Nat
  BY <1>9, <1>10, <1>11, Upward
<1>13. ASSUME NEW s \in SUBSET D PROVE Right(s)
  BY <1>6, <1>8, <1>12
<1>14. QED BY <1>4, <1>13 DEF Additive

\* Two functions that agree on a set have the same folds of its subsets.
LEMMA FoldAgree ==
  ASSUME NEW f, NEW D, IsFiniteSet(D), \A x \in D : f[x] \in Int, NEW g, Folds(g, f, D),
         NEW e, NEW E, IsFiniteSet(E), \A x \in E : e[x] \in Int, NEW h, Folds(h, e, E),
         NEW S, S \subseteq D, S \subseteq E, \A x \in S : f[x] = e[x]
  PROVE  g[S] = h[S]
<1>0. Additive(g, f, D) /\ Additive(h, e, E)
  BY FoldStep
<1>1. g[{}] = 0 /\ h[{}] = 0
  BY <1>0 DEF Additive
<1>2. \A s \in SUBSET D : \A x \in s : g[s] = f[x] + g[s \ {x}]
  BY <1>0 DEF Additive
<1>3. \A s \in SUBSET E : \A x \in s : h[s] = e[x] + h[s \ {x}]
  BY <1>0 DEF Additive
<1>4. PICK F : F = {s \in SUBSET S : g[s] = h[s]}
  OBVIOUS
<1>5. {} \in F
  BY <1>1, <1>4
<1>6. ASSUME NEW T \in SUBSET S, NEW x \in S \ T, T \in F PROVE T \cup {x} \in F
  <2>1. PICK U : U = T \cup {x}
    OBVIOUS
  <2>2. U \ {x} = T /\ x \in U /\ U \in SUBSET S
    BY <2>1
  <2>3. g[U] = f[x] + g[T] /\ h[U] = e[x] + h[T]
    BY <1>2, <1>3, <2>2
  <2>4. g[U] = h[U]
    BY <1>4, <1>6, <2>3
  <2>5. QED BY <1>4, <2>1, <2>2, <2>4
<1>7. IsFiniteSet(S)
  BY FS_Subset
<1>8. S \in F
  BY <1>5, <1>6, <1>7, OneByOne
<1>9. QED BY <1>4, <1>8

LEMMA TotalFold ==
  ASSUME NEW f, IsFiniteSet(DOMAIN f), \A x \in DOMAIN f : f[x] \in Int
  PROVE  \E g : Folds(g, f, DOMAIN f) /\ Total(f) = g[DOMAIN f]
<1>1. \E g : Folds(g, f, DOMAIN f)
  BY FoldExists
<1>2. PICK g : g = CHOOSE h : Folds(h, f, DOMAIN f)
  OBVIOUS
<1>3. Folds(g, f, DOMAIN f)
  BY <1>1, <1>2
<1>4. Total(f) = g[DOMAIN f]
  BY <1>2, TotalIs
<1>5. QED BY <1>3, <1>4

\* What Total is for: an integer, nothing for no terms, and any term with the
\* total of the others.
Terms(f, S) == IsFiniteSet(S) /\ f = [x \in S |-> f[x]] /\ \A x \in S : f[x] \in Int
Without(f, x) == [y \in DOMAIN f \ {x} |-> f[y]]

LEMMA TotalStep ==
  \A f, S : Terms(f, S) =>
    /\ Total(f) \in Int
    /\ S = {} => Total(f) = 0
    /\ \A x \in S : Total(f) = f[x] + Total([y \in S \ {x} |-> f[y]])
<1> SUFFICES ASSUME NEW f, NEW S, Terms(f, S)
             PROVE  /\ Total(f) \in Int
                    /\ S = {} => Total(f) = 0
                    /\ \A x \in S : Total(f) = f[x] + Total([y \in S \ {x} |-> f[y]])
  OBVIOUS
<1>1. DOMAIN f = S /\ IsFiniteSet(S) /\ \A x \in S : f[x] \in Int
  BY DEF Terms
<1>2. PICK g : Folds(g, f, S) /\ Total(f) = g[S]
  BY <1>1, TotalFold
<1>3. /\ g[{}] = 0
      /\ \A s \in SUBSET S : g[s] \in Int
      /\ \A s \in SUBSET S : \A x \in s : g[s] = f[x] + g[s \ {x}]
  BY <1>1, <1>2, FoldStep DEF Additive
<1>4. ASSUME NEW x \in S PROVE Total(f) = f[x] + Total([y \in S \ {x} |-> f[y]])
  <2>1. PICK E : E = S \ {x}
    OBVIOUS
  <2>2. PICK e : e = [y \in E |-> f[y]]
    OBVIOUS
  <2>3. DOMAIN e = E /\ IsFiniteSet(E) /\ E \subseteq S /\ \A y \in E : e[y] = f[y] /\ e[y] \in Int
    BY <1>1, <2>1, <2>2, FS_Subset
  <2>4. PICK h : Folds(h, e, E) /\ Total(e) = h[E]
    BY <2>3, TotalFold
  <2>5. g[E] = h[E]
    BY <1>1, <1>2, <2>3, <2>4, FoldAgree
  <2>6. Total(f) = f[x] + g[E]
    BY <1>2, <1>3, <2>1
  <2>7. QED BY <2>1, <2>2, <2>4, <2>5, <2>6
<1>5. QED BY <1>2, <1>3, <1>4

\* A term more.
LEMMA TotalAdd ==
  \A f, h, S, x : /\ Terms(f, S) /\ x \notin S /\ h = [y \in S \cup {x} |-> h[y]]
                  /\ h[x] \in Int /\ \A y \in S : h[y] = f[y]
                  => Terms(h, S \cup {x}) /\ Total(h) = Total(f) + h[x]
<1> SUFFICES ASSUME NEW f, NEW h, NEW S, NEW x, Terms(f, S), x \notin S, h = [y \in S \cup {x} |-> h[y]],
                    h[x] \in Int, \A y \in S : h[y] = f[y]
             PROVE  Terms(h, S \cup {x}) /\ Total(h) = Total(f) + h[x]
  OBVIOUS
<1>1. PICK U : U = S \cup {x}
  OBVIOUS
<1>2. IsFiniteSet(U)
  BY <1>1, FS_AddElement DEF Terms
<1>3. Terms(h, U)
  BY <1>1, <1>2 DEF Terms
<1>4. U \ {x} = S /\ x \in U
  BY <1>1
<1>5. Total(h) = h[x] + Total([y \in S |-> h[y]])
  BY <1>3, <1>4, TotalStep
<1>6. [y \in S |-> h[y]] = f
  BY DEF Terms
<1>7. Total(f) \in Int
  BY TotalStep
<1>8. QED BY <1>1, <1>3, <1>5, <1>6, <1>7

\* Another value for one term.
LEMMA TotalChange ==
  \A f, h, S : \A x \in S : /\ Terms(f, S) /\ Terms(h, S) /\ \A y \in S \ {x} : h[y] = f[y]
                            => Total(h) = Total(f) - f[x] + h[x]
<1> SUFFICES ASSUME NEW f, NEW h, NEW S, NEW x \in S, Terms(f, S), Terms(h, S),
                    \A y \in S \ {x} : h[y] = f[y]
             PROVE  Total(h) = Total(f) - f[x] + h[x]
  OBVIOUS
<1>1. [y \in S \ {x} |-> h[y]] = [y \in S \ {x} |-> f[y]]
  OBVIOUS
<1>2. PICK e : e = [y \in S \ {x} |-> f[y]]
  OBVIOUS
<1>3. Total(f) = f[x] + Total(e) /\ Total(h) = h[x] + Total(e)
  BY <1>1, <1>2, TotalStep
<1>4. Terms(e, S \ {x})
  BY <1>2, FS_Subset DEF Terms
<1>5. Total(e) \in Int /\ f[x] \in Int /\ h[x] \in Int
  BY <1>4, TotalStep DEF Terms
<1>6. QED BY <1>3, <1>5

On(f, T) == [x \in T |-> f[x]]

LEMMA TermsOn ==
  \A f, S : Terms(f, S) => /\ On(f, S) = f
                           /\ \A T \in SUBSET S : Terms(On(f, T), T) /\ Total(On(f, T)) \in Int
                           /\ Total(On(f, {})) = 0
                           /\ \A T \in SUBSET S : \A x \in S \ T :
                                f[x] \in Int /\ Total(On(f, T \cup {x})) = Total(On(f, T)) + f[x]
<1> SUFFICES ASSUME NEW f, NEW S, Terms(f, S)
             PROVE  /\ On(f, S) = f
                    /\ \A T \in SUBSET S : Terms(On(f, T), T) /\ Total(On(f, T)) \in Int
                    /\ Total(On(f, {})) = 0
                    /\ \A T \in SUBSET S : \A x \in S \ T :
                         f[x] \in Int /\ Total(On(f, T \cup {x})) = Total(On(f, T)) + f[x]
  OBVIOUS
<1>1. On(f, S) = f
  BY DEF Terms, On
<1>2. ASSUME NEW T \in SUBSET S PROVE Terms(On(f, T), T) /\ Total(On(f, T)) \in Int
  <2>1. Terms(On(f, T), T)
    BY FS_Subset DEF Terms, On
  <2>2. QED BY <2>1, TotalStep
<1>3. Total(On(f, {})) = 0
  BY <1>2, TotalStep
<1>4. ASSUME NEW T \in SUBSET S, NEW x \in S \ T
      PROVE  f[x] \in Int /\ Total(On(f, T \cup {x})) = Total(On(f, T)) + f[x]
  <2>1. PICK h : h = On(f, T \cup {x})
    OBVIOUS
  <2>2. h = [y \in T \cup {x} |-> h[y]] /\ h[x] = f[x] /\ \A y \in T : h[y] = On(f, T)[y]
    BY <2>1 DEF On
  <2>3. f[x] \in Int
    BY DEF Terms
  <2>4. Total(h) = Total(On(f, T)) + h[x]
    BY <1>2, <2>2, <2>3, TotalAdd
  <2>5. QED BY <2>1, <2>2, <2>3, <2>4
<1>5. QED BY <1>1, <1>2, <1>3, <1>4

LEMMA TotalMonotone ==
  \A f, h, S : Terms(f, S) /\ Terms(h, S) /\ (\A x \in S : f[x] <= h[x]) => Total(f) <= Total(h)
<1> SUFFICES ASSUME NEW f, NEW h, NEW S, Terms(f, S), Terms(h, S), \A x \in S : f[x] <= h[x]
             PROVE  Total(f) <= Total(h)
  OBVIOUS
<1>1. PICK F : F = {T \in SUBSET S : Total(On(f, T)) <= Total(On(h, T))}
  OBVIOUS
<1>2. {} \in F
  BY <1>1, TermsOn
<1>3. ASSUME NEW T \in SUBSET S, NEW x \in S \ T, T \in F PROVE T \cup {x} \in F
  <2>1. PICK a \in Int, b \in Int : a = Total(On(f, T)) /\ b = Total(On(h, T))
    BY TermsOn
  <2>2. a <= b /\ f[x] \in Int /\ h[x] \in Int /\ f[x] <= h[x]
    BY <1>1, <1>3, <2>1, TermsOn
  <2>3. Total(On(f, T \cup {x})) = a + f[x] /\ Total(On(h, T \cup {x})) = b + h[x]
    BY <2>1, TermsOn
  <2>4. Total(On(f, T \cup {x})) <= Total(On(h, T \cup {x}))
    BY <2>2, <2>3
  <2>5. QED BY <1>1, <2>4
<1>4. S \in F
  BY <1>2, <1>3, OneByOne DEF Terms
<1>5. QED BY <1>1, <1>4, TermsOn

\* Totals of sums, multiples, and of ones.
LEMMA TotalSum ==
  \A f, e, h, S : Terms(f, S) /\ Terms(e, S) /\ Terms(h, S) /\ (\A x \in S : h[x] = f[x] + e[x])
                  => Total(h) = Total(f) + Total(e)
<1> SUFFICES ASSUME NEW f, NEW e, NEW h, NEW S, Terms(f, S), Terms(e, S), Terms(h, S),
                    \A x \in S : h[x] = f[x] + e[x]
             PROVE  Total(h) = Total(f) + Total(e)
  OBVIOUS
<1>1. PICK F : F = {T \in SUBSET S : Total(On(h, T)) = Total(On(f, T)) + Total(On(e, T))}
  OBVIOUS
<1>2. {} \in F
  BY <1>1, TermsOn
<1>3. ASSUME NEW T \in SUBSET S, NEW x \in S \ T, T \in F PROVE T \cup {x} \in F
  <2>1. PICK a \in Int, b \in Int, c \in Int : a = Total(On(f, T)) /\ b = Total(On(e, T)) /\ c = Total(On(h, T))
    BY TermsOn
  <2>2. c = a + b /\ f[x] \in Int /\ e[x] \in Int /\ h[x] = f[x] + e[x]
    BY <1>1, <1>3, <2>1, TermsOn
  <2>3. /\ Total(On(f, T \cup {x})) = a + f[x] /\ Total(On(e, T \cup {x})) = b + e[x]
        /\ Total(On(h, T \cup {x})) = c + h[x]
    BY <2>1, TermsOn
  <2>4. Total(On(h, T \cup {x})) = Total(On(f, T \cup {x})) + Total(On(e, T \cup {x}))
    BY <2>2, <2>3
  <2>5. QED BY <1>1, <2>4
<1>4. S \in F
  BY <1>2, <1>3, OneByOne DEF Terms
<1>5. QED BY <1>1, <1>4, TermsOn

LEMMA TotalTimes ==
  \A f, h, S, c : c \in Int /\ Terms(f, S) /\ Terms(h, S) /\ (\A x \in S : h[x] = c * f[x])
                  => Total(h) = c * Total(f)
<1> SUFFICES ASSUME NEW f, NEW h, NEW S, NEW c \in Int, Terms(f, S), Terms(h, S),
                    \A x \in S : h[x] = c * f[x]
             PROVE  Total(h) = c * Total(f)
  OBVIOUS
<1>1. PICK F : F = {T \in SUBSET S : Total(On(h, T)) = c * Total(On(f, T))}
  OBVIOUS
<1>2. {} \in F
  BY <1>1, TermsOn
<1>3. ASSUME NEW T \in SUBSET S, NEW x \in S \ T, T \in F PROVE T \cup {x} \in F
  <2>1. PICK a \in Int, b \in Int : a = Total(On(f, T)) /\ b = Total(On(h, T))
    BY TermsOn
  <2>2. b = c * a /\ f[x] \in Int /\ h[x] = c * f[x]
    BY <1>1, <1>3, <2>1, TermsOn
  <2>3. Total(On(f, T \cup {x})) = a + f[x] /\ Total(On(h, T \cup {x})) = b + h[x]
    BY <2>1, TermsOn
  <2>4. c * (a + f[x]) = c * a + c * f[x]
    BY <2>2
  <2>5. Total(On(h, T \cup {x})) = c * Total(On(f, T \cup {x}))
    BY <2>2, <2>3, <2>4
  <2>6. QED BY <1>1, <2>5
<1>4. S \in F
  BY <1>2, <1>3, OneByOne DEF Terms
<1>5. QED BY <1>1, <1>4, TermsOn

LEMMA TotalTimesEach ==
  ASSUME NEW c \in Int, NEW f, NEW S, Terms(f, S)
  PROVE  Terms([x \in S |-> c * f[x]], S) /\ Total([x \in S |-> c * f[x]]) = c * Total(f)
<1>1. PICK h : h = [x \in S |-> c * f[x]]
  OBVIOUS
<1>2. \A x \in S : f[x] \in Int
  BY DEF Terms
<1>3. \A x \in S : h[x] = c * f[x] /\ h[x] \in Int
  BY <1>1, <1>2
<1>4. Terms(h, S)
  BY <1>1, <1>3 DEF Terms
<1>5. Total(h) = c * Total(f)
  BY <1>3, <1>4, TotalTimes
<1>6. QED BY <1>1, <1>4, <1>5

LEMMA TotalOfOnes ==
  \A S, U : IsFiniteSet(S) /\ U \subseteq S => Total([x \in S |-> IF x \in U THEN 1 ELSE 0]) = Cardinality(U)
<1> SUFFICES ASSUME NEW S, NEW U, IsFiniteSet(S), U \subseteq S
             PROVE  Total([x \in S |-> IF x \in U THEN 1 ELSE 0]) = Cardinality(U)
  OBVIOUS
<1>1. PICK f : f = [x \in S |-> IF x \in U THEN 1 ELSE 0]
  OBVIOUS
<1>2. Terms(f, S)
  BY <1>1 DEF Terms
<1>3. PICK F : F = {T \in SUBSET S : Total(On(f, T)) = Cardinality(T \cap U)}
  OBVIOUS
<1>4. {} \in F
  BY <1>2, <1>3, TermsOn, FS_EmptySet
<1>5. ASSUME NEW T \in SUBSET S, NEW x \in S \ T, T \in F PROVE T \cup {x} \in F
  <2>1. Total(On(f, T \cup {x})) = Cardinality(T \cap U) + f[x]
    BY <1>2, <1>3, <1>5, TermsOn
  <2>2. PICK V : V = T \cap U
    OBVIOUS
  <2>3. IsFiniteSet(V) /\ Cardinality(V) \in Nat /\ x \notin V
    BY <2>2, FS_Subset, FS_CardinalityType
  <2>4. CASE x \in U
    <3>1. (T \cup {x}) \cap U = V \cup {x} /\ f[x] = 1
      BY <1>1, <2>2, <2>4
    <3>2. Cardinality(V \cup {x}) = Cardinality(V) + 1
      BY <2>3, FS_AddElement
    <3>3. QED BY <1>3, <2>1, <2>2, <3>1, <3>2
  <2>5. CASE x \notin U
    <3>1. (T \cup {x}) \cap U = V /\ f[x] = 0
      BY <1>1, <2>2, <2>5
    <3>2. Total(On(f, T \cup {x})) = Cardinality((T \cup {x}) \cap U)
      BY <2>1, <2>2, <2>3, <3>1
    <3>3. T \cup {x} \in SUBSET S
      OBVIOUS
    <3>4. QED BY <1>3, <3>2, <3>3
  <2>6. QED BY <2>4, <2>5
<1>6. S \in F
  BY <1>4, <1>5, OneByOne
<1>7. S \cap U = U
  OBVIOUS
<1>8. QED BY <1>1, <1>2, <1>3, <1>6, <1>7, TermsOn
-----------------------------------------------------------------------------
(* The split *)

LEMMA Division ==
  \A a \in Nat, b \in Nat \ {0} :
    /\ a \div b \in Nat /\ a % b \in 0..(b - 1)
    /\ a = b * (a \div b) + (a % b)
OBVIOUS

\* Of n things that are told apart by the numbers below n, k are numbered below k.
LEMMA Numbered ==
  ASSUME NEW S, IsFiniteSet(S), NEW R \in Injection(S, 0..(Cardinality(S) - 1)), NEW k \in 0..Cardinality(S)
  PROVE  Cardinality({i \in S : R[i] < k}) = k
<1>1. PICK n \in Nat : n = Cardinality(S)
  BY FS_CardinalityType
<1>2. IsFiniteSet(0..(n - 1)) /\ Cardinality(0..(n - 1)) = n
  <2>1. PICK m \in Int : m = n - 1
    OBVIOUS
  <2>2. IsFiniteSet(0..m) /\ Cardinality(0..m) = IF 0 > m THEN 0 ELSE m - 0 + 1
    BY FS_Interval
  <2>3. QED BY <2>1, <2>2
<1>3. R \in Surjection(S, 0..(n - 1))
  BY <1>1, <1>2, FS_Injection
<1>4. PICK U : U = {i \in S : R[i] < k}
  OBVIOUS
<1>5. PICK f : f = [i \in U |-> R[i]]
  OBVIOUS
<1>6. f \in Bijection(U, 0..(k - 1))
  <2>1. \A i \in S : R[i] \in 0..(n - 1)
    BY <1>1 DEF Injection
  <2>2. f \in [U -> 0..(k - 1)]
    BY <1>1, <1>4, <1>5, <2>1
  <2>3. f \in Injection(U, 0..(k - 1))
    <3>1. \A a, b \in S : R[a] = R[b] => a = b
      BY DEF Injection, IsInjective
    <3>2. \A a, b \in U : f[a] = f[b] => a = b
      BY <1>4, <1>5, <3>1
    <3>3. QED BY <2>2, <3>2 DEF Injection, IsInjective
  <2>4. ASSUME NEW v \in 0..(k - 1) PROVE \E i \in U : f[i] = v
    <3>1. v \in 0..(n - 1)
      BY <1>1
    <3>2. PICK i \in S : R[i] = v
      BY <1>3, <3>1 DEF Surjection
    <3>3. i \in U
      BY <1>1, <1>4, <3>2
    <3>4. QED BY <1>5, <3>2, <3>3
  <2>5. QED BY <2>2, <2>3, <2>4 DEF Bijection, Surjection
<1>7. Cardinality(U) = Cardinality(0..(k - 1)) 
  <2>1. ExistsBijection(U, 0..(k - 1))
    BY <1>6 DEF ExistsBijection
  <2>2. IsFiniteSet(U)
    BY <1>4, FS_Subset
  <2>3. QED BY <2>1, <2>2, FS_Bijection
<1>8. Cardinality(0..(k - 1)) = k
  BY <1>1, FS_Interval
<1>9. QED BY <1>4, <1>7, <1>8

LEMMA TotalOfNaturals ==
  \A f, S : Terms(f, S) /\ (\A x \in S : f[x] >= 0) =>
    Total(f) \in Nat /\ \A x \in S : f[x] <= Total(f)
<1> SUFFICES ASSUME NEW f, NEW S, Terms(f, S), \A x \in S : f[x] >= 0
             PROVE  Total(f) \in Nat /\ \A x \in S : f[x] <= Total(f)
  OBVIOUS
<1>1. ASSUME NEW h, NEW T, Terms(h, T), \A x \in T : h[x] >= 0 PROVE Total(h) \in Int /\ Total(h) >= 0
  <2>1. PICK e : e = [x \in T |-> IF x \in {} THEN 1 ELSE 0]
    OBVIOUS
  <2>2. Total(e) = 0
    BY <1>1, <2>1, TotalOfOnes, FS_EmptySet DEF Terms
  <2>3. Terms(e, T) /\ \A x \in T : e[x] <= h[x]
    BY <1>1, <2>1 DEF Terms
  <2>4. Total(e) <= Total(h)
    BY <1>1, <2>3, TotalMonotone
  <2>5. Total(h) \in Int
    BY <1>1, TotalStep
  <2>6. QED BY <2>2, <2>4, <2>5
<1>2. ASSUME NEW x \in S PROVE f[x] <= Total(f)
  <2>1. PICK e : e = [y \in S \ {x} |-> f[y]]
    OBVIOUS
  <2>2. Terms(e, S \ {x}) /\ \A y \in S \ {x} : e[y] >= 0
    BY <2>1, FS_Subset DEF Terms
  <2>3. Total(f) = f[x] + Total(e)
    BY <2>1, TotalStep
  <2>4. Total(e) \in Int /\ Total(e) >= 0 /\ f[x] \in Int
    BY <1>1, <2>2 DEF Terms
  <2>5. QED BY <2>3, <2>4
<1>3. QED BY <1>1, <1>2

Weights(w, n) == n \in Nat \ {0} /\ w \in [1..n -> Nat]

LEMMA UpTo == \A n \in Nat : IsFiniteSet(1..n) /\ Cardinality(1..n) = n
BY FS_Interval

LEMMA WeightsInUse ==
  \A v, n : Weights(v, n) =>
    /\ Weights(EvenIfZero(v), n) /\ Total(EvenIfZero(v)) \in Nat \ {0}
    /\ \A i, j \in 1..n : v[i] > v[j] => EvenIfZero(v) = v
<1> SUFFICES ASSUME NEW v, NEW n, Weights(v, n)
             PROVE  /\ Weights(EvenIfZero(v), n) /\ Total(EvenIfZero(v)) \in Nat \ {0}
                    /\ \A i, j \in 1..n : v[i] > v[j] => EvenIfZero(v) = v
  OBVIOUS
<1>0. n \in Nat \ {0} /\ v \in [1..n -> Nat]
  BY DEF Weights
<1>1. n \in Nat \ {0} /\ v \in [1..n -> Nat] /\ IsFiniteSet(1..n) /\ Cardinality(1..n) = n
  BY <1>0, UpTo
<1>2. Terms(v, 1..n)
  BY <1>1 DEF Terms
<1>3. Total(v) \in Nat /\ \A i \in 1..n : v[i] <= Total(v)
  BY <1>1, <1>2, TotalOfNaturals
<1>4. CASE Total(v) <= 0
  <2>1. PICK e : e = [i \in 1..n |-> 1]
    OBVIOUS
  <2>2. EvenIfZero(v) = e
    BY <1>1, <1>4, <2>1 DEF EvenIfZero
  <2>3. e = [i \in 1..n |-> IF i \in 1..n THEN 1 ELSE 0]
    BY <2>1
  <2>4. Total(e) = n
    BY <1>1, <2>3, TotalOfOnes
  <2>5. \A i \in 1..n : v[i] = 0
    BY <1>1, <1>3, <1>4
  <2>6. Weights(e, n)
    BY <1>1, <2>1 DEF Weights
  <2>7. QED BY <1>1, <2>2, <2>4, <2>5, <2>6
<1>5. CASE ~(Total(v) <= 0)
  BY <1>3, <1>5 DEF EvenIfZero
<1>6. QED BY <1>4, <1>5

\* The order in which cents are handed out: the larger fraction first.
LEMMA HandedOutInOrder ==
  \A t, w, n : Weights(w, n) /\ (\A i \in 1..n : fraction(t, w, i) \in Nat) =>
    /\ [i \in 1..n |-> rank(t, w, i)] \in Injection(1..n, 0..(n - 1))
    /\ \A i, j \in 1..n : fraction(t, w, i) > fraction(t, w, j) => rank(t, w, i) < rank(t, w, j)
<1> SUFFICES ASSUME NEW t, NEW w, NEW n, Weights(w, n), \A i \in 1..n : fraction(t, w, i) \in Nat
             PROVE  /\ [i \in 1..n |-> rank(t, w, i)] \in Injection(1..n, 0..(n - 1))
                    /\ \A i, j \in 1..n : fraction(t, w, i) > fraction(t, w, j) => rank(t, w, i) < rank(t, w, j)
  OBVIOUS
<1>0. n \in Nat \ {0} /\ DOMAIN w = 1..n
  BY DEF Weights
<1>1. n \in Nat \ {0} /\ DOMAIN w = 1..n /\ IsFiniteSet(1..n) /\ Cardinality(1..n) = n
  BY <1>0, UpTo
<1>2. PICK fr : fr = [i \in 1..n |-> fraction(t, w, i)]
  OBVIOUS
<1>3. \A i \in 1..n : fr[i] \in Nat
  BY <1>2
<1> DEFINE First(j, i) == fr[j] > fr[i] \/ (fr[j] = fr[i] /\ j < i)
           Before(i) == {j \in 1..n : First(j, i)}
<1>4. \A i \in 1..n : rank(t, w, i) = Cardinality(Before(i))
  BY <1>1, <1>2 DEF rank
<1>5. ASSUME NEW i \in 1..n PROVE IsFiniteSet(Before(i)) /\ Cardinality(Before(i)) \in 0..(n - 1)
  <2>1. IsFiniteSet(Before(i)) /\ Cardinality(Before(i)) \in Nat
    BY <1>1, FS_Subset, FS_CardinalityType
  <2>2. i \notin Before(i) /\ Before(i) \subseteq 1..n
    BY <1>3
  <2>3. Cardinality(Before(i)) <= n /\ Cardinality(Before(i)) # n
    BY <1>1, <2>2, FS_Subset
  <2>4. QED BY <1>1, <2>1, <2>3
<1>6. PICK R : R = [i \in 1..n |-> rank(t, w, i)]
  OBVIOUS
<1>7. \A i \in 1..n : R[i] = Cardinality(Before(i)) /\ R[i] \in 0..(n - 1)
  BY <1>4, <1>5, <1>6
<1> HIDE DEF Before
<1>71. \A i \in 1..n : R[i] \in Nat
  BY <1>1, <1>7
<1>8. ASSUME NEW i \in 1..n, NEW j \in 1..n, First(i, j)
      PROVE  R[i] < R[j]
  <2>1. Before(i) \subseteq Before(j)
    BY <1>3, <1>8 DEF Before
  <2>2. i \in Before(j) /\ i \notin Before(i)
    BY <1>3, <1>8 DEF Before
  <2>3. Cardinality(Before(i)) <= Cardinality(Before(j)) /\ Cardinality(Before(i)) # Cardinality(Before(j))
    BY <1>5, <2>1, <2>2, FS_Subset
  <2>4. R[i] <= R[j] /\ R[i] # R[j]
    BY <1>7, <2>3
  <2>5. R[i] \in Nat /\ R[j] \in Nat
    BY <1>71
  <2>6. QED BY <2>4, <2>5
<1>9. ASSUME NEW i \in 1..n, NEW j \in 1..n, R[i] = R[j] PROVE i = j
  <2>1. i # j => First(i, j) \/ First(j, i)
    BY <1>3
  <2>2. ~(R[i] < R[j]) /\ ~(R[j] < R[i])
    BY <1>71, <1>9
  <2>3. ~First(i, j) /\ ~First(j, i)
    BY <1>8, <2>2
  <2>4. QED BY <2>1, <2>3
<1>10. R \in Injection(1..n, 0..(n - 1))
  BY <1>6, <1>7, <1>9 DEF Injection, IsInjective
<1>11. \A i, j \in 1..n : fr[i] > fr[j] => rank(t, w, i) < rank(t, w, j)
  BY <1>6, <1>8
<1>12. QED BY <1>2, <1>6, <1>10, <1>11

\* What the quotas, rounded down, leave over: what the fractions add up to, and
\* no more cents than there are fractions.
LEMMA LeftOver ==
  \A t, w, n : t \in Nat /\ Weights(w, n) /\ Total(w) \in Nat \ {0} =>
    LET W == Total(w)
        left == t - Total([i \in 1..n |-> quota(t, w, i)])
    IN  /\ \A i \in 1..n : /\ quota(t, w, i) \in Nat /\ fraction(t, w, i) \in 0..(W - 1)
                           /\ t * w[i] = W * quota(t, w, i) + fraction(t, w, i)
        /\ left \in 0..n
        /\ left <= Cardinality({i \in 1..n : fraction(t, w, i) > 0})
        /\ (\A i \in 1..n : fraction(t, w, i) = 0) => left = 0
<1> SUFFICES ASSUME NEW t \in Nat, NEW w, NEW n, Weights(w, n), Total(w) \in Nat \ {0}
             PROVE  LET W == Total(w)
                        left == t - Total([i \in 1..n |-> quota(t, w, i)])
                    IN  /\ \A i \in 1..n : /\ quota(t, w, i) \in Nat /\ fraction(t, w, i) \in 0..(W - 1)
                                           /\ t * w[i] = W * quota(t, w, i) + fraction(t, w, i)
                        /\ left \in 0..n
                        /\ left <= Cardinality({i \in 1..n : fraction(t, w, i) > 0})
                        /\ (\A i \in 1..n : fraction(t, w, i) = 0) => left = 0
  OBVIOUS
<1>1. PICK W \in Nat \ {0} : W = Total(w)
  OBVIOUS
<1>2. n \in Nat \ {0} /\ w \in [1..n -> Nat] /\ IsFiniteSet(1..n) /\ Cardinality(1..n) = n
  <2>1. n \in Nat \ {0} /\ w \in [1..n -> Nat]
    BY DEF Weights
  <2>2. QED BY <2>1, UpTo
<1>3. PICK q : q = [i \in 1..n |-> quota(t, w, i)]
  OBVIOUS
<1>4. PICK fr : fr = [i \in 1..n |-> fraction(t, w, i)]
  OBVIOUS
<1>5. ASSUME NEW i \in 1..n PROVE q[i] \in Nat /\ fr[i] \in 0..(W - 1) /\ t * w[i] = W * q[i] + fr[i]
  <2>1. PICK a \in Nat : a = t * w[i]
    BY <1>2
  <2>2. q[i] = a \div W /\ fr[i] = a % W
    BY <1>1, <1>3, <1>4, <2>1 DEF quota, fraction
  <2>3. QED BY <2>1, <2>2, Division
<1>6. PICK U : U = {i \in 1..n : fr[i] > 0}
  OBVIOUS
<1>7. U \subseteq 1..n /\ Cardinality(U) \in 0..n
  <2>1. Cardinality(U) <= n /\ Cardinality(U) \in Nat
    BY <1>2, <1>6, FS_Subset, FS_CardinalityType
  <2>2. QED BY <1>2, <1>6, <2>1
<1>8. PICK tw : tw = [i \in 1..n |-> t * w[i]]
  OBVIOUS
<1>9. PICK Wq : Wq = [i \in 1..n |-> W * q[i]]
  OBVIOUS
<1>10. PICK one : one = [i \in 1..n |-> IF i \in U THEN 1 ELSE 0]
  OBVIOUS
<1>11. PICK Wone : Wone = [i \in 1..n |-> W * one[i]]
  OBVIOUS
<1>12. Terms(w, 1..n) /\ Terms(q, 1..n) /\ Terms(fr, 1..n) /\ Terms(one, 1..n)
  BY <1>2, <1>3, <1>4, <1>5, <1>10 DEF Terms
<1>13. Terms(tw, 1..n) /\ Terms(Wq, 1..n) /\ Terms(Wone, 1..n)
  <2>1. \A i \in 1..n : t * w[i] \in Int
    BY <1>2
  <2>2. \A i \in 1..n : W * q[i] \in Int
    BY <1>5
  <2>3. \A i \in 1..n : W * one[i] \in Int
    BY <1>10
  <2>4. QED BY <1>2, <1>8, <1>9, <1>11, <2>1, <2>2, <2>3 DEF Terms
<1>14. Total(tw) = t * W
  <2>1. t \in Int
    OBVIOUS
  <2>2. Total([i \in 1..n |-> t * w[i]]) = t * Total(w)
    BY <1>12, <2>1, TotalTimesEach, Zenon
  <2>3. QED BY <1>1, <1>8, <2>2, Zenon
<1>15. Total(Wq) = W * Total(q) /\ Total(Wone) = W * Total(one)
  <2>1. W \in Int
    OBVIOUS
  <2>2. Total([i \in 1..n |-> W * q[i]]) = W * Total(q) /\ Total([i \in 1..n |-> W * one[i]]) = W * Total(one)
    BY <1>12, <2>1, TotalTimesEach, Zenon
  <2>3. QED BY <1>9, <1>11, <2>2, Zenon
<1>16. Total(tw) = Total(Wq) + Total(fr)
  <2>1. \A i \in 1..n : tw[i] = Wq[i] + fr[i]
    BY <1>5, <1>8, <1>9
  <2>2. QED BY <1>12, <1>13, <2>1, TotalSum
<1>17. Total(one) = Cardinality(U)
  BY <1>2, <1>7, <1>10, TotalOfOnes
<1>18. Total(fr) <= Total(Wone)
  <2>1. \A i \in 1..n : fr[i] <= Wone[i]
    <3> TAKE i \in 1..n
    <3>1. CASE i \in U
      BY <1>5, <1>10, <1>11, <3>1
    <3>2. CASE i \notin U
      BY <1>5, <1>6, <1>10, <1>11, <3>2
    <3>3. QED BY <3>1, <3>2
  <2>2. QED BY <1>12, <1>13, <2>1, TotalMonotone
<1>19. Total(fr) \in Nat
  <2>1. \A i \in 1..n : fr[i] >= 0
    BY <1>5
  <2>2. QED BY <1>12, <2>1, TotalOfNaturals
<1>20. PICK left \in Int : left = t - Total(q)
  BY <1>12, TotalStep
<1>21. W * left = Total(fr)
  <2>1. PICK s \in Int : s = Total(q)
    BY <1>12, TotalStep
  <2>2. t * W = W * s + Total(fr)
    BY <1>14, <1>15, <1>16, <2>1
  <2>3. W * (t - s) = t * W - W * s
    OBVIOUS
  <2>4. QED BY <1>19, <1>20, <2>1, <2>2, <2>3
<1>22. W * left <= W * Cardinality(U)
  BY <1>15, <1>17, <1>18, <1>21
<1>23. left >= 0 /\ left <= Cardinality(U)
  <2>1. PICK c \in Nat : c = Cardinality(U)
    BY <1>7
  <2>2. W * left >= 0
    BY <1>19, <1>21
  <2>3. left < 0 => W * left < 0
    OBVIOUS
  <2>4. left > c => W * left > W * c
    OBVIOUS
  <2>5. QED BY <1>22, <2>1, <2>2, <2>3, <2>4
<1>24. (\A i \in 1..n : fr[i] = 0) => left = 0
  <2> SUFFICES ASSUME \A i \in 1..n : fr[i] = 0 PROVE left = 0
    OBVIOUS
  <2>1. U = {}
    BY <1>6
  <2>2. Cardinality(U) = 0
    BY <2>1, FS_EmptySet
  <2>3. QED BY <1>23, <2>2
<1>25. left \in 0..n
  BY <1>2, <1>7, <1>23
<1>26. /\ \A i \in 1..n : quota(t, w, i) = q[i] /\ fraction(t, w, i) = fr[i]
       /\ left = t - Total([i \in 1..n |-> quota(t, w, i)])
       /\ U = {i \in 1..n : fraction(t, w, i) > 0}
  BY <1>3, <1>4, <1>6, <1>20
<1>27. QED BY <1>1, <1>5, <1>23, <1>24, <1>25, <1>26

\* distribute() splits to the cent, by weight, and gives the larger claim no less.
LEMMA DistributeIsFair ==
  \A t, v, n : t \in Nat /\ Weights(v, n) =>
    LET w == EvenIfZero(v)
        d == distribute(t, v)
    IN  /\ d \in [1..n -> Nat] /\ Total(d) = t
        /\ \A i \in 1..n : /\ d[i] * Total(w) < t * w[i] + Total(w)
                           /\ d[i] * Total(w) > t * w[i] - Total(w)
        /\ \A i, j \in 1..n : v[i] > v[j] => d[i] >= d[j]
<1> SUFFICES ASSUME NEW t \in Nat, NEW v, NEW n, Weights(v, n)
             PROVE  LET w == EvenIfZero(v)
                        d == distribute(t, v)
                    IN  /\ d \in [1..n -> Nat] /\ Total(d) = t
                        /\ \A i \in 1..n : /\ d[i] * Total(w) < t * w[i] + Total(w)
                                           /\ d[i] * Total(w) > t * w[i] - Total(w)
                        /\ \A i, j \in 1..n : v[i] > v[j] => d[i] >= d[j]
  OBVIOUS
<1>1. PICK w : w = EvenIfZero(v)
  OBVIOUS
<1>2. PICK W : W = Total(w)
  OBVIOUS
<1>3. /\ Weights(w, n) /\ W \in Nat \ {0}
      /\ \A i, j \in 1..n : v[i] > v[j] => w = v
  BY <1>1, <1>2, WeightsInUse
<1>4. n \in Nat \ {0} /\ w \in [1..n -> Nat] /\ DOMAIN w = 1..n /\ IsFiniteSet(1..n) /\ Cardinality(1..n) = n
  <2>1. n \in Nat \ {0} /\ w \in [1..n -> Nat]
    BY <1>3 DEF Weights
  <2>2. QED BY <2>1, UpTo
<1>5. PICK q : q = [i \in 1..n |-> quota(t, w, i)]
  OBVIOUS
<1>6. PICK fr : fr = [i \in 1..n |-> fraction(t, w, i)]
  OBVIOUS
<1>7. PICK left : left = t - Total(q)
  OBVIOUS
<1>8. PICK R : R = [i \in 1..n |-> rank(t, w, i)]
  OBVIOUS
<1>9. PICK U : U = {i \in 1..n : R[i] < left}
  OBVIOUS
<1>10. PICK d : d = [i \in 1..n |-> q[i] + (IF i \in U THEN 1 ELSE 0)]
  OBVIOUS
<1>11. distribute(t, v) = d
  BY <1>1, <1>4, <1>5, <1>7, <1>8, <1>9, <1>10 DEF distribute
<1>12. PICK P : P = {i \in 1..n : fr[i] > 0}
  OBVIOUS
<1>13. /\ \A i \in 1..n : q[i] \in Nat /\ fr[i] \in 0..(W - 1) /\ t * w[i] = W * q[i] + fr[i]
       /\ left \in 0..n /\ left <= Cardinality(P)
       /\ (\A i \in 1..n : fr[i] = 0) => left = 0
  <2>1. P = {i \in 1..n : fraction(t, w, i) > 0}
    BY <1>6, <1>12
  <2>2. \A i \in 1..n : q[i] = quota(t, w, i) /\ fr[i] = fraction(t, w, i)
    BY <1>5, <1>6
  <2>3. QED BY <1>2, <1>3, <1>5, <1>7, <2>1, <2>2, LeftOver
<1>14. /\ R \in Injection(1..n, 0..(n - 1))
       /\ \A i, j \in 1..n : fr[i] > fr[j] => R[i] < R[j]
  <2>1. \A i \in 1..n : fraction(t, w, i) \in Nat
    BY <1>3, <1>6, <1>13
  <2>2. QED BY <1>3, <1>6, <1>8, <2>1, HandedOutInOrder
<1>15. \A i \in 1..n : R[i] \in Nat
  BY <1>4, <1>14 DEF Injection
<1>16. Cardinality(U) = left
  BY <1>4, <1>9, <1>13, <1>14, Numbered
<1>17. PICK one : one = [i \in 1..n |-> IF i \in U THEN 1 ELSE 0]
  OBVIOUS
<1>18. Terms(q, 1..n) /\ Terms(one, 1..n) /\ Terms(d, 1..n)
  BY <1>4, <1>5, <1>10, <1>13, <1>17 DEF Terms
<1>19. Total(one) = left
  BY <1>4, <1>9, <1>16, <1>17, TotalOfOnes
<1>20. Total(d) = t
  <2>1. Total(d) = Total(q) + Total(one)
    <3>1. \A i \in 1..n : d[i] = q[i] + one[i]
      BY <1>10, <1>17
    <3>2. QED BY <1>18, <3>1, TotalSum
  <2>2. Total(q) \in Int
    BY <1>18, TotalStep
  <2>3. QED BY <1>7, <1>19, <2>1, <2>2
<1>21. d \in [1..n -> Nat]
  BY <1>10, <1>13
\* A party that gets a cent more has a fraction to round up: those with one come
\* first, and there are no more cents than them.
<1>22. ASSUME NEW i \in 1..n, i \in U PROVE fr[i] > 0
  <2> SUFFICES ASSUME fr[i] = 0 PROVE FALSE
    BY <1>13
  <2>1. \A j \in P : R[j] < R[i]
    BY <1>12, <1>14
  <2>2. PICK f : f = [j \in P |-> R[j]]
    OBVIOUS
  <2>3. f \in Injection(P, 0..(R[i] - 1))
    <3>1. \A j \in P : R[j] \in 0..(R[i] - 1)
      BY <1>12, <1>15, <2>1
    <3>2. \A a, b \in P : R[a] = R[b] => a = b
      BY <1>12, <1>14 DEF Injection, IsInjective
    <3>3. QED BY <2>2, <3>1, <3>2 DEF Injection, IsInjective
  <2>4. IsFiniteSet(0..(R[i] - 1)) /\ Cardinality(0..(R[i] - 1)) = R[i]
    <3>1. PICK m \in Int : m = R[i] - 1 /\ m + 1 >= 0
      BY <1>15
    <3>2. IsFiniteSet(0..m) /\ Cardinality(0..m) = IF 0 > m THEN 0 ELSE m - 0 + 1
      BY FS_Interval
    <3>3. QED BY <1>15, <3>1, <3>2
  <2>5. Cardinality(P) <= R[i]
    BY <2>3, <2>4, FS_Injection
  <2>6. Cardinality(P) \in Nat
    BY <1>4, <1>12, FS_Subset, FS_CardinalityType
  <2>7. R[i] < left
    BY <1>9, <1>22
  <2>8. QED BY <1>13, <1>15, <2>5, <2>6, <2>7
<1>23. ASSUME NEW i \in 1..n PROVE d[i] * W < t * w[i] + W /\ d[i] * W > t * w[i] - W
  <2>1. PICK a \in Nat, e \in 0..(W - 1) : a = q[i] /\ e = fr[i] /\ t * w[i] = W * a + e
    BY <1>13
  <2>2. CASE i \in U
    <3>1. d[i] = a + 1 /\ e > 0
      BY <1>10, <1>22, <2>1, <2>2
    <3>2. (a + 1) * W = W * a + W
      BY <1>3
    <3>3. W * a \in Nat
      BY <1>3
    <3>4. QED BY <1>3, <2>1, <3>1, <3>2, <3>3
  <2>3. CASE i \notin U
    <3>1. d[i] = a
      BY <1>10, <2>1, <2>3
    <3>2. a * W = W * a /\ W * a \in Nat
      BY <1>3
    <3>3. QED BY <1>3, <2>1, <3>1, <3>2
  <2>4. QED BY <2>2, <2>3
<1>24. ASSUME NEW i \in 1..n, NEW j \in 1..n, v[i] > v[j] PROVE d[i] >= d[j]
  <2>1. w[i] > w[j] /\ w[i] \in Nat /\ w[j] \in Nat
    BY <1>3, <1>4, <1>24
  <2>2. PICK a \in Nat, e \in 0..(W - 1) : a = q[i] /\ e = fr[i] /\ t * w[i] = W * a + e
    BY <1>13
  <2>3. PICK b \in Nat, g \in 0..(W - 1) : b = q[j] /\ g = fr[j] /\ t * w[j] = W * b + g
    BY <1>13
  <2>4. CASE t = 0
    <3>1. \A k \in 1..n : fr[k] = 0 /\ q[k] = 0
      <4> TAKE k \in 1..n
      <4>1. PICK x \in Nat, y \in 0..(W - 1) : x = q[k] /\ y = fr[k] /\ t * w[k] = W * x + y
        BY <1>13
      <4>2. W * x + y = 0
        BY <1>4, <2>4, <4>1
      <4>3. W * x \in Nat
        BY <1>3
      <4>4. y = 0 /\ W * x = 0
        BY <1>3, <4>2, <4>3
      <4>5. x > 0 => W * x > 0
        BY <1>3
      <4>6. QED BY <4>1, <4>4, <4>5
    <3>2. left = 0
      BY <1>13, <3>1
    <3>3. U = {}
      BY <1>9, <1>15, <3>2
    <3>4. QED BY <1>10, <3>1, <3>3
  <2>5. CASE t > 0
    <3>1. t * w[i] > t * w[j]
      BY <2>1, <2>5
    <3>2. W * a + e > W * b + g
      BY <2>2, <2>3, <3>1
    <3>3. a >= b
      <4> SUFFICES ASSUME b >= a + 1 PROVE FALSE
        BY <2>2, <2>3
      <4>1. W * b >= W * (a + 1) /\ W * (a + 1) = W * a + W
        BY <1>3
      <4>2. W * a \in Nat /\ W * b \in Nat
        BY <1>3
      <4>3. QED BY <1>3, <3>2, <4>1, <4>2
    <3>4. CASE a > b
      BY <1>10, <2>2, <2>3, <3>4
    <3>5. CASE a = b
      <4>1. W * a \in Nat
        BY <1>3
      <4>2. e > g
        BY <1>3, <3>2, <3>5, <4>1
      <4>3. R[i] < R[j]
        BY <1>14, <2>2, <2>3, <4>2
      <4>4. j \in U => i \in U
        BY <1>9, <1>13, <1>15, <4>3
      <4>5. d[i] = a + (IF i \in U THEN 1 ELSE 0) /\ d[j] = a + (IF j \in U THEN 1 ELSE 0)
        BY <1>10, <2>2, <2>3, <3>5
      <4>6. QED BY <4>4, <4>5
    <3>6. QED BY <3>3, <3>4, <3>5
  <2>6. QED BY <2>4, <2>5
<1>25. QED BY <1>1, <1>2, <1>11, <1>20, <1>21, <1>23, <1>24

-----------------------------------------------------------------------------
(* The engine in use *)

\* The operators of the instance are those of this module.
LEMMA SameEngine ==
  /\ \A f : Engine!Total(f) = Total(f)
  /\ \A v : Engine!EvenIfZero(v) = EvenIfZero(v)
  /\ \A t, v : Engine!distribute(t, v) = distribute(t, v)
  /\ \A n : Engine!NonNegative(n) = NonNegative(n)
  /\ \A S : Engine!Cardinality(S) = Cardinality(S)
<1>0. \A S : Engine!Cardinality(S) = Cardinality(S)
  BY DEF Cardinality, Engine!Cardinality
<1>1. \A f : Engine!Total(f) = Total(f)
  BY DEF Total, FoldFunction, FoldFunctionOnSet, MapThenFoldSet,
         Engine!Total, Engine!FoldFunction, Engine!FoldFunctionOnSet, Engine!MapThenFoldSet
<1>2. \A v : Engine!EvenIfZero(v) = EvenIfZero(v)
  BY <1>1 DEF EvenIfZero, Engine!EvenIfZero
<1>3. \A t, w, i : Engine!quota(t, w, i) = quota(t, w, i) /\ Engine!fraction(t, w, i) = fraction(t, w, i)
  BY <1>1 DEF quota, fraction, Engine!quota, Engine!fraction
<1>4. \A t, w, i : Engine!rank(t, w, i) = rank(t, w, i)
  <2> TAKE t, w, i
  <2>1. {j \in DOMAIN w : \/ Engine!fraction(t, w, j) > Engine!fraction(t, w, i)
                          \/ Engine!fraction(t, w, j) = Engine!fraction(t, w, i) /\ j < i} =
        {j \in DOMAIN w : \/ fraction(t, w, j) > fraction(t, w, i)
                          \/ fraction(t, w, j) = fraction(t, w, i) /\ j < i}
    BY <1>3
  <2>2. QED BY <1>0, <2>1, Zenon DEF rank, Engine!rank
<1>5. \A t, v : Engine!distribute(t, v) = distribute(t, v)
  BY <1>1, <1>2, <1>3, <1>4 DEF distribute, Engine!distribute
<1>6. \A n : Engine!NonNegative(n) = NonNegative(n)
  BY DEF NonNegative, Engine!NonNegative
<1>7. QED BY <1>0, <1>1, <1>2, <1>5, <1>6

ShareRow == [shareAmount : Nat, paidAmount : Nat]
PaidRow(n) == [n : Nat, party : 1..n, amount : Nat]
PaidTo(i) == {p \in paid : p.party = i}
AmountsTo(i) == [p \in PaidTo(i) |-> p.amount]

\* The shares are those that distribute() made, each paid what its payments,
\* which are numbered as they come, add up to.
EngineInv ==
  \E n \in Nat \ {0} :
    /\ total \in Nat /\ Weights(weights, n)
    /\ shares \in [1..n -> ShareRow]
    /\ \A i \in 1..n : shares[i].shareAmount = distribute(total, weights)[i]
    /\ IsFiniteSet(paid) /\ paid \subseteq PaidRow(n)
    /\ \A p \in paid : p.n < Cardinality(paid)
    /\ \A i \in 1..n : shares[i].paidAmount = Total(AmountsTo(i))

LEMMA EngineStarts == Engine!Init => EngineInv
<1> SUFFICES ASSUME Engine!Init PROVE EngineInv
  OBVIOUS
<1>1. PICK n \in 1..MaxParties, method \in {"EQUAL", "BY_CLAIM_VALUE"} :
        \E party \in [1..n -> Engine!Party] :
          /\ weights = Engine!weightsOf(method, party)
          /\ shares = [i \in 1..n |-> [shareAmount |-> Engine!allocate(total, method, party)[i],
                                      paidAmount |-> 0]]
  BY DEF Engine!Init
<1>2. PICK party \in [1..n -> Engine!Party] :
          /\ weights = Engine!weightsOf(method, party)
          /\ shares = [i \in 1..n |-> [shareAmount |-> Engine!allocate(total, method, party)[i],
                                      paidAmount |-> 0]]
  BY <1>1
<1>3. n \in Nat \ {0} /\ total \in Nat /\ paid = {}
  BY EngineAssumption DEF EngineAssumption, Engine!Init
<1>4. \A i \in 1..n : party[i].claimValue \in Int /\ party[i].weight \in Int
  BY EngineAssumption DEF EngineAssumption, Engine!Party
<1>5. Weights(weights, n)
  <2>1. \A i \in 1..n : Engine!NonNegative(party[i].claimValue) \in Nat /\ Engine!NonNegative(party[i].weight) \in Nat
    BY <1>4 DEF Engine!NonNegative
  <2>2. weights = [i \in 1..n |-> IF method \in Engine!Even THEN 1
                    ELSE Engine!NonNegative(IF method \in Engine!ByValue THEN party[i].claimValue ELSE party[i].weight)]
    BY <1>2 DEF Engine!weightsOf
  <2>3. \A i \in 1..n : weights[i] \in Nat
    BY <2>1, <2>2
  <2>4. QED BY <1>3, <2>2, <2>3 DEF Weights
<1>6. \A i \in 1..n : Engine!allocate(total, method, party)[i] = distribute(total, weights)[i]
  BY <1>2, SameEngine DEF Engine!allocate
<1>7. distribute(total, weights) \in [1..n -> Nat]
  BY <1>3, <1>5, DistributeIsFair
<1>8. /\ shares \in [1..n -> ShareRow]
      /\ \A i \in 1..n : shares[i].shareAmount = distribute(total, weights)[i] /\ shares[i].paidAmount = 0
  BY <1>2, <1>6, <1>7 DEF ShareRow
<1>9. \A i \in 1..n : Total(AmountsTo(i)) = 0
  <2> TAKE i \in 1..n
  <2>1. Terms(AmountsTo(i), {})
    BY <1>3, FS_EmptySet DEF AmountsTo, PaidTo, Terms
  <2>2. QED BY <2>1, TotalStep
<1>10. IsFiniteSet(paid)
  BY <1>3, FS_EmptySet
<1>11. QED BY <1>3, <1>5, <1>8, <1>9, <1>10 DEF EngineInv

LEMMA EngineGoesOn == EngineInv /\ Engine!Next => EngineInv'
<1> SUFFICES ASSUME EngineInv, Engine!Next PROVE EngineInv'
  OBVIOUS
<1>1. PICK n \in Nat \ {0} :
    /\ total \in Nat /\ Weights(weights, n)
    /\ shares \in [1..n -> ShareRow]
    /\ \A i \in 1..n : shares[i].shareAmount = distribute(total, weights)[i]
    /\ IsFiniteSet(paid) /\ paid \subseteq PaidRow(n)
    /\ \A p \in paid : p.n < Cardinality(paid)
    /\ \A i \in 1..n : shares[i].paidAmount = Total(AmountsTo(i))
  BY DEF EngineInv
<1>2. PICK i \in 1..n, amount \in 1..MaxPayment : Engine!Pay(i, amount)
  BY <1>1 DEF Engine!Next
<1>3. amount \in Nat
  BY EngineAssumption DEF EngineAssumption
<1>4. PICK k : k = Cardinality(paid)
  OBVIOUS
<1>5. k \in Nat
  BY <1>1, <1>4, FS_CardinalityType
<1>6. PICK p : p = [n |-> k, party |-> i, amount |-> amount]
  OBVIOUS
<1>7. /\ paid' = paid \cup {p} /\ total' = total /\ weights' = weights
      /\ shares' = [shares EXCEPT ![i] = Engine!applyPayment(shares[i], amount)]
  BY <1>2, <1>4, <1>6, SameEngine DEF Engine!Pay
<1>71. PICK old \in ShareRow : old = shares[i]
  BY <1>1
<1>72. PICK new : new = [old EXCEPT !.paidAmount = old.paidAmount + amount]
  OBVIOUS
<1>73. new = Engine!applyPayment(shares[i], amount)
  BY <1>71, <1>72 DEF Engine!applyPayment
<1>74. shares' = [shares EXCEPT ![i] = new]
  BY <1>7, <1>73
<1>75. new \in ShareRow /\ new.shareAmount = old.shareAmount /\ new.paidAmount = old.paidAmount + amount
  BY <1>3, <1>71, <1>72 DEF ShareRow
<1>8. p \notin paid /\ p \in PaidRow(n)
  BY <1>1, <1>3, <1>4, <1>5, <1>6 DEF PaidRow
<1>9. IsFiniteSet(paid') /\ Cardinality(paid') = k + 1
  BY <1>1, <1>4, <1>7, <1>8, FS_AddElement
<1>10. paid' \subseteq PaidRow(n)
  BY <1>1, <1>7, <1>8
<1>11. \A x \in paid' : x.n < Cardinality(paid')
  <2> TAKE x \in paid'
  <2>1. x.n \in Nat
    BY <1>10 DEF PaidRow
  <2>2. x.n <= k
    BY <1>1, <1>4, <1>5, <1>6, <1>7, <2>1
  <2>3. QED BY <1>5, <1>9, <2>1, <2>2
<1>12. shares' \in [1..n -> ShareRow]
  BY <1>1, <1>74, <1>75
<1>13. /\ \A j \in 1..n : shares'[j].shareAmount = shares[j].shareAmount
       /\ \A j \in 1..n \ {i} : shares'[j].paidAmount = shares[j].paidAmount
       /\ shares'[i].paidAmount = shares[i].paidAmount + amount
  BY <1>1, <1>71, <1>74, <1>75
<1>14. \A j \in 1..n : Terms(AmountsTo(j), PaidTo(j))
  BY <1>1, FS_Subset DEF Terms, AmountsTo, PaidTo, PaidRow
<1>15. ASSUME NEW j \in 1..n PROVE shares'[j].paidAmount = Total(AmountsTo(j))'
  <2>1. CASE j # i
    <3>1. PaidTo(j)' = PaidTo(j)
      BY <1>6, <1>7, <2>1 DEF PaidTo
    <3>2. AmountsTo(j)' = AmountsTo(j)
      BY <3>1 DEF AmountsTo
    <3>3. Total(AmountsTo(j)') = Total(AmountsTo(j))
      BY <3>2
    <3>4. QED BY <1>1, <1>13, <2>1, <3>3
  <2>2. CASE j = i
    <3>1. PICK h : h = AmountsTo(i)'
      OBVIOUS
    <3>2. PaidTo(i)' = PaidTo(i) \cup {p} /\ p \notin PaidTo(i)
      BY <1>6, <1>7, <1>8 DEF PaidTo
    <3>3. h = [x \in PaidTo(i) \cup {p} |-> h[x]] /\ h[p] = amount /\ \A x \in PaidTo(i) : h[x] = AmountsTo(i)[x]
      BY <1>6, <3>1, <3>2 DEF AmountsTo
    <3>4. Total(h) = Total(AmountsTo(i)) + h[p]
      BY <1>3, <1>14, <3>2, <3>3, TotalAdd
    <3>5. QED BY <1>1, <1>13, <2>2, <3>1, <3>3, <3>4
  <2>3. QED BY <2>1, <2>2
<1>16. /\ total' \in Nat /\ Weights(weights', n)
       /\ \A j \in 1..n : shares'[j].shareAmount = distribute(total', weights')[j]
  BY <1>1, <1>7, <1>13
<1>17. QED BY <1>9, <1>10, <1>11, <1>12, <1>15, <1>16 DEF EngineInv

LEMMA EngineIsFair == EngineInv => Engine!FairShares
<1> SUFFICES ASSUME EngineInv PROVE Engine!FairShares
  OBVIOUS
<1>1. PICK n \in Nat \ {0} :
    /\ total \in Nat /\ Weights(weights, n)
    /\ shares \in [1..n -> ShareRow]
    /\ \A i \in 1..n : shares[i].shareAmount = distribute(total, weights)[i]
    /\ \A i \in 1..n : shares[i].paidAmount = Total(AmountsTo(i))
  BY DEF EngineInv
<1>2. PICK d : d = distribute(total, weights)
  OBVIOUS
<1>3. PICK w : w = EvenIfZero(weights)
  OBVIOUS
<1>4. /\ d \in [1..n -> Nat] /\ Total(d) = total
      /\ \A i \in 1..n : /\ d[i] * Total(w) < total * w[i] + Total(w)
                         /\ d[i] * Total(w) > total * w[i] - Total(w)
      /\ \A i, j \in 1..n : weights[i] > weights[j] => d[i] >= d[j]
  BY <1>1, <1>2, <1>3, DistributeIsFair
<1>5. DOMAIN shares = 1..n
  BY <1>1
<1>6. Engine!Asked = d
  BY <1>1, <1>2, <1>4, <1>5 DEF Engine!Asked
<1>7. Engine!SumsExactly
  BY <1>4, <1>6, SameEngine DEF Engine!SumsExactly
<1>8. Engine!WithinOneCent
  BY <1>3, <1>4, <1>5, <1>6, SameEngine DEF Engine!WithinOneCent
<1>9. Engine!LargerClaimLargerShare
  BY <1>4, <1>5, <1>6 DEF Engine!LargerClaimLargerShare
<1>10. Engine!OutstandingIsShortfall
  <2>1. ASSUME NEW i \in 1..n
        PROVE  Engine!outstanding(shares[i]) = Engine!NonNegative(Engine!Asked[i] - Engine!ReceivedTotal(i))
    <3>1. Engine!ReceivedTotal(i) = shares[i].paidAmount
      BY <1>1, SameEngine DEF Engine!ReceivedTotal, Engine!Received, AmountsTo, PaidTo
    <3>2. Engine!Asked[i] = shares[i].shareAmount
      BY <1>1, <1>2, <1>6
    <3>3. QED BY <3>1, <3>2 DEF Engine!outstanding
  <2>2. [i \in DOMAIN shares |-> Engine!outstanding(shares[i])] =
          [i \in DOMAIN shares |-> Engine!NonNegative(Engine!Asked[i] - Engine!ReceivedTotal(i))]
    BY <1>5, <2>1
  <2>3. QED BY <2>2 DEF Engine!OutstandingIsShortfall, Engine!totalOutstanding
<1>11. QED BY <1>7, <1>8, <1>9, <1>10 DEF Engine!FairShares

\* Every party is asked for its fair part, whatever the deposit, the method, the
\* number of parties, their claims and the payments: allocation-engine.ts.
THEOREM SharesAreFair == MCSpec => []FairShares
<1> DEFINE Inv == mode = "engine" => EngineInv
<1>1. MCInit => Inv
  BY EngineStarts DEF MCInit
<1>2. Inv /\ [MCNext]_mcVars => Inv'
  <2> SUFFICES ASSUME Inv, [MCNext]_mcVars, mode' = "engine" PROVE EngineInv'
    OBVIOUS
  <2>1. CASE Engine!Next /\ mode = "engine"
    BY <2>1, EngineGoesOn
  <2>2. CASE UNCHANGED mcVars
    BY <2>2 DEF mcVars, engineVars, EngineInv, AmountsTo, PaidTo
  <2>3. QED BY <2>1, <2>2 DEF MCNext
<1>3. Inv => FairShares
  BY EngineIsFair DEF FairShares
<1>4. QED BY <1>1, <1>2, <1>3, PTL DEF MCSpec

-----------------------------------------------------------------------------
(* The rows of a case and the requests in progress *)

RequestRow == [status : DepositStatus \cup {"NONE"}, total : Nat, due : {"never", "later", "passed"}]
AllocationRow == [status : ShareStatus, shareAmount : Nat, paidAmount : Nat]
PaymentRow == [q : Deposit \cup {"NONE"}, p : Party \cup {0}, amount : Nat]
RefundRow == [of : Payment \cup {"NONE"}, amount : Nat]
Work ==
  {Idle}
  \cup [step : {"charge", "recompute"}, q : Deposit]
  \cup [step : {"pay"}, q : Deposit, p : Party, amount : Amounts, substitute : BOOLEAN, newPaid : Nat]
  \cup [step : {"cure"}, q : Deposit, p : Party]
  \cup [step : {"writeStatus"}, q : Deposit, status : DepositStatus]
  \cup [step : {"declare"}, q : Deposit, rest : SUBSET Party]
  \cup [step : {"ledgerRefund"}, f : Refund]

Data ==
  /\ request \in [Deposit -> RequestRow]
  /\ share \in [Deposit -> [Party -> AllocationRow]]
  /\ payment \in [Payment -> PaymentRow]
  /\ refund \in [Refund -> RefundRow]
  /\ open \in [Shares -> Nat]
  /\ task \in [Requests -> Work]

LEMMA WorkFields ==
  \A w \in Work :
    /\ w.step \in {"charge", "recompute", "pay", "cure", "writeStatus", "declare"} => w.q \in Deposit
    /\ w.step \in {"pay", "cure"} => w.p \in Party
    /\ w.step = "pay" => w.amount \in Amounts /\ w.substitute \in BOOLEAN /\ w.newPaid \in Nat
    /\ w.step = "writeStatus" => w.status \in DepositStatus
    /\ w.step = "declare" => w.rest \subseteq Party
    /\ w.step = "ledgerRefund" => w.f \in Refund
BY DEF Work, Idle

LEMMA PartiesOfCase ==
  \E n \in Nat \ {0} : Party = 1..n
<1>1. IsFiniteSet(Party) /\ Party = 1..Cardinality(Party)
  BY PartiesAssumption DEF PartiesAssumption, Party
<1>2. Cardinality(Party) \in Nat
  BY <1>1, FS_CardinalityType
<1>3. Party # {}
  BY PartiesAssumption DEF PartiesAssumption, Party
<1>4. Cardinality(Party) # 0
  BY <1>1, <1>3
<1>5. QED BY <1>1, <1>2, <1>4

LEMMA MoneyTypes == (\A t \in Totals : t \in Nat) /\ (\A a \in Amounts : a \in Nat /\ a # 0)
BY MoneyAssumption DEF MoneyAssumption

\* What the parties are asked for is a split of the deposit.
LEMMA SharesAsked ==
  ASSUME NEW t \in Totals, NEW method \in Methods
  PROVE  /\ \A p \in Party : allocate(t, method, Parties)[p] \in Nat
         /\ t > 0 => \E p \in Party : allocate(t, method, Parties)[p] > 0
<1>1. PICK n \in Nat \ {0} : Party = 1..n
  BY PartiesOfCase
<1>2. PICK v : v = weightsOf(method, Parties)
  OBVIOUS
<1>3. PICK d : d = allocate(t, method, Parties)
  OBVIOUS
<1>4. Weights(v, n)
  <2>1. \A p \in Party : NonNegative(Parties[p].claimValue) \in Nat /\ NonNegative(Parties[p].weight) \in Nat
    BY PartiesAssumption DEF PartiesAssumption, Party, NonNegative
  <2>2. v = [p \in Party |-> IF method \in Even THEN 1
              ELSE NonNegative(IF method \in ByValue THEN Parties[p].claimValue ELSE Parties[p].weight)]
    BY <1>2 DEF weightsOf, Party
  <2>3. \A p \in Party : v[p] \in Nat
    BY <2>1, <2>2
  <2>4. QED BY <1>1, <2>2, <2>3 DEF Weights
<1>5. t \in Nat
  BY MoneyTypes
<1>6. d = distribute(t, v)
  BY <1>2, <1>3 DEF allocate
<1>7. d \in [1..n -> Nat] /\ Total(d) = t
  BY <1>4, <1>5, <1>6, DistributeIsFair
<1>8. ASSUME \A p \in Party : d[p] = 0 PROVE t = 0
  <2>1. d = [p \in 1..n |-> IF p \in {} THEN 1 ELSE 0]
    BY <1>1, <1>7, <1>8
  <2>2. IsFiniteSet(1..n)
    BY UpTo
  <2>3. Total(d) = 0
    BY <2>1, <2>2, TotalOfOnes, FS_EmptySet
  <2>4. QED BY <1>7, <2>3
<1>9. t > 0 => \E p \in Party : d[p] > 0
  BY <1>1, <1>7, <1>8
<1>10. QED BY <1>1, <1>3, <1>7, <1>9

\* Each operation in terms of the rows it finds and the rows it leaves.
Same == UNCHANGED <<request, share, payment, refund, open, ledger>>

LEMMA Requesting ==
  ASSUME Data, NEW r \in Requests, NEW q \in Deposit, NEW t \in Totals, NEW method \in Methods,
         NEW due \in {"never", "later"}, createRequest(r, q, t, method, due)
  PROVE  /\ ~Requested(q) /\ task[r] = Idle /\ task' = [task EXCEPT ![r] = [step |-> "charge", q |-> q]]
         /\ request' = [request EXCEPT ![q] = [status |-> "REQUESTED", total |-> t, due |-> due]]
         /\ \E rows \in [Party -> AllocationRow] :
              /\ share' = [share EXCEPT ![q] = rows]
              /\ \A p \in Party : rows[p].status = "OUTSTANDING" /\ rows[p].paidAmount = 0
              /\ t > 0 => \E p \in Party : rows[p].shareAmount > 0
         /\ UNCHANGED <<payment, refund, open, ledger>>
<1>1. PICK rows : rows = [p \in Party |-> [NoShare EXCEPT !.shareAmount = allocate(t, method, Parties)[p]]]
  OBVIOUS
<1>2. ASSUME NEW p \in Party
      PROVE  /\ rows[p] \in AllocationRow /\ rows[p].status = "OUTSTANDING" /\ rows[p].paidAmount = 0
             /\ rows[p].shareAmount = allocate(t, method, Parties)[p]
  <2>1. PICK a \in Nat : a = allocate(t, method, Parties)[p]
    BY SharesAsked
  <2>2. rows[p] = [status |-> "OUTSTANDING", shareAmount |-> a, paidAmount |-> 0]
    BY <1>1, <2>1 DEF NoShare
  <2>3. QED BY <2>1, <2>2 DEF AllocationRow, ShareStatus
<1>3. rows \in [Party -> AllocationRow]
  BY <1>1, <1>2
<1>4. t > 0 => \E p \in Party : rows[p].shareAmount > 0
  BY <1>2, SharesAsked
<1>5. share' = [share EXCEPT ![q] = rows]
  BY <1>1 DEF createRequest
<1>6. QED BY <1>2, <1>3, <1>4, <1>5 DEF createRequest, Begin

LEMMA PaymentComing ==
  ASSUME Data, NEW r \in Requests, NEW q \in Deposit, NEW p \in Party, NEW amount \in Amounts,
         NEW substitute \in BOOLEAN, recordPayment(r, q, p, amount, substitute)
  PROVE  /\ Requested(q) /\ task[r] = Idle
         /\ \E w \in Work : /\ task' = [task EXCEPT ![r] = w]
                            /\ w.step = "pay" /\ w.q = q /\ w.p = p /\ w.amount = amount
                            /\ w.newPaid = share[q][p].paidAmount + amount
         /\ Same
<1>1. PICK w : w = [step |-> "pay", q |-> q, p |-> p, amount |-> amount,
                    substitute |-> substitute, newPaid |-> share[q][p].paidAmount + amount]
  OBVIOUS
<1>2. share[q][p].paidAmount + amount \in Nat
  BY MoneyTypes DEF Data, AllocationRow
<1>3. w \in Work
  BY <1>1, <1>2 DEF Work
<1>4. task' = [task EXCEPT ![r] = w]
  BY <1>1 DEF recordPayment, Begin
<1>5. QED BY <1>1, <1>3, <1>4 DEF recordPayment, Begin, Same

LEMMA Paying ==
  ASSUME Data, NEW r \in Requests, NEW d \in Payment, Pay(r, d)
  PROVE  \E q \in Deposit, p \in Party, amount \in Amounts, status \in ShareStatus \ {"IN_DEFAULT"} :
           /\ task[r].step = "pay" /\ task[r].q = q /\ task[r].p = p /\ task[r].amount = amount
           /\ payment[d] = NoPayment
           /\ payment' = [payment EXCEPT ![d] = [q |-> q, p |-> p, amount |-> amount]]
           /\ share' \in [Deposit -> [Party -> AllocationRow]]
           /\ \A a \in Deposit, b \in Party :
                IF a = q /\ b = p
                THEN share'[a][b].status = status /\ share'[a][b].paidAmount = task[r].newPaid
                ELSE share'[a][b] = share[a][b]
           /\ ledger' = ledger \cup {PaymentOf(d, amount)}
           /\ task' = [task EXCEPT ![r] = [step |-> "cure", q |-> q, p |-> p]]
           /\ UNCHANGED <<request, refund, open>>
<1>1. PICK w \in Work : w = task[r]
  BY DEF Data
<1>2. w.step = "pay"
  BY <1>1 DEF Pay, At
<1>3. PICK q \in Deposit, p \in Party, amount \in Amounts, newPaid \in Nat :
        w.q = q /\ w.p = p /\ w.amount = amount /\ w.newPaid = newPaid
  BY <1>2, WorkFields
<1>4. PICK owed \in Nat : owed = share[q][p].shareAmount
  BY DEF Data, AllocationRow
<1>5. PICK status \in ShareStatus \ {"IN_DEFAULT"} : status = paidStatus(newPaid, owed, w.substitute)
  BY DEF paidStatus, ShareStatus
<1>6. PICK row : row = [status |-> status, shareAmount |-> owed, paidAmount |-> newPaid]
  OBVIOUS
<1>7. row \in AllocationRow
  BY <1>6 DEF AllocationRow
<1>8. share' = [share EXCEPT ![q][p] = row]
  BY <1>1, <1>3, <1>4, <1>5, <1>6 DEF Pay
<1>9. share' \in [Deposit -> [Party -> AllocationRow]]
  BY <1>7, <1>8 DEF Data
<1>10. \A a \in Deposit, b \in Party : share'[a][b] = IF a = q /\ b = p THEN row ELSE share[a][b]
  BY <1>8 DEF Data
<1>11. row.status = status /\ row.paidAmount = newPaid
  BY <1>6
<1>12. \A a \in Deposit, b \in Party :
         IF a = q /\ b = p
         THEN share'[a][b].status = status /\ share'[a][b].paidAmount = task[r].newPaid
         ELSE share'[a][b] = share[a][b]
  BY <1>1, <1>3, <1>10, <1>11
<1>13. /\ payment[d] = NoPayment
       /\ payment' = [payment EXCEPT ![d] = [q |-> q, p |-> p, amount |-> amount]]
       /\ ledger' = ledger \cup {PaymentOf(d, amount)}
       /\ task' = [task EXCEPT ![r] = [step |-> "cure", q |-> q, p |-> p]]
       /\ UNCHANGED <<request, refund, open>>
  BY <1>1, <1>3 DEF Pay, Continue
<1>14. QED BY <1>1, <1>2, <1>3, <1>9, <1>12, <1>13

Declared(r, p, q, rest, w) ==
  /\ task[r].step = "declare" /\ task[r].q = q /\ task[r].rest = rest /\ p \in rest
  /\ open' = [open EXCEPT ![<<q, p>>] = open[<<q, p>>] + 1]
  /\ share' \in [Deposit -> [Party -> AllocationRow]]
  /\ \A a \in Deposit, b \in Party :
       /\ share'[a][b].paidAmount = share[a][b].paidAmount
       /\ a = q /\ b = p => share'[a][b].status = "IN_DEFAULT"
       /\ a # q \/ b # p => share'[a][b] = share[a][b]
  /\ task' = [task EXCEPT ![r] = w]
  /\ w.step = "recompute" \/ (w.step = "declare" /\ w.rest = rest \ {p})
  /\ w.q = q
  /\ UNCHANGED <<request, payment, refund, ledger>>

LEMMA Declaring ==
  ASSUME Data, NEW r \in Requests, NEW p \in Party, Declare(r, p)
  PROVE  \E q \in Deposit, rest \in SUBSET Party, w \in Work : Declared(r, p, q, rest, w)
<1>1. PICK u \in Work : u = task[r]
  BY DEF Data
<1>2. u.step = "declare"
  BY <1>1 DEF Declare, At
<1>3. PICK q \in Deposit, rest \in SUBSET Party : u = [step |-> "declare", q |-> q, rest |-> rest]
  BY <1>2 DEF Work, Idle
<1>4. PICK left : left = rest \ {p}
  OBVIOUS
<1>5. PICK w : w = IF left = {} THEN [step |-> "recompute", q |-> q] ELSE [step |-> "declare", q |-> q, rest |-> left]
  OBVIOUS
<1>6. w \in Work
  BY <1>4, <1>5 DEF Work
<1>7. w.q = q /\ (w.step = "recompute" \/ (w.step = "declare" /\ w.rest = rest \ {p}))
  BY <1>4, <1>5
<1>8. [u EXCEPT !.rest = left] = [step |-> "declare", q |-> q, rest |-> left]
  BY <1>3
<1>9. u.q = q /\ u.rest = rest
  BY <1>3
<1>10. task' = [task EXCEPT ![r] = w]
  BY <1>1, <1>4, <1>5, <1>8, <1>9 DEF Declare, Continue
<1>11. PICK old \in AllocationRow : old = share[q][p]
  BY DEF Data
<1>12. PICK new : new = [old EXCEPT !.status = "IN_DEFAULT"]
  OBVIOUS
<1>13. new \in AllocationRow /\ new.paidAmount = old.paidAmount /\ new.status = "IN_DEFAULT"
  BY <1>11, <1>12 DEF AllocationRow, ShareStatus
<1>14. share' = [share EXCEPT ![q][p] = new]
  BY <1>1, <1>9, <1>11, <1>12 DEF Declare, Data
<1>15. share' \in [Deposit -> [Party -> AllocationRow]]
  BY <1>13, <1>14 DEF Data
<1>16. \A a \in Deposit, b \in Party : share'[a][b] = IF a = q /\ b = p THEN new ELSE share[a][b]
  BY <1>14 DEF Data
<1>17. \A a \in Deposit, b \in Party :
         /\ share'[a][b].paidAmount = share[a][b].paidAmount
         /\ a = q /\ b = p => share'[a][b].status = "IN_DEFAULT"
         /\ a # q \/ b # p => share'[a][b] = share[a][b]
  BY <1>11, <1>13, <1>16
<1>18. p \in rest /\ open' = [open EXCEPT ![<<q, p>>] = open[<<q, p>>] + 1]
  BY <1>1, <1>9 DEF Declare
<1>19. UNCHANGED <<request, payment, refund, ledger>>
  BY DEF Declare
<1>20. Declared(r, p, q, rest, w)
  BY <1>1, <1>2, <1>7, <1>9, <1>10, <1>15, <1>17, <1>18, <1>19 DEF Declared
<1>21. QED BY <1>6, <1>20

LEMMA Listing ==
  ASSUME Data, NEW r \in Requests, NEW q \in Deposit, declareDefaults(r, q)
  PROVE  /\ request[q].due = "passed" /\ task[r] = Idle /\ Same
         /\ \E w \in Work : /\ task' = [task EXCEPT ![r] = w] /\ w.q = q
                            /\ w.step = "recompute" \/ (w.step = "declare" /\ w.rest = Defaulting(q))
<1>1. PICK rest : rest = Defaulting(q)
  OBVIOUS
<1>2. rest \subseteq Party
  BY <1>1 DEF Defaulting
<1>3. PICK w : w = IF rest = {} THEN [step |-> "recompute", q |-> q] ELSE [step |-> "declare", q |-> q, rest |-> rest]
  OBVIOUS
<1>4. w \in Work
  BY <1>2, <1>3 DEF Work
<1>5. task' = [task EXCEPT ![r] = w]
  BY <1>1, <1>3 DEF declareDefaults, Begin
<1>6. w.q = q /\ (w.step = "recompute" \/ (w.step = "declare" /\ w.rest = rest))
  BY <1>3
<1>7. QED BY <1>1, <1>4, <1>5, <1>6 DEF declareDefaults, Begin, Same

LEMMA StatusOf == \A q : statusOf(q) \in DepositStatus
BY DEF statusOf, DepositStatus

LEMMA Curing ==
  ASSUME Data, NEW r \in Requests, Cure(r)
  PROVE  \E q \in Deposit, p \in Party :
           /\ task[r].step = "cure" /\ task[r].q = q /\ task[r].p = p
           /\ open' = [open EXCEPT ![<<q, p>>] = 0]
           /\ task' = [task EXCEPT ![r] = [step |-> "recompute", q |-> q]]
           /\ UNCHANGED <<request, share, payment, refund, ledger>>
<1>1. task[r] \in Work /\ task[r].step = "cure"
  BY DEF Data, Cure, At
<1>2. task[r].q \in Deposit /\ task[r].p \in Party
  BY <1>1, WorkFields
<1>3. QED BY <1>1, <1>2 DEF Cure, Continue

LEMMA Recomputing ==
  ASSUME Data, NEW r \in Requests, Recompute(r)
  PROVE  \E q \in Deposit :
           /\ task[r].step = "recompute" /\ task[r].q = q
           /\ task' = [task EXCEPT ![r] = [step |-> "writeStatus", q |-> q, status |-> statusOf(q)]]
           /\ Same
<1>1. task[r] \in Work /\ task[r].step = "recompute"
  BY DEF Data, Recompute, At
<1>2. task[r].q \in Deposit
  BY <1>1, WorkFields
<1>3. QED BY <1>1, <1>2 DEF Recompute, Continue, Same

LEMMA WritingStatus ==
  ASSUME Data, NEW r \in Requests, WriteStatus(r)
  PROVE  \E q \in Deposit, status \in DepositStatus :
           /\ task[r].step = "writeStatus" /\ task[r].q = q /\ task[r].status = status
           /\ request' \in [Deposit -> RequestRow]
           /\ \A a \in Deposit : /\ request'[a].total = request[a].total /\ request'[a].due = request[a].due
                                 /\ request'[a].status = IF a = q THEN status ELSE request[a].status
           /\ \A a \in Deposit \ {q} : request'[a] = request[a]
           /\ task' = [task EXCEPT ![r] = Idle]
           /\ UNCHANGED <<share, payment, refund, open, ledger>>
<1>1. task[r] \in Work /\ task[r].step = "writeStatus"
  BY DEF Data, WriteStatus, At
<1>2. PICK q \in Deposit, status \in DepositStatus : task[r].q = q /\ task[r].status = status
  BY <1>1, WorkFields
<1>3. PICK old \in RequestRow : old = request[q]
  BY DEF Data
<1>4. PICK new : new = [old EXCEPT !.status = status]
  OBVIOUS
<1>5. new \in RequestRow /\ new.status = status /\ new.total = old.total /\ new.due = old.due
  BY <1>3, <1>4 DEF RequestRow
<1>6. request' = [request EXCEPT ![q] = new]
  BY <1>2, <1>3, <1>4 DEF WriteStatus, Data
<1>7. request' \in [Deposit -> RequestRow] /\ \A a \in Deposit : request'[a] = IF a = q THEN new ELSE request[a]
  BY <1>5, <1>6 DEF Data
<1>8. QED BY <1>1, <1>2, <1>3, <1>5, <1>7 DEF WriteStatus, Finish

LEMMA TimePassing ==
  ASSUME Data, NEW q \in Deposit, Elapse(q)
  PROVE  /\ request[q].due = "later"
         /\ request' \in [Deposit -> RequestRow]
         /\ \A a \in Deposit : request'[a].total = request[a].total /\ request'[a].status = request[a].status
         /\ \A a \in Deposit \ {q} : request'[a] = request[a]
         /\ UNCHANGED <<share, payment, refund, open, ledger, task>>
<1>1. PICK old \in RequestRow : old = request[q]
  BY DEF Data
<1>2. PICK new : new = [old EXCEPT !.due = "passed"]
  OBVIOUS
<1>3. new \in RequestRow /\ new.status = old.status /\ new.total = old.total
  BY <1>1, <1>2 DEF RequestRow
<1>4. request' = [request EXCEPT ![q] = new]
  BY <1>1, <1>2 DEF Elapse, Data
<1>5. request' \in [Deposit -> RequestRow] /\ \A a \in Deposit : request'[a] = IF a = q THEN new ELSE request[a]
  BY <1>3, <1>4 DEF Data
<1>6. QED BY <1>1, <1>3, <1>5 DEF Elapse

LEMMA Refunding ==
  ASSUME Data, NEW r \in Requests, NEW f \in Refund, NEW d \in Payment, NEW amount \in Amounts,
         recordRefund(r, f, d, amount)
  PROVE  /\ task[r] = Idle /\ refund[f] = NoRefund
         /\ refund' = [refund EXCEPT ![f] = [of |-> d, amount |-> amount]]
         /\ task' = [task EXCEPT ![r] = [step |-> "ledgerRefund", f |-> f]]
         /\ UNCHANGED <<request, share, payment, open, ledger>>
BY DEF recordRefund, Begin

\* What is left of every step in terms of the rows: the shape is kept.
LEMMA DataKept == Data /\ [Next]_vars => Data'
<1> SUFFICES ASSUME Data, [Next]_vars PROVE Data'
  OBVIOUS
<1>0. ASSUME NEW r \in Requests, NEW w \in Work, task' = [task EXCEPT ![r] = w]
      PROVE  task' \in [Requests -> Work]
  BY <1>0 DEF Data
<1>1. Idle \in Work
  BY DEF Work
<1>2. \A q \in Deposit : [step |-> "charge", q |-> q] \in Work /\ [step |-> "recompute", q |-> q] \in Work
  BY DEF Work
<1>3. ASSUME NEW r \in Requests, NEW q \in Deposit, NEW t \in Totals, NEW method \in Methods,
             NEW due \in {"never", "later"}, createRequest(r, q, t, method, due)
      PROVE  Data'
  <2>1. [status |-> "REQUESTED", total |-> t, due |-> due] \in RequestRow
    BY MoneyTypes DEF RequestRow, DepositStatus
  <2>2. request' \in [Deposit -> RequestRow]
    BY <1>3, <2>1, Requesting DEF Data
  <2>3. share' \in [Deposit -> [Party -> AllocationRow]]
    BY <1>3, Requesting DEF Data
  <2>4. task' = [task EXCEPT ![r] = [step |-> "charge", q |-> q]] /\ UNCHANGED <<payment, refund, open, ledger>>
    BY <1>3, Requesting
  <2>5. task' \in [Requests -> Work]
    BY <1>0, <1>2, <2>4
  <2>6. QED BY <2>2, <2>3, <2>4, <2>5 DEF Data
<1>4. ASSUME NEW r \in Requests, NEW q \in Deposit, NEW p \in Party, NEW amount \in Amounts,
             NEW substitute \in BOOLEAN, recordPayment(r, q, p, amount, substitute)
      PROVE  Data'
  <2>1. Same /\ \E w \in Work : task' = [task EXCEPT ![r] = w]
    BY <1>4, PaymentComing
  <2>2. task' \in [Requests -> Work]
    BY <1>0, <2>1
  <2>3. QED BY <2>1, <2>2 DEF Data, Same
<1>5. ASSUME NEW r \in Requests, NEW q \in Deposit, declareDefaults(r, q) PROVE Data'
  BY <1>0, <1>5, Listing DEF Data, Same
<1>6. ASSUME NEW r \in Requests, NEW f \in Refund, NEW d \in Payment, NEW amount \in Amounts,
             recordRefund(r, f, d, amount)
      PROVE  Data'
  <2>1. [step |-> "ledgerRefund", f |-> f] \in Work
    BY DEF Work
  <2>2. [of |-> d, amount |-> amount] \in RefundRow
    BY MoneyTypes DEF RefundRow
  <2>3. refund' \in [Refund -> RefundRow]
    BY <1>6, <2>2, Refunding DEF Data
  <2>4. task' \in [Requests -> Work] /\ UNCHANGED <<request, share, payment, open, ledger>>
    BY <1>0, <1>6, <2>1, Refunding
  <2>5. QED BY <2>3, <2>4 DEF Data
<1>7. ASSUME NEW r \in Requests, Charge(r) \/ LedgerRefund(r) \/ Crash(r) PROVE Data'
  BY <1>0, <1>1, <1>7 DEF Charge, LedgerRefund, Crash, Finish, Data
<1>8. ASSUME NEW r \in Requests, NEW d \in Payment, Pay(r, d) PROVE Data'
  <2>1. PICK q \in Deposit, p \in Party, amount \in Amounts :
           /\ payment' = [payment EXCEPT ![d] = [q |-> q, p |-> p, amount |-> amount]]
           /\ share' \in [Deposit -> [Party -> AllocationRow]]
           /\ task' = [task EXCEPT ![r] = [step |-> "cure", q |-> q, p |-> p]]
           /\ UNCHANGED <<request, refund, open>>
    BY <1>8, Paying
  <2>2. [q |-> q, p |-> p, amount |-> amount] \in PaymentRow
    BY MoneyTypes DEF PaymentRow
  <2>3. payment' \in [Payment -> PaymentRow]
    BY <2>1, <2>2 DEF Data
  <2>4. [step |-> "cure", q |-> q, p |-> p] \in Work
    BY DEF Work
  <2>5. task' \in [Requests -> Work]
    BY <1>0, <2>1, <2>4
  <2>6. QED BY <2>1, <2>3, <2>5 DEF Data
<1>9. ASSUME NEW r \in Requests, Cure(r) PROVE Data'
  <2>1. PICK q \in Deposit, p \in Party :
           /\ open' = [open EXCEPT ![<<q, p>>] = 0]
           /\ task' = [task EXCEPT ![r] = [step |-> "recompute", q |-> q]]
           /\ UNCHANGED <<request, share, payment, refund, ledger>>
    BY <1>9, Curing
  <2>2. open' \in [Shares -> Nat]
    BY <2>1 DEF Data
  <2>3. task' \in [Requests -> Work]
    BY <1>0, <1>2, <2>1
  <2>4. QED BY <2>1, <2>2, <2>3 DEF Data
<1>10. ASSUME NEW r \in Requests, Recompute(r) PROVE Data'
  <2>1. PICK q \in Deposit :
           /\ task' = [task EXCEPT ![r] = [step |-> "writeStatus", q |-> q, status |-> statusOf(q)]]
           /\ Same
    BY <1>10, Recomputing
  <2>2. [step |-> "writeStatus", q |-> q, status |-> statusOf(q)] \in Work
    BY StatusOf DEF Work
  <2>3. task' \in [Requests -> Work]
    BY <1>0, <2>1, <2>2
  <2>4. QED BY <2>1, <2>3 DEF Data, Same
<1>11. ASSUME NEW r \in Requests, WriteStatus(r) PROVE Data'
  BY <1>0, <1>1, <1>11, WritingStatus DEF Data
<1>12. ASSUME NEW r \in Requests, NEW p \in Party, Declare(r, p) PROVE Data'
  <2>0. PICK q \in Deposit, rest \in SUBSET Party, w \in Work : Declared(r, p, q, rest, w)
    BY <1>12, Declaring
  <2>1. /\ open' = [open EXCEPT ![<<q, p>>] = open[<<q, p>>] + 1]
        /\ share' \in [Deposit -> [Party -> AllocationRow]]
        /\ task' = [task EXCEPT ![r] = w]
        /\ UNCHANGED <<request, payment, refund, ledger>>
    BY <2>0 DEF Declared
  <2>2. PICK k \in Nat : k = open[<<q, p>>] + 1
    BY DEF Data, Shares
  <2>3. open' \in [Shares -> Nat]
    BY <2>1, <2>2 DEF Data
  <2>4. task' \in [Requests -> Work]
    BY <1>0, <2>1
  <2>5. QED BY <2>1, <2>3, <2>4 DEF Data
<1>13. ASSUME NEW q \in Deposit, Elapse(q) PROVE Data'
  BY <1>13, TimePassing DEF Data
<1>14. CASE UNCHANGED vars
  BY <1>14 DEF vars, Data
<1>15. QED BY <1>3, <1>4, <1>5, <1>6, <1>7, <1>8, <1>9, <1>10, <1>11, <1>12, <1>13, <1>14 DEF Next, Start, Step

-----------------------------------------------------------------------------
(* What is received *)

PaidFor(q, p) == {d \in Payment : payment[d].q = q /\ payment[d].p = p}
AmountsFor(q, p) == [d \in PaidFor(q, p) |-> payment[d].amount]

LEMMA ReceivedIs ==
  ASSUME Data, NEW q, NEW p
  PROVE  /\ Terms(AmountsFor(q, p), PaidFor(q, p))
         /\ Received(q, p) = Total(AmountsFor(q, p)) /\ Received(q, p) \in Nat
<1>1. IsFiniteSet(PaidFor(q, p))
  BY RowsAssumption, FS_Subset DEF RowsAssumption, PaidFor
<1>2. \A d \in PaidFor(q, p) : payment[d].amount \in Nat
  BY DEF Data, PaymentRow, PaidFor
<1>3. Terms(AmountsFor(q, p), PaidFor(q, p)) /\ \A d \in PaidFor(q, p) : AmountsFor(q, p)[d] >= 0
  BY <1>1, <1>2 DEF Terms, AmountsFor
<1>4. Received(q, p) = Total(AmountsFor(q, p))
  BY DEF Received, AmountsFor, PaidFor
<1>5. Total(AmountsFor(q, p)) \in Nat
  BY <1>3, TotalOfNaturals
<1>6. QED BY <1>3, <1>4, <1>5

LEMMA NothingReceived ==
  ASSUME Data, Data', payment' = payment
  PROVE  \A q, p : Received(q, p)' = Received(q, p)
BY DEF Received

LEMMA ReceivedWith ==
  ASSUME Data, Data', NEW d \in Payment, NEW row \in PaymentRow,
         payment[d] = NoPayment, payment' = [payment EXCEPT ![d] = row]
  PROVE  \A a \in Deposit, b \in Party :
           Received(a, b)' = IF a = row.q /\ b = row.p THEN Received(a, b) + row.amount ELSE Received(a, b)
<1> SUFFICES ASSUME NEW a \in Deposit, NEW b \in Party
             PROVE  Received(a, b)' = IF a = row.q /\ b = row.p THEN Received(a, b) + row.amount ELSE Received(a, b)
  OBVIOUS
<1>1. b # 0
  BY PartiesOfCase
<1>2. d \notin PaidFor(a, b)
  BY <1>1 DEF PaidFor, NoPayment
<1>4. payment'[d] = row /\ \A x \in Payment \ {d} : payment'[x] = payment[x]
  BY DEF Data
<1>3. row.q \in Deposit \cup {"NONE"} /\ row.p \in Party \cup {0} /\ row.amount \in Nat
  BY DEF PaymentRow
<1>5. PICK q \in Deposit \cup {"NONE"}, p \in Party \cup {0}, amount \in Nat :
        row.q = q /\ row.p = p /\ row.amount = amount
  BY <1>3
<1>6. Received(a, b)' = Total(AmountsFor(a, b)') /\ Received(a, b) = Total(AmountsFor(a, b)) /\ Received(a, b) \in Nat
  <2>1. Received(a, b)' = Total(AmountsFor(a, b)')
    BY DEF Received, AmountsFor, PaidFor
  <2>2. QED BY <2>1, ReceivedIs
<1>7. CASE a = q /\ b = p
  <2>1. PaidFor(a, b)' = PaidFor(a, b) \cup {d}
    BY <1>4, <1>5, <1>7 DEF PaidFor
  <2>2. PICK h : h = AmountsFor(a, b)'
    OBVIOUS
  <2>3. h = [x \in PaidFor(a, b) \cup {d} |-> h[x]] /\ h[d] = amount
    BY <1>4, <1>5, <2>1, <2>2 DEF AmountsFor
  <2>4. \A x \in PaidFor(a, b) : h[x] = AmountsFor(a, b)[x]
    BY <1>2, <1>4, <2>1, <2>2 DEF AmountsFor, PaidFor
  <2>5. Terms(AmountsFor(a, b), PaidFor(a, b)) /\ amount \in Int
    BY ReceivedIs
  <2>6. Total(h) = Total(AmountsFor(a, b)) + h[d]
    BY <1>2, <2>3, <2>4, <2>5, TotalAdd
  <2>7. QED BY <1>5, <1>6, <1>7, <2>2, <2>3, <2>6
<1>8. CASE ~(a = q /\ b = p)
  <2>1. PaidFor(a, b)' = PaidFor(a, b)
    BY <1>2, <1>4, <1>5, <1>8 DEF PaidFor
  <2>2. \A x \in PaidFor(a, b) : payment'[x] = payment[x]
    BY <1>2, <1>4 DEF PaidFor
  <2>3. AmountsFor(a, b)' = AmountsFor(a, b)
    BY <2>1, <2>2 DEF AmountsFor
  <2>4. QED BY <1>5, <1>6, <1>8, <2>3
<1>9. QED BY <1>7, <1>8

Backed(w) == w.step = "pay" => w.newPaid <= Received(w.q, w.p) + w.amount

Within ==
  /\ PaidWithinReceived
  /\ \A r \in Requests : Backed(task[r])

\* A step that makes no payment, and pays nothing on a share.
LEMMA NothingPaid ==
  ASSUME Data, Data', Within, payment' = payment,
         \A a \in Deposit, b \in Party :
           share'[a][b].paidAmount = share[a][b].paidAmount \/ share'[a][b].paidAmount = 0,
         NEW r \in Requests, NEW w \in Work, task' = [task EXCEPT ![r] = w], Backed(w)
  PROVE  Within'
<1>1. \A a, b : Received(a, b)' = Received(a, b) /\ Received(a, b) \in Nat
  BY NothingReceived, ReceivedIs
<1>2. \A a \in Deposit, b \in Party : share[a][b].paidAmount \in Nat /\ share'[a][b].paidAmount \in Nat
  BY DEF Data, AllocationRow
<1>3. PaidWithinReceived'
  BY <1>1, <1>2 DEF Within, PaidWithinReceived
<1>4. \A s \in Requests : task'[s] = IF s = r THEN w ELSE task[s]
  BY DEF Data
<1>5. ASSUME NEW s \in Requests PROVE Backed(task[s])'
  <2>1. PICK u \in Work : u = task'[s]
    BY DEF Data
  <2>2. Backed(u)
    BY <1>4, <2>1 DEF Within
  <2>3. Backed(u)'
    BY <1>1, <2>2 DEF Backed
  <2>4. QED BY <2>1, <2>3 DEF Backed
<1>6. QED BY <1>3, <1>5 DEF Within

LEMMA WithinKept == Data /\ Within /\ [Next]_vars => Within'
<1> SUFFICES ASSUME Data, Within, [Next]_vars PROVE Within'
  OBVIOUS
<1>0. Data'
  BY DataKept
<1>1. ASSUME NEW r \in Requests, NEW q \in Deposit, NEW t \in Totals, NEW method \in Methods,
             NEW due \in {"never", "later"}, createRequest(r, q, t, method, due)
      PROVE  Within'
  <2>1. PICK rows \in [Party -> AllocationRow] :
          share' = [share EXCEPT ![q] = rows] /\ \A p \in Party : rows[p].paidAmount = 0
    BY <1>1, Requesting
  <2>2. \A a \in Deposit, b \in Party :
           share'[a][b].paidAmount = share[a][b].paidAmount \/ share'[a][b].paidAmount = 0
    BY <2>1 DEF Data
  <2>3. PICK w : w = [step |-> "charge", q |-> q]
    OBVIOUS
  <2>4. w \in Work /\ w.step # "pay"
    BY <2>3 DEF Work
  <2>5. task' = [task EXCEPT ![r] = w] /\ payment' = payment
    BY <1>1, <2>3, Requesting
  <2>6. QED BY <1>0, <2>2, <2>4, <2>5, NothingPaid DEF Backed
<1>2. ASSUME NEW r \in Requests, NEW q \in Deposit, NEW p \in Party, NEW amount \in Amounts,
             NEW substitute \in BOOLEAN, recordPayment(r, q, p, amount, substitute)
      PROVE  Within'
  <2>1. PICK w \in Work : /\ task' = [task EXCEPT ![r] = w]
                          /\ w.step = "pay" /\ w.q = q /\ w.p = p /\ w.amount = amount
                          /\ w.newPaid = share[q][p].paidAmount + amount
    BY <1>2, PaymentComing
  <2>2. Same
    BY <1>2, PaymentComing
  <2>3. share[q][p].paidAmount <= Received(q, p)
    BY DEF Within, PaidWithinReceived
  <2>4. share[q][p].paidAmount \in Nat /\ Received(q, p) \in Nat /\ amount \in Nat
    BY ReceivedIs, MoneyTypes DEF Data, AllocationRow
  <2>5. Backed(w)
    BY <2>1, <2>3, <2>4 DEF Backed
  <2>6. QED BY <1>0, <2>1, <2>2, <2>5, NothingPaid DEF Same, Backed
<1>3. ASSUME NEW r \in Requests, NEW q \in Deposit, declareDefaults(r, q) PROVE Within'
  <2>1. PICK w \in Work : task' = [task EXCEPT ![r] = w] /\ w.step # "pay"
    BY <1>3, Listing
  <2>2. Same
    BY <1>3, Listing
  <2>3. QED BY <1>0, <2>1, <2>2, NothingPaid DEF Same, Backed
<1>4. ASSUME NEW r \in Requests, NEW f \in Refund, NEW d \in Payment, NEW amount \in Amounts,
             recordRefund(r, f, d, amount)
      PROVE  Within'
  <2>1. PICK w : w = [step |-> "ledgerRefund", f |-> f]
    OBVIOUS
  <2>2. w \in Work /\ w.step # "pay"
    BY <2>1 DEF Work
  <2>3. task' = [task EXCEPT ![r] = w] /\ UNCHANGED <<share, payment>>
    BY <1>4, <2>1, Refunding
  <2>4. QED BY <1>0, <2>2, <2>3, NothingPaid DEF Backed
<1>5. ASSUME NEW r \in Requests, Charge(r) \/ LedgerRefund(r) \/ Crash(r) \/ WriteStatus(r) PROVE Within'
  <2>1. Idle \in Work /\ Idle.step # "pay"
    BY DEF Work, Idle
  <2>2. task' = [task EXCEPT ![r] = Idle] /\ UNCHANGED <<share, payment>>
    BY <1>5 DEF Charge, LedgerRefund, Crash, WriteStatus, Finish
  <2>3. QED BY <1>0, <2>1, <2>2, NothingPaid DEF Backed
<1>6. ASSUME NEW r \in Requests, NEW d \in Payment, Pay(r, d) PROVE Within'
  <2>1. PICK q \in Deposit, p \in Party, amount \in Amounts, status \in ShareStatus \ {"IN_DEFAULT"} :
           /\ task[r].step = "pay" /\ task[r].q = q /\ task[r].p = p /\ task[r].amount = amount
           /\ payment[d] = NoPayment
           /\ payment' = [payment EXCEPT ![d] = [q |-> q, p |-> p, amount |-> amount]]
           /\ share' \in [Deposit -> [Party -> AllocationRow]]
           /\ \A a \in Deposit, b \in Party :
                IF a = q /\ b = p
                THEN share'[a][b].status = status /\ share'[a][b].paidAmount = task[r].newPaid
                ELSE share'[a][b] = share[a][b]
           /\ ledger' = ledger \cup {PaymentOf(d, amount)}
           /\ task' = [task EXCEPT ![r] = [step |-> "cure", q |-> q, p |-> p]]
           /\ UNCHANGED <<request, refund, open>>
    BY <1>6, Paying
  <2>2. amount \in Nat /\ \A a \in Deposit, b \in Party : Received(a, b) \in Nat /\ share[a][b].paidAmount \in Nat
    BY ReceivedIs, MoneyTypes DEF Data, AllocationRow
  <2>3. \A a \in Deposit, b \in Party :
          Received(a, b)' = IF a = q /\ b = p THEN Received(a, b) + amount ELSE Received(a, b)
    <3>1. PICK row \in PaymentRow : row = [q |-> q, p |-> p, amount |-> amount]
      BY <2>2 DEF PaymentRow
    <3>2. payment[d] = NoPayment /\ payment' = [payment EXCEPT ![d] = row]
      BY <2>1, <3>1
    <3>3. \A a \in Deposit, b \in Party :
            Received(a, b)' = IF a = row.q /\ b = row.p THEN Received(a, b) + row.amount ELSE Received(a, b)
      BY <1>0, <3>2, ReceivedWith
    <3>4. QED BY <3>1, <3>3
  <2>4. task[r].newPaid <= Received(q, p) + amount
    BY <2>1 DEF Within, Backed
  <2>5. ASSUME NEW a \in Deposit, NEW b \in Party PROVE share'[a][b].paidAmount <= Received(a, b)'
    <3>1. CASE a = q /\ b = p
      BY <2>1, <2>3, <2>4, <3>1
    <3>2. CASE ~(a = q /\ b = p)
      <4>1. Received(a, b)' = Received(a, b)
        BY <2>3, <3>2
      <4>2. share'[a][b] = share[a][b]
        BY <2>1, <3>2
      <4>3. QED BY <2>2, <4>1, <4>2 DEF Within, PaidWithinReceived
    <3>3. QED BY <3>1, <3>2
  <2>6. PICK w : w = [step |-> "cure", q |-> q, p |-> p]
    OBVIOUS
  <2>7. w.step # "pay" /\ \A s \in Requests : task'[s] = IF s = r THEN w ELSE task[s]
    BY <2>1, <2>6 DEF Data
  <2>8. ASSUME NEW s \in Requests PROVE Backed(task[s])'
    <3>1. PICK u \in Work : u = task'[s]
      BY <1>0 DEF Data
    <3>2. CASE u.step = "pay"
      <4>1. u.q \in Deposit /\ u.p \in Party /\ u.newPaid \in Nat /\ u.amount \in Nat
        BY <3>2, WorkFields, MoneyTypes
      <4>2. u.newPaid <= Received(u.q, u.p) + u.amount
        BY <2>7, <3>1, <3>2 DEF Within, Backed
      <4>3. PICK a \in Deposit, b \in Party : a = u.q /\ b = u.p
        BY <4>1
      <4>4. Received(a, b)' >= Received(a, b) /\ Received(a, b) \in Nat /\ Received(a, b)' \in Nat
        BY <2>2, <2>3, <2>1
      <4>5. u.newPaid <= Received(a, b)' + u.amount
        BY <4>1, <4>2, <4>3, <4>4
      <4>6. QED BY <3>1, <4>3, <4>5 DEF Backed
    <3>3. CASE u.step # "pay"
      BY <3>1, <3>3 DEF Backed
    <3>4. QED BY <3>2, <3>3
  <2>9. QED BY <2>5, <2>8 DEF Within, PaidWithinReceived
<1>7. ASSUME NEW r \in Requests, Cure(r) PROVE Within'
  <2>1. PICK q \in Deposit, p \in Party :
           /\ task' = [task EXCEPT ![r] = [step |-> "recompute", q |-> q]]
           /\ UNCHANGED <<request, share, payment, refund, ledger>>
    BY <1>7, Curing
  <2>2. PICK w : w = [step |-> "recompute", q |-> q]
    OBVIOUS
  <2>3. w \in Work /\ w.step # "pay"
    BY <2>2 DEF Work
  <2>4. QED BY <1>0, <2>1, <2>2, <2>3, NothingPaid DEF Backed
<1>8. ASSUME NEW r \in Requests, Recompute(r) PROVE Within'
  <2>1. PICK q \in Deposit :
           task' = [task EXCEPT ![r] = [step |-> "writeStatus", q |-> q, status |-> statusOf(q)]] /\ Same
    BY <1>8, Recomputing
  <2>2. PICK w : w = [step |-> "writeStatus", q |-> q, status |-> statusOf(q)]
    OBVIOUS
  <2>3. w \in Work /\ w.step # "pay"
    BY <2>2, StatusOf DEF Work
  <2>4. QED BY <1>0, <2>1, <2>2, <2>3, NothingPaid DEF Same, Backed
<1>9. ASSUME NEW r \in Requests, NEW p \in Party, Declare(r, p) PROVE Within'
  <2>1. PICK q \in Deposit, rest \in SUBSET Party, w \in Work : Declared(r, p, q, rest, w)
    BY <1>9, Declaring
  <2>2. /\ \A a \in Deposit, b \in Party : share'[a][b].paidAmount = share[a][b].paidAmount
        /\ task' = [task EXCEPT ![r] = w] /\ w.step # "pay" /\ payment' = payment
    BY <2>1 DEF Declared
  <2>3. QED BY <1>0, <2>2, NothingPaid DEF Backed
<1>10. ASSUME UNCHANGED <<payment, share, task>> PROVE Within'
  <2>1. \A a, b : Received(a, b)' = Received(a, b)
    BY <1>0, <1>10, NothingReceived
  <2>2. QED BY <1>10, <2>1 DEF Within, PaidWithinReceived, Backed
<1>11. CASE (\E q \in Deposit : Elapse(q)) \/ UNCHANGED vars
  BY <1>10, <1>11 DEF Elapse, vars
<1>12. QED BY <1>1, <1>2, <1>3, <1>4, <1>5, <1>6, <1>7, <1>8, <1>9, <1>11 DEF Next, Start, Step

LEMMA BooksStart == Init => Data /\ Within
<1> SUFFICES ASSUME Init PROVE Data /\ Within
  OBVIOUS
<1>1. Data
  BY DEF Init, Data, NoRequest, NoShare, NoPayment, NoRefund, RequestRow, AllocationRow, PaymentRow,
         RefundRow, ShareStatus, Work
<1>2. \A q \in Deposit, p \in Party : share[q][p].paidAmount = 0
  BY DEF Init, NoShare
<1>3. PaidWithinReceived
  BY <1>1, <1>2, ReceivedIs DEF PaidWithinReceived
<1>4. \A r \in Requests : task[r].step # "pay"
  BY DEF Init, Idle
<1>5. QED BY <1>1, <1>3, <1>4 DEF Within, Backed

\* Whatever payments race and whatever request is lost half-way, no share is shown
\* paid with money that was not received (recordPayment).
THEOREM NothingPaidUnreceived == Spec => []PaidWithinReceived
<1>1. Data /\ Within /\ [Next]_vars => (Data /\ Within)'
  BY DataKept, WithinKept
<1>2. Spec => [](Data /\ Within)
  BY <1>1, BooksStart, PTL DEF Spec
<1>3. QED BY <1>2, PTL DEF Within

-----------------------------------------------------------------------------
(* Requests one at a time: what the books say while one is half-way. *)

AtWork == {"cure", "recompute", "writeStatus", "declare"}

\* Nobody else is at work, and nothing is known of a request not made.
OneAtATime == \A r \in Requests \ {first} : task[r] = Idle
Untouched ==
  \A q \in Deposit : ~Requested(q) =>
    request[q].due = "never" /\ \A p \in Party : share[q][p].paidAmount = 0 /\ share[q][p].status # "IN_DEFAULT"

\* What the request in progress read is still so.
ReadsHold(w) ==
  /\ w.step \in AtWork \cup {"charge", "pay"} => Requested(w.q)
  /\ w.step = "pay" => w.newPaid = share[w.q][w.p].paidAmount + w.amount
  /\ w.step = "cure" => share[w.q][w.p].status # "IN_DEFAULT"
  /\ w.step = "writeStatus" => w.status = statusOf(w.q)
  /\ w.step = "declare" => \A p \in w.rest : share[w.q][p].status # "IN_DEFAULT"

Charges == {ChargeOf(q) : q \in {a \in Deposit : Requested(a)}}
PaymentsMade == {PaymentOf(d, payment[d].amount) : d \in {a \in Payment : payment[a] # NoPayment}}
RefundsMade == {RefundOf(f) : f \in {a \in Refund : refund[a] # NoRefund}}

\* The ledger lacks at most the entry that the request in progress comes to.
Coming(w) == IF w.step = "charge" THEN {ChargeOf(w.q)}
             ELSE IF w.step = "ledgerRefund" THEN {RefundOf(w.f)} ELSE {}
Entered(w) == ledger \cup Coming(w) = Charges \cup PaymentsMade \cup RefundsMade

Flagged(w) ==
  \A q \in Deposit, p \in Party :
    \/ open[<<q, p>>] = IF share[q][p].status = "IN_DEFAULT" THEN 1 ELSE 0
    \/ w.step = "cure" /\ w.q = q /\ w.p = p
Current(w) ==
  \A q \in Deposit :
    Requested(q) /\ request[q].total > 0 => request[q].status = statusOf(q) \/ (w.step \in AtWork /\ w.q = q)

InOrder(w) == ReadsHold(w) /\ Entered(w) /\ Flagged(w) /\ Current(w)
Books ==
  /\ OneAtATime /\ Untouched /\ PaidIsReceived
  /\ \E w \in Work : w = task[first] /\ InOrder(w)

LEMMA FirstIsRequest == first \in Requests
BY RowsAssumption DEF RowsAssumption, first

LEMMA BooksAfter ==
  ASSUME Data, Data', Books, NEW w \in Work, task' = [task EXCEPT ![first] = w],
         Untouched', PaidIsReceived', InOrder(w)'
  PROVE  Books'
<1>1. task'[first] = w
  BY FirstIsRequest DEF Data
<1>2. OneAtATime'
  BY FirstIsRequest DEF Books, OneAtATime, Data
<1>3. QED BY <1>1, <1>2 DEF Books

LEMMA StatusAlike ==
  ASSUME NEW q \in Deposit, share'[q] = share[q]
  PROVE  statusOf(q)' = statusOf(q)
BY DEF statusOf, Covered

LEMMA ChargesKept ==
  ASSUME \A q \in Deposit : request'[q].total = request[q].total /\ (Requested(q)' <=> Requested(q))
  PROVE  /\ Charges' = Charges
         /\ \A q \in Deposit : ChargeOf(q)' = ChargeOf(q)
<1>1. \A q \in Deposit : ChargeOf(q)' = ChargeOf(q)
  BY DEF ChargeOf
<1>2. QED BY <1>1 DEF Charges

LEMMA PaymentsKept == payment' = payment => PaymentsMade' = PaymentsMade
BY DEF PaymentsMade

LEMMA RefundsKept ==
  refund' = refund => RefundsMade' = RefundsMade /\ \A f \in Refund : RefundOf(f)' = RefundOf(f)
BY DEF RefundsMade, RefundOf

\* A step that leaves the rows as they are.
LEMMA RowsAlike ==
  ASSUME Data, Same, Untouched, PaidIsReceived, NEW w \in Work, InOrder(w)
  PROVE  Untouched' /\ PaidIsReceived' /\ InOrder(w)'
<1>1. Untouched' /\ PaidIsReceived'
  BY DEF Same, Untouched, PaidIsReceived, Requested, Received
<1>2. ReadsHold(w)'
  BY DEF InOrder, ReadsHold, Same, Requested, statusOf, Covered
<1>3. Entered(w)'
  <2>1. Charges' = Charges /\ PaymentsMade' = PaymentsMade /\ RefundsMade' = RefundsMade
    BY DEF Same, Charges, PaymentsMade, RefundsMade, ChargeOf, RefundOf, Requested
  <2>2. Coming(w)' = Coming(w)
    BY DEF Same, Coming, ChargeOf, RefundOf
  <2>3. QED BY <2>1, <2>2 DEF Same, InOrder, Entered
<1>4. Flagged(w)'
  BY DEF InOrder, Flagged, Same
<1>5. Current(w)'
  BY DEF InOrder, Current, Same, Requested, statusOf, Covered
<1>6. QED BY <1>1, <1>2, <1>3, <1>4, <1>5 DEF InOrder

LEMMA BooksAsPaymentComes ==
  ASSUME Data, Data', Books, NEW q \in Deposit, NEW p \in Party, NEW amount \in Amounts,
         NEW substitute \in BOOLEAN, recordPayment(first, q, p, amount, substitute)
  PROVE  Books'
<1>1. first \in Requests BY FirstIsRequest
<1>2. PICK w \in Work : /\ task' = [task EXCEPT ![first] = w]
                        /\ w.step = "pay" /\ w.q = q /\ w.p = p /\ w.amount = amount
                        /\ w.newPaid = share[q][p].paidAmount + amount
  BY <1>1, PaymentComing
<1>3. Requested(q) /\ task[first] = Idle /\ Same
  BY <1>1, PaymentComing
<1>4. InOrder(Idle)
  BY <1>3 DEF Books
<1>5. ReadsHold(w)
  BY <1>2, <1>3 DEF ReadsHold, AtWork
<1>6. Entered(w) /\ Flagged(w) /\ Current(w)
  BY <1>2, <1>4 DEF InOrder, Entered, Coming, Flagged, Current, Idle, AtWork
<1>7. InOrder(w)
  BY <1>5, <1>6 DEF InOrder
<1>8. QED BY <1>2, <1>3, <1>7, RowsAlike, BooksAfter DEF Books

LEMMA BooksAsDefaultsAreListed ==
  ASSUME Data, Data', Books, NEW q \in Deposit, declareDefaults(first, q)
  PROVE  Books'
<1>1. first \in Requests BY FirstIsRequest
<1>2. PICK w \in Work : /\ task' = [task EXCEPT ![first] = w] /\ w.q = q
                        /\ w.step = "recompute" \/ (w.step = "declare" /\ w.rest = Defaulting(q))
  BY <1>1, Listing
<1>3. request[q].due = "passed" /\ task[first] = Idle /\ Same
  BY <1>1, Listing
<1>4. InOrder(Idle)
  BY <1>3 DEF Books
<1>5. Requested(q)
  BY <1>3 DEF Books, Untouched
<1>6. ReadsHold(w)
  BY <1>2, <1>5 DEF ReadsHold, AtWork, Defaulting
<1>7. Entered(w) /\ Flagged(w) /\ Current(w)
  BY <1>2, <1>4 DEF InOrder, Entered, Coming, Flagged, Current, Idle, AtWork
<1>8. InOrder(w)
  BY <1>6, <1>7 DEF InOrder
<1>9. QED BY <1>2, <1>3, <1>8, RowsAlike, BooksAfter DEF Books

LEMMA BooksAsStatusIsRead ==
  ASSUME Data, Data', Books, Recompute(first)
  PROVE  Books'
<1>1. first \in Requests BY FirstIsRequest
<1>2. PICK q \in Deposit :
           /\ task[first].step = "recompute" /\ task[first].q = q
           /\ task' = [task EXCEPT ![first] = [step |-> "writeStatus", q |-> q, status |-> statusOf(q)]]
           /\ Same
  BY <1>1, Recomputing
<1>3. PICK u \in Work : u = task[first] /\ InOrder(u)
  BY DEF Books
<1>4. PICK w : w = [step |-> "writeStatus", q |-> q, status |-> statusOf(q)]
  OBVIOUS
<1>5. w \in Work /\ w.step = "writeStatus" /\ w.q = q /\ w.status = statusOf(q)
  BY <1>4, StatusOf DEF Work
<1>6. ReadsHold(w)
  BY <1>2, <1>3, <1>5 DEF InOrder, ReadsHold, AtWork
<1>7. Entered(w) /\ Flagged(w) /\ Current(w)
  BY <1>2, <1>3, <1>5 DEF InOrder, Entered, Coming, Flagged, Current, AtWork
<1>8. InOrder(w)
  BY <1>6, <1>7 DEF InOrder
<1>9. task' = [task EXCEPT ![first] = w]
  BY <1>2, <1>4
<1>10. QED BY <1>2, <1>5, <1>8, <1>9, RowsAlike, BooksAfter DEF Books

\* A step that changes no share and no payment.
LEMMA SharesAlike ==
  ASSUME Data, PaidIsReceived, UNCHANGED <<share, payment>>
  PROVE  PaidIsReceived' /\ \A q \in Deposit : statusOf(q)' = statusOf(q)
BY DEF PaidIsReceived, Received, statusOf, Covered

LEMMA BooksAsEntryIsWritten ==
  ASSUME Data, Data', Books, Charge(first) \/ LedgerRefund(first)
  PROVE  Books'
<1>1. first \in Requests BY FirstIsRequest
<1>2. PICK u \in Work : u = task[first] /\ InOrder(u)
  BY DEF Books
<1>3. /\ task' = [task EXCEPT ![first] = Idle]
      /\ UNCHANGED <<request, share, payment, refund, open>>
      /\ ledger' = ledger \cup Coming(u) /\ u.step \in {"charge", "ledgerRefund"}
  BY <1>2 DEF Charge, LedgerRefund, Finish, Coming, At
<1>4. Idle \in Work /\ Idle.step = "idle"
  BY DEF Work, Idle
<1>5. Untouched' /\ PaidIsReceived' /\ \A q \in Deposit : statusOf(q)' = statusOf(q)
  BY <1>3, SharesAlike DEF Books, Untouched, Requested
<1>6. ReadsHold(Idle)'
  BY <1>4 DEF ReadsHold, AtWork
<1>7. Entered(Idle)'
  <2>1. Charges' = Charges /\ PaymentsMade' = PaymentsMade /\ RefundsMade' = RefundsMade
    BY <1>3 DEF Charges, PaymentsMade, RefundsMade, ChargeOf, RefundOf, Requested
  <2>2. Coming(Idle)' = {}
    BY <1>4 DEF Coming
  <2>3. QED BY <1>2, <1>3, <2>1, <2>2 DEF InOrder, Entered
<1>8. Flagged(Idle)'
  BY <1>2, <1>3 DEF InOrder, Flagged
<1>9. Current(Idle)'
  BY <1>2, <1>3, <1>5 DEF InOrder, Current, Requested, AtWork
<1>10. InOrder(Idle)'
  BY <1>6, <1>7, <1>8, <1>9 DEF InOrder
<1>11. QED BY <1>3, <1>4, <1>5, <1>10, BooksAfter

LEMMA BooksAsRefundComes ==
  ASSUME Data, Data', Books, NEW f \in Refund, NEW d \in Payment, NEW amount \in Amounts,
         recordRefund(first, f, d, amount)
  PROVE  Books'
<1>1. first \in Requests BY FirstIsRequest
<1>2. PICK w : w = [step |-> "ledgerRefund", f |-> f]
  OBVIOUS
<1>3. w \in Work /\ w.step = "ledgerRefund" /\ w.f = f
  BY <1>2 DEF Work
<1>4. PICK row : row = [of |-> d, amount |-> amount]
  OBVIOUS
<1>5. /\ task[first] = Idle /\ refund[f] = NoRefund
      /\ refund' = [refund EXCEPT ![f] = row]
      /\ task' = [task EXCEPT ![first] = w]
      /\ UNCHANGED <<request, share, payment, open, ledger>>
  BY <1>1, <1>2, <1>4, Refunding
<1>6. InOrder(Idle) /\ Idle.step = "idle"
  BY <1>5 DEF Books, Idle
<1>7. Untouched' /\ PaidIsReceived' /\ \A q \in Deposit : statusOf(q)' = statusOf(q)
  BY <1>5, SharesAlike DEF Books, Untouched, Requested
<1>8. ReadsHold(w)'
  BY <1>3 DEF ReadsHold, AtWork
<1>9. Entered(w)'
  <2>1. Charges' = Charges /\ PaymentsMade' = PaymentsMade
    BY <1>5 DEF Charges, PaymentsMade, ChargeOf, Requested
  <2>2. Coming(w)' = {RefundOf(f)'} /\ Coming(Idle) = {}
    BY <1>3, <1>6 DEF Coming
  <2>3. refund'[f] # NoRefund
    BY <1>4, <1>5, MoneyTypes DEF NoRefund, Data
  <2>4. \A g \in Refund \ {f} : refund'[g] = refund[g] /\ RefundOf(g)' = RefundOf(g)
    BY <1>5 DEF RefundOf, Data
  <2>5. RefundsMade' = RefundsMade \cup {RefundOf(f)'}
    BY <1>5, <2>3, <2>4 DEF RefundsMade
  <2>6. QED BY <1>5, <1>6, <2>1, <2>2, <2>5 DEF InOrder, Entered
<1>10. Flagged(w)'
  BY <1>5, <1>6 DEF InOrder, Flagged
<1>11. Current(w)'
  BY <1>5, <1>6, <1>7 DEF InOrder, Current, Requested, AtWork
<1>12. InOrder(w)'
  BY <1>8, <1>9, <1>10, <1>11 DEF InOrder
<1>13. QED BY <1>3, <1>5, <1>7, <1>12, BooksAfter

LEMMA BooksAsSharesAreCured ==
  ASSUME Data, Data', Books, Cure(first)
  PROVE  Books'
<1>1. first \in Requests BY FirstIsRequest
<1>2. PICK q \in Deposit, p \in Party :
           /\ task[first].step = "cure" /\ task[first].q = q /\ task[first].p = p
           /\ open' = [open EXCEPT ![<<q, p>>] = 0]
           /\ task' = [task EXCEPT ![first] = [step |-> "recompute", q |-> q]]
           /\ UNCHANGED <<request, share, payment, refund, ledger>>
  BY <1>1, Curing
<1>3. PICK u \in Work : u = task[first] /\ InOrder(u) /\ u.step = "cure" /\ u.q = q /\ u.p = p
  BY <1>2 DEF Books
<1>4. PICK w : w = [step |-> "recompute", q |-> q]
  OBVIOUS
<1>5. w \in Work /\ w.step = "recompute" /\ w.q = q /\ task' = [task EXCEPT ![first] = w]
  BY <1>2, <1>4 DEF Work
<1>6. Untouched' /\ PaidIsReceived' /\ \A a \in Deposit : statusOf(a)' = statusOf(a)
  BY <1>2, SharesAlike DEF Books, Untouched, Requested
<1>7. ReadsHold(w)'
  BY <1>2, <1>3, <1>5 DEF InOrder, ReadsHold, AtWork, Requested
<1>8. Entered(w)'
  <2>1. Charges' = Charges /\ PaymentsMade' = PaymentsMade /\ RefundsMade' = RefundsMade
    BY <1>2 DEF Charges, PaymentsMade, RefundsMade, ChargeOf, RefundOf, Requested
  <2>2. Coming(w)' = {} /\ Coming(u) = {}
    BY <1>3, <1>5 DEF Coming
  <2>3. QED BY <1>2, <1>3, <2>1, <2>2 DEF InOrder, Entered
<1>9. Flagged(w)'
  <2>1. share[q][p].status # "IN_DEFAULT"
    BY <1>3 DEF InOrder, ReadsHold
  <2>2. \A a \in Deposit, b \in Party : open'[<<a, b>>] = IF a = q /\ b = p THEN 0 ELSE open[<<a, b>>]
    BY <1>2 DEF Data, Shares
  <2>3. \A a \in Deposit, b \in Party :
          a # q \/ b # p => open[<<a, b>>] = IF share[a][b].status = "IN_DEFAULT" THEN 1 ELSE 0
    BY <1>3 DEF InOrder, Flagged
  <2>4. ASSUME NEW a \in Deposit, NEW b \in Party
        PROVE  open'[<<a, b>>] = IF share'[a][b].status = "IN_DEFAULT" THEN 1 ELSE 0
    <3>1. CASE a = q /\ b = p
      BY <1>2, <2>1, <2>2, <3>1
    <3>2. CASE a # q \/ b # p
      BY <1>2, <2>2, <2>3, <3>2
    <3>3. QED BY <3>1, <3>2
  <2>5. QED BY <2>4 DEF Flagged
<1>10. Current(w)'
  BY <1>2, <1>3, <1>5, <1>6 DEF InOrder, Current, Requested, AtWork
<1>11. InOrder(w)'
  BY <1>7, <1>8, <1>9, <1>10 DEF InOrder
<1>12. QED BY <1>5, <1>6, <1>11, BooksAfter

LEMMA BooksAsStatusIsWritten ==
  ASSUME Data, Data', Books, WriteStatus(first)
  PROVE  Books'
<1>1. first \in Requests BY FirstIsRequest
<1>2. PICK q \in Deposit, status \in DepositStatus :
           /\ task[first].step = "writeStatus" /\ task[first].q = q /\ task[first].status = status
           /\ request' \in [Deposit -> RequestRow]
           /\ \A a \in Deposit : /\ request'[a].total = request[a].total /\ request'[a].due = request[a].due
                                 /\ request'[a].status = IF a = q THEN status ELSE request[a].status
           /\ \A a \in Deposit \ {q} : request'[a] = request[a]
           /\ task' = [task EXCEPT ![first] = Idle]
           /\ UNCHANGED <<share, payment, refund, open, ledger>>
  BY <1>1, WritingStatus
<1>3. PICK u \in Work : /\ u = task[first] /\ InOrder(u)
                        /\ u.step = "writeStatus" /\ u.q = q /\ u.status = status
  BY <1>2 DEF Books
<1>4. Idle \in Work /\ Idle.step = "idle"
  BY DEF Work, Idle
<1>5. Requested(q) /\ status = statusOf(q) /\ status # "NONE"
  BY <1>3 DEF InOrder, ReadsHold, AtWork, DepositStatus
<1>6. \A a \in Deposit : Requested(a)' <=> Requested(a)
  BY <1>2, <1>5 DEF Requested
<1>7. PaidIsReceived' /\ \A a \in Deposit : statusOf(a)' = statusOf(a)
  BY <1>2, SharesAlike DEF Books
<1>8. Untouched'
  BY <1>2, <1>6 DEF Books, Untouched
<1>9. ReadsHold(Idle)'
  BY <1>4 DEF ReadsHold, AtWork
<1>10. Entered(Idle)'
  <2>1. Charges' = Charges /\ PaymentsMade' = PaymentsMade /\ RefundsMade' = RefundsMade
    BY <1>2, <1>6, ChargesKept, PaymentsKept, RefundsKept
  <2>2. Coming(Idle)' = {} /\ Coming(u) = {}
    BY <1>3, <1>4 DEF Coming
  <2>3. QED BY <1>2, <1>3, <2>1, <2>2 DEF InOrder, Entered
<1>11. Flagged(Idle)'
  BY <1>2, <1>3 DEF InOrder, Flagged
<1>12. Current(Idle)'
  BY <1>2, <1>3, <1>5, <1>6, <1>7 DEF InOrder, Current
<1>13. InOrder(Idle)'
  BY <1>9, <1>10, <1>11, <1>12 DEF InOrder
<1>14. QED BY <1>2, <1>4, <1>7, <1>8, <1>13, BooksAfter

LEMMA BooksAsDefaultIsDeclared ==
  ASSUME Data, Data', Books, NEW p \in Party, Declare(first, p)
  PROVE  Books'
<1>1. first \in Requests BY FirstIsRequest
<1>2. PICK q \in Deposit, rest \in SUBSET Party, w \in Work : Declared(first, p, q, rest, w)
  BY <1>1, Declaring
<1>3. /\ task[first].step = "declare" /\ task[first].q = q /\ task[first].rest = rest /\ p \in rest
      /\ open' = [open EXCEPT ![<<q, p>>] = open[<<q, p>>] + 1]
      /\ \A a \in Deposit, b \in Party :
           /\ share'[a][b].paidAmount = share[a][b].paidAmount
           /\ a = q /\ b = p => share'[a][b].status = "IN_DEFAULT"
           /\ a # q \/ b # p => share'[a][b] = share[a][b]
      /\ task' = [task EXCEPT ![first] = w]
      /\ w.step = "recompute" \/ (w.step = "declare" /\ w.rest = rest \ {p})
      /\ w.q = q
      /\ UNCHANGED <<request, payment, refund, ledger>>
  BY <1>2 DEF Declared
<1>4. PICK u \in Work : u = task[first] /\ InOrder(u) /\ u.step = "declare" /\ u.q = q /\ u.rest = rest
  BY <1>3 DEF Books
<1>5. Requested(q) /\ \A b \in rest : share[q][b].status # "IN_DEFAULT"
  BY <1>4 DEF InOrder, ReadsHold, AtWork
<1>6. \A a \in Deposit : (Requested(a)' <=> Requested(a)) /\ request'[a] = request[a]
  BY <1>3 DEF Requested
<1>7. Untouched'
  BY <1>3, <1>5, <1>6 DEF Books, Untouched
<1>8. PaidIsReceived'
  BY <1>3, NothingReceived DEF Books, PaidIsReceived
<1>9. ReadsHold(w)'
  BY <1>3, <1>5, <1>6 DEF ReadsHold, AtWork
<1>10. Entered(w)'
  <2>1. Charges' = Charges /\ PaymentsMade' = PaymentsMade /\ RefundsMade' = RefundsMade
    BY <1>3, <1>6, ChargesKept, PaymentsKept, RefundsKept
  <2>2. Coming(w)' = {} /\ Coming(u) = {}
    BY <1>3, <1>4 DEF Coming
  <2>3. QED BY <1>3, <1>4, <2>1, <2>2 DEF InOrder, Entered
<1>11. Flagged(w)'
  <2>1. \A a \in Deposit, b \in Party :
          open'[<<a, b>>] = IF a = q /\ b = p THEN open[<<q, p>>] + 1 ELSE open[<<a, b>>]
    BY <1>3 DEF Data, Shares
  <2>2. \A a \in Deposit, b \in Party : open[<<a, b>>] = IF share[a][b].status = "IN_DEFAULT" THEN 1 ELSE 0
    BY <1>4 DEF InOrder, Flagged
  <2>3. open[<<q, p>>] = 0
    BY <1>3, <1>5, <2>2
  <2>4. ASSUME NEW a \in Deposit, NEW b \in Party
        PROVE  open'[<<a, b>>] = IF share'[a][b].status = "IN_DEFAULT" THEN 1 ELSE 0
    <3>1. CASE a = q /\ b = p
      BY <1>3, <2>1, <2>3, <3>1
    <3>2. CASE a # q \/ b # p
      BY <1>3, <2>1, <2>2, <3>2
    <3>3. QED BY <3>1, <3>2
  <2>5. QED BY <2>4 DEF Flagged
<1>12. Current(w)'
  <2>1. \A a \in Deposit \ {q} : share'[a] = share[a]
    BY <1>3 DEF Data
  <2>2. \A a \in Deposit \ {q} : statusOf(a)' = statusOf(a)
    BY <2>1, StatusAlike
  <2>3. QED BY <1>3, <1>4, <1>6, <2>2 DEF InOrder, Current, AtWork
<1>13. InOrder(w)'
  BY <1>9, <1>10, <1>11, <1>12 DEF InOrder
<1>14. QED BY <1>3, <1>7, <1>8, <1>13, BooksAfter

LEMMA BooksAsDepositIsRequested ==
  ASSUME Data, Data', Books, NEW q \in Deposit, NEW t \in Totals, NEW method \in Methods,
         NEW due \in {"never", "later"}, createRequest(first, q, t, method, due)
  PROVE  Books'
<1>1. first \in Requests BY FirstIsRequest
<1>2. PICK w : w = [step |-> "charge", q |-> q]
  OBVIOUS
<1>3. PICK row : row = [status |-> "REQUESTED", total |-> t, due |-> due]
  OBVIOUS
<1>4. /\ ~Requested(q) /\ task[first] = Idle /\ task' = [task EXCEPT ![first] = w]
      /\ request' = [request EXCEPT ![q] = row]
      /\ UNCHANGED <<payment, refund, open, ledger>>
  BY <1>1, <1>2, <1>3, Requesting
<1>5. PICK rows \in [Party -> AllocationRow] :
              /\ share' = [share EXCEPT ![q] = rows]
              /\ \A p \in Party : rows[p].status = "OUTSTANDING" /\ rows[p].paidAmount = 0
              /\ t > 0 => \E p \in Party : rows[p].shareAmount > 0
  BY <1>1, Requesting
<1>6. w \in Work /\ w.step = "charge" /\ w.q = q
  BY <1>2 DEF Work
<1>7. InOrder(Idle) /\ Idle.step = "idle"
  BY <1>4 DEF Books, Idle
<1>8. /\ request'[q] = row /\ row.status = "REQUESTED" /\ row.total = t /\ row.due = due
      /\ \A a \in Deposit \ {q} : request'[a] = request[a]
      /\ share'[q] = rows /\ \A a \in Deposit \ {q} : share'[a] = share[a]
  BY <1>3, <1>4, <1>5 DEF Data
<1>9. Requested(q)' /\ \A a \in Deposit \ {q} : Requested(a)' <=> Requested(a)
  BY <1>8 DEF Requested
<1>10. Untouched'
  BY <1>8, <1>9 DEF Books, Untouched
<1>11. PaidIsReceived'
  <2>1. \A a \in Deposit, p \in Party : share'[a][p].paidAmount = share[a][p].paidAmount
    BY <1>4, <1>5, <1>8 DEF Books, Untouched
  <2>2. QED BY <1>4, <2>1, NothingReceived DEF Books, PaidIsReceived
<1>12. ReadsHold(w)'
  BY <1>6, <1>9 DEF ReadsHold, AtWork
<1>13. Entered(w)'
  <2>1. PaymentsMade' = PaymentsMade /\ RefundsMade' = RefundsMade
    BY <1>4, PaymentsKept, RefundsKept
  <2>2. \A a \in Deposit \ {q} : ChargeOf(a)' = ChargeOf(a)
    BY <1>8 DEF ChargeOf
  <2>3. Charges' = Charges \cup {ChargeOf(q)'}
    BY <1>4, <1>9, <2>2 DEF Charges
  <2>4. Coming(w)' = {ChargeOf(q)'} /\ Coming(Idle) = {}
    BY <1>6, <1>7 DEF Coming
  <2>5. QED BY <1>4, <1>7, <2>1, <2>3, <2>4 DEF InOrder, Entered
<1>14. Flagged(w)'
  <2>1. \A a \in Deposit, p \in Party : open[<<a, p>>] = IF share[a][p].status = "IN_DEFAULT" THEN 1 ELSE 0
    BY <1>7 DEF InOrder, Flagged
  <2>2. \A a \in Deposit, p \in Party : share'[a][p].status = "IN_DEFAULT" <=> share[a][p].status = "IN_DEFAULT"
    BY <1>4, <1>5, <1>8 DEF Books, Untouched
  <2>3. QED BY <1>4, <2>1, <2>2 DEF Flagged
<1>15. Current(w)'
  <2>1. \A a \in Deposit \ {q} : statusOf(a)' = statusOf(a)
    BY <1>8, StatusAlike
  <2>2. t > 0 => statusOf(q)' = "REQUESTED"
    <3>1. t > 0 => \E p \in Party : ~(rows[p].paidAmount >= rows[p].shareAmount)
      BY <1>5 DEF AllocationRow
    <3>2. t > 0 => ~\A p \in Party : Covered(q, p)'
      BY <1>8, <3>1 DEF Covered
    <3>3. \A p \in Party : share'[q][p].status # "IN_DEFAULT" /\ ~(share'[q][p].paidAmount > 0)
      BY <1>5, <1>8
    <3>4. QED BY <3>2, <3>3 DEF statusOf
  <2>3. QED BY <1>7, <1>8, <1>9, <2>1, <2>2 DEF InOrder, Current, AtWork
<1>16. InOrder(w)'
  BY <1>12, <1>13, <1>14, <1>15 DEF InOrder
<1>17. QED BY <1>4, <1>6, <1>10, <1>11, <1>16, BooksAfter

LEMMA BooksAsPaymentIsWritten ==
  ASSUME Data, Data', Books, NEW d \in Payment, Pay(first, d)
  PROVE  Books'
<1>1. first \in Requests BY FirstIsRequest
<1>2. PICK q \in Deposit, p \in Party, amount \in Amounts, status \in ShareStatus \ {"IN_DEFAULT"} :
           /\ task[first].step = "pay" /\ task[first].q = q /\ task[first].p = p /\ task[first].amount = amount
           /\ payment[d] = NoPayment
           /\ payment' = [payment EXCEPT ![d] = [q |-> q, p |-> p, amount |-> amount]]
           /\ share' \in [Deposit -> [Party -> AllocationRow]]
           /\ \A a \in Deposit, b \in Party :
                IF a = q /\ b = p
                THEN share'[a][b].status = status /\ share'[a][b].paidAmount = task[first].newPaid
                ELSE share'[a][b] = share[a][b]
           /\ ledger' = ledger \cup {PaymentOf(d, amount)}
           /\ task' = [task EXCEPT ![first] = [step |-> "cure", q |-> q, p |-> p]]
           /\ UNCHANGED <<request, refund, open>>
  BY <1>1, Paying
<1>3. PICK u \in Work : /\ u = task[first] /\ InOrder(u)
                        /\ u.step = "pay" /\ u.q = q /\ u.p = p /\ u.amount = amount
  BY <1>2 DEF Books
<1>4. PICK w : w = [step |-> "cure", q |-> q, p |-> p]
  OBVIOUS
<1>5. w \in Work /\ w.step = "cure" /\ w.q = q /\ w.p = p /\ task' = [task EXCEPT ![first] = w]
  BY <1>2, <1>4 DEF Work
<1>6. PICK row \in PaymentRow : row = [q |-> q, p |-> p, amount |-> amount]
  BY MoneyTypes DEF PaymentRow
<1>7. payment[d] = NoPayment /\ payment' = [payment EXCEPT ![d] = row] /\ row.q = q /\ row.p = p /\ row.amount = amount
  BY <1>2, <1>6
<1>8. Requested(q) /\ u.newPaid = share[q][p].paidAmount + amount
  BY <1>3 DEF InOrder, ReadsHold, AtWork
<1>9. \A a \in Deposit : (Requested(a)' <=> Requested(a)) /\ request'[a] = request[a]
  BY <1>2 DEF Requested
<1>10. Untouched'
  BY <1>2, <1>8, <1>9 DEF Books, Untouched
<1>11. PaidIsReceived'
  <2>1. \A a \in Deposit, b \in Party :
          Received(a, b)' = IF a = row.q /\ b = row.p THEN Received(a, b) + row.amount ELSE Received(a, b)
    BY <1>7, ReceivedWith
  <2>2. ASSUME NEW a \in Deposit, NEW b \in Party PROVE share'[a][b].paidAmount = Received(a, b)'
    <3>1. share[a][b].paidAmount = Received(a, b)
      BY DEF Books, PaidIsReceived
    <3>2. CASE a = q /\ b = p
      <4>1. share'[a][b].paidAmount = u.newPaid
        BY <1>2, <1>3, <3>2
      <4>2. Received(a, b)' = Received(a, b) + amount
        BY <1>7, <2>1, <3>2
      <4>3. QED BY <1>8, <3>1, <3>2, <4>1, <4>2
    <3>3. CASE a # q \/ b # p
      <4>1. share'[a][b] = share[a][b] /\ Received(a, b)' = Received(a, b)
        BY <1>2, <1>7, <2>1, <3>3
      <4>2. QED BY <3>1, <4>1
    <3>4. QED BY <3>2, <3>3
  <2>3. QED BY <2>2 DEF PaidIsReceived
<1>12. ReadsHold(w)'
  <2>1. share'[q][p].status # "IN_DEFAULT"
    BY <1>2
  <2>2. QED BY <1>5, <1>8, <1>9, <2>1 DEF ReadsHold, AtWork
<1>13. Entered(w)'
  <2>1. Charges' = Charges /\ RefundsMade' = RefundsMade
    BY <1>2, <1>9, ChargesKept, RefundsKept
  <2>2. Coming(w)' = {} /\ Coming(u) = {}
    BY <1>3, <1>5 DEF Coming
  <2>3. row # NoPayment
    BY <1>7, MoneyTypes DEF NoPayment
  <2>4. payment'[d] = row /\ \A x \in Payment \ {d} : payment'[x] = payment[x]
    BY <1>7 DEF Data
  <2>5. PaymentsMade' = PaymentsMade \cup {PaymentOf(d, amount)}
    BY <1>7, <2>3, <2>4 DEF PaymentsMade
  <2>6. QED BY <1>2, <1>3, <2>1, <2>2, <2>5 DEF InOrder, Entered
<1>14. Flagged(w)'
  <2>1. \A a \in Deposit, b \in Party :
           a # q \/ b # p => share'[a][b] = share[a][b]
    BY <1>2
  <2>2. \A a \in Deposit, b \in Party : open[<<a, b>>] = IF share[a][b].status = "IN_DEFAULT" THEN 1 ELSE 0
    BY <1>3 DEF InOrder, Flagged
  <2>3. open' = open
    BY <1>2
  <2>4. ASSUME NEW a \in Deposit, NEW b \in Party, a # q \/ b # p
        PROVE  open'[<<a, b>>] = IF share'[a][b].status = "IN_DEFAULT" THEN 1 ELSE 0
    BY <2>1, <2>2, <2>3, <2>4
  <2>5. QED BY <1>5, <2>4 DEF Flagged
<1>15. Current(w)'
  <2>1. \A a \in Deposit \ {q} : share'[a] = share[a]
    BY <1>2 DEF Data
  <2>2. \A a \in Deposit \ {q} : statusOf(a)' = statusOf(a)
    BY <2>1, StatusAlike
  <2>3. QED BY <1>3, <1>5, <1>9, <2>2 DEF InOrder, Current, AtWork
<1>16. InOrder(w)'
  BY <1>12, <1>13, <1>14, <1>15 DEF InOrder
<1>17. QED BY <1>5, <1>10, <1>11, <1>16, BooksAfter

LEMMA BooksAsTimePasses ==
  ASSUME Data, Data', Books, NEW q \in Deposit, Elapse(q)
  PROVE  Books'
<1>1. /\ request[q].due = "later"
      /\ \A a \in Deposit : request'[a].total = request[a].total /\ request'[a].status = request[a].status
      /\ \A a \in Deposit \ {q} : request'[a] = request[a]
      /\ UNCHANGED <<share, payment, refund, open, ledger, task>>
  BY TimePassing
<1>2. PICK w \in Work : w = task[first] /\ InOrder(w)
  BY DEF Books
<1>3. \A a \in Deposit : Requested(a)' <=> Requested(a)
  BY <1>1 DEF Requested
<1>4. PaidIsReceived' /\ \A a \in Deposit : statusOf(a)' = statusOf(a)
  BY <1>1, SharesAlike DEF Books
<1>5. Requested(q)
  BY <1>1 DEF Books, Untouched
<1>6. Untouched'
  BY <1>1, <1>3, <1>5 DEF Books, Untouched
<1>7. ReadsHold(w)'
  <2>1. w.step \in AtWork \cup {"charge", "pay"} => w.q \in Deposit
    BY WorkFields DEF AtWork
  <2>2. QED BY <1>1, <1>2, <1>3, <1>4, <2>1 DEF InOrder, ReadsHold, AtWork
<1>8. Entered(w)'
  <2>1. /\ Charges' = Charges /\ PaymentsMade' = PaymentsMade /\ RefundsMade' = RefundsMade
        /\ \A a \in Deposit : ChargeOf(a)' = ChargeOf(a)
        /\ \A f \in Refund : RefundOf(f)' = RefundOf(f)
    BY <1>1, <1>3, ChargesKept, PaymentsKept, RefundsKept
  <2>2. Coming(w)' = Coming(w)
    BY <2>1, WorkFields DEF Coming
  <2>3. QED BY <1>1, <1>2, <2>1, <2>2 DEF InOrder, Entered
<1>9. Flagged(w)'
  BY <1>1, <1>2 DEF InOrder, Flagged
<1>10. Current(w)'
  BY <1>1, <1>2, <1>3, <1>4 DEF InOrder, Current
<1>11. InOrder(w)'
  BY <1>7, <1>8, <1>9, <1>10 DEF InOrder
<1>12. QED BY <1>1, <1>2, <1>6, <1>4, <1>11 DEF Books, OneAtATime

\* The invariant of a run: the rows have their shape, no share is paid with
\* money not received, and of requests one at a time the books are in order.
BooksInv == Data /\ Within /\ (mode = "serial" => Books)

LEMMA BooksOpen == MCInit => BooksInv
<1> SUFFICES ASSUME MCInit PROVE BooksInv
  OBVIOUS
<1>1. Data /\ Within
  BY BooksStart DEF MCInit
<1>2. Untouched
  BY DEF MCInit, Init, Untouched, NoRequest, NoShare
<1>3. PaidIsReceived
  <2>1. ASSUME NEW q \in Deposit, NEW p \in Party PROVE Received(q, p) = 0
    <3>1. PaidFor(q, p) = {}
      BY PartiesOfCase DEF MCInit, Init, PaidFor, NoPayment
    <3>2. PICK h : h = AmountsFor(q, p)
      OBVIOUS
    <3>3. h = [x \in {} |-> IF x \in {} THEN 1 ELSE 0]
      BY <3>1, <3>2 DEF AmountsFor
    <3>4. Total(h) = 0
      BY <3>3, TotalOfOnes, FS_EmptySet
    <3>5. QED BY <1>1, <3>2, <3>4, ReceivedIs
  <2>2. \A q \in Deposit, p \in Party : share[q][p].paidAmount = 0
    BY DEF MCInit, Init, NoShare
  <2>3. QED BY <2>1, <2>2 DEF PaidIsReceived
<1>4. Idle.step = "idle" /\ Idle \in Work /\ task[first] = Idle /\ OneAtATime
  BY FirstIsRequest DEF Idle, Work, MCInit, Init, OneAtATime
<1>5. ReadsHold(Idle) /\ Entered(Idle) /\ Flagged(Idle) /\ Current(Idle)
  <2>1. ReadsHold(Idle)
    BY <1>4 DEF ReadsHold, AtWork
  <2>2. \A q \in Deposit : ~Requested(q)
    BY DEF MCInit, Init, Requested, NoRequest
  <2>3. Charges = {} /\ PaymentsMade = {} /\ RefundsMade = {} /\ ledger = {}
    BY <2>2 DEF MCInit, Init, Charges, PaymentsMade, RefundsMade
  <2>4. Entered(Idle)
    BY <1>4, <2>3 DEF Entered, Coming
  <2>5. Flagged(Idle)
    BY DEF MCInit, Init, Flagged, NoShare, Shares
  <2>6. Current(Idle)
    BY <2>2 DEF Current
  <2>7. QED BY <2>1, <2>4, <2>5, <2>6
<1>6. QED BY <1>1, <1>2, <1>3, <1>4, <1>5 DEF BooksInv, Books, InOrder

LEMMA BooksGoOn == BooksInv /\ [MCNext]_mcVars => BooksInv'
<1> SUFFICES ASSUME BooksInv, [MCNext]_mcVars PROVE BooksInv'
  OBVIOUS
<1>1. [Next]_vars
  BY FirstIsRequest DEF MCNext, mcVars, Next, engineVars
<1>2. Data' /\ Within'
  BY <1>1, DataKept, WithinKept DEF BooksInv
<1>3. ASSUME mode' = "serial" PROVE Books'
  <2>1. mode = "serial"
    BY <1>3 DEF MCNext, mcVars
  <2>2. Data /\ Data' /\ Books
    BY <1>2, <2>1 DEF BooksInv
  <2>3. CASE Start(first)
    BY <2>2, <2>3, BooksAsDepositIsRequested, BooksAsPaymentComes, BooksAsDefaultsAreListed,
       BooksAsRefundComes DEF Start
  <2>4. CASE Step(first)
    BY <2>2, <2>4, BooksAsEntryIsWritten, BooksAsPaymentIsWritten, BooksAsSharesAreCured, BooksAsStatusIsRead,
       BooksAsStatusIsWritten, BooksAsDefaultIsDeclared DEF Step
  <2>5. CASE \E q \in Deposit : Elapse(q)
    BY <2>2, <2>5, BooksAsTimePasses
  <2>6. CASE UNCHANGED vars
    BY <2>2, <2>6 DEF vars, Books, OneAtATime, Untouched, PaidIsReceived, Received, Requested, InOrder, ReadsHold,
       Entered, Coming, Charges, PaymentsMade, RefundsMade, ChargeOf, RefundOf, Flagged, Current, statusOf, Covered
  <2>7. QED BY <2>1, <2>3, <2>4, <2>5, <2>6 DEF MCNext, mcVars
<1>4. QED BY <1>2, <1>3 DEF BooksInv

\* What is in order while a request is half-way is in order when all are done.
LEMMA BooksClosed == BooksInv => BooksAgree
<1> SUFFICES ASSUME BooksInv PROVE BooksAgree
  OBVIOUS
<1>1. PaidWithinReceived
  BY DEF BooksInv, Within
<1>2. ASSUME mode = "serial" PROVE LedgerComplete /\ PaidIsReceived /\ DefaultFlagMatchesOpen /\ StatusCurrent
  <2>1. Books
    BY <1>2 DEF BooksInv
  <2>2. ASSUME Quiet PROVE InOrder(Idle) /\ Idle.step = "idle"
    BY <2>1, <2>2, FirstIsRequest DEF Books, Quiet, Idle
  <2>3. LedgerComplete
    <3>1. ASSUME Quiet PROVE ledger = Charges \cup PaymentsMade \cup RefundsMade
      BY <2>2, <3>1 DEF InOrder, Entered, Coming
    <3>2. QED BY <3>1 DEF LedgerComplete, Charges, PaymentsMade, RefundsMade
  <2>4. DefaultFlagMatchesOpen
    BY <2>2 DEF DefaultFlagMatchesOpen, InOrder, Flagged
  <2>5. StatusCurrent
    BY <2>2 DEF StatusCurrent, InOrder, Current, AtWork
  <2>6. QED BY <2>1, <2>3, <2>4, <2>5 DEF Books
<1>3. QED BY <1>1, <1>2 DEF BooksAgree

\* Whatever races or is lost half-way, no share is shown paid with money that was
\* not received; and requests that come one at a time leave the ledger, the shares,
\* the defaults and the status of each deposit agreeing (DepositsService).
THEOREM BooksAlwaysAgree == MCSpec => []BooksAgree
<1>1. MCSpec => []BooksInv
  BY BooksOpen, BooksGoOn, PTL DEF MCSpec
<1>2. QED BY <1>1, BooksClosed, PTL

-----------------------------------------------------------------------------
(* The inductive invariant: the rows are keyed as the schema keys them, and *)
(* a payment about to be written is of an amount the API accepts.           *)

Keyed == /\ payment = [d \in Payment |-> payment[d]]
         /\ task = [r \in Requests |-> task[r]]

AmountAccepted == \A r \in Requests : At(r, "pay") => task[r].amount \in Amounts

IInv == Keyed /\ AmountAccepted /\ PaymentsAreLedgered

Made == {d \in Payment : payment[d] # NoPayment}
PaymentEntries == {e \in ledger : e.kind = "PAYMENT"}

LEMMA InitIInv == Init => IInv
<1> SUFFICES ASSUME Init PROVE IInv
  OBVIOUS
<1>1. Keyed BY DEF Init, Keyed
<1>2. AmountAccepted BY DEF Init, AmountAccepted, At, Idle
<1>3. PaymentsAreLedgered
  BY DEF Init, PaymentsAreLedgered
<1>4. QED BY <1>1, <1>2, <1>3 DEF IInv

\* A step that makes no payment and writes no payment entry.
LEMMA NoPaymentMade ==
  ASSUME IInv, payment' = payment, PaymentEntries' = PaymentEntries,
         NEW r \in Requests, NEW w, w.step = "pay" => w.amount \in Amounts,
         task' = [task EXCEPT ![r] = w]
  PROVE  IInv'
<1>1. Keyed' BY DEF IInv, Keyed
<1>2. AmountAccepted' BY DEF IInv, Keyed, AmountAccepted, At
<1>3. PaymentsAreLedgered'
  BY DEF IInv, PaymentsAreLedgered, PaymentEntries
<1>4. QED BY <1>1, <1>2, <1>3 DEF IInv

LEMMA StartStep ==
  ASSUME IInv, NEW r \in Requests, Start(r)
  PROVE  IInv'
<1>1. payment' = payment /\ PaymentEntries' = PaymentEntries
  BY DEF Start, createRequest, recordPayment, declareDefaults, recordRefund, PaymentEntries
<1>2. \E w : (w.step = "pay" => w.amount \in Amounts) /\ task' = [task EXCEPT ![r] = w]
  <2>1. CASE \E q \in Deposit, t \in Totals, method \in Methods, due \in {"never", "later"} :
               createRequest(r, q, t, method, due)
    BY <2>1 DEF createRequest, Begin
  <2>2. CASE \E q \in Deposit, p \in Party, amount \in Amounts, substitute \in BOOLEAN :
               recordPayment(r, q, p, amount, substitute)
    BY <2>2 DEF recordPayment, Begin
  <2>3. CASE \E q \in Deposit : declareDefaults(r, q)
    BY <2>3 DEF declareDefaults, Begin
  <2>4. CASE \E f \in Refund, d \in Payment, amount \in Amounts : recordRefund(r, f, d, amount)
    BY <2>4 DEF recordRefund, Begin
  <2>5. QED BY <2>1, <2>2, <2>3, <2>4 DEF Start
<1>3. QED BY <1>1, <1>2, NoPaymentMade

\* The payment's transaction: the row and its entry appear together.
LEMMA PayStep ==
  ASSUME IInv, NEW r \in Requests, NEW d \in Payment, Pay(r, d)
  PROVE  IInv'
<1> DEFINE w == task[r]
           row == [q |-> w.q, p |-> w.p, amount |-> w.amount]
<1>1. /\ payment[d] = NoPayment
      /\ payment' = [payment EXCEPT ![d] = row]
      /\ ledger' = ledger \cup {PaymentOf(d, w.amount)}
      /\ task' = [task EXCEPT ![r] = [step |-> "cure", q |-> w.q, p |-> w.p]]
  BY DEF Pay, Continue
<1>2. w.amount # 0
  BY MoneyAssumption DEF MoneyAssumption, Pay, IInv, AmountAccepted
<1>3. row # NoPayment /\ row.amount = w.amount
  BY <1>2 DEF NoPayment
<1> HIDE DEF w, row
<1>4. /\ payment'[d] = row
      /\ \A x \in Payment \ {d} : payment'[x] = payment[x]
  BY <1>1 DEF IInv, Keyed
<1>5. Made' = Made \cup {d}
  BY <1>3, <1>4 DEF Made, NoPayment
<1>6. {PaymentOf(x, payment'[x].amount) : x \in Made'} =
        {PaymentOf(x, payment[x].amount) : x \in Made} \cup {PaymentOf(d, w.amount)}
  <2>1. \A x \in Made : x # d /\ payment'[x].amount = payment[x].amount
    BY <1>1, <1>4 DEF Made
  <2>2. QED BY <1>3, <1>4, <1>5, <2>1
<1>7. PaymentEntries' = PaymentEntries \cup {PaymentOf(d, w.amount)}
  BY <1>1 DEF PaymentEntries, PaymentOf
<1>8. PaymentsAreLedgered'
  BY <1>6, <1>7 DEF IInv, PaymentsAreLedgered, PaymentEntries, Made
<1>9. Keyed' BY <1>1 DEF IInv, Keyed
<1>10. AmountAccepted'
  BY <1>1 DEF IInv, Keyed, AmountAccepted, At
<1>11. QED BY <1>8, <1>9, <1>10 DEF IInv

LEMMA OtherStep ==
  ASSUME IInv, NEW r \in Requests,
         \/ Charge(r) \/ Cure(r) \/ Recompute(r) \/ WriteStatus(r) \/ LedgerRefund(r)
         \/ (\E p \in Party : Declare(r, p)) \/ Crash(r)
  PROVE  IInv'
<1>1. payment' = payment
  BY DEF Charge, Cure, Recompute, WriteStatus, LedgerRefund, Declare, Crash
<1>2. PaymentEntries' = PaymentEntries
  <2>1. CASE Charge(r) BY <2>1 DEF Charge, ChargeOf, PaymentEntries
  <2>2. CASE LedgerRefund(r) BY <2>2 DEF LedgerRefund, RefundOf, PaymentEntries
  <2>3. CASE ledger' = ledger BY <2>3 DEF PaymentEntries
  <2>4. QED BY <2>1, <2>2, <2>3 DEF Cure, Recompute, WriteStatus, Declare, Crash
<1>3. \E w : (w.step = "pay" => w.amount \in Amounts) /\ task' = [task EXCEPT ![r] = w]
  <2>1. CASE Finish(r) BY <2>1 DEF Finish, Idle
  <2>2. CASE Cure(r) BY <2>2 DEF Cure, Continue
  <2>3. CASE Recompute(r) BY <2>3 DEF Recompute, Continue
  <2>4. CASE \E p \in Party : Declare(r, p)
    <3>1. PICK p \in Party : Declare(r, p) BY <2>4
    <3> DEFINE rest == task[r].rest \ {p}
    <3>2. CASE rest = {} BY <3>1, <3>2 DEF Declare, Continue
    <3>3. CASE rest # {}
      <4>1. [task[r] EXCEPT !.rest = rest].step = "declare"
        BY <3>1 DEF Declare, At
      <4>2. QED BY <3>1, <3>3, <4>1 DEF Declare, Continue
    <3>4. QED BY <3>2, <3>3
  <2>5. QED BY <2>1, <2>2, <2>3, <2>4 DEF Charge, WriteStatus, LedgerRefund, Crash
<1>4. QED BY <1>1, <1>2, <1>3, NoPaymentMade

LEMMA NextIInv == IInv /\ [Next]_vars => IInv'
<1> SUFFICES ASSUME IInv, [Next]_vars PROVE IInv'
  OBVIOUS
<1>1. ASSUME NEW r \in Requests, Start(r) \/ Step(r) \/ Crash(r) PROVE IInv'
  BY <1>1, StartStep, PayStep, OtherStep DEF Step
<1>2. CASE (\E q \in Deposit : Elapse(q)) \/ UNCHANGED vars
  <2>1. UNCHANGED <<payment, ledger, task>> BY <1>2 DEF Elapse, vars
  <2>2. QED BY <2>1 DEF IInv, Keyed, AmountAccepted, At, PaymentsAreLedgered
<1>3. QED BY <1>1, <1>2 DEF Next

\* At every moment, whatever payments race and whatever request is lost half-way,
\* the ledger holds one entry of the right amount for each payment, and no other.
THEOREM LedgeredPayments == Spec => []PaymentsAreLedgered
<1>1. Spec => []IInv BY InitIInv, NextIInv, PTL DEF Spec
<1>2. IInv => PaymentsAreLedgered BY DEF IInv
<1>3. QED BY <1>1, <1>2, PTL

=============================================================================
