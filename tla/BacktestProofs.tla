---------------------------- MODULE BacktestProofs ----------------------------
(***************************************************************************)
(* Theorems about the backtest library and its command.                    *)
(*                                                                         *)
(* One backtest, for all prices, histories, windows, fees, slippages and   *)
(* lots: the loop follows the signal and the signal does not look ahead,   *)
(* the ledger adds up, no trade escapes its costs, and the curve ends at   *)
(* the final equity.                                                       *)
(*                                                                         *)
(* The command, for all grids, splits, numbers of symbols and results a    *)
(* backtest can have: every symbol is accounted for, and the table of a    *)
(* sweep explains its choice.                                              *)
(*                                                                         *)
(* The sums of the model are folds over sets in an order that is not       *)
(* determined.  What they are is proved first, by induction over the       *)
(* number of elements, in the form of a least counterexample.              *)
(***************************************************************************)
EXTENDS Backtest, BacktestCommand, FiniteSetTheorems, WellFoundedInduction, TLAPS

-----------------------------------------------------------------------------
(* Sums over finite sets. *)

LEMMA LeastExists ==
    ASSUME NEW S, S \subseteq Nat, S # {}
    PROVE  \E m \in S : \A t \in S : m <= t
<1>1. \E x \in S : \A y \in S : ~ (<<y, x>> \in OpToRel(<, Nat))
  BY NatLessThanWellFounded, WFMin, Zenon
<1>2. PICK x \in S : \A y \in S : ~ (<<y, x>> \in {ss \in Nat \X Nat : ss[1] < ss[2]})
  BY <1>1 DEF OpToRel
<1>3. \A y \in S : x <= y
  <2> SUFFICES ASSUME NEW y \in S, y < x
               PROVE  FALSE
    OBVIOUS
  <2>1. <<y, x>> \in {ss \in Nat \X Nat : ss[1] < ss[2]}
    OBVIOUS
  <2> QED
    BY <1>2, <2>1
<1> QED
  BY <1>3

Chosen(s) == CHOOSE x \in s : TRUE

(* One turn of the fold: what a table of partial sums makes of itself. *)
Turn(f, S, it) ==
    [s \in SUBSET S |-> IF s = {} THEN 0 ELSE f[Chosen(s)] + it[s \ {Chosen(s)}]]

LEMMA SumIs ==
    ASSUME NEW f, NEW S
    PROVE  SumFunctionOnSet(f, S) = (CHOOSE it : it = Turn(f, S, it))[S]
BY SMT DEF SumFunctionOnSet, FoldFunctionOnSet, MapThenFoldSet, Turn, Chosen

(* A sum depends on the summands alone. *)
LEMMA SumOfSame ==
    ASSUME NEW f, NEW g, NEW S, \A x \in S : f[x] = g[x]
    PROVE  SumFunctionOnSet(f, S) = SumFunctionOnSet(g, S)
<1>1. \A it : Turn(f, S, it) = Turn(g, S, it)
  BY DEF Turn, Chosen
<1>2. \A it : it = Turn(f, S, it) <=> it = Turn(g, S, it)
  BY <1>1
<1>3. (CHOOSE it : it = Turn(f, S, it)) = (CHOOSE it : it = Turn(g, S, it))
  BY <1>2, Zenon
<1> QED
  BY <1>3, SumIs, Zenon

(* A fixed point up to subsets of n elements. *)
FixedUpTo(f, S, it, n) ==
    \A s \in SUBSET S : Cardinality(s) <= n => it[s] = Turn(f, S, it)[s]

LEMMA ChosenIs ==
    ASSUME NEW s, s # {}, IsFiniteSet(s)
    PROVE  /\ Chosen(s) \in s
           /\ IsFiniteSet(s \ {Chosen(s)})
           /\ Cardinality(s) \in Nat /\ Cardinality(s) > 0
           /\ Cardinality(s \ {Chosen(s)}) = Cardinality(s) - 1
<1>1. Chosen(s) \in s
  BY DEF Chosen
<1>2. Cardinality(s) \in Nat /\ Cardinality(s) # 0
  BY FS_CardinalityType, FS_EmptySet
<1>3. /\ IsFiniteSet(s \ {Chosen(s)})
      /\ Cardinality(s \ {Chosen(s)}) = Cardinality(s) - 1
  BY <1>1, FS_RemoveElement
<1> QED
  BY <1>1, <1>2, <1>3


(* Each turn makes the table right for one element more. *)
LEMMA TurnFixesMore ==
    ASSUME NEW f, NEW S, IsFiniteSet(S), NEW n \in Nat, NEW it, FixedUpTo(f, S, it, n)
    PROVE  FixedUpTo(f, S, Turn(f, S, it), n + 1)
<1> DEFINE jt == Turn(f, S, it)
<1> SUFFICES ASSUME NEW s \in SUBSET S, Cardinality(s) <= n + 1
             PROVE  jt[s] = Turn(f, S, jt)[s]
  BY DEF FixedUpTo
<1>1. CASE s = {}
  BY <1>1 DEF Turn
<1>2. CASE s # {}
  <2> DEFINE x == Chosen(s)
             r == s \ {Chosen(s)}
  <2>1. IsFiniteSet(s)
    BY FS_Subset
  <2>2. /\ Cardinality(s) \in Nat
        /\ Cardinality(r) = Cardinality(s) - 1
    BY <1>2, <2>1, ChosenIs
  <2>3. Cardinality(r) <= n
    BY <2>2
  <2>4. it[r] = Turn(f, S, it)[r]
    BY <2>3 DEF FixedUpTo
  <2>5. jt[s] = f[x] + it[r]
    BY <1>2 DEF Turn
  <2>6. Turn(f, S, jt)[s] = f[x] + jt[r]
    <3> HIDE DEF jt
    <3> QED
      BY <1>2 DEF Turn
  <2> QED
    BY <2>4, <2>5, <2>6
<1> QED
  BY <1>1, <1>2

LEMMA FixedPointExists ==
    ASSUME NEW f, NEW S, IsFiniteSet(S)
    PROVE  \E it : it = Turn(f, S, it)
<1> DEFINE Good(n) == \E it : FixedUpTo(f, S, it, n)
           Bad == {n \in Nat : ~ Good(n)}
<1>1. Good(0)
  <2> DEFINE zero == [s \in SUBSET S |-> 0]
  <2>1. FixedUpTo(f, S, zero, 0)
    <3> SUFFICES ASSUME NEW s \in SUBSET S, Cardinality(s) <= 0
                 PROVE  zero[s] = Turn(f, S, zero)[s]
      BY DEF FixedUpTo
    <3>1. s = {}
      <4>1. IsFiniteSet(s)
        BY FS_Subset
      <4>2. Cardinality(s) \in Nat
        BY <4>1, FS_CardinalityType
      <4>3. Cardinality(s) = 0
        BY <4>2
      <4> QED
        BY <4>1, <4>3, FS_EmptySet
    <3> QED
      BY <3>1 DEF Turn
  <2> QED
    BY <2>1
<1>2. ASSUME NEW n \in Nat, Good(n)
      PROVE  Good(n + 1)
  <2>1. PICK it : FixedUpTo(f, S, it, n)
    BY <1>2
  <2> QED
    BY <2>1, TurnFixesMore
<1> HIDE DEF Good
<1>3. \A n \in Nat : Good(n)
  <2> SUFFICES ASSUME Bad # {}
               PROVE  FALSE
    OBVIOUS
  <2>1. PICK m \in Bad : \A k \in Bad : m <= k
    <3>1. Bad \subseteq Nat
      OBVIOUS
    <3> HIDE DEF Bad
    <3> QED
      BY <3>1, LeastExists
  <2>2. m \in Nat /\ ~ Good(m) /\ m # 0
    BY <1>1
  <2>3. m - 1 \in Nat /\ m - 1 \notin Bad
    BY <2>1, <2>2
  <2>4. Good(m - 1)
    BY <2>3
  <2>5. Good((m - 1) + 1)
    BY <1>2, <2>3, <2>4
  <2>6. (m - 1) + 1 = m
    BY <2>2
  <2> QED
    BY <2>2, <2>5, <2>6
<1>4. Cardinality(S) \in Nat
  BY FS_CardinalityType
<1>5. PICK it : FixedUpTo(f, S, it, Cardinality(S))
  BY <1>3, <1>4 DEF Good
<1>6. \A s \in SUBSET S : it[s] = Turn(f, S, it)[s]
  BY FS_Subset, <1>5 DEF FixedUpTo
<1> DEFINE jt == Turn(f, S, it)
<1>7. jt = Turn(f, S, jt)
  <2>1. \A s \in SUBSET S : it[s] = jt[s]
    BY <1>6
  <2>2. Turn(f, S, it) = Turn(f, S, jt)
    <3> HIDE DEF jt
    <3> QED
      BY <2>1 DEF Turn
  <2> QED
    BY <2>2
<1> QED
  BY <1>7

(* The table of partial sums. *)
Partial(f, S) == CHOOSE it : it = Turn(f, S, it)

LEMMA PartialIs ==
    ASSUME NEW f, NEW S, IsFiniteSet(S)
    PROVE  /\ Partial(f, S) = Turn(f, S, Partial(f, S))
           /\ SumFunctionOnSet(f, S) = Partial(f, S)[S]
BY FixedPointExists, SumIs DEF Partial

LEMMA PartialStep ==
    ASSUME NEW f, NEW S, IsFiniteSet(S), NEW s \in SUBSET S
    PROVE  Partial(f, S)[s] =
              IF s = {} THEN 0 ELSE f[Chosen(s)] + Partial(f, S)[s \ {Chosen(s)}]
<1> DEFINE it == Partial(f, S)
<1>1. it = Turn(f, S, it)
  BY PartialIs
<1>2. Turn(f, S, it)[s] = IF s = {} THEN 0 ELSE f[Chosen(s)] + it[s \ {Chosen(s)}]
  <2> HIDE DEF it
  <2> QED
    BY DEF Turn
<1> HIDE DEF it
<1>3. it[s] = IF s = {} THEN 0 ELSE f[Chosen(s)] + it[s \ {Chosen(s)}]
  BY <1>1, <1>2
<1> QED
  BY <1>3 DEF it

(* Of some subsets of a finite set there is a smallest. *)
LEMMA SmallestExists ==
    ASSUME NEW S, IsFiniteSet(S), NEW B \in SUBSET (SUBSET S), B # {}
    PROVE  \E s \in B : /\ IsFiniteSet(s)
                        /\ \A t \in B : ~ (Cardinality(t) < Cardinality(s))
<1> DEFINE Sizes == {Cardinality(s) : s \in B}
<1>1. \A s \in B : IsFiniteSet(s) /\ Cardinality(s) \in Nat
  BY FS_Subset, FS_CardinalityType
<1>2. PICK n \in Sizes : \A k \in Sizes : n <= k
  <2>1. Sizes \subseteq Nat /\ Sizes # {}
    BY <1>1
  <2> HIDE DEF Sizes
  <2> QED
    BY <2>1, LeastExists
<1>3. PICK s \in B : n = Cardinality(s)
  OBVIOUS
<1>4. \A t \in B : Cardinality(t) \in Sizes
  OBVIOUS
<1>5. \A t \in B : Cardinality(s) <= Cardinality(t)
  <2> HIDE DEF Sizes
  <2> QED
    BY <1>2, <1>3, <1>4
<1> QED
  BY <1>1, <1>5

(* Two tables agree where both have a set. *)
LEMMA PartialsAgree ==
    ASSUME NEW f, NEW S, IsFiniteSet(S), NEW T \in SUBSET S
    PROVE  \A s \in SUBSET T : Partial(f, S)[s] = Partial(f, T)[s]
<1> DEFINE Differ == {s \in SUBSET T : Partial(f, S)[s] # Partial(f, T)[s]}
<1> SUFFICES ASSUME Differ # {}
             PROVE  FALSE
  OBVIOUS
<1>1. IsFiniteSet(T)
  BY FS_Subset
<1>2. PICK s \in Differ : /\ IsFiniteSet(s)
                          /\ \A t \in Differ : ~ (Cardinality(t) < Cardinality(s))
  <2>1. Differ \in SUBSET (SUBSET T)
    OBVIOUS
  <2> HIDE DEF Differ
  <2> QED
    BY <1>1, <2>1, SmallestExists
<1>3. s \in SUBSET T /\ s \in SUBSET S /\ Partial(f, S)[s] # Partial(f, T)[s]
  OBVIOUS
<1>4. Partial(f, S)[s] = IF s = {} THEN 0 ELSE f[Chosen(s)] + Partial(f, S)[s \ {Chosen(s)}]
  BY <1>3, PartialStep
<1>5. Partial(f, T)[s] = IF s = {} THEN 0 ELSE f[Chosen(s)] + Partial(f, T)[s \ {Chosen(s)}]
  BY <1>1, <1>3, PartialStep
<1>6. s # {}
  BY <1>3, <1>4, <1>5
<1>7. s \ {Chosen(s)} \in Differ
  BY <1>3, <1>4, <1>5, <1>6
<1>8. Cardinality(s \ {Chosen(s)}) < Cardinality(s)
  BY <1>2, <1>6, ChosenIs
<1> HIDE DEF Differ
<1> QED
  BY <1>2, <1>7, <1>8

(* The sum of the empty set, and of a set with one element taken out: the
   chosen one, or any. *)
LEMMA SumEmpty ==
    ASSUME NEW f
    PROVE  SumFunctionOnSet(f, {}) = 0
<1>1. IsFiniteSet({}) /\ {} \in SUBSET {}
  BY FS_EmptySet
<1> QED
  BY <1>1, PartialIs, PartialStep

LEMMA SumChosen ==
    ASSUME NEW f, NEW S, IsFiniteSet(S), S # {}
    PROVE  SumFunctionOnSet(f, S) = f[Chosen(S)] + SumFunctionOnSet(f, S \ {Chosen(S)})
<1> DEFINE T == S \ {Chosen(S)}
<1>1. T \in SUBSET S /\ S \in SUBSET S /\ T \in SUBSET T /\ IsFiniteSet(T)
  BY ChosenIs
<1>2. SumFunctionOnSet(f, S) = f[Chosen(S)] + Partial(f, S)[T]
  BY <1>1, PartialIs, PartialStep
<1>3. Partial(f, S)[T] = Partial(f, T)[T]
  <2> HIDE DEF T
  <2> QED
    BY <1>1, PartialsAgree
<1>4. Partial(f, T)[T] = SumFunctionOnSet(f, T)
  <2> HIDE DEF T
  <2> QED
    BY <1>1, PartialIs
<1> QED
  BY <1>2, <1>3, <1>4


(* Summands that are integers have an integer as their sum. *)
LEMMA SumType ==
    ASSUME NEW f, NEW S, IsFiniteSet(S), \A x \in S : f[x] \in Int
    PROVE  SumFunctionOnSet(f, S) \in Int
<1> DEFINE Bad == {s \in SUBSET S : SumFunctionOnSet(f, s) \notin Int}
<1> SUFFICES ASSUME Bad # {}
             PROVE  FALSE
  OBVIOUS
<1>1. PICK s \in Bad : /\ IsFiniteSet(s)
                       /\ \A t \in Bad : ~ (Cardinality(t) < Cardinality(s))
  <2>1. Bad \in SUBSET (SUBSET S)
    OBVIOUS
  <2> HIDE DEF Bad
  <2> QED
    BY <2>1, SmallestExists
<1>2. s \in SUBSET S /\ SumFunctionOnSet(f, s) \notin Int
  OBVIOUS
<1>3. s # {}
  BY <1>2, SumEmpty
<1> DEFINE r == s \ {Chosen(s)}
<1>4. /\ SumFunctionOnSet(f, s) = f[Chosen(s)] + SumFunctionOnSet(f, r)
      /\ f[Chosen(s)] \in Int
      /\ r \in SUBSET S
  BY <1>1, <1>2, <1>3, SumChosen, ChosenIs
<1>5. Cardinality(r) < Cardinality(s)
  BY <1>1, <1>3, ChosenIs
<1>6. SumFunctionOnSet(f, r) \in Int
  BY <1>1, <1>4, <1>5
<1> QED
  BY <1>2, <1>4, <1>6

(* Any element can be taken out of a sum first: the order does not matter. *)
LEMMA SumRemove ==
    ASSUME NEW f, NEW S, IsFiniteSet(S), \A x \in S : f[x] \in Int, NEW e \in S
    PROVE  SumFunctionOnSet(f, S) = f[e] + SumFunctionOnSet(f, S \ {e})
<1> DEFINE Sum(s) == SumFunctionOnSet(f, s)
           Bad == {s \in SUBSET S : \E x \in s : Sum(s) # f[x] + Sum(s \ {x})}
<1> SUFFICES ASSUME Bad # {}
             PROVE  FALSE
  OBVIOUS
<1>1. PICK s \in Bad : /\ IsFiniteSet(s)
                       /\ \A t \in Bad : ~ (Cardinality(t) < Cardinality(s))
  <2>1. Bad \in SUBSET (SUBSET S)
    OBVIOUS
  <2> HIDE DEF Bad
  <2> QED
    BY <2>1, SmallestExists
<1>2. PICK x \in s : Sum(s) # f[x] + Sum(s \ {x})
  OBVIOUS
<1>3. s \in SUBSET S
  OBVIOUS
<1> DEFINE c == Chosen(s)
<1>4. c \in s /\ Cardinality(s) \in Nat
  BY <1>1, <1>2, ChosenIs
<1>5. Sum(s) = f[c] + Sum(s \ {c})
  BY <1>1, <1>2, SumChosen
<1> HIDE DEF c, Sum
<1>6. c # x
  BY <1>2, <1>5
<1>7. /\ Cardinality(s \ {c}) < Cardinality(s)
      /\ Cardinality(s \ {x}) < Cardinality(s)
  <2>1. /\ Cardinality(s \ {c}) = Cardinality(s) - 1
        /\ Cardinality(s \ {x}) = Cardinality(s) - 1
    BY <1>1, <1>2, <1>4, FS_RemoveElement
  <2> QED
    BY <1>4, <2>1
<1>8. s \ {c} \notin Bad /\ s \ {x} \notin Bad
  <2> HIDE DEF Bad
  <2> QED
    BY <1>1, <1>7
<1>9. Sum(s \ {c}) = f[x] + Sum((s \ {c}) \ {x})
  BY <1>3, <1>6, <1>8
<1>10. Sum(s \ {x}) = f[c] + Sum((s \ {x}) \ {c})
  BY <1>3, <1>4, <1>6, <1>8
<1>11. (s \ {c}) \ {x} = (s \ {x}) \ {c}
  OBVIOUS
<1>12. Sum((s \ {c}) \ {x}) \in Int
  <2>1. IsFiniteSet((s \ {c}) \ {x}) /\ (s \ {c}) \ {x} \subseteq S
    BY <1>1, <1>3, FS_Subset
  <2> HIDE DEF Bad
  <2> QED
    BY <2>1, SumType DEF Sum
<1>13. f[x] \in Int /\ f[c] \in Int
  BY <1>3, <1>4
<1> HIDE DEF Bad
<1> DEFINE rest == Sum((s \ {c}) \ {x})
<1>14. /\ Sum(s) = f[c] + (f[x] + rest)
       /\ Sum(s \ {x}) = f[c] + rest
       /\ rest \in Int
  BY <1>5, <1>9, <1>10, <1>11, <1>12
<1> HIDE DEF rest
<1> QED
  BY <1>2, <1>13, <1>14


-----------------------------------------------------------------------------
(* The signal. *)

LEMMA Numbers ==
    /\ Capital \in Nat /\ Capital > 0 /\ FeeDen \in Nat /\ FeeDen > 0
    /\ SlipDen \in Nat /\ SlipDen > 0 /\ Lot \in Nat /\ Lot > 0
    /\ FeeNum \in Nat /\ FeeDen - FeeNum \in Nat /\ FeeDen - FeeNum > 0
    /\ SlipNum \in Nat /\ SlipDen - SlipNum \in Nat /\ SlipDen - SlipNum > 0
    /\ SlipDen + SlipNum \in Nat /\ SlipDen + SlipNum > 0
    /\ \A p \in Prices : p \in Nat /\ p > 0
    /\ None \notin Int
<1>1. {Capital, FeeDen, SlipDen, Lot} \subseteq Nat \ {0}
  BY BacktestAssumption
<1>2. FeeNum \in 0..FeeDen - 1 /\ SlipNum \in 0..SlipDen - 1
  BY BacktestAssumption
<1>3. \A p \in Prices : p \in Nat /\ p > 0
  <2>1. Prices \subseteq Nat \ {0}
    BY BacktestAssumption
  <2> QED
    BY <2>1
<1>4. None \notin Int
  BY BacktestAssumption
<1> QED
  BY <1>1, <1>2, <1>3, <1>4

LEMMA HistoryIs ==
    ASSUME NEW h \in Histories
    PROVE  /\ h \in Seq(Candle)
           /\ Len(h) \in Nat /\ Len(h) > 0
           /\ DOMAIN h = 1..Len(h)
           /\ \A t \in 1..Len(h) : /\ h[t] \in Candle
                                   /\ h[t].open \in Nat /\ h[t].open > 0
                                   /\ h[t].close \in Nat /\ h[t].close > 0
<1>1. h \in Seq(Candle) /\ h # <<>>
  BY BacktestAssumption
<1>2. Len(h) \in Nat /\ Len(h) > 0 /\ DOMAIN h = 1..Len(h)
  BY <1>1
<1>3. \A t \in 1..Len(h) : h[t] \in Candle
  BY <1>1, <1>2
<1>4. \A c \in Candle : c.open \in Prices /\ c.close \in Prices
  BY DEF Candle
<1> QED
  BY <1>1, <1>2, <1>3, <1>4, Numbers

LEMMA WindowsAre ==
    ASSUME NEW w \in Windows
    PROVE  w[1] \in Int /\ w[2] \in Int
<1>1. Windows \subseteq Int \X Int
  BY BacktestAssumption
<1> QED
  BY <1>1

LEMMA PositionIs ==
    ASSUME NEW h, NEW w, NEW t
    PROVE  Position(h, w, t) \in {0, 1} /\ (t = 1 => Position(h, w, t) = 0)
BY DEF Position

(* An average that ends before candle t does not see its close. *)
LEMMA CloseSumIsBlind ==
    ASSUME NEW h \in Histories, NEW t \in DOMAIN h, NEW price,
           NEW v \in 1..t - 1, NEW m \in Int, m <= v
    PROVE  CloseSum([h EXCEPT ![t].close = price], v, m) = CloseSum(h, v, m)
<1> DEFINE g == [h EXCEPT ![t].close = price]
           f1 == [k \in DOMAIN g |-> g[k].close]
           f2 == [k \in DOMAIN h |-> h[k].close]
           W == v - m + 1 .. v
           n == Len(h)
<1>0. n \in Nat /\ DOMAIN h = 1..n /\ t \in 1..n
  BY HistoryIs
<1> HIDE DEF n
<1>1. \A k \in W : k \in 1..n /\ k # t
  BY <1>0
<1>2. DOMAIN g = 1..n /\ \A k \in 1..n : k # t => g[k] = h[k]
  BY <1>0
<1>3. \A k \in W : f1[k] = f2[k]
  <2> HIDE DEF g, W
  <2> QED
    BY <1>0, <1>1, <1>2
<1> HIDE DEF f1, f2, W
<1>4. SumFunctionOnSet(f1, W) = SumFunctionOnSet(f2, W)
  BY <1>3, SumOfSame, Zenon
<1> QED
  BY <1>4 DEF CloseSum, f1, f2, W

LEMMA PositionIsBlind ==
    ASSUME NEW h \in Histories, NEW w \in Windows, NEW t \in DOMAIN h, NEW price,
           NEW u \in 1..t
    PROVE  Position([h EXCEPT ![t].close = price], w, u) = Position(h, w, u)
<1> DEFINE g == [h EXCEPT ![t].close = price]
           v == u - 1
<1>1. /\ Len(h) \in Nat /\ DOMAIN h = 1..Len(h) /\ t \in 1..Len(h)
      /\ w[1] \in Int /\ w[2] \in Int
  BY HistoryIs, WindowsAre
<1>2. CASE u = 1
  BY <1>2 DEF Position
<1>3. CASE u > 1
  <2>1. v \in 1..t - 1
    BY <1>1, <1>3
  <2> HIDE DEF v
  <2>2. ASSUME w[1] <= v /\ w[2] <= v
        PROVE  CloseSum(g, v, w[1]) = CloseSum(h, v, w[1]) /\ CloseSum(g, v, w[2]) = CloseSum(h, v, w[2])
    <3>1. ASSUME NEW m \in Int, m <= v
          PROVE  CloseSum(g, v, m) = CloseSum(h, v, m)
      <4>1. CloseSum([h EXCEPT ![t].close = price], v, m) = CloseSum(h, v, m)
        BY <2>1, <3>1, CloseSumIsBlind
      <4> QED
        BY <4>1
    <3> HIDE DEF g
    <3> QED
      BY <1>1, <2>2, <3>1
  <2>3. FastAboveSlow(g, w, v) <=> FastAboveSlow(h, w, v)
    <3> HIDE DEF g
    <3> QED
      BY <2>2 DEF FastAboveSlow
  <2>4. Position(g, w, u) = IF FastAboveSlow(g, w, v) THEN 1 ELSE 0
    <3> HIDE DEF g
    <3> QED
      BY <1>3 DEF Position, v
  <2>5. Position(h, w, u) = IF FastAboveSlow(h, w, v) THEN 1 ELSE 0
    BY <1>3 DEF Position, v
  <2> HIDE DEF g
  <2>6. Position(g, w, u) = Position(h, w, u)
    BY <2>3, <2>4, <2>5
  <2> QED
    BY <2>6 DEF g
<1> QED
  BY <1>1, <1>2, <1>3

-----------------------------------------------------------------------------
(* The fills. *)

LEMMA Products ==
    ASSUME NEW a \in Nat, NEW b \in Nat
    PROVE  a * b \in Nat /\ (a > 0 /\ b > 0 => a * b > 0)
OBVIOUS

LEMMA Division ==
    ASSUME NEW a \in Nat, NEW b \in Nat, b > 0
    PROVE  a \div b \in Nat /\ (a \div b) * b <= a /\ a < (a \div b) * b + b
<1> DEFINE q == a \div b
           r == a % b
<1>1. a = b * q + r /\ q \in Nat /\ r \in 0..b - 1
  OBVIOUS
<1> HIDE DEF q, r
<1>2. q \in Nat /\ q * b <= a /\ a < q * b + b
  BY <1>1
<1> QED
  BY <1>2 DEF q

LEMMA ExactDivision ==
    ASSUME NEW k \in Nat, NEW b \in Nat, b > 0
    PROVE  (k * b) \div b = k
<1> DEFINE x == k * b
           q == x \div b
           r == x % b
<1>1. x \in Nat
  OBVIOUS
<1>2. x = b * q + r /\ q \in Nat /\ r \in 0..b - 1
  <2> HIDE DEF x
  <2> QED
    BY <1>1
<1>3. x = k * b
  OBVIOUS
<1> HIDE DEF x, q, r
<1>4. ~ (q < k)
  <2>1. q < k => (q + 1) * b <= k * b
    BY <1>2
  <2> QED
    BY <1>2, <1>3, <2>1
<1>5. ~ (q > k)
  <2>1. q > k => q * b >= (k + 1) * b
    BY <1>2
  <2> QED
    BY <1>2, <1>3, <2>1
<1> QED
  BY <1>2, <1>4, <1>5 DEF q, x


(* All cash goes in: the fee is exact, as money comes in multiples of FeeDen,
   and the quantity is what the rest pays for. *)
LEMMA BuyIs ==
    ASSUME NEW k \in Nat, NEW price \in Nat, price > 0
    PROVE  LET fill == ExecuteBuy(k * FeeDen, price) IN
              /\ fill.fee = k * FeeNum /\ fill.fee \in Nat
              /\ fill.quantity \in Nat
              /\ Cost(1, price) \in Nat
              /\ fill.quantity * Cost(1, price) <= k * (FeeDen - FeeNum)
              /\ k * (FeeDen - FeeNum) < fill.quantity * Cost(1, price) + Cost(1, price)
<1> DEFINE money == k * FeeDen
           fee == (money * FeeNum) \div FeeDen
           fill == ExecuteBuy(money, price)
           cost == Cost(1, price)
<1>1. cost \in Nat /\ cost > 0
  <2>1. price * (SlipDen + SlipNum) \in Nat /\ price * (SlipDen + SlipNum) > 0
    BY Numbers, Products
  <2>2. /\ (price * (SlipDen + SlipNum)) * FeeDen \in Nat
        /\ (price * (SlipDen + SlipNum)) * FeeDen > 0
    BY <2>1, Numbers, Products
  <2>3. /\ ((price * (SlipDen + SlipNum)) * FeeDen) * FeeDen \in Nat
        /\ ((price * (SlipDen + SlipNum)) * FeeDen) * FeeDen > 0
    BY <2>2, Numbers, Products
  <2>4. 1 * price = price
    OBVIOUS
  <2> QED
    BY <2>3, <2>4 DEF Cost
<1>2. fee = k * FeeNum
  <2>1. money * FeeNum = (k * FeeNum) * FeeDen /\ k * FeeNum \in Nat
    BY Numbers
  <2>2. ((k * FeeNum) * FeeDen) \div FeeDen = k * FeeNum
    BY <2>1, Numbers, ExactDivision
  <2> QED
    BY <2>1, <2>2
<1>3. money - fee = k * (FeeDen - FeeNum) /\ k * (FeeDen - FeeNum) \in Nat
  <2>1. k * (FeeDen - FeeNum) \in Nat
    BY Numbers, Products
  <2>2. k * FeeDen - k * FeeNum = k * (FeeDen - FeeNum)
    BY Numbers
  <2> QED
    BY <1>2, <2>1, <2>2
<1>4. fill.fee = fee /\ fill.quantity = (money - fee) \div cost
  BY DEF ExecuteBuy
<1> HIDE DEF money, fee, fill, cost
<1>5. /\ fill.quantity \in Nat
      /\ fill.quantity * cost <= k * (FeeDen - FeeNum)
      /\ k * (FeeDen - FeeNum) < fill.quantity * cost + cost
  BY <1>1, <1>3, <1>4, Division
<1>6. k * FeeNum \in Nat
  BY Numbers
<1> QED
  BY <1>1, <1>2, <1>4, <1>5, <1>6 DEF fill, cost, money

(* What a sale leaves is exact, and a multiple of FeeDen again. *)
LEMMA SellIs ==
    ASSUME NEW q \in Nat, NEW price \in Nat
    PROVE  LET fill == ExecuteSell(q, price)
               k == ((q * price) * (SlipDen - SlipNum)) * (FeeDen - FeeNum)
           IN  k \in Nat /\ fill.cash = k * FeeDen /\ fill.cash \in Nat /\ fill.fee \in Nat
<1> DEFINE s == SlipDen - SlipNum
           x == (q * price) * s
           y == x * FeeDen
           fill == ExecuteSell(q, price)
<1>1. s \in Nat /\ FeeDen \in Nat /\ FeeDen > 0 /\ FeeNum \in Nat /\ FeeDen - FeeNum \in Nat
  BY Numbers
<1>2. x \in Nat /\ y \in Nat
  <2>1. q * price \in Nat
    BY Products
  <2>2. x \in Nat
    BY <1>1, <2>1, Products
  <2> HIDE DEF x
  <2> QED
    BY <1>1, <2>2, Products
<1>3. fill.cash = y * FeeDen - ((y * FeeDen) * FeeNum) \div FeeDen
      /\ fill.fee = ((y * FeeDen) * FeeNum) \div FeeDen
  BY DEF ExecuteSell
<1> HIDE DEF x
<1>4. ((y * FeeDen) * FeeNum) \div FeeDen = y * FeeNum /\ y * FeeNum \in Nat
  <2> HIDE DEF y
  <2>1. (y * FeeDen) * FeeNum = (y * FeeNum) * FeeDen /\ y * FeeNum \in Nat
    BY <1>1, <1>2
  <2>2. ((y * FeeNum) * FeeDen) \div FeeDen = y * FeeNum
    BY <1>1, <2>1, ExactDivision
  <2> QED
    BY <2>1, <2>2
<1>5. y * FeeDen - y * FeeNum = (x * (FeeDen - FeeNum)) * FeeDen
  BY <1>1, <1>2
<1>6. x * (FeeDen - FeeNum) \in Nat
  BY <1>1, <1>2, Products
<1>7. (x * (FeeDen - FeeNum)) * FeeDen \in Nat
  BY <1>1, <1>6, Products
<1> HIDE DEF y, fill, s
<1>8. /\ fill.cash = (x * (FeeDen - FeeNum)) * FeeDen
      /\ fill.cash \in Nat
      /\ fill.fee \in Nat
  BY <1>3, <1>4, <1>5, <1>7
<1> QED
  BY <1>6, <1>8 DEF fill, x, s

(* What a purchase and the sale after it make of the money before: at most what
   the prices give after both fills' costs, and that but for a lot. *)
Pays(before, after, priceIn, priceOut) ==
    /\ AfterCosts(before, after, priceIn, priceOut)
    /\ AllButALot(before, after, priceIn, priceOut)

(* A purchase and the sale after it pay for both fills, and for nothing else. *)
LEMMA RoundTripPays ==
    ASSUME NEW k \in Nat, NEW priceIn \in Nat, priceIn > 0, NEW priceOut \in Nat,
           priceOut > 0
    PROVE  Pays(k * FeeDen,
                ExecuteSell(ExecuteBuy(k * FeeDen, priceIn).quantity, priceOut).cash,
                priceIn, priceOut)
<1> DEFINE q == ExecuteBuy(k * FeeDen, priceIn).quantity
           after == ExecuteSell(q, priceOut).cash
           s == SlipDen - SlipNum
           n == FeeDen - FeeNum
           z == SlipDen + SlipNum
           cost == Cost(1, priceIn)
           w == priceOut * s
<1>1. q \in Nat /\ cost \in Nat /\ q * cost <= k * n /\ k * n < q * cost + cost
  BY BuyIs
<1> HIDE DEF q
<1>2. after = (((q * priceOut) * s) * n) * FeeDen
  BY <1>1, SellIs
<1>3. /\ s \in Nat /\ n \in Nat /\ z \in Nat /\ FeeDen \in Nat
      /\ s > 0 /\ n > 0 /\ FeeDen > 0
  BY Numbers
<1>4. cost = ((priceIn * z) * FeeDen) * FeeDen
  <2>1. 1 * priceIn = priceIn
    OBVIOUS
  <2> QED
    BY <2>1 DEF Cost
<1> HIDE DEF after, s, n, z, cost
<1>5. w \in Nat /\ w > 0
  BY <1>3, Products
<1>6. (w * n) * FeeDen \in Nat /\ (w * n) * FeeDen > 0
  BY <1>3, <1>5, Products
<1> DEFINE v == (w * n) * FeeDen
<1>7. after * cost = (q * cost) * v
  <2>1. after = (((q * priceOut) * s) * n) * FeeDen
    BY <1>2
  <2>2. ((q * priceOut) * s) = q * w
    BY <1>1, <1>3
  <2> HIDE DEF w
  <2>3. after = q * v
    BY <1>1, <1>3, <1>5, <2>1, <2>2
  <2> HIDE DEF v
  <2> QED
    BY <1>1, <1>6, <2>3 DEF v
<1>8. (q * cost) * v <= (k * n) * v /\ (k * n) * v < (q * cost) * v + cost * v
  <2> DEFINE a == q * cost
             b == k * n
  <2>1. a \in Nat /\ b \in Nat /\ a <= b /\ b < a + cost /\ v \in Nat /\ v > 0
    BY <1>1, <1>3, <1>6, Products
  <2> HIDE DEF a, b, v
  <2>2. a * v <= b * v
    BY <2>1
  <2>3. b * v < a * v + cost * v
    <3>1. b + 1 <= a + cost /\ a + cost \in Nat
      BY <1>1, <2>1
    <3>2. (b + 1) * v <= (a + cost) * v
      BY <2>1, <3>1
    <3>3. (b + 1) * v = b * v + v /\ (a + cost) * v = a * v + cost * v
      BY <1>1, <2>1
    <3> QED
      BY <1>1, <2>1, <3>2, <3>3
  <2> QED
    BY <2>2, <2>3 DEF a, b
<1>9. (k * n) * v = ((((k * FeeDen) * priceOut) * s) * n) * n
  BY <1>3
<1>10. after * cost = (((after * priceIn) * z) * FeeDen) * FeeDen
  <2>1. after \in Nat
    <3>1. q * priceOut \in Nat
      BY <1>1, Products
    <3>2. (q * priceOut) * s \in Nat
      BY <1>3, <3>1, Products
    <3>3. ((q * priceOut) * s) * n \in Nat
      BY <1>3, <3>2, Products
    <3> QED
      BY <1>2, <1>3, <3>3, Products
  <2> QED
    BY <1>3, <1>4, <2>1
<1>11. (((after * priceIn) * z) * FeeDen) * FeeDen <= ((((k * FeeDen) * priceOut) * s) * n) * n
  BY <1>7, <1>8, <1>9, <1>10
<1>12. cost * v = (((cost * priceOut) * s) * FeeDen) * n
  BY <1>1, <1>3
<1>13. ((((k * FeeDen) * priceOut) * s) * n) * n
         < (((after * priceIn) * z) * FeeDen) * FeeDen + (((cost * priceOut) * s) * FeeDen) * n
  BY <1>7, <1>8, <1>9, <1>10, <1>12
<1> QED
  BY <1>11, <1>13 DEF Pays, AfterCosts, AllButALot, after, q, s, n, z, cost


-----------------------------------------------------------------------------
(* The invariant. *)

(* The types of what the loop keeps.  A run that is under way has listed no
   open trade. *)
Trades == [entry : Nat, exit : Nat, fees : Nat, pnl : Int]

Types ==
    /\ candles \in Histories
    /\ windows \in Windows
    /\ allowGaps \in BOOLEAN
    /\ pc \in {"preparing", "looping", "returned", "raised"}
    /\ i \in 1..Len(candles) + 1
    /\ cash \in Nat
    /\ quantity \in Nat
    /\ isOpen \in BOOLEAN
    /\ entry \in 1..Len(candles)
    /\ entryFee \in Nat
    /\ cashAtEntry \in Nat
    /\ totalFees \in Nat
    /\ trades \in Seq(Trade)
    /\ pc # "returned" => trades \in Seq(Trades)
    /\ curve \in Seq([at : Nat, cash : Nat, quantity : Nat])
    /\ finalCash \in Nat

(* Before the second candle there is no trade. *)
StartsFlat ==
    /\ pc = "preparing" => i = 1
    /\ i = 1 => ~isOpen /\ quantity = 0 /\ entryFee = 0

(* The money is in multiples of FeeDen, so that fees are exact; what is held was
   bought with all of the cash at the entry. *)
Divisible(x) == \E k \in Nat : x = k * FeeDen

Invested ==
    /\ Divisible(IF isOpen THEN cashAtEntry ELSE cash)
    /\ isOpen => quantity = ExecuteBuy(cashAtEntry, candles[entry].open).quantity

(* The points of the curve are at different candles, all behind the loop but
   the first; the last one is the ledger. *)
CurveFollows ==
    /\ Len(curve) > 0
    /\ \A k \in DOMAIN curve : curve[k].at = 1 \/ curve[k].at < i
    /\ \A k, j \in DOMAIN curve : k < j => curve[k].at < curve[j].at
    /\ pc # "returned" => curve[Len(curve)].cash = cash /\ curve[Len(curve)].quantity = quantity

(* What CostsNeverPay and OnlyDustIsDropped say of a trade and the benchmark. *)
TradePays(k) ==
    LET before == Capital * Unit + EarnedBefore(k)
    IN  Pays(before, before + trades[k].pnl,
             candles[trades[k].entry].open, candles[trades[k].exit].open)

BenchmarkPays ==
    Pays(Capital * Unit, BuyAndHold, candles[1].open, FinalClose)

TradesPay == \A k \in ClosedTrades : TradePays(k)

BacktestInv ==
    /\ Types
    /\ StartsFlat
    /\ FollowsSignal
    /\ Invested
    /\ CurveFollows
    /\ CurveEndsAtFinal
    /\ LedgerAddsUp
    /\ TradesPay

(* What the sums become when a trade is listed. *)
LEMMA FeesListed ==
    ASSUME trades \in Seq(Trades), NEW r \in Trade, trades' = Append(trades, r)
    PROVE  /\ Fees \in Int
           /\ Fees' = Fees + r.fees
<1> DEFINE f == [k \in DOMAIN trades |-> trades[k].fees]
           g == [k \in DOMAIN trades' |-> trades'[k].fees]
           n == Len(trades)
           D == 1..n
           E == 1..n + 1
<1>1. n \in Nat /\ DOMAIN trades = D /\ \A k \in D : trades[k] \in Trades
  OBVIOUS
<1>2. /\ DOMAIN trades' = E
      /\ trades'[n + 1] = r
      /\ \A k \in D : trades'[k] = trades[k]
  BY <1>1
<1>3. r.fees \in Int /\ \A x \in Trades : x.fees \in Int
  BY DEF Trade, Trades
<1> HIDE DEF n
<1>4. IsFiniteSet(D) /\ IsFiniteSet(E) /\ n + 1 \in E /\ E \ {n + 1} = D
  <2>1. 1 \in Int /\ n \in Int /\ n + 1 \in Int /\ n + 1 \in E /\ E \ {n + 1} = D
    BY <1>1
  <2>2. IsFiniteSet(D)
    BY <2>1, FS_Interval
  <2>3. IsFiniteSet(E)
    BY <2>1, FS_Interval
  <2> QED
    BY <2>1, <2>2, <2>3
<1>5. DOMAIN f = D /\ \A k \in D : f[k] = trades[k].fees
  BY <1>1
<1>6. DOMAIN g = E /\ \A k \in E : g[k] = trades'[k].fees
  BY <1>2
<1> HIDE DEF f, g
<1>7. \A k \in D : f[k] \in Int /\ g[k] = f[k] /\ k \in E
  <2>1. \A k \in D : k \in E
    BY <1>1
  <2> HIDE DEF D, E
  <2>2. \A k \in D : f[k] \in Int
    BY <1>1, <1>3, <1>5
  <2>3. \A k \in D : g[k] = f[k]
    BY <1>2, <1>5, <1>6, <2>1
  <2> QED
    BY <2>1, <2>2, <2>3
<1>8. g[n + 1] = r.fees
  BY <1>2, <1>4, <1>6
<1>9. \A k \in E : g[k] \in Int
  BY <1>3, <1>4, <1>7, <1>8
<1> HIDE DEF D, E
<1>10. SumFunctionOnSet(g, E) = g[n + 1] + SumFunctionOnSet(g, D)
  BY <1>4, <1>9, SumRemove
<1>11. SumFunctionOnSet(g, D) = SumFunctionOnSet(f, D)
  BY <1>7, SumOfSame, Zenon
<1>12. SumFunctionOnSet(f, D) \in Int
  BY <1>4, <1>7, SumType
<1>13. Fees = SumFunctionOnSet(f, D)
  BY <1>5, Zenon DEF Fees, SumFunction, f
<1>14. Fees' = SumFunctionOnSet(g, E)
  BY <1>6, Zenon DEF Fees, SumFunction, g
<1> QED
  BY <1>3, <1>8, <1>10, <1>11, <1>12, <1>13, <1>14


LEMMA EarnedListed ==
    ASSUME trades \in Seq(Trades), NEW r \in Trade, trades' = Append(trades, r),
           r.exit = None \/ r \in Trades
    PROVE  /\ ClosedTrades = 1..Len(trades)
           /\ ClosedTrades' = IF r.exit = None THEN 1..Len(trades) ELSE 1..Len(trades) + 1
           /\ Earned \in Int
           /\ EarnedBefore(Len(trades) + 1) = Earned
           /\ \A k \in 1..Len(trades) + 1 : EarnedBefore(k)' = EarnedBefore(k)
           /\ Earned' = Earned + (IF r.exit = None THEN 0 ELSE r.pnl)
<1> DEFINE n == Len(trades)
           D == 1..n
           C == ClosedTrades
           f == [k \in C |-> trades[k].pnl]
           G == ClosedTrades'
           g == [k \in G |-> trades'[k].pnl]
           Below(S, k) == {j \in S : j < k}
<1>1. n \in Nat /\ DOMAIN trades = D /\ \A k \in D : trades[k] \in Trades
  OBVIOUS
<1>2. /\ DOMAIN trades' = 1..n + 1
      /\ trades'[n + 1] = r
      /\ \A k \in D : trades'[k] = trades[k]
      /\ Len(trades') = n + 1
  BY <1>1
<1>3. \A x \in Trades : x.exit # None /\ x.pnl \in Int
  BY Numbers DEF Trades
<1> HIDE DEF n
<1>4. C = D
  BY <1>1, <1>3 DEF ClosedTrades
<1>5. G = IF r.exit = None THEN D ELSE 1..n + 1
  <2>1. \A k \in 1..n + 1 : k \in D \/ k = n + 1
    BY <1>1
  <2>2. D \subseteq 1..n + 1 /\ n + 1 \in 1..n + 1 /\ n + 1 \notin D
    BY <1>1
  <2>3. G = {k \in 1..n + 1 : trades'[k].exit # None}
    BY <1>2 DEF ClosedTrades
  <2>4. \A k \in D : trades'[k].exit # None
    BY <1>1, <1>2, <1>3
  <2> HIDE DEF G, D
  <2>5. CASE r.exit = None
    <3>1. \A k \in 1..n + 1 : trades'[k].exit # None <=> k \in D
      BY <1>2, <2>1, <2>2, <2>4, <2>5
    <3> QED
      BY <2>2, <2>3, <2>5, <3>1
  <2>6. CASE r.exit # None
    <3>1. \A k \in 1..n + 1 : trades'[k].exit # None
      BY <1>2, <2>1, <2>4, <2>6
    <3> QED
      BY <2>3, <2>6, <3>1
  <2> QED
    BY <2>5, <2>6
<1>6. \A k \in D : f[k] \in Int /\ g[k] = f[k]
  <2>1. D \subseteq 1..n + 1
    BY <1>1
  <2>2. \A k \in D : k \in C /\ k \in G
    BY <1>4, <1>5, <2>1
  <2> HIDE DEF C, G, D
  <2> QED
    BY <1>1, <1>2, <1>3, <2>2
<1>7. \A k : EarnedBefore(k) = SumFunctionOnSet(f, Below(C, k))
  BY Zenon DEF EarnedBefore
<1>8. ASSUME NEW k
      PROVE  EarnedBefore(k)' = SumFunctionOnSet(g, Below(G, k))
  BY Zenon DEF EarnedBefore
<1>9. \A k \in 1..n + 1 : EarnedBefore(k)' = EarnedBefore(k)
  <2> SUFFICES ASSUME NEW k \in 1..n + 1
               PROVE  EarnedBefore(k)' = EarnedBefore(k)
    OBVIOUS
  <2>1. Below(G, k) = Below(C, k) /\ Below(C, k) \subseteq D
    <3>1. CASE r.exit = None
      BY <1>1, <1>4, <1>5, <3>1
    <3>2. CASE r.exit # None
      <4>1. G = 1..n + 1
        BY <1>5, <3>2
      <4> HIDE DEF G, C
      <4> QED
        BY <1>1, <1>4, <4>1
    <3> QED
      BY <3>1, <3>2
  <2> DEFINE S == Below(C, k)
  <2> HIDE DEF f, g
  <2>2. \A j \in S : g[j] = f[j]
    BY <1>6, <2>1
  <2> HIDE DEF S
  <2>3. SumFunctionOnSet(g, S) = SumFunctionOnSet(f, S)
    BY <2>2, SumOfSame
  <2> QED
    BY <1>7, <1>8, <2>1, <2>3 DEF S
<1>10. Below(C, n + 1) = D
  BY <1>1, <1>4
<1>11. Earned = SumFunctionOnSet(f, D)
  BY <1>7, <1>10 DEF Earned, n
<1>12. IsFiniteSet(D)
  <2>1. 1 \in Int /\ n \in Int
    BY <1>1
  <2> QED
    BY <2>1, FS_Interval
<1>13. SumFunctionOnSet(f, D) \in Int
  <2> HIDE DEF f, g, D
  <2> QED
    BY <1>6, <1>12, SumType
<1>14. Earned' = SumFunctionOnSet(g, Below(G, n + 2))
  <2>1. ASSUME NEW k, k = Len(trades') + 1
        PROVE  Earned' = SumFunctionOnSet(g, Below(G, k))
    <3>1. Earned' = EarnedBefore(k)'
      BY <2>1 DEF Earned, EarnedBefore, ClosedTrades
    <3> HIDE DEF g, G
    <3> QED
      BY <1>8, <3>1
  <2>2. Len(trades') + 1 = n + 2
    BY <1>1, <1>2
  <2> HIDE DEF g, G
  <2> QED
    BY <2>1, <2>2
<1>15. Below(G, n + 2) = G
  <2>1. \A k \in G : k < n + 2
    BY <1>1, <1>5
  <2> HIDE DEF G
  <2> QED
    BY <2>1
<1>16. SumFunctionOnSet(g, D) = SumFunctionOnSet(f, D)
  <2> HIDE DEF f, g, D
  <2> QED
    BY <1>6, SumOfSame
<1>17. Earned' = Earned + (IF r.exit = None THEN 0 ELSE r.pnl)
  <2>1. CASE r.exit = None
    <3>1. G = D
      BY <1>5, <2>1
    <3>2. Earned' = Earned
      <4> HIDE DEF g, f, G, D
      <4> QED
        BY <1>11, <1>14, <1>15, <1>16, <3>1
    <3> HIDE DEF f, g, G, D
    <3> QED
      BY <1>11, <1>13, <2>1, <3>2
  <2>2. CASE r.exit # None
    <3> DEFINE E == 1..n + 1
    <3>1. G = E
      BY <1>5, <2>2
    <3>2. r.pnl \in Int
      BY <1>3, <2>2
    <3>3. g[n + 1] = r.pnl
      <4>1. n + 1 \in E
        BY <1>1
      <4> HIDE DEF G, E
      <4> QED
        BY <1>2, <3>1, <4>1
    <3>4. IsFiniteSet(E) /\ n + 1 \in E /\ E \ {n + 1} = D
      <4>1. 1 \in Int /\ n + 1 \in Int /\ n + 1 \in E /\ E \ {n + 1} = D
        BY <1>1
      <4>2. IsFiniteSet(E)
        BY <4>1, FS_Interval
      <4> QED
        BY <4>1, <4>2
    <3>5. \A k \in E : g[k] \in Int
      <4>1. \A k \in E : k \in D \/ k = n + 1
        BY <1>1
      <4> HIDE DEF g, f, G, D, E
      <4> QED
        BY <1>6, <3>2, <3>3, <4>1
    <3> HIDE DEF f, g, G, D, E
    <3>6. SumFunctionOnSet(g, E) = g[n + 1] + SumFunctionOnSet(g, D)
      BY <3>4, <3>5, SumRemove
    <3>7. Earned' = r.pnl + Earned
      BY <1>11, <1>14, <1>15, <1>16, <3>1, <3>3, <3>6
    <3> QED
      BY <1>11, <1>13, <2>2, <3>2, <3>7
  <2> QED
    BY <2>1, <2>2
<1>18. EarnedBefore(n + 1) = Earned
  BY DEF Earned, n
<1> HIDE DEF f, g
<1> QED
  BY <1>4, <1>5, <1>9, <1>11, <1>13, <1>17, <1>18 DEF n


(* The sums are of the list of trades alone. *)
LEMMA SumsStay ==
    ASSUME UNCHANGED trades
    PROVE  /\ Fees' = Fees
           /\ Earned' = Earned
           /\ ClosedTrades' = ClosedTrades
           /\ \A k \in Nat : EarnedBefore(k)' = EarnedBefore(k)
<1>1. Fees' = Fees
  BY DEF Fees
<1>2. Earned' = Earned
  BY DEF Earned, EarnedBefore, ClosedTrades
<1>3. ClosedTrades' = ClosedTrades
  BY DEF ClosedTrades
<1>4. ASSUME NEW k \in Nat
      PROVE  EarnedBefore(k)' = EarnedBefore(k)
  BY DEF EarnedBefore, ClosedTrades
<1> QED
  BY <1>1, <1>2, <1>3, <1>4

LEMMA CapitalIs ==
    /\ Capital * Unit \in Nat
    /\ Divisible(Capital * Unit)
<1> DEFINE k == Capital * ((Lot * SlipDen) * FeeDen)
<1>1. k \in Nat
  <2>1. Lot * SlipDen \in Nat
    BY Numbers, Products
  <2>2. (Lot * SlipDen) * FeeDen \in Nat
    BY <2>1, Numbers, Products
  <2> QED
    BY <2>2, Numbers, Products
<1>2. Capital * Unit = k * FeeDen
  BY Numbers DEF Unit
<1> HIDE DEF k
<1>3. k * FeeDen \in Nat
  BY <1>1, Numbers, Products
<1> QED
  BY <1>1, <1>2, <1>3 DEF Divisible

LEMMA BenchmarkAlwaysPays ==
    ASSUME Types
    PROVE  BenchmarkPays
<1>1. /\ candles[1].open \in Nat /\ candles[1].open > 0
      /\ FinalClose \in Nat /\ FinalClose > 0
  <2>1. candles \in Histories
    BY DEF Types
  <2>2. Len(candles) \in Nat /\ Len(candles) > 0
    BY <2>1, HistoryIs
  <2>3. 1 \in 1..Len(candles) /\ Len(candles) \in 1..Len(candles)
    BY <2>2
  <2> QED
    BY <2>1, <2>3, HistoryIs DEF FinalClose
<1>2. PICK k \in Nat : Capital * Unit = k * FeeDen
  BY CapitalIs DEF Divisible
<1>3. Pays(k * FeeDen,
           ExecuteSell(ExecuteBuy(k * FeeDen, candles[1].open).quantity, FinalClose).cash,
           candles[1].open, FinalClose)
  BY <1>1, RoundTripPays
<1> QED
  BY <1>2, <1>3, Zenon DEF BenchmarkPays, BuyAndHold

LEMMA CostsAre ==
    ASSUME Types, TradesPay
    PROVE  CostsNeverPay /\ OnlyDustIsDropped
BY BenchmarkAlwaysPays
   DEF CostsNeverPay, OnlyDustIsDropped, TradesPay, TradePays, BenchmarkPays, Pays

(* What holds of the parameters of a run at candle i. *)
LEMMA LoopIs ==
    ASSUME Types
    PROVE  /\ Len(candles) \in Nat /\ Len(candles) > 0
           /\ i \in Nat /\ i > 0 /\ i <= Len(candles) + 1
           /\ Position(candles, windows, i) \in {0, 1}
           /\ Position(candles, windows, i - 1) \in {0, 1}
           /\ Position(candles, windows, 1) = 0
           /\ \A t \in 1..Len(candles) : /\ candles[t].open \in Nat /\ candles[t].open > 0
                                         /\ candles[t].close \in Nat
<1>1. candles \in Histories
  BY DEF Types
<1>2. Len(candles) \in Nat /\ Len(candles) > 0
  BY <1>1, HistoryIs
<1>3. i \in 1..Len(candles) + 1
  BY DEF Types
<1>4. \A t \in 1..Len(candles) : /\ candles[t].open \in Nat /\ candles[t].open > 0
                                 /\ candles[t].close \in Nat
  BY <1>1, HistoryIs
<1>5. i \in Nat /\ i > 0 /\ i <= Len(candles) + 1
  BY <1>2, <1>3
<1> QED
  BY <1>2, <1>4, <1>5, PositionIs

(* Where a step of the loop takes the position. *)
LEMMA ChangeIs ==
    ASSUME BacktestInv, pc = "looping", i <= Len(candles)
    PROVE  /\ Change = 1 => i > 1 /\ ~isOpen /\ quantity = 0 /\ entryFee = 0
                              /\ Position(candles, windows, i) = 1
           /\ Change = -1 => i > 1 /\ isOpen /\ cash = 0 /\ Position(candles, windows, i) = 0
           /\ Change = 0 => /\ isOpen <=> Position(candles, windows, i) = 1
                            /\ isOpen => cash = 0
                            /\ ~isOpen => quantity = 0 /\ entryFee = 0
<1>1. Types /\ StartsFlat /\ FollowsSignal
  BY DEF BacktestInv
<1> DEFINE here == Position(candles, windows, i)
           back == Position(candles, windows, i - 1)
<1>2. here \in {0, 1} /\ back \in {0, 1} /\ (i = 1 => here = 0) /\ i \in Nat /\ i > 0
  BY <1>1, LoopIs, PositionIs
<1>3. Change = IF i = 1 THEN 0 ELSE here - back
  BY DEF Change
<1>4. i > 1 => /\ isOpen <=> back = 1
               /\ isOpen => cash = 0
               /\ ~isOpen => quantity = 0 /\ entryFee = 0
  BY <1>1 DEF FollowsSignal
<1>5. i = 1 => ~isOpen /\ quantity = 0 /\ entryFee = 0
  BY <1>1 DEF StartsFlat
<1> HIDE DEF here, back
<1>6. Change = 1 => i > 1 /\ back = 0 /\ here = 1
  BY <1>2, <1>3
<1>7. Change = -1 => i > 1 /\ back = 1 /\ here = 0
  BY <1>2, <1>3
<1>8. Change = 0 => (i = 1 /\ here = 0) \/ (i > 1 /\ back = here)
  BY <1>2, <1>3
<1> QED
  BY <1>4, <1>5, <1>6, <1>7, <1>8 DEF here


LEMMA InitInv == Init => BacktestInv
<1> SUFFICES ASSUME Init
             PROVE  BacktestInv
  OBVIOUS
<1>1. /\ candles \in Histories /\ windows \in Windows /\ allowGaps \in BOOLEAN
      /\ pc = "preparing" /\ i = 1 /\ cash = Capital * Unit /\ quantity = 0
      /\ isOpen = FALSE /\ entry = 1 /\ entryFee = 0 /\ cashAtEntry = Capital * Unit
      /\ totalFees = 0 /\ trades = <<>> /\ finalCash = 0
      /\ curve = <<Point(1, Capital * Unit, 0)>>
  BY DEF Init
<1>2. Len(candles) \in Nat /\ Len(candles) > 0
  BY <1>1, HistoryIs
<1>3. Capital * Unit \in Nat /\ Divisible(Capital * Unit)
  BY CapitalIs
<1>4. Len(curve) = 1 /\ DOMAIN curve = {1} /\ curve[1] = Point(1, Capital * Unit, 0)
  BY <1>1
<1>5. Point(1, Capital * Unit, 0) \in [at : Nat, cash : Nat, quantity : Nat]
  BY <1>3 DEF Point
<1>6. DOMAIN trades = {} /\ ClosedTrades = {}
  BY <1>1 DEF ClosedTrades
<1>7. Types
  <2>1. i \in 1..Len(candles) + 1 /\ entry \in 1..Len(candles)
    BY <1>1, <1>2
  <2>2. curve \in Seq([at : Nat, cash : Nat, quantity : Nat])
    BY <1>1, <1>5
  <2>3. trades \in Seq(Trade) /\ trades \in Seq(Trades)
    BY <1>1
  <2> QED
    BY <1>1, <1>3, <2>1, <2>2, <2>3 DEF Types
<1>8. StartsFlat
  BY <1>1 DEF StartsFlat
<1>9. FollowsSignal
  BY <1>1 DEF FollowsSignal
<1>10. Invested
  BY <1>1, <1>3 DEF Invested
<1>11. CurveFollows
  <2>1. curve[1].at = 1 /\ curve[1].cash = Capital * Unit /\ curve[1].quantity = 0
    BY <1>4 DEF Point
  <2> QED
    BY <1>1, <1>4, <2>1 DEF CurveFollows
<1>12. CurveEndsAtFinal
  BY <1>1 DEF CurveEndsAtFinal
<1>13. LedgerAddsUp
  <2>1. Fees = 0
    <3> DEFINE f == [k \in DOMAIN trades |-> trades[k].fees]
    <3>1. DOMAIN f = {}
      BY <1>6
    <3>2. Fees = SumFunctionOnSet(f, DOMAIN f)
      BY Zenon DEF Fees, SumFunction
    <3> HIDE DEF f
    <3> QED
      BY <3>1, <3>2, SumEmpty
  <2>2. Earned = 0
    <3> DEFINE f == [k \in ClosedTrades |-> trades[k].pnl]
               S == {k \in ClosedTrades : k < Len(trades) + 1}
    <3>1. S = {}
      BY <1>6
    <3>2. Earned = SumFunctionOnSet(f, S)
      BY Zenon DEF Earned, EarnedBefore
    <3> HIDE DEF f, S
    <3> QED
      BY <3>1, <3>2, SumEmpty
  <2> QED
    BY <1>1, <1>3, <2>1, <2>2 DEF LedgerAddsUp
<1>14. TradesPay
  BY <1>6 DEF TradesPay
<1> QED
  BY <1>7, <1>8, <1>9, <1>10, <1>11, <1>12, <1>13, <1>14 DEF BacktestInv

(* What a step keeps that touches neither ledger nor trades. *)
LedgerVars == <<candles, cash, quantity, isOpen, entry, entryFee, cashAtEntry, totalFees, trades>>

LEMMA TradesStay ==
    ASSUME TradesPay, UNCHANGED <<candles, trades>>
    PROVE  TradesPay'
<1>1. ClosedTrades' = ClosedTrades
  BY SumsStay
<1>2. ASSUME NEW k \in ClosedTrades
      PROVE  TradePays(k)'
  BY <1>2 DEF TradesPay, TradePays, EarnedBefore, ClosedTrades
<1> QED
  BY <1>1, <1>2 DEF TradesPay

LEMMA LedgerStays ==
    ASSUME BacktestInv, UNCHANGED LedgerVars, pc' = "returned" <=> pc = "returned"
    PROVE  Invested' /\ LedgerAddsUp' /\ TradesPay'
<1>1. /\ UNCHANGED trades /\ UNCHANGED candles
      /\ cash' = cash /\ quantity' = quantity /\ isOpen' = isOpen /\ entry' = entry
      /\ entryFee' = entryFee /\ cashAtEntry' = cashAtEntry /\ totalFees' = totalFees
  BY DEF LedgerVars
<1>2. Invested /\ LedgerAddsUp /\ TradesPay /\ Types
  BY DEF BacktestInv
<1>3. Invested'
  BY <1>1, <1>2 DEF Invested, Divisible
<1>4. LedgerAddsUp'
  <2>1. Fees' = Fees /\ Earned' = Earned
    BY <1>1, SumsStay
  <2> QED
    BY <1>1, <1>2, <2>1 DEF LedgerAddsUp
<1>5. TradesPay'
  BY <1>1, <1>2, TradesStay
<1> QED
  BY <1>3, <1>4, <1>5


LEMMA CurveIs ==
    ASSUME Types
    PROVE  /\ Len(curve) \in Nat
           /\ DOMAIN curve = 1..Len(curve)
           /\ \A k \in DOMAIN curve :
                 curve[k].at \in Nat /\ curve[k].cash \in Nat /\ curve[k].quantity \in Nat
<1> DEFINE Points == [at : Nat, cash : Nat, quantity : Nat]
<1>1. curve \in Seq(Points)
  BY DEF Types
<1>2. \A x \in Points : x.at \in Nat /\ x.cash \in Nat /\ x.quantity \in Nat
  OBVIOUS
<1> HIDE DEF Points
<1>3. Len(curve) \in Nat /\ DOMAIN curve = 1..Len(curve)
  BY <1>1
<1>4. \A k \in DOMAIN curve : curve[k] \in Points
  BY <1>1
<1> QED
  BY <1>2, <1>3, <1>4

LEMMA StutterStep ==
    ASSUME BacktestInv, UNCHANGED vars
    PROVE  BacktestInv'
<1>1. /\ UNCHANGED LedgerVars
      /\ windows' = windows /\ allowGaps' = allowGaps /\ pc' = pc /\ i' = i
      /\ curve' = curve /\ finalCash' = finalCash
  BY DEF vars, LedgerVars
<1>2. Types'
  BY <1>1, Zenon DEF BacktestInv, Types, LedgerVars
<1>3. StartsFlat'
  BY <1>1, Zenon DEF BacktestInv, StartsFlat, LedgerVars
<1>4. FollowsSignal'
  BY <1>1, Zenon DEF BacktestInv, FollowsSignal, LedgerVars, Position, FastAboveSlow, CloseSum
<1>5. CurveFollows'
  BY <1>1, Zenon DEF BacktestInv, CurveFollows, LedgerVars
<1>6. CurveEndsAtFinal'
  BY <1>1, Zenon DEF BacktestInv, CurveEndsAtFinal, LedgerVars, Equity, LastPoint, Marked
<1>7. Invested' /\ LedgerAddsUp' /\ TradesPay'
  BY <1>1, LedgerStays
<1> QED
  BY <1>2, <1>3, <1>4, <1>5, <1>6, <1>7 DEF BacktestInv

LEMMA PrepareStep ==
    ASSUME BacktestInv, Prepare
    PROVE  BacktestInv'
<1>1. /\ UNCHANGED LedgerVars
      /\ pc = "preparing" /\ pc' \in {"looping", "raised"}
      /\ windows' = windows /\ allowGaps' = allowGaps /\ i' = i
      /\ curve' = curve /\ finalCash' = finalCash
  BY DEF Prepare, arguments, LedgerVars
<1>2. Types /\ StartsFlat /\ CurveFollows
  BY DEF BacktestInv
<1>3. Types'
  BY <1>1, <1>2, Zenon DEF Types, LedgerVars
<1>4. StartsFlat'
  BY <1>1, <1>2 DEF StartsFlat, LedgerVars
<1>5. FollowsSignal'
  <2>1. i' = 1
    BY <1>1, <1>2 DEF StartsFlat
  <2> QED
    BY <2>1 DEF FollowsSignal
<1>6. CurveFollows'
  BY <1>1, <1>2 DEF CurveFollows, LedgerVars
<1>7. CurveEndsAtFinal'
  BY <1>1 DEF CurveEndsAtFinal
<1>8. Invested' /\ LedgerAddsUp' /\ TradesPay'
  BY <1>1, LedgerStays
<1> QED
  BY <1>3, <1>4, <1>5, <1>6, <1>7, <1>8 DEF BacktestInv

(* What every step of the loop makes of the signal: the position of candle i is
   the position before candle i + 1. *)
LEMMA SignalFollowed ==
    ASSUME Types, i' = i + 1, UNCHANGED <<candles, windows>>,
           isOpen' <=> Position(candles, windows, i) = 1,
           isOpen' => cash' = 0,
           ~isOpen' => quantity' = 0 /\ entryFee' = 0
    PROVE  FollowsSignal'
<1>1. i' - 1 = i
  BY LoopIs
<1>2. Position(candles', windows', i' - 1) = Position(candles, windows, i)
  BY <1>1
<1> QED
  BY <1>2 DEF FollowsSignal

LEMMA HoldStep ==
    ASSUME BacktestInv, Hold
    PROVE  BacktestInv'
<1>1. /\ UNCHANGED LedgerVars
      /\ pc = "looping" /\ pc' = "looping" /\ i <= Len(candles) /\ Change = 0
      /\ windows' = windows /\ allowGaps' = allowGaps /\ i' = i + 1
      /\ curve' = curve /\ finalCash' = finalCash
  BY DEF Hold, arguments, LedgerVars
<1>2. Types /\ StartsFlat /\ CurveFollows
  BY DEF BacktestInv
<1>3. i \in Nat /\ i > 0 /\ Len(candles) \in Nat
  BY <1>2, LoopIs
<1>4. Types'
  <2>1. i' \in 1..Len(candles') + 1
    BY <1>1, <1>3 DEF LedgerVars
  <2> QED
    BY <1>1, <1>2, <2>1, Zenon DEF Types, LedgerVars
<1>5. StartsFlat'
  BY <1>1, <1>3 DEF StartsFlat
<1>6. FollowsSignal'
  <2>1. /\ isOpen <=> Position(candles, windows, i) = 1
        /\ isOpen => cash = 0
        /\ ~isOpen => quantity = 0 /\ entryFee = 0
    BY <1>1, ChangeIs
  <2>2. /\ UNCHANGED <<candles, windows>>
        /\ cash' = cash /\ quantity' = quantity /\ isOpen' = isOpen /\ entryFee' = entryFee
    BY <1>1 DEF LedgerVars
  <2> QED
    BY <1>1, <1>2, <2>1, <2>2, SignalFollowed
<1>7. CurveFollows'
  <2>1. \A k \in DOMAIN curve : curve[k].at = 1 \/ curve[k].at < i + 1
    <3>1. \A k \in DOMAIN curve : curve[k].at \in Nat
      BY <1>2, CurveIs
    <3> QED
      BY <1>2, <1>3, <3>1 DEF CurveFollows
  <2> QED
    BY <1>1, <1>2, <2>1 DEF CurveFollows, LedgerVars
<1>8. CurveEndsAtFinal'
  BY <1>1 DEF CurveEndsAtFinal
<1>9. Invested' /\ LedgerAddsUp' /\ TradesPay'
  BY <1>1, LedgerStays
<1> QED
  BY <1>4, <1>5, <1>6, <1>7, <1>8, <1>9 DEF BacktestInv


LEMMA FeesType ==
    ASSUME trades \in Seq(Trades)
    PROVE  Fees \in Int
<1> DEFINE f == [k \in DOMAIN trades |-> trades[k].fees]
           D == 1..Len(trades)
<1>1. Len(trades) \in Nat /\ DOMAIN trades = D /\ \A k \in D : trades[k] \in Trades
  OBVIOUS
<1>2. \A x \in Trades : x.fees \in Int
  BY DEF Trades
<1>3. DOMAIN f = D /\ \A k \in D : f[k] \in Int
  BY <1>1, <1>2
<1>4. IsFiniteSet(D)
  <2>1. 1 \in Int /\ Len(trades) \in Int
    BY <1>1
  <2> QED
    BY <2>1, FS_Interval
<1>5. Fees = SumFunctionOnSet(f, DOMAIN f)
  BY Zenon DEF Fees, SumFunction
<1> HIDE DEF f, D
<1> QED
  BY <1>3, <1>4, <1>5, SumType

(* A fill adds the last point of the curve. *)
LEMMA CurveAppended ==
    ASSUME Types, CurveFollows, NEW p \in [at : Nat, cash : Nat, quantity : Nat],
           p.at = i, i > 1, i' = i + 1, curve' = Append(curve, p),
           cash' = p.cash, quantity' = p.quantity
    PROVE  /\ CurveFollows'
           /\ curve' \in Seq([at : Nat, cash : Nat, quantity : Nat])
<1> DEFINE n == Len(curve)
<1>1. curve \in Seq([at : Nat, cash : Nat, quantity : Nat])
  BY DEF Types
<1>2. n \in Nat /\ DOMAIN curve = 1..n /\ \A k \in 1..n : curve[k].at \in Nat
  BY CurveIs
<1>3. /\ Len(curve') = n + 1
      /\ DOMAIN curve' = 1..n + 1
      /\ curve'[n + 1] = p
      /\ \A k \in 1..n : curve'[k] = curve[k]
  BY <1>1
<1>4. curve' \in Seq([at : Nat, cash : Nat, quantity : Nat])
  BY <1>1
<1> HIDE DEF n
<1>5. i \in Nat
  BY LoopIs
<1>6. \A k \in 1..n : curve'[k].at < i
  BY <1>2, <1>3, <1>5 DEF CurveFollows
<1>7. curve'[n + 1].at = i
  BY <1>3
<1>8. \A k \in 1..n + 1 : k \in 1..n \/ k = n + 1
  BY <1>2
<1>9. \A k, j \in 1..n + 1 : k < j => curve'[k].at < curve'[j].at
  <2> SUFFICES ASSUME NEW k \in 1..n + 1, NEW j \in 1..n + 1, k < j
               PROVE  curve'[k].at < curve'[j].at
    OBVIOUS
  <2>1. k \in 1..n
    BY <1>2
  <2>2. CASE j \in 1..n
    <3>1. curve[k].at < curve[j].at
      BY <1>2, <2>1, <2>2 DEF CurveFollows
    <3> QED
      BY <1>3, <2>1, <2>2, <3>1
  <2>3. CASE j = n + 1
    BY <1>6, <1>7, <2>1, <2>3
  <2> QED
    BY <1>8, <2>2, <2>3
<1>10. \A k \in 1..n + 1 : curve'[k].at < i + 1
  <2> SUFFICES ASSUME NEW k \in 1..n + 1
               PROVE  curve'[k].at < i + 1
    OBVIOUS
  <2>1. CASE k \in 1..n
    BY <1>2, <1>3, <1>5, <1>6, <2>1
  <2>2. CASE k = n + 1
    <3>1. curve'[k].at = i
      BY <1>7, <2>2
    <3> QED
      BY <1>5, <3>1
  <2> QED
    BY <1>8, <2>1, <2>2
<1>11. CurveFollows'
  BY <1>2, <1>3, <1>9, <1>10 DEF CurveFollows
<1> QED
  BY <1>4, <1>11

LEMMA BuyStep ==
    ASSUME BacktestInv, Buy
    PROVE  BacktestInv'
<1> DEFINE fill == ExecuteBuy(cash, candles[i].open)
           p == Point(i, 0, fill.quantity)
<1>1. /\ pc = "looping" /\ pc' = "looping" /\ i <= Len(candles) /\ Change = 1
      /\ candles' = candles /\ windows' = windows /\ allowGaps' = allowGaps
      /\ trades' = trades /\ finalCash' = finalCash
      /\ quantity' = fill.quantity /\ entryFee' = fill.fee
      /\ totalFees' = totalFees + fill.fee
      /\ curve' = Append(curve, p)
      /\ entry' = i /\ cashAtEntry' = cash /\ cash' = 0 /\ isOpen' = TRUE /\ i' = i + 1
  BY DEF Buy, arguments
<1>2. Types /\ Invested /\ CurveFollows /\ LedgerAddsUp /\ TradesPay
  BY DEF BacktestInv
<1>3. i > 1 /\ ~isOpen /\ entryFee = 0 /\ Position(candles, windows, i) = 1
  BY <1>1, ChangeIs
<1>4. /\ Len(candles) \in Nat /\ i \in Nat /\ i \in 1..Len(candles)
      /\ candles[i].open \in Nat /\ candles[i].open > 0
  <2>1. Len(candles) \in Nat /\ i \in Nat /\ i > 0
    BY <1>2, LoopIs
  <2>2. i \in 1..Len(candles)
    BY <1>1, <2>1
  <2> QED
    BY <1>2, <2>1, <2>2, LoopIs
<1>5. Divisible(cash)
  BY <1>2, <1>3 DEF Invested
<1>6. fill.fee \in Nat /\ fill.quantity \in Nat
  <2>1. PICK k \in Nat : cash = k * FeeDen
    BY <1>5 DEF Divisible
  <2>2. ExecuteBuy(k * FeeDen, candles[i].open).fee \in Nat /\ ExecuteBuy(k * FeeDen, candles[i].open).quantity \in Nat
    BY <1>4, BuyIs
  <2> QED
    BY <2>1, <2>2
<1>7. p \in [at : Nat, cash : Nat, quantity : Nat] /\ p.at = i /\ p.cash = 0
      /\ p.quantity = fill.quantity
  BY <1>4, <1>6 DEF Point
<1> HIDE DEF p, fill
<1>8. CurveFollows' /\ curve' \in Seq([at : Nat, cash : Nat, quantity : Nat])
  <2>1. cash' = p.cash /\ quantity' = p.quantity
    BY <1>1, <1>7
  <2> QED
    BY <1>1, <1>2, <1>3, <1>7, <2>1, CurveAppended
<1>9. Types'
  <2>1. i' \in 1..Len(candles') + 1
    BY <1>1, <1>4
  <2>2. totalFees' \in Nat
    BY <1>1, <1>2, <1>6 DEF Types
  <2>3. cash' \in Nat /\ cashAtEntry' \in Nat /\ quantity' \in Nat /\ entryFee' \in Nat
    BY <1>1, <1>2, <1>6 DEF Types
  <2>4. entry' \in 1..Len(candles')
    BY <1>1, <1>4
  <2> QED
    BY <1>1, <1>2, <1>8, <2>1, <2>2, <2>3, <2>4, Zenon DEF Types
<1>10. StartsFlat'
  BY <1>1, <1>4 DEF StartsFlat
<1>11. FollowsSignal'
  <2>1. UNCHANGED <<candles, windows>>
    BY <1>1
  <2> QED
    BY <1>1, <1>2, <1>3, <2>1, SignalFollowed
<1>12. Invested'
  <2>1. Divisible(cashAtEntry)'
    BY <1>1, <1>5 DEF Divisible
  <2>2. quantity' = ExecuteBuy(cashAtEntry', candles'[entry'].open).quantity
    BY <1>1 DEF fill
  <2> QED
    BY <1>1, <2>1, <2>2 DEF Invested, Divisible
<1>13. CurveEndsAtFinal'
  BY <1>1 DEF CurveEndsAtFinal
<1>14. LedgerAddsUp'
  <2>1. Fees' = Fees /\ Earned' = Earned
    BY <1>1, SumsStay
  <2>2. Fees \in Int
    BY <1>1, <1>2, FeesType DEF Types
  <2>3. totalFees = Fees /\ cash = Capital * Unit + Earned
    BY <1>1, <1>2, <1>3, <2>2 DEF LedgerAddsUp
  <2>4. totalFees' = Fees' + entryFee'
    BY <1>1, <2>1, <2>3
  <2>5. cashAtEntry' = Capital * Unit + Earned'
    BY <1>1, <2>1, <2>3
  <2> QED
    BY <1>1, <2>4, <2>5 DEF LedgerAddsUp
<1>15. TradesPay'
  BY <1>1, <1>2, TradesStay
<1> QED
  BY <1>8, <1>9, <1>10, <1>11, <1>12, <1>13, <1>14, <1>15 DEF BacktestInv


(* A listed trade pays for its costs whatever is listed after it. *)
LEMMA OldTradesPay ==
    ASSUME TradesPay, candles' = candles,
           trades \in Seq(Trades), NEW r \in Trade, trades' = Append(trades, r),
           r.exit = None \/ r \in Trades, NEW k \in 1..Len(trades)
    PROVE  TradePays(k)'
<1>1. k \in ClosedTrades /\ EarnedBefore(k)' = EarnedBefore(k)
  <2>1. k \in 1..Len(trades) + 1
    <3>1. Len(trades) \in Nat
      OBVIOUS
    <3> QED
      BY <3>1
  <2> QED
    BY <2>1, EarnedListed
<1>2. trades'[k] = trades[k]
  OBVIOUS
<1>3. TradePays(k)
  BY <1>1 DEF TradesPay
<1> QED
  BY <1>1, <1>2, <1>3 DEF TradePays

LEMMA SellStep ==
    ASSUME BacktestInv, Sell
    PROVE  BacktestInv'
<1> DEFINE fill == ExecuteSell(quantity, candles[i].open)
           p == Point(i, fill.cash, 0)
           r == [entry |-> entry, exit |-> i, fees |-> entryFee + fill.fee,
                 pnl |-> fill.cash - cashAtEntry]
           money == Capital * Unit
           n == Len(trades)
<1>1. /\ pc = "looping" /\ pc' = "looping" /\ i <= Len(candles) /\ Change = -1
      /\ candles' = candles /\ windows' = windows /\ allowGaps' = allowGaps
      /\ trades' = Append(trades, r) /\ finalCash' = finalCash
      /\ quantity' = 0 /\ entryFee' = 0
      /\ totalFees' = totalFees + fill.fee
      /\ curve' = Append(curve, p)
      /\ entry' = entry /\ cashAtEntry' = cashAtEntry
      /\ cash' = fill.cash /\ isOpen' = FALSE /\ i' = i + 1
  BY DEF Sell, arguments
<1>2. Types /\ Invested /\ CurveFollows /\ LedgerAddsUp /\ TradesPay
  BY DEF BacktestInv
<1>3. i > 1 /\ isOpen /\ Position(candles, windows, i) = 0
  BY <1>1, ChangeIs
<1>4. /\ Len(candles) \in Nat /\ i \in Nat /\ i \in 1..Len(candles)
      /\ candles[i].open \in Nat /\ candles[i].open > 0
      /\ candles[entry].open \in Nat /\ candles[entry].open > 0
  <2>1. Len(candles) \in Nat /\ i \in Nat /\ i > 0
    BY <1>2, LoopIs
  <2>2. i \in 1..Len(candles)
    BY <1>1, <2>1
  <2>3. entry \in 1..Len(candles)
    BY <1>2 DEF Types
  <2> QED
    BY <1>2, <2>1, <2>2, <2>3, LoopIs
<1>5. /\ quantity \in Nat /\ entryFee \in Nat /\ cashAtEntry \in Nat /\ totalFees \in Nat
      /\ entry \in Nat
      /\ trades \in Seq(Trade) /\ trades \in Seq(Trades)
  <2>1. entry \in 1..Len(candles)
    BY <1>2 DEF Types
  <2> QED
    BY <1>1, <1>2, <1>4, <2>1 DEF Types
<1>6. /\ fill.cash \in Nat /\ fill.fee \in Nat
      /\ Divisible(fill.cash)
  <2> DEFINE k == ((quantity * candles[i].open) * (SlipDen - SlipNum)) * (FeeDen - FeeNum)
  <2>1. k \in Nat /\ fill.cash = k * FeeDen /\ fill.cash \in Nat /\ fill.fee \in Nat
    BY <1>4, <1>5, SellIs
  <2> HIDE DEF k, fill
  <2> QED
    BY <2>1 DEF Divisible
<1>7. p \in [at : Nat, cash : Nat, quantity : Nat] /\ p.at = i /\ p.cash = fill.cash
      /\ p.quantity = 0
  BY <1>4, <1>6 DEF Point
<1>8. /\ r \in Trades /\ r \in Trade
      /\ r.entry = entry /\ r.exit = i /\ r.fees = entryFee + fill.fee
      /\ r.pnl = fill.cash - cashAtEntry
  <2>1. entryFee + fill.fee \in Nat /\ fill.cash - cashAtEntry \in Int
    BY <1>5, <1>6
  <2> HIDE DEF fill
  <2>2. r \in Trades
    BY <1>4, <1>5, <2>1 DEF Trades
  <2>3. r \in Trade
    BY <1>4, <1>5, <2>1 DEF Trade
  <2> QED
    BY <2>2, <2>3
<1> HIDE DEF p, fill, r
<1>9. CurveFollows' /\ curve' \in Seq([at : Nat, cash : Nat, quantity : Nat])
  <2>1. cash' = p.cash /\ quantity' = p.quantity
    BY <1>1, <1>7
  <2> QED
    BY <1>1, <1>2, <1>3, <1>7, <2>1, CurveAppended
<1>10. Types'
  <2>1. i' \in 1..Len(candles') + 1
    BY <1>1, <1>4
  <2>2. totalFees' \in Nat
    BY <1>1, <1>5, <1>6
  <2>3. cash' \in Nat /\ cashAtEntry' \in Nat /\ quantity' \in Nat /\ entryFee' \in Nat
    BY <1>1, <1>5, <1>6
  <2>4. trades' \in Seq(Trade) /\ trades' \in Seq(Trades)
    BY <1>1, <1>5, <1>8
  <2> QED
    BY <1>1, <1>2, <1>9, <2>1, <2>2, <2>3, <2>4, Zenon DEF Types
<1>11. StartsFlat'
  BY <1>1, <1>4 DEF StartsFlat
<1>12. FollowsSignal'
  <2>1. UNCHANGED <<candles, windows>>
    BY <1>1
  <2> QED
    BY <1>1, <1>2, <1>3, <2>1, SignalFollowed
<1>13. Invested'
  BY <1>1, <1>6 DEF Invested, Divisible
<1>14. CurveEndsAtFinal'
  BY <1>1 DEF CurveEndsAtFinal
<1>15. /\ Fees \in Int /\ Earned \in Int /\ money \in Int
       /\ totalFees = Fees + entryFee
       /\ cashAtEntry = money + Earned
  <2>1. Fees \in Int
    BY <1>5, FeesType
  <2>2. Earned \in Int
    BY <1>1, <1>5, <1>8, EarnedListed
  <2>3. money \in Int
    BY CapitalIs
  <2> QED
    BY <1>1, <1>2, <1>3, <2>1, <2>2, <2>3 DEF LedgerAddsUp
<1>16. LedgerAddsUp'
  <2>1. Fees' = Fees + r.fees
    BY <1>1, <1>5, <1>8, FeesListed
  <2>2. totalFees' = Fees'
    BY <1>1, <1>5, <1>6, <1>8, <1>15, <2>1
  <2>3. Fees' \in Int
    BY <1>5, <1>6, <1>8, <1>15, <2>1
  <2>4. Earned' = Earned + r.pnl
    <3>1. r.exit # None
      BY <1>4, <1>8, Numbers
    <3> QED
      BY <1>1, <1>5, <1>8, <3>1, EarnedListed
  <2>5. cash' = money + Earned'
    <3> DEFINE e == Earned
               c == fill.cash
    <3> HIDE DEF money
    <3>1. /\ c \in Int /\ cashAtEntry \in Int /\ money \in Int /\ e \in Int
          /\ cashAtEntry = money + e
          /\ Earned' = e + (c - cashAtEntry)
          /\ cash' = c
      BY <1>1, <1>5, <1>6, <1>8, <1>15, <2>4
    <3> HIDE DEF e, c
    <3>2. c = money + (e + (c - cashAtEntry))
      BY <3>1
    <3> QED
      BY <3>1, <3>2
  <2> QED
    BY <1>1, <2>2, <2>3, <2>5 DEF LedgerAddsUp
<1>17. TradesPay'
  <2>1. r.exit # None
    BY <1>4, <1>8, Numbers
  <2>2. ClosedTrades' = 1..n + 1 /\ n \in Nat
    BY <1>1, <1>5, <1>8, <2>1, EarnedListed
  <2>3. ASSUME NEW k \in 1..n
        PROVE  TradePays(k)'
    BY <1>1, <1>2, <1>5, <1>8, <2>3, OldTradesPay
  <2>4. ASSUME NEW k, k = n + 1
        PROVE  TradePays(k)'
    <3>1. trades'[k] = r
      BY <1>1, <1>5, <2>4
    <3>2. EarnedBefore(k)' = Earned
      <4>1. n + 1 \in 1..Len(trades) + 1
        BY <2>2
      <4>2. EarnedBefore(n + 1) = Earned
        BY <1>1, <1>5, <1>8, EarnedListed
      <4>3. \A j \in 1..Len(trades) + 1 : EarnedBefore(j)' = EarnedBefore(j)
        BY <1>1, <1>5, <1>8, EarnedListed
      <4>4. k \in 1..Len(trades) + 1
        BY <2>4, <4>1
      <4>5. EarnedBefore(k)' = EarnedBefore(k)
        BY <4>3, <4>4
      <4> QED
        BY <2>4, <4>2, <4>5
    <3>3. /\ money + Earned = cashAtEntry
          /\ cashAtEntry + r.pnl = fill.cash
      <4> HIDE DEF money
      <4> QED
        BY <1>5, <1>6, <1>8, <1>15
    <3>4. Pays(cashAtEntry, fill.cash, candles[entry].open, candles[i].open)
      <4>1. Divisible(cashAtEntry) /\ quantity = ExecuteBuy(cashAtEntry, candles[entry].open).quantity
        BY <1>2, <1>3 DEF Invested
      <4>2. PICK j \in Nat : cashAtEntry = j * FeeDen
        BY <4>1 DEF Divisible
      <4>3. Pays(j * FeeDen,
                 ExecuteSell(ExecuteBuy(j * FeeDen, candles[entry].open).quantity,
                             candles[i].open).cash,
                 candles[entry].open, candles[i].open)
        BY <1>4, RoundTripPays
      <4> QED
        BY <4>1, <4>2, <4>3 DEF fill
    <3>5. TradePays(k)' <=> Pays(money + Earned, (money + Earned) + r.pnl,
                                candles[entry].open, candles[i].open)
      BY <1>1, <1>8, <3>1, <3>2 DEF TradePays
    <3> QED
      BY <3>3, <3>4, <3>5
  <2>5. \A k \in 1..n + 1 : k \in 1..n \/ k = n + 1
    BY <2>2
  <2> QED
    BY <2>2, <2>3, <2>4, <2>5 DEF TradesPay
<1> QED
  BY <1>9, <1>10, <1>11, <1>12, <1>13, <1>14, <1>16, <1>17 DEF BacktestInv


(* After the loop the point in force at the last candle is the last point. *)
LEMMA CurveEnds ==
    ASSUME Types, CurveFollows
    PROVE  Equity(Len(candles)) =
              curve[Len(curve)].cash + Marked(curve[Len(curve)].quantity, FinalClose)
<1> DEFINE n == Len(curve)
           t == Len(candles)
           InForce(k) == curve[k].at <= t /\ \A j \in DOMAIN curve : curve[j].at <= t => j <= k
<1>1. /\ n \in Nat /\ n > 0 /\ DOMAIN curve = 1..n
      /\ \A k \in DOMAIN curve : curve[k].at \in Nat
  BY CurveIs DEF CurveFollows
<1>2. t \in Nat /\ t > 0 /\ i \in Nat /\ i <= t + 1
  BY LoopIs
<1> HIDE DEF n, t
<1>3. \A k \in DOMAIN curve : curve[k].at <= t
  BY <1>1, <1>2 DEF CurveFollows
<1>4. n \in DOMAIN curve /\ InForce(n)
  BY <1>1, <1>3
<1>5. \A k \in DOMAIN curve : InForce(k) => k = n
  BY <1>1, <1>4
<1>6. LastPoint(t) = CHOOSE k \in DOMAIN curve : InForce(k)
  BY DEF LastPoint
<1> HIDE DEF InForce
<1>7. LastPoint(t) = n
  BY <1>4, <1>5, <1>6
<1>8. Equity(t) = curve[n].cash + Marked(curve[n].quantity, candles[t].close)
  BY <1>7 DEF Equity
<1> QED
  BY <1>8 DEF FinalClose, n, t

LEMMA ReturnStep ==
    ASSUME BacktestInv, Return
    PROVE  BacktestInv'
<1> DEFINE r == [entry |-> entry, exit |-> None, fees |-> entryFee, pnl |-> None]
           marked == Marked(quantity, FinalClose)
           money == Capital * Unit
           n == Len(trades)
<1>1. /\ pc = "looping" /\ pc' = "returned" /\ i > Len(candles)
      /\ trades' = IF isOpen THEN Append(trades, r) ELSE trades
      /\ finalCash' = cash + marked
      /\ candles' = candles /\ windows' = windows /\ allowGaps' = allowGaps
      /\ i' = i /\ cash' = cash /\ quantity' = quantity /\ isOpen' = isOpen
      /\ entry' = entry /\ entryFee' = entryFee /\ cashAtEntry' = cashAtEntry
      /\ totalFees' = totalFees /\ curve' = curve
  BY DEF Return, arguments
<1>2. Types /\ StartsFlat /\ Invested /\ CurveFollows /\ LedgerAddsUp /\ TradesPay
  BY DEF BacktestInv
<1>3. Len(candles) \in Nat /\ Len(candles) > 0 /\ i \in Nat /\ i > 1
  BY <1>1, <1>2, LoopIs
<1>4. ~isOpen => entryFee = 0
  BY <1>1, <1>3 DEF BacktestInv, FollowsSignal
<1>5. /\ quantity \in Nat /\ entryFee \in Nat /\ cash \in Nat
      /\ entry \in Nat /\ totalFees \in Nat /\ isOpen \in BOOLEAN
      /\ trades \in Seq(Trade) /\ trades \in Seq(Trades)
  <2>1. entry \in 1..Len(candles)
    BY <1>2 DEF Types
  <2> QED
    BY <1>1, <1>2, <1>3, <2>1 DEF Types
<1>6. marked \in Nat
  <2>1. FinalClose \in Nat
    <3>1. Len(candles) \in 1..Len(candles)
      BY <1>3
    <3> QED
      BY <1>2, <3>1, LoopIs DEF FinalClose
  <2>2. quantity * FinalClose \in Nat
    BY <1>5, <2>1, Products
  <2>3. (quantity * FinalClose) * SlipDen \in Nat
    BY <2>2, Numbers, Products
  <2>4. ((quantity * FinalClose) * SlipDen) * FeeDen \in Nat
    BY <2>3, Numbers, Products
  <2>5. (((quantity * FinalClose) * SlipDen) * FeeDen) * FeeDen \in Nat
    BY <2>4, Numbers, Products
  <2> QED
    BY <2>5 DEF Marked
<1>7. r \in Trade /\ r.exit = None /\ r.fees = entryFee
  BY <1>5 DEF Trade
<1> HIDE DEF r, marked
<1>8. Types'
  <2>1. trades' \in Seq(Trade)
    BY <1>1, <1>5, <1>7
  <2>2. finalCash' \in Nat
    BY <1>1, <1>5, <1>6
  <2> QED
    BY <1>1, <1>2, <2>1, <2>2, Zenon DEF Types
<1>9. StartsFlat'
  BY <1>1, <1>2 DEF StartsFlat
<1>10. FollowsSignal'
  BY <1>1 DEF FollowsSignal
<1>11. Invested'
  BY <1>1, <1>2 DEF Invested, Divisible
<1>12. CurveFollows'
  BY <1>1, <1>2 DEF CurveFollows
<1>13. CurveEndsAtFinal'
  <2>1. \A k, j \in DOMAIN curve : k < j => curve[k].at < curve[j].at
    BY <1>2 DEF CurveFollows
  <2>2. Equity(Len(candles)) = cash + marked
    <3>1. curve[Len(curve)].cash = cash /\ curve[Len(curve)].quantity = quantity
      BY <1>1, <1>2 DEF CurveFollows
    <3> QED
      BY <1>2, <3>1, CurveEnds DEF marked
  <2>3. Equity(Len(candles))' = Equity(Len(candles))
    BY <1>1 DEF Equity, LastPoint
  <2>4. Equity(Len(candles))' = finalCash'
    BY <1>1, <2>2, <2>3
  <2> QED
    BY <1>1, <2>1, <2>4 DEF CurveEndsAtFinal
<1>14. /\ Fees \in Int
       /\ totalFees = Fees + entryFee
       /\ (IF isOpen THEN cashAtEntry ELSE cash) = money + Earned
  BY <1>1, <1>2, <1>5, FeesType DEF LedgerAddsUp
<1>15. CASE isOpen
  <2>1. trades' = Append(trades, r)
    BY <1>1, <1>15
  <2>2. totalFees' = Fees'
    BY <1>1, <1>5, <1>7, <1>14, <2>1, FeesListed
  <2>3. Earned' = Earned
    <3>1. Earned \in Int /\ Earned' = Earned + 0
      BY <1>5, <1>7, <2>1, EarnedListed
    <3> QED
      BY <3>1
  <2>4. LedgerAddsUp'
    <3>1. Fees' \in Int
      BY <1>1, <1>5, <2>2
    <3> QED
      BY <1>1, <1>14, <2>2, <2>3, <3>1 DEF LedgerAddsUp
  <2>5. TradesPay'
    <3>1. ClosedTrades' = 1..n
      BY <1>5, <1>7, <2>1, EarnedListed
    <3>2. ASSUME NEW k \in 1..n
          PROVE  TradePays(k)'
      BY <1>1, <1>2, <1>5, <1>7, <2>1, <3>2, OldTradesPay
    <3> QED
      BY <3>1, <3>2 DEF TradesPay
  <2> QED
    BY <1>8, <1>9, <1>10, <1>11, <1>12, <1>13, <2>4, <2>5 DEF BacktestInv
<1>16. CASE ~isOpen
  <2>1. trades' = trades
    BY <1>1, <1>16
  <2>2. Fees' = Fees /\ Earned' = Earned
    BY <2>1, SumsStay
  <2>3. LedgerAddsUp'
    <3>1. totalFees' = Fees' + 0
      BY <1>1, <1>4, <1>14, <1>16, <2>2
    <3> QED
      BY <1>1, <1>14, <2>2, <3>1 DEF LedgerAddsUp
  <2>4. TradesPay'
    BY <1>1, <1>2, <2>1, TradesStay
  <2> QED
    BY <1>8, <1>9, <1>10, <1>11, <1>12, <1>13, <2>3, <2>4 DEF BacktestInv
<1> QED
  BY <1>15, <1>16

LEMMA BacktestStep == BacktestInv /\ [Next]_vars => BacktestInv'
BY StutterStep, PrepareStep, BuyStep, SellStep, HoldStep, ReturnStep DEF Next

LEMMA BacktestHolds == Spec => []BacktestInv
BY InitInv, BacktestStep, PTL DEF Spec

-----------------------------------------------------------------------------
(* The theorems. *)

(* The loop of simulate stays within the candles, and the money and the
   quantities are never negative. *)
THEOREM TypeCorrectness == Spec => []TypeOK
<1>1. BacktestInv => TypeOK
  <2> SUFFICES ASSUME Types
               PROVE  TypeOK
    BY DEF BacktestInv
  <2>1. candles \in Histories
    BY DEF Types
  <2>2. candles \in Seq(Candle)
    BY <2>1, HistoryIs
  <2> QED
    BY <2>2 DEF Types, TypeOK
<1> QED
  BY <1>1, BacktestHolds, PTL

(* The position of a candle does not depend on its own close or a later one:
   sma_crossover is shifted by one candle. *)
THEOREM SignalIsBlind == Spec => []NoLookAhead
<1>1. BacktestInv => NoLookAhead
  <2> SUFFICES ASSUME BacktestInv, NEW t \in DOMAIN candles, NEW price \in Prices, NEW u \in 1..t
               PROVE  Position([candles EXCEPT ![t].close = price], windows, u)
                         = Position(candles, windows, u)
    BY DEF NoLookAhead
  <2>1. candles \in Histories /\ windows \in Windows
    BY DEF BacktestInv, Types
  <2> QED
    BY <2>1, PositionIsBlind
<1> QED
  BY <1>1, BacktestHolds, PTL

(* The trade of simulate is open exactly while the position is 1, with all of
   the cash in it. *)
THEOREM LoopFollowsSignal == Spec => []FollowsSignal
<1>1. BacktestInv => FollowsSignal
  BY DEF BacktestInv
<1> QED
  BY <1>1, BacktestHolds, PTL

(* The running totals of simulate and its list of trades tell the same. *)
THEOREM LedgerAlwaysAddsUp == Spec => []LedgerAddsUp
<1>1. BacktestInv => LedgerAddsUp
  BY DEF BacktestInv
<1> QED
  BY <1>1, BacktestHolds, PTL

(* No closed trade and no benchmark is spared its fees and slippage, whatever
   the rounding of the quantity. *)
THEOREM NothingEscapesCosts == Spec => []CostsNeverPay
<1>1. BacktestInv => CostsNeverPay
  BY CostsAre DEF BacktestInv
<1> QED
  BY <1>1, BacktestHolds, PTL

(* Nothing but what less than a lot would cost is dropped between two trades, in
   any of them and in the benchmark, for any lot. *)
THEOREM OnlyRoundingLoses == Spec => []OnlyDustIsDropped
<1>1. BacktestInv => OnlyDustIsDropped
  BY CostsAre DEF BacktestInv
<1> QED
  BY <1>1, BacktestHolds, PTL

(* The equity curve ends at the final equity of the result. *)
THEOREM CurveMeetsResult == Spec => []CurveEndsAtFinal
<1>1. BacktestInv => CurveEndsAtFinal
  BY DEF BacktestInv
<1> QED
  BY <1>1, BacktestHolds, PTL

-----------------------------------------------------------------------------
(* The command and its sweeps. *)

(* The segments of a sweep are those of the candles of the symbol in hand. *)
SegmentsAre ==
    /\ phase = "running" => ~sweep /\ counts[symbol] \in 1..MaxCandles
    /\ phase = "sweeping" =>
          /\ sweep
          /\ counts[symbol] \in 1..MaxCandles
          /\ isLength = FirstSegment(counts[symbol])
          /\ oosLength = counts[symbol] - isLength

(* The results are of the combinations that fit, out of those looked at. *)
ResultsAre ==
    /\ \A k \in DOMAIN results : results[k].combo < next /\ ~Skipped(results[k].combo)
    /\ \A c \in DOMAIN Grid : c < next /\ ~Skipped(c) =>
          \E k \in DOMAIN results : results[k].combo = c

(* What each stage of run_sweep has done. *)
StageIs ==
    /\ stage # "idle" <=> phase = "sweeping"
    /\ stage \in {"idle", "tuning"} => best = 0
    /\ stage \in {"evaluating", "returned"} => next = Len(Grid) + 1 /\ best \in DOMAIN results
    /\ stage = "returned" => Slow(results[best].combo) <= oosLength

SweepInv ==
    /\ SegmentsAre
    /\ ResultsAre
    /\ StageIs
    /\ RankingExplainsBest

(* The symbols that are done with, and those that have a report. *)
Done == IF phase = "exited" THEN Places ELSE 1..symbol - 1
Told == {reports[k].at : k \in DOMAIN reports}

(* What the report of a sweep says of the candles of its symbol. *)
FitsCandles(r, count) ==
    LET n == FirstSegment(count)
    IN  /\ r.rows = {c \in DOMAIN Grid : Fast(c) < Slow(c) /\ Slow(c) <= n}
        /\ r.combo \in r.rows
        /\ Slow(r.combo) <= count - n

(* Every symbol that is done with is accounted for. *)
Accounts ==
    /\ phase # "exited" => exit = Nothing
    /\ exit # 2 =>
          /\ Told \subseteq Done /\ failures \subseteq Done
          /\ \A s \in Done : s \in Told \/ s \in failures \/ counts[s] = 0
          /\ Told \cap failures = {}
          /\ \A s \in Told : counts[s] # 0
          /\ \A k \in DOMAIN reports : k > 1 => reports[k - 1].at < reports[k].at
          /\ sweep => \A k \in DOMAIN reports : FitsCandles(reports[k], counts[reports[k].at])
          /\ phase = "exited" => printed = reports /\ (exit = 0 => failures = {})

CommandInv ==
    /\ CommandTypeOK
    /\ SweepInv
    /\ Accounts

LEMMA GridIs ==
    /\ Len(Grid) \in Nat
    /\ DOMAIN Grid = 1..Len(Grid)
    /\ \A c \in DOMAIN Grid : Fast(c) \in Nat /\ Slow(c) \in Nat
<1>1. Grid \in Seq(Nat \X Nat)
  BY SweepAssumption
<1>2. Len(Grid) \in Nat /\ DOMAIN Grid = 1..Len(Grid)
  BY <1>1
<1>3. \A c \in DOMAIN Grid : Grid[c] \in Nat \X Nat
  BY <1>1
<1> QED
  BY <1>2, <1>3 DEF Fast, Slow

LEMMA ArgumentsAre ==
    /\ Arguments \in Nat /\ Arguments > 0 /\ MaxCandles \in Nat
    /\ Nothing \notin Int /\ NoSharpe \notin Int /\ Sharpes \subseteq Int
<1>1. Arguments \in Nat \ {0} /\ Nothing \notin Int
  BY CommandAssumption
<1>2. MaxCandles \in Nat /\ NoSharpe \notin Int /\ Sharpes \subseteq Int
  BY SweepAssumption
<1> QED
  BY <1>1, <1>2

(* split_chronological cuts within the candles. *)
LEMMA FirstSegmentIs ==
    ASSUME NEW n \in Nat
    PROVE  FirstSegment(n) \in 0..n
<1>1. RatioDen \in Nat /\ RatioDen > 0 /\ RatioNum \in Nat /\ RatioNum <= RatioDen
  <2>1. RatioDen \in Nat \ {0} /\ RatioNum \in 0..RatioDen
    BY SweepAssumption
  <2> QED
    BY <2>1
<1> DEFINE a == n * RatioNum
           q == a \div RatioDen
<1>2. a \in Nat /\ a <= n * RatioDen
  BY <1>1
<1> HIDE DEF a
<1>3. q \in Nat /\ q * RatioDen <= a
  BY <1>1, <1>2, Division
<1> HIDE DEF q
<1>4. ~ (q > n)
  <2>1. q > n => q * RatioDen >= (n + 1) * RatioDen
    BY <1>1, <1>3
  <2>2. (n + 1) * RatioDen > n * RatioDen
    BY <1>1
  <2>3. q * RatioDen \in Nat /\ (n + 1) * RatioDen \in Nat /\ n * RatioDen \in Nat
    BY <1>1, <1>3
  <2> QED
    BY <1>2, <1>3, <2>1, <2>2, <2>3
<1> QED
  BY <1>3, <1>4 DEF FirstSegment, q, a

(* What a combination of the grid has returned. *)
Result == [combo : DOMAIN Grid, metrics : Metrics]

LEMMA ResultIs ==
    ASSUME results \in Seq(Result)
    PROVE  /\ Len(results) \in Nat
           /\ DOMAIN results = 1..Len(results)
           /\ \A k \in DOMAIN results :
                 /\ results[k].combo \in DOMAIN Grid
                 /\ results[k].metrics.trades \in Nat
                 /\ \/ results[k].metrics.sharpe \in Int
                    \/ results[k].metrics.sharpe = NoSharpe
<1>1. Len(results) \in Nat /\ DOMAIN results = 1..Len(results)
  OBVIOUS
<1>2. \A k \in DOMAIN results : results[k] \in Result
  OBVIOUS
<1>3. \A r \in Result : /\ r.combo \in DOMAIN Grid
                        /\ r.metrics.trades \in Nat
                        /\ r.metrics.sharpe \in Int \/ r.metrics.sharpe = NoSharpe
  <2>1. \A r \in Result : r.combo \in DOMAIN Grid /\ r.metrics \in Metrics
    BY DEF Result
  <2>2. \A m \in Metrics : m.trades \in Nat /\ (m.sharpe \in Int \/ m.sharpe = NoSharpe)
    <3>1. \A m \in Metrics : m.trades \in 0..MaxCandles /\ m.sharpe \in Sharpes \cup {NoSharpe}
      BY DEF Metrics
    <3>2. Sharpes \subseteq Int /\ 0..MaxCandles \subseteq Nat
      BY ArgumentsAre
    <3> QED
      BY <3>1, <3>2
  <2> QED
    BY <2>1, <2>2
<1> QED
  BY <1>1, <1>2, <1>3

(* The sort key with the place as a tie-breaker orders the results. *)
LEMMA RankingIs ==
    ASSUME results \in Seq(Result),
           NEW j \in DOMAIN results, NEW k \in DOMAIN results, NEW l \in DOMAIN results
    PROVE  /\ ~RankedBefore(k, k)
           /\ RankedBefore(j, k) /\ RankedBefore(k, l) => RankedBefore(j, l)
           /\ j # k => RankedBefore(j, k) \/ RankedBefore(k, j)
<1> DEFINE Sharpe(m) == results[m].metrics.sharpe
<1>1. NoSharpe \notin Int
  BY ArgumentsAre
<1>2. /\ Sharpe(j) \in Int \/ Sharpe(j) = NoSharpe
      /\ Sharpe(k) \in Int \/ Sharpe(k) = NoSharpe
      /\ Sharpe(l) \in Int \/ Sharpe(l) = NoSharpe
      /\ j \in Nat /\ k \in Nat /\ l \in Nat
  BY ResultIs
<1>3. \A m, n : RankedBefore(m, n) <=>
          \/ Sharpe(m) # NoSharpe /\ Sharpe(n) = NoSharpe
          \/ Sharpe(m) # NoSharpe /\ Sharpe(n) # NoSharpe /\ Sharpe(m) > Sharpe(n)
          \/ Sharpe(m) = Sharpe(n) /\ m < n
  BY DEF RankedBefore
<1> HIDE DEF Sharpe
<1>4. ~RankedBefore(k, k)
  BY <1>1, <1>2, <1>3
<1>5. RankedBefore(j, k) /\ RankedBefore(k, l) => RankedBefore(j, l)
  BY <1>1, <1>2, <1>3
<1>6. j # k => RankedBefore(j, k) \/ RankedBefore(k, j)
  BY <1>1, <1>2, <1>3
<1> QED
  BY <1>4, <1>5, <1>6

(* Places are in that order. *)
LEMMA PlaceIs ==
    ASSUME results \in Seq(Result), NEW k \in DOMAIN results
    PROVE  /\ Place(k) \in DOMAIN results
           /\ \A j \in DOMAIN results : RankedBefore(j, k) => Place(j) < Place(k)
<1> DEFINE D == DOMAIN results
           Before(j) == {l \in D : RankedBefore(l, j)}
<1>1. Len(results) \in Nat /\ D = 1..Len(results) /\ IsFiniteSet(D) /\ Cardinality(D) = Len(results)
  <2>1. Len(results) \in Nat /\ D = 1..Len(results)
    BY ResultIs
  <2>2. 1 \in Int /\ Len(results) \in Int
    BY <2>1
  <2>3. /\ IsFiniteSet(1..Len(results))
        /\ Cardinality(1..Len(results)) = IF 1 > Len(results) THEN 0 ELSE Len(results) - 1 + 1
    BY <2>2, FS_Interval
  <2> QED
    BY <2>1, <2>3
<1>2. \A j : Before(j) \in SUBSET D
  OBVIOUS
<1>3. \A j : IsFiniteSet(Before(j)) /\ Cardinality(Before(j)) \in Nat
  BY <1>1, <1>2, FS_Subset, FS_CardinalityType
<1>4. \A j : Place(j) = Cardinality(Before(j)) + 1
  BY DEF Place
<1>5. k \notin Before(k)
  BY RankingIs
<1>6. \A j \in D : RankedBefore(j, k) => Before(j) \subseteq Before(k) /\ j \in Before(k) /\ j \notin Before(j)
  BY RankingIs
<1> HIDE DEF D, Before
<1>7. Cardinality(Before(k)) < Cardinality(D)
  <2>1. /\ Cardinality(Before(k)) <= Cardinality(D)
        /\ Cardinality(D) = Cardinality(Before(k)) => D = Before(k)
    BY <1>1, <1>2, FS_Subset
  <2>2. k \in D
    BY DEF D
  <2> QED
    BY <1>1, <1>3, <1>5, <2>1, <2>2
<1>8. ASSUME NEW j \in D, RankedBefore(j, k)
      PROVE  Cardinality(Before(j)) < Cardinality(Before(k))
  <2>1. Before(j) \in SUBSET Before(k) /\ Before(j) # Before(k)
    BY <1>6, <1>8
  <2>2. /\ Cardinality(Before(j)) <= Cardinality(Before(k))
        /\ Cardinality(Before(k)) = Cardinality(Before(j)) => Before(k) = Before(j)
    BY <1>3, <2>1, FS_Subset
  <2> QED
    BY <1>3, <2>1, <2>2
<1>9. Place(k) \in D
  BY <1>1, <1>3, <1>4, <1>7
<1>10. \A j \in D : RankedBefore(j, k) => Place(j) < Place(k)
  BY <1>3, <1>4, <1>8
<1> QED
  BY <1>9, <1>10 DEF D

(* The list that Choose sorts. *)
SortedResults == [p \in DOMAIN results |-> CHOOSE k \in DOMAIN results : Place(k) = p]

LEMMA SortedIs ==
    ASSUME results \in Seq(Result)
    PROVE  /\ SortedResults \in Seq(DOMAIN results)
           /\ Len(SortedResults) = Len(results)
           /\ ToSet(SortedResults) = DOMAIN results
           /\ \A p, q \in DOMAIN SortedResults :
                 p < q => RankedBefore(SortedResults[p], SortedResults[q])
<1> DEFINE D == DOMAIN results
           f == [k \in D |-> Place(k)]
           s == SortedResults
<1>1. Len(results) \in Nat /\ D = 1..Len(results) /\ IsFiniteSet(D)
  <2>1. Len(results) \in Nat /\ D = 1..Len(results)
    BY ResultIs
  <2>2. 1 \in Int /\ Len(results) \in Int
    BY <2>1
  <2>3. IsFiniteSet(1..Len(results))
    BY <2>2, FS_Interval
  <2> QED
    BY <2>1, <2>3
<1>2. \A k \in D : f[k] = Place(k) /\ Place(k) \in D
  BY PlaceIs
<1>3. \A j, k \in D : j # k => Place(j) # Place(k)
  <2> SUFFICES ASSUME NEW j \in D, NEW k \in D, j # k
               PROVE  Place(j) # Place(k)
    OBVIOUS
  <2>1. RankedBefore(j, k) \/ RankedBefore(k, j)
    BY RankingIs
  <2>2. Place(j) < Place(k) \/ Place(k) < Place(j)
    BY <2>1, PlaceIs
  <2>3. Place(j) \in Nat /\ Place(k) \in Nat
    BY <1>1, <1>2
  <2> QED
    BY <2>2, <2>3
<1> HIDE DEF D, f
<1>4. f \in Injection(D, D)
  <2>1. f \in [D -> D]
    BY <1>2 DEF f
  <2>2. \A j, k \in D : f[j] = f[k] => j = k
    BY <1>2, <1>3
  <2> QED
    BY <2>1, <2>2 DEF Injection, IsInjective
<1>5. f \in Surjection(D, D)
  BY <1>1, <1>4, FS_Injection
<1>6. \A p \in D : \E k \in D : Place(k) = p
  BY <1>2, <1>5 DEF Surjection
<1>7. DOMAIN s = D /\ \A p \in D : s[p] = CHOOSE k \in D : Place(k) = p
  BY DEF SortedResults, D
<1> HIDE DEF s
<1>8. \A p \in D : s[p] \in D /\ Place(s[p]) = p
  BY <1>6, <1>7
<1>9. \A k \in D : s[Place(k)] = k
  BY <1>2, <1>3, <1>8
<1>10. s \in [1..Len(results) -> D]
  <2>1. s = [p \in D |-> s[p]]
    BY DEF s, SortedResults, D
  <2> QED
    BY <1>1, <1>8, <2>1
<1>11. s \in Seq(D) /\ Len(s) = Len(results)
  BY <1>1, <1>10
<1>12. ToSet(s) = D
  <2>1. \A k \in D : \E p \in D : s[p] = k
    BY <1>2, <1>9
  <2>2. ToSet(s) = {s[p] : p \in D}
    BY <1>7 DEF ToSet
  <2> QED
    BY <1>8, <2>1, <2>2
<1>13. ASSUME NEW p \in D, NEW q \in D, p < q
       PROVE  RankedBefore(s[p], s[q])
  <2>1. s[p] \in D /\ s[q] \in D /\ Place(s[p]) = p /\ Place(s[q]) = q
    BY <1>8
  <2>2. p \in Nat /\ q \in Nat
    BY <1>1
  <2>3. s[p] # s[q] /\ ~ (Place(s[q]) < Place(s[p]))
    BY <1>13, <2>1, <2>2
  <2>4. ~ RankedBefore(s[q], s[p])
    BY <2>1, <2>3, PlaceIs DEF D
  <2> QED
    BY <2>1, <2>3, <2>4, RankingIs DEF D
<1> QED
  BY <1>7, <1>11, <1>12, <1>13 DEF s, D

(* Some result comes before the others of a set, and max finds it among those
   that are eligible. *)
LEMMA BestIs ==
    ASSUME results \in Seq(Result),
           NEW E \in SUBSET DOMAIN results, E # {},
           \A k \in E : results[k].metrics.sharpe # NoSharpe
    PROVE  /\ BestOf(E) \in E
           /\ \A j \in E : ~RankedBefore(j, BestOf(E))
<1> DEFINE Taken == {Place(k) : k \in E}
           Sharpe(k) == results[k].metrics.sharpe
           IsBest(k) == \A j \in E : \/ Sharpe(j) < Sharpe(k)
                                     \/ Sharpe(j) = Sharpe(k) /\ k <= j
<1>1. DOMAIN results \subseteq Nat /\ \A k \in E : Sharpe(k) \in Int
  BY ResultIs
<1>2. PICK m \in Taken : \A t \in Taken : m <= t
  <2>1. Taken \subseteq Nat /\ Taken # {}
    BY <1>1, PlaceIs
  <2> HIDE DEF Taken
  <2> QED
    BY <2>1, LeastExists
<1>3. PICK k \in E : m = Place(k)
  OBVIOUS
<1>4. \A j \in E : ~RankedBefore(j, k)
  <2> SUFFICES ASSUME NEW j \in E, RankedBefore(j, k)
               PROVE  FALSE
    OBVIOUS
  <2>1. Place(j) < Place(k)
    BY PlaceIs
  <2>2. Place(j) \in Taken
    OBVIOUS
  <2>3. m <= Place(j)
    <3> HIDE DEF Taken
    <3> QED
      BY <1>2, <2>2
  <2>4. Place(j) \in Nat /\ Place(k) \in Nat
    BY <1>1, PlaceIs
  <2> QED
    BY <1>3, <2>1, <2>3, <2>4
<1>5. NoSharpe \notin Int
  BY ArgumentsAre
<1>6. ASSUME NEW a \in E
      PROVE  IsBest(a) <=> \A j \in E : ~RankedBefore(j, a)
  <2>1. ASSUME NEW j \in E
        PROVE  ~RankedBefore(j, a) <=> (Sharpe(j) < Sharpe(a) \/ (Sharpe(j) = Sharpe(a) /\ a <= j))
    <3>1. Sharpe(j) \in Int /\ Sharpe(a) \in Int /\ j \in Nat /\ a \in Nat
          /\ Sharpe(j) # NoSharpe /\ Sharpe(a) # NoSharpe
      BY <1>1
    <3>2. RankedBefore(j, a) <=> Sharpe(j) > Sharpe(a) \/ (Sharpe(j) = Sharpe(a) /\ j < a)
      BY <3>1 DEF RankedBefore
    <3> HIDE DEF Sharpe
    <3> QED
      BY <3>1, <3>2
  <2> HIDE DEF Sharpe
  <2> QED
    BY <2>1
<1>7. BestOf(E) = CHOOSE a \in E : IsBest(a)
  BY DEF BestOf
<1> HIDE DEF IsBest
<1>8. IsBest(k)
  BY <1>4, <1>6
<1>9. BestOf(E) \in E /\ IsBest(BestOf(E))
  BY <1>7, <1>8
<1> QED
  BY <1>6, <1>9


(* What every state has, written out. *)
LEMMA CommandIs ==
    ASSUME CommandTypeOK
    PROVE  /\ symbol \in Places /\ symbol \in Nat /\ symbol > 0 /\ symbol <= Arguments
           /\ results \in Seq(Result)
           /\ next \in Nat /\ next > 0 /\ next <= Len(Grid) + 1
           /\ isLength \in Nat /\ oosLength \in Nat
           /\ reports \in Seq(Reports) /\ printed \in Seq(Reports)
<1>1. symbol \in Places /\ reports \in Seq(Reports) /\ printed \in Seq(Reports)
  BY DEF CommandTypeOK
<1>2. symbol \in Nat /\ symbol > 0 /\ symbol <= Arguments
  BY <1>1, ArgumentsAre DEF Places
<1>3. results \in Seq(Result)
  BY DEF CommandTypeOK, SweepTypeOK, Result
<1>4. next \in 1..Len(Grid) + 1
  BY DEF CommandTypeOK, SweepTypeOK
<1>5. next \in Nat /\ next > 0 /\ next <= Len(Grid) + 1
  BY <1>4, GridIs
<1>6. isLength \in 0..MaxCandles /\ oosLength \in 0..MaxCandles
  BY DEF CommandTypeOK, SweepTypeOK
<1> QED
  BY <1>1, <1>2, <1>3, <1>5, <1>6, ArgumentsAre

(* Between two calls of run_sweep nothing is kept. *)
LEMMA LeaveStep ==
    ASSUME Leave, phase' \in {"reading", "exited"}
    PROVE  SweepTypeOK' /\ SweepInv'
<1>1. /\ isLength' = 0 /\ oosLength' = 0 /\ isRefused' = FALSE /\ oosRefused' = FALSE
      /\ stage' = "idle" /\ next' = 1 /\ results' = <<>> /\ ranked' = <<>> /\ best' = 0
  BY DEF Leave
<1>2. SweepTypeOK'
  <2>1. 0 \in 0..MaxCandles /\ 1 \in 1..Len(Grid) + 1
    BY ArgumentsAre, GridIs
  <2>2. results' \in Seq(Result)' /\ ranked' \in Seq(DOMAIN results')
    BY <1>1
  <2> QED
    BY <1>1, <2>1, <2>2 DEF SweepTypeOK, Result
<1>3. SegmentsAre'
  BY DEF SegmentsAre
<1>4. ResultsAre'
  BY <1>1, GridIs DEF ResultsAre
<1>5. StageIs' /\ RankingExplainsBest'
  BY <1>1 DEF StageIs, RankingExplainsBest
<1> QED
  BY <1>2, <1>3, <1>4, <1>5 DEF SweepInv

(* A symbol is done with: it had no candles, or failed, or has its report. *)
LEMMA SymbolDone ==
    ASSUME CommandInv, phase \in {"reading", "running", "sweeping"}, NextSymbol,
           counts' \in [Places -> 0..MaxCandles \cup {Nothing}],
           \A s \in Places : s # symbol => counts'[s] = counts[s],
           \/ reports' = reports /\ failures' = failures /\ counts'[symbol] = 0
           \/ reports' = reports /\ failures' = failures \cup {symbol}
           \/ /\ failures' = failures /\ counts'[symbol] # 0
              /\ \E r \in Reports : /\ r.at = symbol
                                    /\ reports' = Append(reports, r)
                                    /\ sweep => FitsCandles(r, counts'[symbol])
    PROVE  CommandInv'
<1> DEFINE n == Len(reports)
<1>1. /\ CommandTypeOK /\ Accounts
      /\ Leave /\ sweep' = sweep /\ pair' = pair
  BY DEF CommandInv, NextSymbol, options
<1>2. /\ symbol \in Places /\ symbol \in Nat /\ symbol > 0 /\ symbol <= Arguments
      /\ reports \in Seq(Reports) /\ printed \in Seq(Reports)
      /\ failures \in SUBSET Places
  BY <1>1, CommandIs DEF CommandTypeOK
<1>3. \/ symbol < Arguments /\ symbol' = symbol + 1 /\ phase' = "reading" /\ printed' = printed /\ exit' = exit
      \/ symbol = Arguments /\ symbol' = symbol /\ phase' = "exited" /\ printed' = reports'
         /\ exit' = IF failures' = {} THEN 0 ELSE 1
  BY <1>2, ArgumentsAre DEF NextSymbol
<1>4. exit = Nothing /\ exit # 2
  BY <1>1, ArgumentsAre DEF Accounts
<1>5. Done = 1..symbol - 1
  BY DEF Done
<1>6. Done' = 1..symbol
  <2>1. CASE symbol' = symbol + 1 /\ phase' = "reading"
    <3>1. (symbol + 1) - 1 = symbol
      BY <1>2
    <3> QED
      BY <2>1, <3>1 DEF Done
  <2>2. CASE symbol = Arguments /\ phase' = "exited"
    BY <2>2 DEF Done, Places
  <2> QED
    BY <1>3, <2>1, <2>2
<1>7. reports' \in Seq(Reports)
  <2>1. reports \in Seq(Reports)
    BY <1>2
  <2>2. ASSUME NEW r \in Reports
        PROVE  Append(reports, r) \in Seq(Reports)
    BY <2>1
  <2>3. reports' = reports \/ \E r \in Reports : reports' = Append(reports, r)
    OBVIOUS
  <2> QED
    BY <2>1, <2>2, <2>3
<1>8. failures' \in SUBSET Places
  BY <1>2
<1>9. SweepTypeOK' /\ SweepInv'
  BY <1>1, <1>3, LeaveStep
<1>10. CommandTypeOK'
  <2>1. symbol' \in Places
    BY <1>2, <1>3, ArgumentsAre DEF Places
  <2>2. exit' \in {Nothing, 0, 1, 2}
    BY <1>3, <1>4
  <2>3. {reports', printed'} \subseteq Seq(Reports)
    BY <1>2, <1>3, <1>7
  <2>4. phase' \in {"starting", "reading", "running", "sweeping", "exited"}
    BY <1>3
  <2>5. sweep' \in BOOLEAN /\ pair' \in DOMAIN Grid
    BY <1>1 DEF CommandTypeOK
  <2> QED
    BY <1>8, <1>9, <2>1, <2>2, <2>3, <2>4, <2>5 DEF CommandTypeOK, Reports, Places
<1>11. /\ Told \subseteq Done /\ failures \subseteq Done
       /\ \A s \in Done : s \in Told \/ s \in failures \/ counts[s] = 0
       /\ Told \cap failures = {}
       /\ \A s \in Told : counts[s] # 0
       /\ \A k \in DOMAIN reports : k > 1 => reports[k - 1].at < reports[k].at
       /\ sweep => \A k \in DOMAIN reports : FitsCandles(reports[k], counts[reports[k].at])
  BY <1>1, <1>4 DEF Accounts
<1>12. \A s \in Done : s \in Places /\ s # symbol /\ counts'[s] = counts[s]
  <2>1. \A s \in Done : s \in Places /\ s # symbol
    BY <1>2, <1>5, ArgumentsAre DEF Places
  <2> QED
    BY <2>1
<1>13. symbol \notin Told /\ symbol \notin failures
  BY <1>11, <1>12
<1>14. \A s \in Done' : s \in Done \/ s = symbol
  BY <1>2, <1>5, <1>6
<1>15. Done \subseteq Done' /\ symbol \in Done'
  BY <1>2, <1>5, <1>6
<1>16. n \in Nat /\ DOMAIN reports = 1..n /\ \A k \in 1..n : reports[k].at \in Told
  BY <1>2 DEF Told
<1> HIDE DEF n
<1>17. phase' # "exited" => exit' = Nothing
  BY <1>3, <1>4
<1>18. phase' = "exited" => printed' = reports' /\ (exit' = 0 => failures' = {})
  BY <1>3
<1>19. CASE reports' = reports
  <2>1. Told' = Told
    BY <1>19 DEF Told
  <2>2. \/ failures' = failures /\ counts'[symbol] = 0
        \/ failures' = failures \cup {symbol}
    <3>1. reports \in Seq(Reports)
      BY <1>2
    <3>2. ASSUME NEW r \in Reports
          PROVE  Append(reports, r) # reports
      <4>1. Len(Append(reports, r)) = Len(reports) + 1 /\ Len(reports) \in Nat
        BY <3>1
      <4> QED
        BY <4>1
    <3> QED
      BY <1>19, <3>2
  <2>3. Told' \subseteq Done' /\ failures' \subseteq Done'
    BY <1>11, <1>15, <2>1, <2>2
  <2>4. \A s \in Done' : s \in Told' \/ s \in failures' \/ counts'[s] = 0
    BY <1>11, <1>12, <1>14, <2>1, <2>2
  <2>5. Told' \cap failures' = {}
    BY <1>11, <1>13, <2>1, <2>2
  <2>6. \A s \in Told' : counts'[s] # 0
    BY <1>11, <1>12, <2>1
  <2>7. \A k \in DOMAIN reports' : k > 1 => reports'[k - 1].at < reports'[k].at
    BY <1>11, <1>19
  <2>8. sweep' => \A k \in DOMAIN reports' : FitsCandles(reports'[k], counts'[reports'[k].at])
    BY <1>1, <1>11, <1>12, <1>16, <1>19
  <2>9. Accounts'
    BY <1>17, <1>18, <2>3, <2>4, <2>5, <2>6, <2>7, <2>8 DEF Accounts, FitsCandles
  <2> QED
    BY <1>9, <1>10, <2>9 DEF CommandInv
<1>20. CASE reports' # reports
  <2>1. PICK r \in Reports : /\ r.at = symbol
                             /\ reports' = Append(reports, r)
                             /\ sweep => FitsCandles(r, counts'[symbol])
    BY <1>20
  <2>2. failures' = failures /\ counts'[symbol] # 0
    BY <1>20
  <2>3. /\ DOMAIN reports' = 1..n + 1
        /\ reports'[n + 1] = r
        /\ \A k \in 1..n : reports'[k] = reports[k]
    <3>1. /\ DOMAIN Append(reports, r) = 1..Len(reports) + 1
          /\ Append(reports, r)[Len(reports) + 1] = r
          /\ \A k \in 1..Len(reports) : Append(reports, r)[k] = reports[k]
      BY <1>2
    <3> QED
      BY <2>1, <3>1 DEF n
  <2>4. \A k \in 1..n + 1 : k \in 1..n \/ k = n + 1
    BY <1>16
  <2>5. 1..n \subseteq 1..n + 1 /\ n + 1 \in 1..n + 1
    BY <1>16
  <2>6. Told' = Told \cup {symbol}
    <3>1. Told = {reports[k].at : k \in 1..n}
      BY <1>16 DEF Told
    <3>2. Told' = {reports'[k].at : k \in 1..n + 1}
      BY <2>3 DEF Told
    <3> QED
      BY <2>1, <2>3, <2>4, <2>5, <3>1, <3>2
  <2>7. Told' \subseteq Done' /\ failures' \subseteq Done'
    BY <1>11, <1>15, <2>2, <2>6
  <2>8. \A s \in Done' : s \in Told' \/ s \in failures' \/ counts'[s] = 0
    BY <1>11, <1>12, <1>14, <2>2, <2>6
  <2>9. Told' \cap failures' = {}
    BY <1>11, <1>13, <2>2, <2>6
  <2>10. \A s \in Told' : counts'[s] # 0
    BY <1>11, <1>12, <2>2, <2>6
  <2>11. \A k \in DOMAIN reports' : k > 1 => reports'[k - 1].at < reports'[k].at
    <3> SUFFICES ASSUME NEW k \in 1..n + 1, k > 1
                 PROVE  reports'[k - 1].at < reports'[k].at
      BY <2>3
    <3>1. k - 1 \in 1..n
      BY <1>16
    <3>2. CASE k \in 1..n
      BY <1>11, <1>16, <2>3, <3>1, <3>2
    <3>3. CASE k = n + 1
      <4>1. reports'[k - 1].at \in Done
        BY <1>11, <1>16, <2>3, <3>1
      <4>2. reports'[k].at = symbol
        BY <2>1, <2>3, <3>3
      <4> QED
        BY <1>2, <1>5, <4>1, <4>2
    <3> QED
      BY <2>4, <3>2, <3>3
  <2>12. sweep' => \A k \in DOMAIN reports' : FitsCandles(reports'[k], counts'[reports'[k].at])
    <3> SUFFICES ASSUME sweep, NEW k \in 1..n + 1
                 PROVE  FitsCandles(reports'[k], counts'[reports'[k].at])
      BY <1>1, <2>3
    <3>1. CASE k \in 1..n
      <4>1. reports'[k] = reports[k] /\ reports[k].at \in Done
        BY <1>11, <1>16, <2>3, <3>1
      <4>2. counts'[reports[k].at] = counts[reports[k].at]
        BY <1>12, <4>1
      <4>3. FitsCandles(reports[k], counts[reports[k].at])
        BY <1>11, <1>16, <3>1
      <4> QED
        BY <4>1, <4>2, <4>3
    <3>2. CASE k = n + 1
      BY <2>1, <2>3, <3>2
    <3> QED
      BY <2>4, <3>1, <3>2
  <2>13. Accounts'
    BY <1>17, <1>18, <2>7, <2>8, <2>9, <2>10, <2>11, <2>12 DEF Accounts, FitsCandles
  <2> QED
    BY <1>9, <1>10, <2>13 DEF CommandInv
<1> QED
  BY <1>19, <1>20


LEMMA CommandInitInv == CommandInit => CommandInv
<1> SUFFICES ASSUME CommandInit
             PROVE  CommandInv
  OBVIOUS
<1>1. /\ phase = "starting" /\ symbol = 1 /\ sweep \in BOOLEAN /\ pair \in DOMAIN Grid
      /\ counts = [s \in Places |-> Nothing] /\ failures = {} /\ reports = <<>>
      /\ printed = <<>> /\ exit = Nothing
      /\ isLength = 0 /\ oosLength = 0 /\ isRefused = FALSE /\ oosRefused = FALSE
      /\ stage = "idle" /\ next = 1 /\ results = <<>> /\ ranked = <<>> /\ best = 0
  BY DEF CommandInit, NoSweep
<1>2. CommandTypeOK
  <2>1. 0 \in 0..MaxCandles /\ 1 \in 1..Len(Grid) + 1 /\ 1 \in Places
    BY ArgumentsAre, GridIs DEF Places
  <2>2. results \in Seq(Result) /\ ranked \in Seq(DOMAIN results)
    BY <1>1
  <2>3. SweepTypeOK
    BY <1>1, <2>1, <2>2 DEF SweepTypeOK, Result
  <2>4. counts \in [Places -> 0..MaxCandles \cup {Nothing}]
    BY <1>1
  <2>5. reports \in Seq(Reports) /\ printed \in Seq(Reports)
    BY <1>1
  <2> QED
    BY <1>1, <2>1, <2>3, <2>4, <2>5 DEF CommandTypeOK
<1>3. SegmentsAre /\ ResultsAre
  BY <1>1, GridIs DEF SegmentsAre, ResultsAre
<1>4. StageIs /\ RankingExplainsBest
  BY <1>1 DEF StageIs, RankingExplainsBest
<1>5. Accounts
  <2>1. DOMAIN reports = {} /\ Told = {} /\ Done = {}
    BY <1>1 DEF Told, Done
  <2> QED
    BY <1>1, <2>1 DEF Accounts
<1> QED
  BY <1>2, <1>3, <1>4, <1>5 DEF CommandInv, SweepInv

LEMMA CommandStutters ==
    ASSUME CommandInv, UNCHANGED allVars
    PROVE  CommandInv'
<1>1. /\ phase' = phase /\ symbol' = symbol /\ sweep' = sweep /\ pair' = pair
      /\ counts' = counts /\ failures' = failures /\ reports' = reports
      /\ printed' = printed /\ exit' = exit
      /\ isLength' = isLength /\ oosLength' = oosLength /\ isRefused' = isRefused /\ oosRefused' = oosRefused
      /\ stage' = stage /\ next' = next /\ results' = results /\ ranked' = ranked /\ best' = best
  BY DEF allVars, commandVars, options, sweepVars, segments
<1>2. CommandTypeOK'
  BY <1>1, Zenon DEF CommandInv, CommandTypeOK, SweepTypeOK
<1>3. SegmentsAre' /\ ResultsAre' /\ StageIs'
  BY <1>1, Zenon DEF CommandInv, SweepInv, SegmentsAre, ResultsAre, StageIs, Skipped
<1>4. RankingExplainsBest'
  BY <1>1, Zenon DEF CommandInv, SweepInv, RankingExplainsBest
<1>5. Accounts'
  BY <1>1, Zenon DEF CommandInv, Accounts, Told, Done
<1> QED
  BY <1>2, <1>3, <1>4, <1>5 DEF CommandInv, SweepInv

(* A step of run_sweep leaves the accounts of main alone. *)
LEMMA AccountsStay ==
    ASSUME Accounts, UNCHANGED commandVars
    PROVE  Accounts'
<1>1. /\ phase' = phase /\ symbol' = symbol /\ sweep' = sweep
      /\ counts' = counts /\ failures' = failures /\ reports' = reports
      /\ printed' = printed /\ exit' = exit
  BY DEF commandVars, options
<1> QED
  BY <1>1, Zenon DEF Accounts, Told, Done

LEMMA StartStep ==
    ASSUME CommandInv, Start
    PROVE  CommandInv'
<1>1. /\ phase = "starting"
      /\ \/ phase' = "reading" /\ exit' = exit
         \/ phase' = "exited" /\ exit' = 2
      /\ symbol' = symbol /\ sweep' = sweep /\ pair' = pair
      /\ counts' = counts /\ failures' = failures /\ reports' = reports
      /\ printed' = printed
      /\ isLength' = isLength /\ oosLength' = oosLength /\ isRefused' = isRefused /\ oosRefused' = oosRefused
      /\ stage' = stage /\ next' = next /\ results' = results /\ ranked' = ranked /\ best' = best
  BY DEF Start, options, sweepVars, segments
<1>2. CommandTypeOK'
  BY <1>1 DEF CommandInv, CommandTypeOK, SweepTypeOK
<1>3. SegmentsAre' /\ ResultsAre' /\ StageIs'
  BY <1>1 DEF CommandInv, SweepInv, SegmentsAre, ResultsAre, StageIs, Skipped
<1>4. RankingExplainsBest'
  BY <1>1, Zenon DEF CommandInv, SweepInv, RankingExplainsBest
<1>5. Accounts'
  <2>1. CASE phase' = "exited" /\ exit' = 2
    BY <2>1 DEF Accounts
  <2>2. CASE phase' = "reading" /\ exit' = exit
    <3>1. Done' = Done /\ Told' = Told
      BY <1>1, <2>2 DEF Done, Told
    <3> QED
      BY <1>1, <2>2, <3>1 DEF CommandInv, Accounts
  <2> QED
    BY <1>1, <2>1, <2>2
<1> QED
  BY <1>2, <1>3, <1>4, <1>5 DEF CommandInv, SweepInv

LEMMA ReadNoneStep ==
    ASSUME CommandInv, ReadNone
    PROVE  CommandInv'
<1>1. /\ phase = "reading" /\ counts' = [counts EXCEPT ![symbol] = 0]
      /\ failures' = failures /\ reports' = reports /\ NextSymbol
  BY DEF ReadNone
<1>2. counts \in [Places -> 0..MaxCandles \cup {Nothing}] /\ symbol \in Places
  BY DEF CommandInv, CommandTypeOK
<1>3. 0 \in 0..MaxCandles
  BY ArgumentsAre
<1>4. /\ counts' \in [Places -> 0..MaxCandles \cup {Nothing}]
      /\ counts'[symbol] = 0
      /\ \A s \in Places : s # symbol => counts'[s] = counts[s]
  BY <1>1, <1>2, <1>3
<1> QED
  BY <1>1, <1>4, SymbolDone

LEMMA FailedStep ==
    ASSUME CommandInv, Failed, UNCHANGED counts, phase \in {"reading", "running", "sweeping"}
    PROVE  CommandInv'
<1>1. failures' = failures \cup {symbol} /\ reports' = reports /\ NextSymbol
  BY DEF Failed
<1>2. /\ counts' \in [Places -> 0..MaxCandles \cup {Nothing}]
      /\ \A s \in Places : s # symbol => counts'[s] = counts[s]
  BY DEF CommandInv, CommandTypeOK
<1> QED
  BY <1>1, <1>2, SymbolDone

LEMMA RunStep ==
    ASSUME CommandInv, Run
    PROVE  CommandInv'
<1>1. phase = "running" /\ UNCHANGED counts /\ (Failed \/ Report(pair, {}))
  BY DEF Run
<1>2. CASE Failed
  BY <1>1, <1>2, FailedStep
<1>3. CASE Report(pair, {})
  <2> DEFINE r == [at |-> symbol, combo |-> pair, rows |-> {}]
  <2>1. reports' = Append(reports, r) /\ failures' = failures /\ NextSymbol
    BY <1>3 DEF Report
  <2>2. /\ counts' \in [Places -> 0..MaxCandles \cup {Nothing}]
        /\ \A s \in Places : s # symbol => counts'[s] = counts[s]
    BY <1>1 DEF CommandInv, CommandTypeOK
  <2>3. ~sweep /\ counts'[symbol] # 0
    <3>1. ~sweep /\ counts[symbol] \in 1..MaxCandles
      BY <1>1 DEF CommandInv, SweepInv, SegmentsAre
    <3> QED
      BY <1>1, <3>1
  <2>4. r \in Reports /\ r.at = symbol
    BY DEF CommandInv, CommandTypeOK, Reports
  <2> HIDE DEF r
  <2> QED
    BY <1>1, <2>1, <2>2, <2>3, <2>4, SymbolDone
<1> QED
  BY <1>1, <1>2, <1>3


(* The accounts when a symbol's candles have been read. *)
LEMMA AccountsRead ==
    ASSUME CommandTypeOK, Accounts, phase = "reading", phase' # "exited",
           NEW n \in 1..MaxCandles, counts' = [counts EXCEPT ![symbol] = n],
           UNCHANGED <<symbol, sweep, failures, reports, printed, exit>>
    PROVE  Accounts'
<1>1. /\ symbol' = symbol /\ sweep' = sweep /\ failures' = failures /\ reports' = reports
      /\ printed' = printed /\ exit' = exit
  OBVIOUS
<1>2. symbol \in Places /\ symbol \in Nat /\ symbol > 0 /\ symbol <= Arguments
  BY CommandIs
<1>3. counts \in [Places -> 0..MaxCandles \cup {Nothing}]
  BY DEF CommandTypeOK
<1>4. Done = 1..symbol - 1 /\ Done' = 1..symbol - 1 /\ Told' = Told
  BY <1>1 DEF Done, Told
<1>5. \A s \in Done : counts'[s] = counts[s]
  <2>1. \A s \in Done : s \in Places /\ s # symbol
    BY <1>2, <1>4, ArgumentsAre DEF Places
  <2> QED
    BY <1>3, <2>1
<1>6. exit = Nothing /\ exit # 2
  BY ArgumentsAre DEF Accounts
<1>7. /\ Told \subseteq Done /\ failures \subseteq Done
      /\ \A s \in Done : s \in Told \/ s \in failures \/ counts[s] = 0
      /\ Told \cap failures = {}
      /\ \A s \in Told : counts[s] # 0
      /\ \A k \in DOMAIN reports : k > 1 => reports[k - 1].at < reports[k].at
      /\ sweep => \A k \in DOMAIN reports : FitsCandles(reports[k], counts[reports[k].at])
  BY <1>6 DEF Accounts
<1>8. \A k \in DOMAIN reports : reports[k].at \in Told
  BY DEF Told
<1>9. \A k \in DOMAIN reports : counts'[reports[k].at] = counts[reports[k].at]
  BY <1>5, <1>7, <1>8
<1>10. sweep => \A k \in DOMAIN reports : FitsCandles(reports[k], counts'[reports[k].at])
  BY <1>7, <1>9
<1>11. /\ \A s \in Done : s \in Told \/ s \in failures \/ counts'[s] = 0
       /\ \A s \in Told : counts'[s] # 0
  BY <1>5, <1>7
<1>12. Done' = Done
  BY <1>4
<1> QED
  BY <1>1, <1>4, <1>6, <1>7, <1>10, <1>11, <1>12 DEF Accounts, FitsCandles

LEMMA ReadStep ==
    ASSUME CommandInv, Read
    PROVE  CommandInv'
<1>1. PICK n \in 1..MaxCandles :
          /\ counts' = [counts EXCEPT ![symbol] = n]
          /\ IF sweep THEN phase' = "sweeping" /\ Split(n)
                      ELSE phase' = "running" /\ UNCHANGED sweepVars
  BY DEF Read
<1>2. /\ phase = "reading" /\ symbol' = symbol /\ sweep' = sweep /\ pair' = pair
      /\ failures' = failures /\ reports' = reports /\ printed' = printed /\ exit' = exit
  BY DEF Read, options
<1>3. CommandTypeOK /\ SweepInv /\ Accounts /\ sweep \in BOOLEAN
  BY DEF CommandInv, CommandTypeOK
<1>4. counts \in [Places -> 0..MaxCandles \cup {Nothing}] /\ symbol \in Places
  BY <1>3 DEF CommandTypeOK
<1>5. n \in Nat /\ n > 0 /\ n <= MaxCandles
  BY ArgumentsAre
<1>6. /\ counts' \in [Places -> 0..MaxCandles \cup {Nothing}]
      /\ counts'[symbol'] = n
  <2>1. n \in 0..MaxCandles
    BY <1>5, ArgumentsAre
  <2> QED
    BY <1>1, <1>2, <1>4, <2>1
<1>7. Accounts'
  <2>1. phase' # "exited"
    BY <1>1, <1>3
  <2> QED
    BY <1>1, <1>2, <1>3, <2>1, AccountsRead
<1>8. CASE sweep
  <2>1. phase' = "sweeping" /\ Split(n)
    BY <1>1, <1>8
  <2>2. /\ isLength' = FirstSegment(n) /\ oosLength' = n - isLength'
        /\ isRefused' \in BOOLEAN /\ oosRefused' \in BOOLEAN
        /\ stage' = "tuning" /\ next' = 1 /\ results' = <<>> /\ ranked' = <<>> /\ best' = 0
    BY <2>1 DEF Split, FirstSegment
  <2>3. isLength' \in 0..MaxCandles /\ oosLength' \in 0..MaxCandles
    <3>1. FirstSegment(n) \in 0..n
      BY <1>5, FirstSegmentIs
    <3> QED
      BY <1>5, <2>2, <3>1, ArgumentsAre
  <2>4. SweepTypeOK'
    <3>1. 1 \in 1..Len(Grid) + 1
      BY GridIs
    <3>2. results' \in Seq(Result) /\ ranked' \in Seq(DOMAIN results')
      BY <2>2
    <3> QED
      BY <2>2, <2>3, <3>1, <3>2 DEF SweepTypeOK, Result
  <2>5. CommandTypeOK'
    BY <1>2, <1>3, <1>6, <2>1, <2>4 DEF CommandTypeOK, Reports, Places
  <2>6. SegmentsAre'
    BY <1>2, <1>6, <1>8, <2>1, <2>2 DEF SegmentsAre, FirstSegment
  <2>7. ResultsAre'
    BY <2>2, GridIs DEF ResultsAre
  <2>8. StageIs' /\ RankingExplainsBest'
    BY <2>1, <2>2 DEF StageIs, RankingExplainsBest
  <2> QED
    BY <1>7, <2>5, <2>6, <2>7, <2>8 DEF CommandInv, SweepInv
<1>9. CASE ~sweep
  <2>1. /\ phase' = "running"
        /\ isLength' = isLength /\ oosLength' = oosLength /\ isRefused' = isRefused /\ oosRefused' = oosRefused
        /\ stage' = stage /\ next' = next /\ results' = results /\ ranked' = ranked /\ best' = best
    BY <1>1, <1>9 DEF sweepVars, segments
  <2>2. CommandTypeOK'
    BY <1>2, <1>3, <1>6, <2>1 DEF CommandTypeOK, SweepTypeOK, Reports, Places
  <2>3. SegmentsAre' /\ ResultsAre' /\ StageIs'
    BY <1>2, <1>3, <1>6, <1>9, <2>1 DEF SweepInv, SegmentsAre, ResultsAre, StageIs, Skipped
  <2>4. RankingExplainsBest'
    BY <1>3, <2>1, Zenon DEF SweepInv, RankingExplainsBest
  <2> QED
    BY <1>7, <2>2, <2>3, <2>4 DEF CommandInv, SweepInv
<1> QED
  BY <1>3, <1>8, <1>9

LEMMA WiderSeq ==
    ASSUME NEW A, NEW B, A \subseteq B, NEW s \in Seq(A)
    PROVE  s \in Seq(B)
<1>1. Len(s) \in Nat /\ s \in [1..Len(s) -> A]
  OBVIOUS
<1>2. s \in [1..Len(s) -> B]
  BY <1>1
<1> QED
  BY <1>1, <1>2

(* The loop over the grid. *)
LEMMA TuneStep ==
    ASSUME CommandInv, phase = "sweeping", Tune, UNCHANGED commandVars
    PROVE  CommandInv'
<1>1. /\ stage = "tuning" /\ next <= Len(Grid)
      /\ isLength' = isLength /\ oosLength' = oosLength /\ isRefused' = isRefused /\ oosRefused' = oosRefused
      /\ ranked' = ranked /\ best' = best
  BY DEF Tune, segments
<1>2. /\ phase' = phase /\ symbol' = symbol /\ sweep' = sweep /\ pair' = pair
      /\ counts' = counts /\ failures' = failures /\ reports' = reports
      /\ printed' = printed /\ exit' = exit
  BY DEF commandVars, options
<1>3. /\ CommandTypeOK /\ SweepTypeOK /\ SegmentsAre /\ ResultsAre /\ StageIs /\ Accounts
  BY DEF CommandInv, CommandTypeOK, SweepInv
<1>4. /\ next \in Nat /\ next > 0 /\ next \in DOMAIN Grid /\ Len(Grid) \in Nat
      /\ results \in Seq(Result)
      /\ best = 0
  BY <1>1, <1>3, CommandIs, GridIs DEF StageIs
<1>5. Accounts'
  BY <1>3, AccountsStay
<1>6. SegmentsAre'
  BY <1>1, <1>2, <1>3 DEF SegmentsAre
<1>7. RankingExplainsBest'
  BY <1>1, <1>4 DEF RankingExplainsBest
<1>8. \A c : Skipped(c)' <=> Skipped(c)
  BY <1>1 DEF Skipped
<1>9. \A k \in DOMAIN results : results[k].combo \in DOMAIN Grid
  BY <1>4, ResultIs
<1>10. CASE Skipped(next) /\ next' = next + 1 /\ UNCHANGED <<stage, results>>
  <2>1. /\ next' = next + 1 /\ stage' = stage /\ results' = results
    BY <1>10
  <2>2. CommandTypeOK'
    <3>1. next' \in 1..Len(Grid) + 1
      BY <1>1, <1>4, <2>1
    <3>2. SweepTypeOK'
      BY <1>1, <1>3, <2>1, <3>1 DEF SweepTypeOK
    <3> QED
      BY <1>2, <1>3, <3>2 DEF CommandTypeOK
  <2>3. ResultsAre'
    <3>1. \A k \in DOMAIN results : results[k].combo < next + 1 /\ ~Skipped(results[k].combo)
      BY <1>3, <1>4, <1>9, GridIs DEF ResultsAre
    <3>2. \A c \in DOMAIN Grid : c < next + 1 /\ ~Skipped(c) => c < next
      BY <1>4, <1>10, GridIs
    <3>3. \A c \in DOMAIN Grid : c < next + 1 /\ ~Skipped(c) =>
             \E k \in DOMAIN results : results[k].combo = c
      BY <1>3, <3>2 DEF ResultsAre
    <3> QED
      BY <1>8, <2>1, <3>1, <3>3 DEF ResultsAre
  <2>4. StageIs'
    BY <1>1, <1>2, <1>3, <2>1 DEF StageIs
  <2> QED
    BY <1>5, <1>6, <1>7, <2>2, <2>3, <2>4 DEF CommandInv, SweepInv
<1>11. CASE ~Skipped(next) /\ Raises(next, isLength, isRefused) /\ stage' = "raised" /\ UNCHANGED <<next, results>>
  <2>1. next' = next /\ stage' = "raised" /\ results' = results
    BY <1>11
  <2>2. CommandTypeOK'
    <3>1. SweepTypeOK'
      BY <1>1, <1>3, <2>1 DEF SweepTypeOK
    <3> QED
      BY <1>2, <1>3, <3>1 DEF CommandTypeOK
  <2>3. ResultsAre'
    BY <1>3, <1>8, <2>1 DEF ResultsAre
  <2>4. StageIs'
    BY <1>1, <1>2, <1>3, <2>1 DEF StageIs
  <2> QED
    BY <1>5, <1>6, <1>7, <2>2, <2>3, <2>4 DEF CommandInv, SweepInv
<1>12. CASE /\ ~Skipped(next)
            /\ \E m \in MetricsOf(next) : results' = Append(results, [combo |-> next, metrics |-> m])
            /\ next' = next + 1
            /\ UNCHANGED stage
  <2>1. PICK m \in MetricsOf(next) : results' = Append(results, [combo |-> next, metrics |-> m])
    BY <1>12
  <2> DEFINE r == [combo |-> next, metrics |-> m]
             n == Len(results)
  <2>2. r \in Result /\ r.combo = next
    BY <1>4 DEF Result, MetricsOf
  <2>3. results' = Append(results, r) /\ next' = next + 1 /\ stage' = stage
    BY <1>12, <2>1
  <2> HIDE DEF r
  <2>4. /\ DOMAIN Append(results, r) = 1..n + 1
        /\ Append(results, r)[n + 1] = r
        /\ \A k \in 1..n : Append(results, r)[k] = results[k]
        /\ Append(results, r) \in Seq(Result)
        /\ n \in Nat /\ DOMAIN results = 1..n
    BY <1>4, <2>2
  <2> HIDE DEF n
  <2>5. \A k \in 1..n + 1 : k \in 1..n \/ k = n + 1
    BY <2>4
  <2>6. 1..n \subseteq 1..n + 1 /\ n + 1 \in 1..n + 1
    BY <2>4
  <2>7. CommandTypeOK'
    <3>1. next' \in 1..Len(Grid) + 1
      BY <1>1, <1>4, <2>3
    <3>2. ranked' \in Seq(DOMAIN results')
      <4>1. ranked \in Seq(1..n)
        BY <1>3, <2>4 DEF SweepTypeOK
      <4>2. ranked \in Seq(1..n + 1)
        BY <2>6, <4>1, WiderSeq
      <4> QED
        BY <1>1, <2>3, <2>4, <4>2
    <3>3. best' \in {0} \cup DOMAIN results'
      BY <1>1, <1>4
    <3>4. SweepTypeOK'
      BY <1>1, <1>3, <2>3, <2>4, <3>1, <3>2, <3>3 DEF SweepTypeOK, Result
    <3> QED
      BY <1>2, <1>3, <3>4 DEF CommandTypeOK
  <2>8. ResultsAre'
    <3>1. \A k \in DOMAIN results' : results'[k].combo < next + 1 /\ ~Skipped(results'[k].combo)
      <4> SUFFICES ASSUME NEW k \in 1..n + 1
                   PROVE  results'[k].combo < next + 1 /\ ~Skipped(results'[k].combo)
        BY <2>3, <2>4
      <4>1. CASE k \in 1..n
        <5>1. results'[k] = results[k] /\ results[k].combo \in Nat
          BY <1>9, <2>3, <2>4, <4>1, GridIs
        <5>2. results[k].combo < next /\ ~Skipped(results[k].combo)
          BY <1>3, <2>4, <4>1 DEF ResultsAre
        <5> QED
          BY <1>4, <5>1, <5>2
      <4>2. CASE k = n + 1
        <5>1. results'[k].combo = next
          BY <2>2, <2>3, <2>4, <4>2
        <5>2. next < next + 1
          BY <1>4
        <5>3. ~Skipped(next)
          BY <1>12
        <5> QED
          BY <5>1, <5>2, <5>3
      <4> QED
        BY <2>5, <4>1, <4>2
    <3>2. ASSUME NEW c \in DOMAIN Grid, c < next + 1, ~Skipped(c)
          PROVE  \E k \in DOMAIN results' : results'[k].combo = c
      <4>1. CASE c = next
        BY <2>2, <2>3, <2>4, <2>6, <4>1
      <4>2. CASE c # next
        <5>1. c < next
          BY <1>4, <3>2, <4>2, GridIs
        <5>2. PICK k \in DOMAIN results : results[k].combo = c
          BY <1>3, <3>2, <5>1 DEF ResultsAre
        <5> QED
          BY <2>3, <2>4, <2>6, <5>2
      <4> QED
        BY <4>1, <4>2
    <3> QED
      BY <1>8, <2>3, <3>1, <3>2 DEF ResultsAre
  <2>9. StageIs'
    BY <1>1, <1>2, <1>3, <2>3 DEF StageIs
  <2> QED
    BY <1>5, <1>6, <1>7, <2>7, <2>8, <2>9 DEF CommandInv, SweepInv
<1> QED
  BY <1>10, <1>11, <1>12 DEF Tune


(* After the grid: the best of the eligible results is chosen, and it explains
   itself in the sorted list. *)
LEMMA ChooseStep ==
    ASSUME CommandInv, phase = "sweeping", Choose, UNCHANGED commandVars
    PROVE  CommandInv'
<1> DEFINE E == {k \in DOMAIN results : Eligible(results[k])}
<1>1. /\ stage = "tuning" /\ next > Len(Grid)
      /\ isLength' = isLength /\ oosLength' = oosLength /\ isRefused' = isRefused /\ oosRefused' = oosRefused
      /\ next' = next /\ results' = results
  BY DEF Choose, segments
<1>2. \/ E = {} /\ stage' = "raised" /\ ranked' = ranked /\ best' = best
      \/ E # {} /\ stage' = "evaluating" /\ ranked' = SortedResults /\ best' = BestOf(E)
  BY DEF Choose, SortedResults
<1>3. /\ phase' = phase /\ symbol' = symbol /\ sweep' = sweep /\ pair' = pair
      /\ counts' = counts /\ failures' = failures /\ reports' = reports
      /\ printed' = printed /\ exit' = exit
  BY DEF commandVars, options
<1>4. /\ CommandTypeOK /\ SweepTypeOK /\ SegmentsAre /\ ResultsAre /\ StageIs /\ Accounts
  BY DEF CommandInv, CommandTypeOK, SweepInv
<1>5. /\ next = Len(Grid) + 1 /\ next \in Nat /\ Len(Grid) \in Nat
      /\ results \in Seq(Result)
      /\ best = 0
  BY <1>1, <1>4, CommandIs, GridIs DEF StageIs
<1>6. Accounts' /\ SegmentsAre' /\ ResultsAre'
  <2>1. SegmentsAre'
    BY <1>1, <1>3, <1>4 DEF SegmentsAre
  <2>2. ResultsAre'
    BY <1>1, <1>4 DEF ResultsAre, Skipped
  <2> QED
    BY <1>4, <2>1, <2>2, AccountsStay
<1>7. CASE E = {}
  <2>1. stage' = "raised" /\ ranked' = ranked /\ best' = 0
    BY <1>2, <1>5, <1>7
  <2>2. SweepTypeOK'
    BY <1>1, <1>4, <2>1 DEF SweepTypeOK
  <2>3. CommandTypeOK'
    BY <1>3, <1>4, <2>2 DEF CommandTypeOK
  <2>4. StageIs' /\ RankingExplainsBest'
    BY <1>3, <2>1 DEF StageIs, RankingExplainsBest
  <2> QED
    BY <1>6, <2>3, <2>4 DEF CommandInv, SweepInv
<1>8. CASE E # {}
  <2>1. stage' = "evaluating" /\ ranked' = SortedResults /\ best' = BestOf(E)
    BY <1>2, <1>8
  <2>2. /\ E \in SUBSET DOMAIN results
        /\ \A k \in DOMAIN results : k \in E <=> Eligible(results[k])
        /\ \A k \in E : results[k].metrics.sharpe # NoSharpe
    BY DEF Eligible
  <2> HIDE DEF E
  <2>3. /\ BestOf(E) \in E
        /\ \A j \in E : ~RankedBefore(j, BestOf(E))
    BY <1>5, <1>8, <2>2, BestIs
  <2>4. /\ SortedResults \in Seq(DOMAIN results)
        /\ Len(SortedResults) = Len(results)
        /\ ToSet(SortedResults) = DOMAIN results
        /\ \A p, q \in DOMAIN SortedResults :
              p < q => RankedBefore(SortedResults[p], SortedResults[q])
    BY <1>5, SortedIs
  <2>5. BestOf(E) \in DOMAIN results
    BY <2>2, <2>3
  <2>6. SweepTypeOK'
    BY <1>1, <1>4, <2>1, <2>4, <2>5 DEF SweepTypeOK
  <2>7. CommandTypeOK'
    BY <1>3, <1>4, <2>6 DEF CommandTypeOK
  <2>8. StageIs'
    BY <1>1, <1>3, <1>4, <1>5, <2>1, <2>5 DEF StageIs
  <2>9. \A p, q \in DOMAIN SortedResults :
           p < q /\ SortedResults[q] = BestOf(E) =>
               results[SortedResults[p]].metrics.trades < MinTrades
    <3> SUFFICES ASSUME NEW p \in DOMAIN SortedResults, NEW q \in DOMAIN SortedResults,
                        p < q, SortedResults[q] = BestOf(E)
                 PROVE  results[SortedResults[p]].metrics.trades < MinTrades
      OBVIOUS
    <3> DEFINE j == SortedResults[p]
               b == BestOf(E)
    <3>1. RankedBefore(j, b) /\ j \in DOMAIN results
      BY <2>4
    <3>2. j \notin E
      BY <2>3, <3>1
    <3>3. ~Eligible(results[j])
      BY <2>2, <3>1, <3>2
    <3>4. results[b].metrics.sharpe # NoSharpe
      BY <2>2, <2>3
    <3> HIDE DEF j, b
    <3>5. results[j].metrics.sharpe # NoSharpe
      BY <3>1, <3>4 DEF RankedBefore
    <3>6. ~ (results[j].metrics.trades >= MinTrades)
      BY <3>3, <3>5 DEF Eligible
    <3>7. results[j].metrics.trades \in Nat /\ MinTrades \in Nat
      BY <1>5, <3>1, ResultIs, SweepAssumption
    <3>8. results[j].metrics.trades < MinTrades
      BY <3>6, <3>7
    <3> QED
      BY <3>8 DEF j
  <2>10. RankingExplainsBest'
    BY <1>1, <2>1, <2>4, <2>9 DEF RankingExplainsBest, ToSet
  <2> QED
    BY <1>6, <2>7, <2>8, <2>10 DEF CommandInv, SweepInv
<1> QED
  BY <1>7, <1>8

LEMMA EvaluateStep ==
    ASSUME CommandInv, phase = "sweeping", Evaluate, UNCHANGED commandVars
    PROVE  CommandInv'
<1>1. /\ stage = "evaluating"
      /\ stage' = IF Raises(results[best].combo, oosLength, oosRefused) THEN "raised" ELSE "returned"
      /\ isLength' = isLength /\ oosLength' = oosLength /\ isRefused' = isRefused /\ oosRefused' = oosRefused
      /\ next' = next /\ results' = results /\ ranked' = ranked /\ best' = best
  BY DEF Evaluate, segments
<1>2. /\ phase' = phase /\ symbol' = symbol /\ sweep' = sweep /\ pair' = pair
      /\ counts' = counts /\ failures' = failures /\ reports' = reports
      /\ printed' = printed /\ exit' = exit
  BY DEF commandVars, options
<1>3. /\ CommandTypeOK /\ SweepTypeOK /\ SegmentsAre /\ ResultsAre /\ StageIs /\ Accounts
      /\ RankingExplainsBest
  BY DEF CommandInv, CommandTypeOK, SweepInv
<1>4. next = Len(Grid) + 1 /\ best \in DOMAIN results /\ Len(Grid) \in Nat
  BY <1>1, <1>3, GridIs DEF StageIs
<1>5. stage' \in {"raised", "returned"}
  BY <1>1
<1>6. CommandTypeOK'
  <2>1. SweepTypeOK'
    BY <1>1, <1>3, <1>5 DEF SweepTypeOK
  <2> QED
    BY <1>2, <1>3, <2>1 DEF CommandTypeOK
<1>7. SegmentsAre'
  BY <1>1, <1>2, <1>3 DEF SegmentsAre
<1>8. ResultsAre'
  BY <1>1, <1>3 DEF ResultsAre, Skipped
<1>9. RankingExplainsBest'
  BY <1>1, <1>3 DEF RankingExplainsBest
<1>10. Accounts'
  BY <1>3, AccountsStay
<1>11. StageIs'
  <2>1. stage' = "returned" => Slow(results[best].combo) <= oosLength
    <3>1. results[best].combo \in DOMAIN Grid /\ oosLength \in Nat
      BY <1>3, <1>4, CommandIs, ResultIs
    <3>2. Slow(results[best].combo) \in Nat
      BY <3>1, GridIs
    <3> QED
      BY <1>1, <3>1, <3>2 DEF Raises
  <2> QED
    BY <1>1, <1>2, <1>3, <1>4, <1>5, <2>1 DEF StageIs, Slow
<1> QED
  BY <1>6, <1>7, <1>8, <1>9, <1>10, <1>11 DEF CommandInv, SweepInv

(* The report of a sweep is about the candles of its symbol. *)
LEMMA SweepReturnsStep ==
    ASSUME CommandInv, SweepReturns
    PROVE  CommandInv'
<1> DEFINE rows == {results[k].combo : k \in ToSet(ranked)}
           r == [at |-> symbol, combo |-> results[best].combo, rows |-> rows]
<1>1. /\ phase = "sweeping" /\ stage = "returned" /\ counts' = counts
      /\ reports' = Append(reports, r) /\ failures' = failures /\ NextSymbol
  BY DEF SweepReturns, Report
<1>2. /\ CommandTypeOK /\ SegmentsAre /\ ResultsAre /\ StageIs /\ RankingExplainsBest
  BY DEF CommandInv, SweepInv
<1>3. /\ next = Len(Grid) + 1 /\ best \in DOMAIN results
      /\ Slow(results[best].combo) <= oosLength
  BY <1>1, <1>2 DEF StageIs
<1>4. /\ counts[symbol] \in 1..MaxCandles
      /\ isLength = FirstSegment(counts[symbol])
      /\ oosLength = counts[symbol] - isLength
  BY <1>1, <1>2 DEF SegmentsAre
<1>5. results \in Seq(Result) /\ symbol \in Places
  BY <1>2, CommandIs
<1>6. ToSet(ranked) = DOMAIN results
  <2>1. best # 0
    BY <1>3, <1>5, ResultIs
  <2> QED
    BY <1>2, <2>1 DEF RankingExplainsBest
<1>7. rows = {c \in DOMAIN Grid : Fast(c) < Slow(c) /\ Slow(c) <= isLength}
  <2>1. isLength \in Nat
    BY <1>2, CommandIs
  <2>2. \A c \in DOMAIN Grid : ~Skipped(c) <=> Fast(c) < Slow(c) /\ Slow(c) <= isLength
    BY <2>1, GridIs DEF Skipped
  <2>3. \A k \in DOMAIN results : results[k].combo \in DOMAIN Grid /\ ~Skipped(results[k].combo)
    BY <1>2, <1>5, ResultIs DEF ResultsAre
  <2>4. \A c \in DOMAIN Grid : c < next
    BY <1>3, GridIs
  <2>5. \A c \in DOMAIN Grid : ~Skipped(c) => \E k \in DOMAIN results : results[k].combo = c
    BY <1>2, <2>4 DEF ResultsAre
  <2> QED
    BY <1>6, <2>2, <2>3, <2>5
<1>8. results[best].combo \in rows /\ results[best].combo \in DOMAIN Grid
  BY <1>3, <1>5, <1>6, ResultIs
<1>9. r.at = symbol /\ r.combo = results[best].combo /\ r.rows = rows
  OBVIOUS
<1>10. r \in Reports
  BY <1>5, <1>7, <1>8 DEF Reports
<1>11. FitsCandles(r, counts'[symbol])
  <2> HIDE DEF r, rows
  <2> QED
    BY <1>1, <1>3, <1>4, <1>7, <1>8, <1>9 DEF FitsCandles
<1>12. counts'[symbol] # 0
  BY <1>1, <1>4
<1>13. /\ counts' \in [Places -> 0..MaxCandles \cup {Nothing}]
       /\ \A s \in Places : s # symbol => counts'[s] = counts[s]
  BY <1>1, <1>2 DEF CommandTypeOK
<1> HIDE DEF r
<1> QED
  BY <1>1, <1>9, <1>10, <1>11, <1>12, <1>13, SymbolDone

LEMMA CommandStep == CommandInv /\ [CommandNext]_allVars => CommandInv'
<1> SUFFICES ASSUME CommandInv, [CommandNext]_allVars
             PROVE  CommandInv'
  OBVIOUS
<1>1. CASE Start
  BY <1>1, StartStep
<1>2. CASE Read
  BY <1>2, ReadStep
<1>3. CASE ReadNone
  BY <1>3, ReadNoneStep
<1>4. CASE ReadFails
  BY <1>4, FailedStep DEF ReadFails
<1>5. CASE Run
  BY <1>5, RunStep
<1>6. CASE SweepSteps
  BY <1>6, TuneStep, ChooseStep, EvaluateStep DEF SweepSteps, SweepNext
<1>7. CASE SweepReturns
  BY <1>7, SweepReturnsStep
<1>8. CASE SweepRaises
  BY <1>8, FailedStep DEF SweepRaises
<1>9. CASE UNCHANGED allVars
  BY <1>9, CommandStutters
<1> QED
  BY <1>1, <1>2, <1>3, <1>4, <1>5, <1>6, <1>7, <1>8, <1>9 DEF CommandNext

LEMMA CommandHolds == CommandSpec => []CommandInv
BY CommandInitInv, CommandStep, PTL DEF CommandSpec

(* main and run_sweep keep the types of their variables: a table and a choice
   are of results there are. *)
THEOREM CommandTypeCorrectness == CommandSpec => []CommandTypeOK
<1>1. CommandInv => CommandTypeOK
  BY DEF CommandInv
<1> QED
  BY <1>1, CommandHolds, PTL

(* The sorted table of run_sweep explains its choice. *)
THEOREM TableExplainsChoice == CommandSpec => []RankingExplainsBest
<1>1. CommandInv => RankingExplainsBest
  BY DEF CommandInv, SweepInv
<1> QED
  BY <1>1, CommandHolds, PTL

(* When main exits, each of its symbols is accounted for. *)
THEOREM NoSymbolForgotten == CommandSpec => []EverySymbolTold
<1>1. CommandInv => EverySymbolTold
  <2> SUFFICES ASSUME CommandInv, phase = "exited", exit # 2
               PROVE  EverySymbolTold
    BY DEF EverySymbolTold
  <2> DEFINE told == {printed[k].at : k \in DOMAIN printed}
  <2>1. /\ Told \subseteq Done /\ failures \subseteq Done
        /\ \A s \in Done : s \in Told \/ s \in failures \/ counts[s] = 0
        /\ Told \cap failures = {}
        /\ \A s \in Told : counts[s] # 0
        /\ \A k \in DOMAIN reports : k > 1 => reports[k - 1].at < reports[k].at
        /\ sweep => \A k \in DOMAIN reports : FitsCandles(reports[k], counts[reports[k].at])
        /\ printed = reports
        /\ exit = 0 => failures = {}
    BY DEF CommandInv, Accounts
  <2>2. Done = Places
    BY DEF Done
  <2>3. told = Told
    BY <2>1 DEF Told
  <2>4. exit = 0 => {s \in Places : counts[s] # 0} = told
    BY <2>1, <2>2, <2>3
  <2>5. \A k \in DOMAIN printed :
           LET r == printed[k]
               n == FirstSegment(counts[r.at])
           IN  /\ k > 1 => printed[k - 1].at < r.at
               /\ sweep =>
                     /\ r.rows = {c \in DOMAIN Grid : Fast(c) < Slow(c) /\ Slow(c) <= n}
                     /\ r.combo \in r.rows
                     /\ Slow(r.combo) <= counts[r.at] - n
    BY <2>1 DEF FitsCandles
  <2> HIDE DEF told
  <2>6. \A s \in Places : s \in told \/ s \in failures \/ counts[s] = 0
    BY <2>1, <2>2, <2>3
  <2>7. told \cap failures = {}
    BY <2>1, <2>3
  <2> QED
    BY <2>4, <2>5, <2>6, <2>7 DEF EverySymbolTold, told
<1> QED
  BY <1>1, CommandHolds, PTL

=============================================================================
