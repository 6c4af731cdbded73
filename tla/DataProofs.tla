------------------------------- MODULE DataProofs ------------------------------
(* What the downloaders of history and the runners of backtests keep, for     *)
(* any window, page and number of rows, trades, markets, coins and fills.     *)
(*                                                                            *)
(* HlHistory: a walk that ended has stored its window. The invariant says     *)
(* of the cursor what WalkComplete says of the window: a row behind it that   *)
(* was there when the walk began is read, or lies just past the edge of a     *)
(* page. A page holds the first rows of its slice, so nothing before its      *)
(* edge was there and is not on it.                                           *)
(*                                                                            *)
(* Ingest: a run that ended has stored its window. What it has yet to find    *)
(* is always further back than its offset, because trades that arrive only    *)
(* move the pages towards rows already read; and it is no newer than the      *)
(* oldest row seen, which is what puts it before the second cursor.           *)
(*                                                                            *)
(* Backtest: the profit of the pairs matched so far and the worth of the      *)
(* lots left (Stake) grow with every fill by the worth of that fill,          *)
(* whichever lots it is matched with.                                         *)
(*                                                                            *)
(* HlBacktest: the account's rows follow the fills, the position is what      *)
(* was filled, and every coin's curve ends at its total; so a coin without    *)
(* a position has nothing but its balance, and the portfolio has the sum.     *)
(*                                                                            *)
(* Both compute with folds. A fold is read through a running account: a       *)
(* function from the places of the sequence to what has been computed up to   *)
(* there (StepsOf). One exists (RunExists), the iterator over sets of         *)
(* places by which the fold is defined follows it (IterIs), and a place       *)
(* where an account is not as it should be would have a first one             *)
(* (LeastNat), before which it was.                                           *)
EXTENDS HlHistory, Ingest, Backtest, HlBacktest, FiniteSetTheorems, SequenceTheorems,
        WellFoundedInduction, TLAPS

-------------------------------------------------------------------------------
(* Least and last elements *)

\* A set of times not empty has a least one.
LEMMA LeastNat ==
  ASSUME NEW S, S \subseteq Nat, S # {} PROVE \E x \in S : \A y \in S : x <= y
<1>1. PICK R : IsWellFoundedOn(R, Nat) /\ \A x, y \in Nat : y < x => <<y, x>> \in R
  <2>1. \A x, y \in Nat : y < x => <<y, x>> \in OpToRel(<, Nat)
    BY DEF OpToRel
  <2> QED BY <2>1, NatLessThanWellFounded, Zenon
<1>3. PICK x \in S : \A y \in S : ~(<<y, x>> \in R)
  BY <1>1, WFMin
<1>4. ASSUME NEW y \in S PROVE x <= y
  <2>1. x \in Nat /\ y \in Nat OBVIOUS
  <2>2. ~(y < x) BY <1>1, <1>3, <2>1, Zenon
  <2> QED BY <2>1, <2>2
<1> QED BY <1>4

\* A set of times up to n not empty has a last one, and Max is it.
LEMMA MaxIn ==
  ASSUME NEW n \in Nat, NEW S, S \subseteq 0..n, S # {}
  PROVE  Max(S) \in S /\ \A y \in S : y <= Max(S)
<1> DEFINE T == {n - x : x \in S}
<1>1. T \subseteq Nat /\ T # {}
  <2>1. ASSUME NEW x \in S PROVE n - x \in Nat
    <3>1. x \in 0..n OBVIOUS
    <3> QED BY <3>1
  <2> QED BY <2>1
<1>2. PICK m \in T : \A y \in T : m <= y BY <1>1, LeastNat
<1>3. PICK x \in S : m = n - x OBVIOUS
<1>4. ASSUME NEW y \in S PROVE x >= y
  <2>1. n - y \in T OBVIOUS
  <2>2. x \in Nat /\ y \in Nat OBVIOUS
  <2>3. m <= n - y BY <2>1, <1>2
  <2> HIDE DEF T
  <2> QED BY <2>2, <2>3, <1>3
<1>5. \E z \in S : \A y \in S : z >= y BY <1>4
<1>6. Max(S) \in S /\ \A y \in S : Max(S) >= y BY <1>5 DEF Max
<1> QED BY <1>6

-------------------------------------------------------------------------------
(* Folds *)

\* A running account over a sequence: the account before its first element,
\* and after each the step of it.
StepsOf(c, F, b, s) == c[0] = b /\ \A k \in 1..Len(s) : c[k] = F[<<c[k - 1], s[k]>>]

\* There is one.
LEMMA RunExists ==
  ASSUME NEW D, NEW R, NEW F \in [D \X R -> D], NEW b \in D, NEW s \in Seq(R)
  PROVE  \E c \in [0..Len(s) -> D] : StepsOf(c, F, b, s)
<1> DEFINE Upto(n) == \E c \in [0..n -> D] :
                        c[0] = b /\ \A k \in 1..n : c[k] = F[<<c[k - 1], s[k]>>]
           Bad == {n \in Nat : n <= Len(s) /\ ~Upto(n)}
<1>1. Len(s) \in Nat /\ s \in [1..Len(s) -> R] OBVIOUS
<1>2. Upto(0)
  <2>1. [k \in 0..0 |-> b] \in [0..0 -> D] /\ [k \in 0..0 |-> b][0] = b OBVIOUS
  <2>2. 1..0 = {} OBVIOUS
  <2> QED BY <2>1, <2>2
<1>3. ASSUME NEW n \in Nat, n + 1 <= Len(s), Upto(n) PROVE Upto(n + 1)
  <2>1. PICK c \in [0..n -> D] : c[0] = b /\ \A k \in 1..n : c[k] = F[<<c[k - 1], s[k]>>]
    BY <1>3
  <2> DEFINE e == [k \in 0..(n + 1) |-> IF k = n + 1 THEN F[<<c[n], s[n + 1]>>] ELSE c[k]]
  <2>2. c[n] \in D /\ n + 1 \in 1..Len(s) /\ s[n + 1] \in R BY <1>1, <1>3
  <2>3. F[<<c[n], s[n + 1]>>] \in D BY <2>2
  <2>4. e \in [0..(n + 1) -> D]
    <3>1. ASSUME NEW k \in 0..(n + 1), k # n + 1 PROVE c[k] \in D
      <4>1. k \in 0..n BY <3>1
      <4> QED BY <4>1
    <3> QED BY <3>1, <2>3
  <2>5. e[0] = b BY <2>1
  <2>6. ASSUME NEW k \in 1..(n + 1) PROVE e[k] = F[<<e[k - 1], s[k]>>]
    <3>1. k - 1 \in 0..(n + 1) /\ k - 1 # n + 1 /\ k \in 0..(n + 1) OBVIOUS
    <3>2. e[k - 1] = c[k - 1] BY <3>1
    <3>3. CASE k = n + 1
      <4>1. e[k] = F[<<c[n], s[n + 1]>>] /\ k - 1 = n BY <3>3
      <4> QED BY <4>1, <3>2, <3>3
    <3>4. CASE k # n + 1
      <4>1. k \in 1..n BY <3>4
      <4>2. e[k] = c[k] BY <3>1, <3>4
      <4> HIDE DEF e
      <4> QED BY <4>1, <4>2, <3>2, <2>1
    <3> QED BY <3>3, <3>4
  <2> HIDE DEF e
  <2> QED BY <2>4, <2>5, <2>6
<1>4. Bad = {}
  <2> SUFFICES ASSUME Bad # {} PROVE FALSE OBVIOUS
  <2> HIDE DEF Upto
  <2>1. PICK n \in Bad : \A y \in Bad : n <= y
    <3>1. Bad \subseteq Nat OBVIOUS
    <3> HIDE DEF Bad
    <3> QED BY <3>1, LeastNat
  <2>2. n \in Nat /\ n <= Len(s) /\ ~Upto(n) OBVIOUS
  <2>3. n # 0 BY <2>2, <1>2
  <2>4. n - 1 \in Nat /\ n - 1 <= Len(s) /\ ~(n <= n - 1) BY <2>2, <2>3, <1>1
  <2>5. Upto(n - 1) BY <2>4, <2>1
  <2>6. n - 1 + 1 = n BY <2>2
  <2>7. Upto(n - 1 + 1) BY <2>4, <2>5, <2>6, <2>2, <1>3
  <2> QED BY <2>7, <2>6, <2>2
<1>5. Upto(Len(s))
  <2> HIDE DEF Upto
  <2>1. Len(s) \notin Bad BY <1>4
  <2> QED BY <2>1, <1>1
<1> QED BY <1>5 DEF StepsOf

\* The fold of the community modules iterates over sets of positions, taking
\* away the last.
Iterates(g, F, b, s, D) ==
  /\ g[{}] = b
  /\ \A S \in SUBSET (1..Len(s)) : S # {} /\ g[S \ {Max(S)}] \in D =>
       g[S] = F[<<g[S \ {Max(S)}], s[Max(S)]>>]

\* On the first k positions it is the account after k elements.
IterFollows(g, c, s) == \A k \in 0..Len(s) : g[1..k] = c[k]

\* Such an iterator exists,
LEMMA IterExists ==
  ASSUME NEW D, NEW R, NEW F \in [D \X R -> D], NEW b \in D, NEW s \in Seq(R)
  PROVE  \E g \in [SUBSET (1..Len(s)) -> D] :
           Iterates(g, F, b, s, D)
<1> DEFINE Iter(n, g) == \A S \in SUBSET (1..n) :
             g[S] = IF S = {} THEN b ELSE F[<<g[S \ {Max(S)}], s[Max(S)]>>]
           Upto(n) == \E g \in [SUBSET (1..n) -> D] : Iter(n, g)
           Bad == {n \in Nat : n <= Len(s) /\ ~Upto(n)}
<1>1. Len(s) \in Nat /\ s \in [1..Len(s) -> R] OBVIOUS
<1>2. Upto(0)
  <2> DEFINE g == [S \in SUBSET (1..0) |-> b]
  <2>1. g \in [SUBSET (1..0) -> D] OBVIOUS
  <2>2. \A S \in SUBSET (1..0) : S = {} /\ g[S] = b
    <3>1. 1..0 = {} OBVIOUS
    <3> QED BY <3>1
  <2> HIDE DEF g
  <2> QED BY <2>1, <2>2
<1>3. ASSUME NEW n \in Nat, n + 1 <= Len(s), Upto(n) PROVE Upto(n + 1)
  <2> HIDE DEF Iter
  <2>1. PICK g \in [SUBSET (1..n) -> D] : Iter(n, g)
    BY <1>3
  <2> DEFINE e == [S \in SUBSET (1..(n + 1)) |->
                     IF n + 1 \in S THEN F[<<g[S \ {n + 1}], s[n + 1]>>] ELSE g[S]]
  <2>2. ASSUME NEW S \in SUBSET (1..(n + 1))
        PROVE  /\ S \ {n + 1} \in SUBSET (1..n)
               /\ n + 1 \notin S => S \in SUBSET (1..n)
               /\ S # {} => Max(S) \in S /\ S \ {Max(S)} \in SUBSET (1..(n + 1))
               /\ n + 1 \in S => Max(S) = n + 1
    <3>1. ASSUME NEW x \in S, x # n + 1 PROVE x \in 1..n
      <4>1. x \in 1..(n + 1) OBVIOUS
      <4> QED BY <4>1, <3>1
    <3>2. ASSUME S # {} PROVE Max(S) \in S /\ \A y \in S : y <= Max(S)
      <4>1. S \subseteq 0..(n + 1) /\ n + 1 \in Nat OBVIOUS
      <4> QED BY <4>1, <3>2, MaxIn
    <3>3. ASSUME n + 1 \in S PROVE Max(S) = n + 1
      <4>1. n + 1 <= Max(S) /\ Max(S) \in 1..(n + 1) BY <3>2, <3>3
      <4> QED BY <4>1
    <3> QED BY <3>1, <3>2, <3>3
  <2>3. ASSUME NEW S \in SUBSET (1..(n + 1)) PROVE e[S] \in D
    <3>1. g[S \ {n + 1}] \in D /\ (n + 1 \notin S => g[S] \in D) BY <2>2
    <3>2. s[n + 1] \in R BY <1>1, <1>3
    <3>3. F[<<g[S \ {n + 1}], s[n + 1]>>] \in D BY <3>1, <3>2
    <3> QED BY <3>1, <3>3
  <2>4. e \in [SUBSET (1..(n + 1)) -> D] BY <2>3
  <2>5. ASSUME NEW S \in SUBSET (1..(n + 1))
        PROVE  e[S] = IF S = {} THEN b ELSE F[<<e[S \ {Max(S)}], s[Max(S)]>>]
    <3>1. ASSUME n + 1 \in S PROVE e[S] = F[<<e[S \ {Max(S)}], s[Max(S)]>>]
      <4>1. Max(S) = n + 1 /\ S \ {n + 1} \in SUBSET (1..(n + 1)) BY <2>2, <3>1
      <4>2. e[S] = F[<<g[S \ {n + 1}], s[n + 1]>>] BY <3>1
      <4>3. e[S \ {n + 1}] = g[S \ {n + 1}] BY <4>1
      <4> HIDE DEF e
      <4> QED BY <4>1, <4>2, <4>3
    <3>2. ASSUME n + 1 \notin S
          PROVE  e[S] = IF S = {} THEN b ELSE F[<<e[S \ {Max(S)}], s[Max(S)]>>]
      <4>1. S \in SUBSET (1..n) /\ e[S] = g[S] BY <2>2, <3>2
      <4>2. g[S] = IF S = {} THEN b ELSE F[<<g[S \ {Max(S)}], s[Max(S)]>>]
        BY <4>1, <2>1 DEF Iter
      <4>3. ASSUME S # {} PROVE e[S \ {Max(S)}] = g[S \ {Max(S)}]
        <5>1. S \ {Max(S)} \in SUBSET (1..(n + 1)) /\ n + 1 \notin S \ {Max(S)}
          BY <2>2, <3>2, <4>3
        <5> QED BY <5>1
      <4> HIDE DEF e
      <4> QED BY <4>1, <4>2, <4>3
    <3> QED BY <3>1, <3>2
  <2> HIDE DEF e
  <2>6. Iter(n + 1, e) BY <2>5 DEF Iter
  <2> QED BY <2>4, <2>6
<1>4. Bad = {}
  <2> SUFFICES ASSUME Bad # {} PROVE FALSE OBVIOUS
  <2> HIDE DEF Upto
  <2>1. PICK n \in Bad : \A y \in Bad : n <= y
    <3>1. Bad \subseteq Nat OBVIOUS
    <3> HIDE DEF Bad
    <3> QED BY <3>1, LeastNat
  <2>2. n \in Nat /\ n <= Len(s) /\ ~Upto(n) OBVIOUS
  <2>3. n # 0 BY <2>2, <1>2
  <2>4. n - 1 \in Nat /\ n - 1 <= Len(s) /\ ~(n <= n - 1) BY <2>2, <2>3, <1>1
  <2>5. Upto(n - 1) BY <2>4, <2>1
  <2>6. n - 1 + 1 = n BY <2>2
  <2>7. Upto(n - 1 + 1) BY <2>4, <2>5, <2>6, <2>2, <1>3
  <2> QED BY <2>7, <2>6, <2>2
<1>5. Upto(Len(s))
  <2> HIDE DEF Upto
  <2>1. Len(s) \notin Bad BY <1>4
  <2> QED BY <2>1, <1>1
<1>6. {} \in SUBSET (1..Len(s)) OBVIOUS
<1> QED BY <1>5, <1>6 DEF Iterates

\* and agrees with the running account.
LEMMA IterIs ==
  ASSUME NEW D, NEW R, NEW F \in [D \X R -> D], NEW b \in D, NEW s \in Seq(R),
         NEW c \in [0..Len(s) -> D], StepsOf(c, F, b, s), NEW g, Iterates(g, F, b, s, D)
  PROVE  IterFollows(g, c, s)
<1> DEFINE Bad == {k \in 0..Len(s) : g[1..k] # c[k]}
<1>1. Len(s) \in Nat OBVIOUS
<1>2. Bad = {}
  <2> SUFFICES ASSUME Bad # {} PROVE FALSE OBVIOUS
  <2>1. PICK k \in Bad : \A y \in Bad : k <= y
    <3>1. Bad \subseteq Nat OBVIOUS
    <3> HIDE DEF Bad
    <3> QED BY <3>1, LeastNat
  <2>2. k \in 0..Len(s) /\ g[1..k] # c[k] OBVIOUS
  <2>3. k # 0
    <3>1. 1..0 = {} OBVIOUS
    <3> QED BY <3>1, <2>2 DEF StepsOf, Iterates
  <2>4. k - 1 \in 0..Len(s) /\ ~(k <= k - 1) /\ k \in 1..Len(s) BY <2>2, <2>3
  <2>5. g[1..(k - 1)] = c[k - 1] /\ c[k - 1] \in D BY <2>4, <2>1
  <2>6. Max(1..k) = k /\ (1..k) \ {k} = 1..(k - 1) /\ 1..k # {}
    <3>1. k \in Nat /\ k \in 1..k /\ 1..k \subseteq 0..k BY <2>4
    <3>2. Max(1..k) \in 1..k /\ k <= Max(1..k) BY <3>1, MaxIn
    <3>3. Max(1..k) = k BY <3>1, <3>2
    <3>4. (1..k) \ {k} = 1..(k - 1) BY <3>1
    <3> QED BY <3>1, <3>3, <3>4
  <2>7. 1..k \in SUBSET (1..Len(s)) BY <2>4
  <2>8. g[(1..k) \ {Max(1..k)}] = c[k - 1] BY <2>5, <2>6
  <2>9. g[1..k] = F[<<c[k - 1], s[k]>>] BY <2>5, <2>6, <2>7, <2>8 DEF Iterates
  <2> QED BY <2>2, <2>4, <2>9 DEF StepsOf
<1> QED BY <1>2 DEF IterFollows

\* A set of positions that is not empty has a last one.
LEMMA LastOfPositions ==
  ASSUME NEW R, NEW s \in Seq(R), NEW S \in SUBSET (1..Len(s)), S # {}
  PROVE  /\ Max(S) \in 1..Len(s) /\ s[Max(S)] \in R
         /\ S \ {Max(S)} \in SUBSET (1..Len(s))
<1>1. Len(s) \in Nat /\ s \in [1..Len(s) -> R] OBVIOUS
<1>2. S \subseteq 0..Len(s) BY <1>1
<1>3. Max(S) \in S BY <1>1, <1>2, MaxIn
<1>4. Max(S) \in 1..Len(s) BY <1>3
<1> QED BY <1>1, <1>4

\* Total is a running account.
LEMMA TotalRuns ==
  ASSUME NEW s \in Seq(Int)
  PROVE  \E c \in [0..Len(s) -> Int] :
           c[0] = 0 /\ (\A k \in 1..Len(s) : c[k] = c[k - 1] + s[k]) /\ Total(s) = c[Len(s)]
<1> DEFINE F == [p \in Int \X Int |-> p[1] + p[2]]
           P == SUBSET (1..Len(s))
<1>1. F \in [Int \X Int -> Int] /\ \A x, y \in Int : F[<<x, y>>] = x + y OBVIOUS
<1>0. 0 \in Int /\ DOMAIN s = 1..Len(s) /\ Len(s) \in Nat /\ s \in [1..Len(s) -> Int] OBVIOUS
<1> HIDE DEF F
<1>2. PICK c \in [0..Len(s) -> Int] : StepsOf(c, F, 0, s) BY <1>0, <1>1, RunExists, Zenon
<1>3. PICK g \in [SUBSET (1..Len(s)) -> Int] : Iterates(g, F, 0, s, Int)
  BY <1>0, <1>1, IterExists, Zenon
<1>4. ASSUME NEW S \in P, S # {} PROVE s[Max(S)] \in Int /\ S \ {Max(S)} \in P
  BY <1>4, LastOfPositions
<1>5. g = [S \in P |-> IF S = {} THEN 0 ELSE g[S \ {Max(S)}] + s[Max(S)]]
  <2>1. ASSUME NEW S \in P, S # {} PROVE g[S] = g[S \ {Max(S)}] + s[Max(S)]
    <3>1. g[S \ {Max(S)}] \in Int BY <1>4, <2>1
    <3> QED BY <1>1, <1>3, <1>4, <2>1, <3>1 DEF Iterates
  <2>3. g = [S \in P |-> g[S]] OBVIOUS
  <2> QED BY <1>3, <2>1, <2>3 DEF Iterates
<1> DEFINE h == CHOOSE i : i = [S \in P |-> IF S = {} THEN 0
                                            ELSE i[S \ {Max(S)}] + s[Max(S)]]
<1>6. h = [S \in P |-> IF S = {} THEN 0 ELSE h[S \ {Max(S)}] + s[Max(S)]] BY <1>5
<1>7. Total(s) = h[DOMAIN s] BY <1>0 DEF Total, FoldLeft, MapThenFoldSet
<1> HIDE DEF h
<1>8. Iterates(h, F, 0, s, Int)
  <2>1. h[{}] = 0 BY <1>6
  <2>2. \A S \in P : S # {} => h[S] = h[S \ {Max(S)}] + s[Max(S)] BY <1>6
  <2>3. ASSUME NEW S \in P, S # {}, h[S \ {Max(S)}] \in Int
        PROVE  h[S] = F[<<h[S \ {Max(S)}], s[Max(S)]>>]
    <3>1. h[S] = h[S \ {Max(S)}] + s[Max(S)] BY <2>2, <2>3
    <3>2. s[Max(S)] \in Int BY <1>4, <2>3
    <3> HIDE DEF P
    <3> QED BY <1>1, <2>3, <3>1, <3>2
  <2> QED BY <2>1, <2>3 DEF Iterates
<1>9. IterFollows(h, c, s) BY <1>0, <1>1, <1>2, <1>8, IterIs, Zenon
<1>11. \A k \in 1..Len(s) : c[k] = c[k - 1] + s[k]
  <2> TAKE k \in 1..Len(s)
  <2>1. k - 1 \in 0..Len(s) /\ s[k] \in Int BY <1>0
  <2>2. c[k] = F[<<c[k - 1], s[k]>>] BY <1>2 DEF StepsOf
  <2>3. c[k - 1] \in Int BY <2>1
  <2> QED BY <2>1, <2>2, <2>3, <1>1
<1> QED BY <1>2, <1>7, <1>9, <1>0, <1>11 DEF StepsOf, IterFollows

\* The running sums of s: one only.
SumsOf(c, s, n) == c[0] = 0 /\ \A k \in 1..n : c[k] = c[k - 1] + s[k]

\* Two running sums are the same up to n.
SameTo(c, e, n) == \A k \in 0..n : c[k] = e[k]

\* Two running sums of one sequence are the same.
LEMMA SumsAgree ==
  ASSUME NEW s, NEW n \in Nat, NEW c, NEW e, SumsOf(c, s, n), SumsOf(e, s, n)
  PROVE  SameTo(c, e, n)
<1> DEFINE Bad == {k \in 0..n : c[k] # e[k]}
<1>1. Bad = {}
  <2> SUFFICES ASSUME Bad # {} PROVE FALSE OBVIOUS
  <2>1. PICK k \in Bad : \A y \in Bad : k <= y
    <3>1. Bad \subseteq Nat OBVIOUS
    <3> HIDE DEF Bad
    <3> QED BY <3>1, LeastNat
  <2>2. k \in 0..n /\ c[k] # e[k] OBVIOUS
  <2>3. k # 0 BY <2>2 DEF SumsOf
  <2>4. k - 1 \in 0..n /\ ~(k <= k - 1) /\ k \in 1..n BY <2>2, <2>3
  <2>5. c[k - 1] = e[k - 1] BY <2>4, <2>1
  <2>6. c[k] = c[k - 1] + s[k] /\ e[k] = e[k - 1] + s[k] BY <2>4 DEF SumsOf
  <2> QED BY <2>2, <2>5, <2>6
<1> QED BY <1>1 DEF SameTo

\* Total of integers, of nothing, and of a sequence with one more at its end.
LEMMA TotalInt == ASSUME NEW s \in Seq(Int) PROVE Total(s) \in Int
<1>1. PICK c \in [0..Len(s) -> Int] : Total(s) = c[Len(s)] BY TotalRuns
<1>2. Len(s) \in 0..Len(s) OBVIOUS
<1> QED BY <1>1, <1>2

LEMMA TotalEmpty == Total(<<>>) = 0
<1>1. <<>> \in Seq(Int) /\ Len(<<>>) = 0 OBVIOUS
<1>2. PICK c \in [0..0 -> Int] : c[0] = 0 /\ Total(<<>>) = c[0] BY <1>1, TotalRuns
<1> QED BY <1>2

LEMMA TotalAppend ==
  ASSUME NEW s \in Seq(Int), NEW x \in Int PROVE Total(Append(s, x)) = Total(s) + x
<1> DEFINE t == Append(s, x)
           n == Len(s)
<1>1. t \in Seq(Int) /\ Len(t) = n + 1 /\ n \in Nat /\ t[n + 1] = x /\ \A k \in 1..n : t[k] = s[k]
  OBVIOUS
<1> HIDE DEF t
<1>2. PICK c \in [0..Len(s) -> Int] :
        c[0] = 0 /\ (\A k \in 1..n : c[k] = c[k - 1] + s[k]) /\ Total(s) = c[n]
  BY TotalRuns
<1>3. PICK e \in [0..Len(t) -> Int] :
        e[0] = 0 /\ (\A k \in 1..Len(t) : e[k] = e[k - 1] + t[k]) /\ Total(t) = e[Len(t)]
  BY <1>1, TotalRuns
<1>4. \A k \in 1..n : e[k] = e[k - 1] + s[k]
  <2> TAKE k \in 1..n
  <2>1. k \in 1..Len(t) BY <1>1
  <2> QED BY <1>1, <1>3, <2>1
<1> HIDE DEF n
<1>5. c[n] = e[n]
  <2>1. SumsOf(c, s, n) /\ SumsOf(e, s, n) BY <1>2, <1>3, <1>4 DEF SumsOf
  <2>2. SameTo(c, e, n) BY <1>1, <2>1, SumsAgree, Zenon
  <2> QED BY <1>1, <2>2 DEF SameTo
<1>6. e[n + 1] = e[n + 1 - 1] + t[n + 1] /\ n + 1 - 1 = n
  <2>1. n + 1 \in 1..Len(t) BY <1>1
  <2> QED BY <1>1, <1>3, <2>1
<1> QED BY <1>1, <1>2, <1>3, <1>5, <1>6 DEF t

-------------------------------------------------------------------------------
(* HlHistory *)

Reads == UNION {[S -> BOOLEAN] : S \in SUBSET published}

HhTyped ==
  /\ clock \in 0..Horizon /\ published \subseteq 1..Horizon /\ walks \in Nat
  /\ walk \in [pc : {"idle", "walks", "done"}, cursor : Nat, from : Nat, end : Nat,
               tries : 0..(Attempts - 1), read : Reads, edges : SUBSET Nat, since : Nat]
  /\ DOMAIN kept \subseteq published
  /\ walk.since <= clock

\* A row closed when the walk began was read with its final values.
ReadFinal == \A t \in DOMAIN walk.read : walk.since >= t + Period => walk.read[t]

\* Behind the cursor every row that was there is read, or lies just past the
\* edge of a page.
Behind(t) == \/ t \in DOMAIN walk.read
             \/ \E e \in walk.edges : e < t /\ t < e + Period
CursorCovers ==
  walk.pc = "walks" =>
    \A t \in published : t <= walk.since /\ walk.from <= t /\ t < walk.cursor => Behind(t)

HhInv == HhTyped /\ ReadFinal /\ CursorCovers /\ WalkComplete

-------------------------------------------------------------------------------
\* A page holds the first rows of its window: a row before one of the page is
\* on it, and it is empty only when the window is.
LEMMA PageIsFirst ==
  ASSUME HhTyped
  PROVE  /\ Answer \subseteq RowsThere /\ RowsThere \subseteq 1..Horizon
         /\ \A t \in RowsThere, e \in Answer : t <= e => t \in Answer
         /\ Answer = {} => RowsThere = {}
<1> USE HlHistoryAssumption
<1> DEFINE below(t) == {u \in RowsThere : u < t}
<1>1. Answer \subseteq RowsThere /\ RowsThere \subseteq 1..Horizon
  BY DEF Answer, RowsThere, HhTyped
<1>2. IsFiniteSet(1..Horizon) BY FS_Interval
<1>3. \A t : IsFiniteSet(below(t)) /\ Cardinality(below(t)) \in Nat
  <2>1. ASSUME NEW t PROVE IsFiniteSet(below(t)) /\ Cardinality(below(t)) \in Nat
    <3>1. below(t) \subseteq 1..Horizon BY <1>1
    <3>2. IsFiniteSet(below(t)) BY <3>1, <1>2, FS_Subset
    <3> QED BY <3>2, FS_CardinalityType
  <2> QED BY <2>1
<1>4. ASSUME NEW t \in RowsThere, NEW e \in Answer, t <= e PROVE t \in Answer
  <2>1. below(t) \subseteq below(e)
    <3>1. t \in Int /\ e \in Int BY <1>1
    <3>2. \A u \in RowsThere : u \in Int BY <1>1
    <3>3. ASSUME NEW u \in RowsThere, u < t PROVE u < e
      BY <3>1, <3>2, <3>3, <1>4
    <3> QED BY <3>3
  <2>2. Cardinality(below(t)) <= Cardinality(below(e))
    BY <2>1, <1>3, FS_Subset
  <2>3. Cardinality(below(e)) < PageRows BY DEF Answer
  <2>4. Cardinality(below(t)) < PageRows BY <2>2, <2>3, <1>3
  <2> QED BY <2>4 DEF Answer
<1>5. ASSUME RowsThere # {} PROVE Answer # {}
  <2>0. RowsThere \subseteq Nat BY <1>1
  <2>1. PICK t \in RowsThere : \A y \in RowsThere : t <= y
    <3> HIDE DEF below
    <3> QED BY <2>0, <1>5, LeastNat
  <2>2. below(t) = {}
    <3>1. \A y \in RowsThere : y \in Int /\ t \in Int BY <1>1
    <3> QED BY <2>1, <3>1
  <2>3. Cardinality(below(t)) = 0 BY <2>2, FS_EmptySet
  <2>4. t \in Answer BY <2>3 DEF Answer
  <2> QED BY <2>4
<1> QED BY <1>1, <1>4, <1>5

\* The end of a slice.
LEMMA SliceEndIs ==
  ASSUME HhTyped, walk.cursor < walk.end
  PROVE  SliceEnd \in Nat /\ SliceEnd <= walk.end /\ SliceEnd >= walk.cursor
<1>1. walk.end \in Nat /\ walk.cursor + Span \in Nat /\ Span \in Nat /\ walk.cursor \in Nat
  BY HlHistoryAssumption DEF HhTyped
<1>2. \E x \in {walk.end, walk.cursor + Span} : \A y \in {walk.end, walk.cursor + Span} : x =< y
  BY <1>1
<1>3. /\ SliceEnd \in {walk.end, walk.cursor + Span}
      /\ SliceEnd <= walk.end /\ SliceEnd <= walk.cursor + Span
  BY <1>2 DEF SliceEnd, Min
<1> QED BY <1>1, <1>3

\* A request answered moves the cursor past the page, and nothing it leaves
\* behind was on the server and is not read.
LEMMA SliceKeeps == ASSUME HhInv, Slice PROVE HhInv'
<1> USE HlHistoryAssumption
<1> DEFINE edge == IF Answer = {} THEN SliceEnd ELSE Max(Answer)
           read == [t \in DOMAIN walk.read \union Answer |->
                      IF t \in DOMAIN walk.read THEN walk.read[t] ELSE Final(t)]
<1>1. /\ walk.pc = "walks" /\ walk.cursor < walk.end
      /\ UNCHANGED <<clock, published, kept, walks>>
      /\ walk' = [walk EXCEPT !.cursor = edge + Period, !.tries = 0,
                              !.edges = walk.edges \union {edge}, !.read = read]
  BY DEF Slice, NextCursor
<1>2. HhTyped BY DEF HhInv
<1>3. Answer \subseteq 1..Horizon /\ Answer \subseteq published /\ Answer \subseteq RowsThere
  BY <1>2, PageIsFirst DEF RowsThere
<1>4. edge \in Nat /\ (Answer # {} => edge \in Answer /\ \A t \in Answer : t <= edge)
  <2>1. SliceEnd \in Nat BY <1>1, <1>2, SliceEndIs
  <2>2. Answer # {} => Max(Answer) \in Answer /\ \A t \in Answer : t <= Max(Answer)
    <3>1. Answer \subseteq 0..Horizon BY <1>3
    <3> QED BY <3>1, MaxIn
  <2>3. Answer \subseteq Nat BY <1>3
  <2>4. CASE Answer = {} BY <2>1, <2>4
  <2>5. CASE Answer # {}
    <3>1. edge = Max(Answer) BY <2>5
    <3> HIDE DEF edge
    <3> QED BY <2>2, <2>3, <2>5, <3>1
  <2> QED BY <2>4, <2>5
<1>5. read \in Reads /\ DOMAIN read = DOMAIN walk.read \union Answer
  <2>1. walk.read \in Reads BY <1>2 DEF HhTyped
  <2>2. PICK S \in SUBSET published : walk.read \in [S -> BOOLEAN]
    BY <2>1 DEF Reads
  <2>3. S \union Answer \in SUBSET published BY <1>3
  <2>4. read \in [S \union Answer -> BOOLEAN]
    <3>1. DOMAIN walk.read = S /\ \A t \in S : walk.read[t] \in BOOLEAN BY <2>2
    <3>2. \A t : Final(t) \in BOOLEAN BY DEF Final
    <3>3. \A t \in S \union Answer : (IF t \in DOMAIN walk.read THEN walk.read[t] ELSE Final(t)) \in BOOLEAN
      BY <3>1, <3>2, Zenon
    <3> QED BY <3>1, <3>3, Zenon
  <2> QED BY <2>2, <2>3, <2>4 DEF Reads
<1> HIDE DEF edge, read
<1>6. /\ walk'.cursor = edge + Period /\ walk'.tries = 0 /\ walk'.read = read
      /\ walk'.edges = walk.edges \union {edge} /\ walk'.pc = "walks"
      /\ walk'.from = walk.from /\ walk'.end = walk.end /\ walk'.since = walk.since
      /\ HhTyped'
  <2>1. walk \in [pc : {"idle", "walks", "done"}, cursor : Nat, from : Nat, end : Nat,
               tries : 0..(Attempts - 1), read : Reads, edges : SUBSET Nat, since : Nat]
    BY <1>2 DEF HhTyped
  <2>2. 0 \in 0..(Attempts - 1) /\ edge + Period \in Nat /\ walk.edges \union {edge} \in SUBSET Nat
    BY <1>4, <2>1
  <2>3. /\ walk'.cursor = edge + Period /\ walk'.tries = 0 /\ walk'.read = read
        /\ walk'.edges = walk.edges \union {edge} /\ walk'.pc = "walks"
        /\ walk'.from = walk.from /\ walk'.end = walk.end /\ walk'.since = walk.since
    BY <1>1, <2>1
  <2>4. walk' \in [pc : {"idle", "walks", "done"}, cursor : Nat, from : Nat, end : Nat,
               tries : 0..(Attempts - 1), read : Reads, edges : SUBSET Nat, since : Nat]
    BY <1>1, <1>5, <2>1, <2>2
  <2>5. Reads' = Reads BY <1>1 DEF Reads
  <2> QED BY <1>1, <1>2, <2>3, <2>4, <2>5 DEF HhTyped
<1>7. ReadFinal'
  <2>1. SUFFICES ASSUME NEW t \in DOMAIN read, walk.since >= t + Period PROVE read[t]
    BY <1>6 DEF ReadFinal
  <2>2. CASE t \in DOMAIN walk.read
    BY <2>1, <2>2, <1>5 DEF read, HhInv, ReadFinal
  <2>3. CASE t \notin DOMAIN walk.read
    <3>1. t \in Answer BY <2>1, <2>3, <1>5
    <3>2. t \in Nat /\ walk.since \in Nat /\ clock \in Nat /\ walk.since <= clock
      BY <3>1, <1>2, <1>3 DEF HhTyped
    <3>3. Final(t) BY <2>1, <3>2 DEF Final
    <3> QED BY <2>3, <3>1, <3>3 DEF read
  <2> QED BY <2>2, <2>3
<1>8. CursorCovers'
  <2>1. SUFFICES ASSUME NEW t \in published, t <= walk.since, walk.from <= t, t < edge + Period
                 PROVE  t \in DOMAIN read \/ \E e \in walk.edges \union {edge} : e < t /\ t < e + Period
    BY <1>1, <1>6 DEF CursorCovers, Behind
  <2>2. /\ t \in Nat /\ walk.since \in Nat /\ clock \in Nat /\ walk.since <= clock
        /\ walk.cursor \in Nat /\ walk.from \in Nat
    BY <1>2 DEF HhTyped
  <2>3. CASE t < walk.cursor
    BY <1>1, <1>5, <2>1, <2>3 DEF HhInv, CursorCovers, Behind
  <2>4. CASE t > edge
    BY <2>1, <2>4
  <2>5. CASE walk.cursor <= t /\ t <= edge
    <3>1. t \in RowsThere
      <4>1. edge <= SliceEnd
        <5>1. \A r \in RowsThere : r <= SliceEnd
          BY DEF RowsThere
        <5> QED BY <5>1, <1>3, <1>4, <1>1, <1>2, SliceEndIs DEF edge
      <4>2. SliceEnd \in Nat BY <1>1, <1>2, SliceEndIs
      <4>3. t \in walk.cursor..SliceEnd BY <2>2, <2>5, <4>1, <4>2, <1>4
      <4>4. t <= clock BY <2>1, <2>2
      <4> QED BY <4>3, <4>4 DEF RowsThere
    <3>2. Answer # {} BY <3>1, <1>2, PageIsFirst
    <3>3. t \in Answer BY <3>1, <3>2, <2>5, <1>2, <1>4, PageIsFirst
    <3> QED BY <3>3, <1>5
  <2> QED BY <2>2, <2>3, <2>4, <2>5, <1>4
<1>9. WalkComplete' BY <1>6 DEF WalkComplete
<1> QED BY <1>6, <1>7, <1>8, <1>9 DEF HhInv

\* A walk that got to its end is merged: what it read wins over what was
\* stored.
LEMMA EndWalkKeeps == ASSUME HhInv, EndWalk PROVE HhInv'
<1> USE HlHistoryAssumption
<1>1. /\ walk.pc = "walks" /\ walk.cursor >= walk.end /\ walk' = [walk EXCEPT !.pc = "done"]
      /\ kept' = Merge(kept, walk.read) /\ UNCHANGED <<clock, published, walks>>
  BY DEF EndWalk, Written
<1>2. walk \in [pc : {"idle", "walks", "done"}, cursor : Nat, from : Nat, end : Nat,
               tries : 0..(Attempts - 1), read : Reads, edges : SUBSET Nat, since : Nat]
  BY DEF HhInv, HhTyped
<1>3. /\ walk'.pc = "done" /\ walk'.read = walk.read /\ walk'.since = walk.since
      /\ walk'.from = walk.from /\ walk'.end = walk.end /\ walk'.edges = walk.edges
      /\ walk' \in [pc : {"idle", "walks", "done"}, cursor : Nat, from : Nat, end : Nat,
               tries : 0..(Attempts - 1), read : Reads, edges : SUBSET Nat, since : Nat]
  BY <1>1, <1>2
<1>4. DOMAIN walk.read \subseteq published
  <2>1. PICK S \in SUBSET published : walk.read \in [S -> BOOLEAN]
    BY <1>2 DEF Reads
  <2> QED BY <2>1
<1>5. /\ DOMAIN kept' = DOMAIN kept \union DOMAIN walk.read
      /\ \A t \in DOMAIN walk.read : kept'[t] = walk.read[t]
  BY <1>1 DEF Merge
<1>6. HhTyped'
  <2>1. Reads' = Reads BY <1>1 DEF Reads
  <2> QED BY <1>1, <1>3, <1>4, <1>5, <2>1 DEF HhInv, HhTyped
<1>7. WalkComplete'
  <2>1. SUFFICES ASSUME NEW t \in published, t <= walk.since, t \in walk.from..(walk.end - 1)
                 PROVE  \/ t \in DOMAIN kept' /\ (walk.since >= t + Period => kept'[t])
                        \/ \E e \in walk.edges : e < t /\ t < e + Period
    BY <1>1, <1>3 DEF WalkComplete
  <2>2. walk.from <= t /\ t < walk.cursor
    BY <2>1, <1>1, <1>2
  <2>3. Behind(t) BY <2>1, <2>2, <1>1 DEF HhInv, CursorCovers
  <2> QED BY <2>3, <1>5 DEF Behind, HhInv, ReadFinal
<1>8. ReadFinal' /\ CursorCovers'
  BY <1>3 DEF HhInv, ReadFinal, CursorCovers
<1> QED BY <1>6, <1>7, <1>8 DEF HhInv

\* Nothing is read before the first request.
LEMMA NoWalkTyped ==
  ASSUME HhTyped
  PROVE  /\ DOMAIN NoWalk.read = {}
         /\ NoWalk \in [pc : {"idle", "walks", "done"}, cursor : Nat, from : Nat, end : Nat,
               tries : 0..(Attempts - 1), read : Reads, edges : SUBSET Nat, since : Nat]
<1>1. <<>> \in [{} -> BOOLEAN] /\ DOMAIN <<>> = {} OBVIOUS
<1>2. <<>> \in Reads BY <1>1 DEF Reads
<1>3. 0 \in 0..(Attempts - 1) BY HlHistoryAssumption
<1> QED BY <1>1, <1>2, <1>3 DEF NoWalk

\* HhInv holds before the first walk.
LEMMA HhStarts == HhInit => HhInv
<1> SUFFICES ASSUME HhInit PROVE HhInv
  OBVIOUS
<1> USE HlHistoryAssumption
<1>1. <<>> \in [{} -> BOOLEAN] /\ DOMAIN <<>> = {} OBVIOUS
<1>2. <<>> \in Reads BY <1>1 DEF Reads
<1>3. 0 \in 0..(Attempts - 1) OBVIOUS
<1>4. HhTyped BY <1>1, <1>2, <1>3 DEF HhInit, HhTyped, NoWalk
<1> QED BY <1>1, <1>4 DEF HhInit, HhInv, NoWalk, ReadFinal, CursorCovers, WalkComplete

\* Every step keeps HhInv.
LEMMA HhStep == HhInv /\ [HhNext]_hhVars => HhInv'
<1> SUFFICES ASSUME HhInv, [HhNext]_hhVars PROVE HhInv'
  OBVIOUS
<1> USE HlHistoryAssumption
<1> DEFINE Walks == [pc : {"idle", "walks", "done"}, cursor : Nat, from : Nat, end : Nat,
               tries : 0..(Attempts - 1), read : Reads, edges : SUBSET Nat, since : Nat]
<1>0. walk \in Walks /\ HhTyped BY DEF HhInv, HhTyped
<1>1. ASSUME NEW t \in 1..Horizon, Passes(t) PROVE HhInv'
  <2>1. t > clock /\ clock' = t /\ UNCHANGED <<published, walk, kept, walks>>
    BY <1>1, <1>0 DEF Passes, HhTyped
  <2>2. HhTyped' BY <2>1, <1>0 DEF HhTyped, Reads
  <2> QED BY <2>1, <2>2 DEF HhInv, ReadFinal, CursorCovers, Behind, WalkComplete
<1>2. ASSUME NEW t \in 1..Horizon, PublishRow(t) PROVE HhInv'
  <2>1. t > clock /\ published' = published \union {t} /\ UNCHANGED <<clock, walk, kept, walks>>
    BY <1>2 DEF PublishRow
  <2>2. Reads \subseteq Reads' BY <2>1 DEF Reads
  <2>3. HhTyped' BY <2>1, <2>2, <1>0 DEF HhTyped
  <2>4. ~(t <= walk.since) BY <2>1, <1>0 DEF HhTyped
  <2> QED BY <2>1, <2>3, <2>4 DEF HhInv, ReadFinal, CursorCovers, Behind, WalkComplete
<1>3. ASSUME NEW from \in 0..Horizon, NEW end \in 0..Horizon, BeginWalk(from, end) PROVE HhInv'
  <2>1. /\ walk' = [NoWalk EXCEPT !.pc = "walks", !.cursor = from, !.from = from,
                                  !.end = end, !.since = clock]
        /\ walks' = walks + 1 /\ UNCHANGED <<clock, published, kept>>
    BY <1>3 DEF BeginWalk
  <2>2. /\ walk' \in Walks /\ walk'.pc = "walks" /\ walk'.cursor = from /\ walk'.from = from
        /\ DOMAIN walk'.read = {} /\ walk'.since = clock
    <3>1. DOMAIN NoWalk.read = {} /\ NoWalk \in Walks BY <1>0, NoWalkTyped
    <3>2. clock \in Nat /\ from \in Nat /\ end \in Nat BY <1>0 DEF HhTyped
    <3>3. /\ walk'.pc = "walks" /\ walk'.cursor = from /\ walk'.from = from
          /\ walk'.read = NoWalk.read /\ walk'.since = clock
      BY <2>1, <3>1
    <3>4. walk' \in Walks BY <2>1, <3>1, <3>2
    <3> HIDE DEF Walks
    <3> QED BY <3>1, <3>3, <3>4
  <2>3. HhTyped'
    <3>1. Reads' = Reads BY <2>1 DEF Reads
    <3> QED BY <2>1, <2>2, <3>1, <1>0 DEF HhTyped
  <2>4. ReadFinal' /\ WalkComplete' BY <2>2 DEF ReadFinal, WalkComplete
  <2>5. CursorCovers'
    <3>1. ASSUME NEW t \in published', walk'.from <= t, t < walk'.cursor PROVE FALSE
      <4>1. t \in Int BY <2>1, <1>0 DEF HhTyped
      <4> QED BY <2>2, <3>1, <4>1
    <3> QED BY <3>1 DEF CursorCovers
  <2> QED BY <2>3, <2>4, <2>5 DEF HhInv
<1>4. CASE Slice BY <1>4, SliceKeeps
<1>5. CASE SliceFails
  <2>1. /\ walk.pc = "walks" /\ UNCHANGED <<clock, published, kept, walks>>
        /\ walk' = IF walk.tries + 1 < Attempts THEN [walk EXCEPT !.tries = @ + 1] ELSE NoWalk
    BY <1>5 DEF SliceFails, FailsUpTo
  <2>2. CASE walk.tries + 1 < Attempts
    <3>1. /\ walk' \in Walks /\ walk'.pc = "walks" /\ walk'.read = walk.read
          /\ walk'.cursor = walk.cursor /\ walk'.from = walk.from /\ walk'.end = walk.end
          /\ walk'.edges = walk.edges /\ walk'.since = walk.since
      BY <2>1, <2>2, <1>0
    <3>2. HhTyped'
      <4>1. Reads' = Reads BY <2>1 DEF Reads
      <4> QED BY <2>1, <3>1, <4>1, <1>0 DEF HhTyped
    <3> QED BY <2>1, <3>1, <3>2 DEF HhInv, ReadFinal, CursorCovers, Behind, WalkComplete
  <2>3. CASE ~(walk.tries + 1 < Attempts)
    <3>1. walk' = NoWalk BY <2>1, <2>3
    <3>2. walk' \in Walks /\ DOMAIN walk'.read = {} /\ walk'.pc = "idle" /\ walk'.since = 0
      BY <3>1, <1>0, NoWalkTyped DEF NoWalk
    <3>3. HhTyped'
      <4>1. Reads' = Reads BY <2>1 DEF Reads
      <4> QED BY <2>1, <3>2, <4>1, <1>0 DEF HhTyped
    <3> QED BY <3>2, <3>3 DEF HhInv, ReadFinal, CursorCovers, WalkComplete
  <2> QED BY <2>2, <2>3
<1>6. CASE EndWalk BY <1>6, EndWalkKeeps
<1>7. CASE UNCHANGED hhVars
  <2>1. HhTyped' BY <1>7, <1>0 DEF hhVars, HhTyped, Reads
  <2> QED BY <1>7, <2>1 DEF hhVars, HhInv, ReadFinal, CursorCovers, Behind, WalkComplete
<1> QED BY <1>1, <1>2, <1>3, <1>4, <1>5, <1>6, <1>7 DEF HhNext

LEMMA HhHolds == HhSpec => []HhInv
  BY HhStarts, HhStep, PTL DEF HhSpec

\* Only rows the server has listed are stored, whatever walks end or fail.
THEOREM HistoryTyped == HhSpec => []HhTypeOK
<1>1. HhInv => HhTypeOK BY DEF HhInv, HhTyped, HhTypeOK
<1> QED BY <1>1, HhHolds, PTL

\* A walk that ended has stored every row of its window that was there when it
\* began, but for those just past the edge of a page.
THEOREM WalksAreComplete == HhSpec => []WalkComplete
<1>1. HhInv => WalkComplete BY DEF HhInv
<1> QED BY <1>1, HhHolds, PTL

-------------------------------------------------------------------------------
(* Ingest *)

Runs == [pc : {"idle", "page", "done", "misled", "failed"}, from : Nat, to : Nat, offset : Nat,
         before : Int, oldest : Nat]

InTyped ==
  /\ server \in Seq(1..MaxTime) /\ fetch \in Runs
  /\ stored \subseteq DOMAIN server /\ knew \in 0..Len(server)

\* Trades are in the order of their time.
InOrder == \A i, j \in DOMAIN server : i <= j => server[i] <= server[j]

\* The trades of srv that come before the cursor.
Early(srv, before) ==
  {i \in DOMAIN srv : before = NoCursor \/ srv[i] < before \/ (Inclusive /\ srv[i] = before)}
Count(srv, before) == Cardinality(Early(srv, before))

\* A trade of the window the run still has to find.
ToFind(i) == i \in 1..knew /\ InWindow(i) /\ ~PassedOver(server[i]) /\ i \notin stored

\* While the run pages, what it has to find is further back than its offset,
\* and no newer than the oldest row it has seen: behind the first cursor that
\* is what puts it before the second one.
StillAhead ==
  fetch.pc = "page" =>
    /\ fetch.oldest >= 1
    /\ fetch.before # NoCursor => fetch.before >= 0
    /\ \A i \in 1..knew : ToFind(i) => /\ i <= Count(server, fetch.before) - fetch.offset
                                       /\ fetch.before = NoCursor => server[i] <= fetch.oldest

InInv == InTyped /\ InOrder /\ StillAhead /\ TradesComplete

-------------------------------------------------------------------------------
\* What a sequence over S is made of.
LEMMA SeqTyped ==
  ASSUME NEW S, NEW s \in Seq(S)
  PROVE  Len(s) \in Nat /\ DOMAIN s = 1..Len(s) /\ \A i \in DOMAIN s : s[i] \in S
  OBVIOUS

\* A set of the first so many places has as many members as its last one.
LEMMA PrefixIsInterval ==
  ASSUME NEW n \in Nat, NEW S, S \subseteq 1..n, \A j \in S : 1..j \subseteq S
  PROVE  Cardinality(S) \in 0..n /\ S = 1..Cardinality(S)
<1>1. CASE S = {}
  BY <1>1, FS_EmptySet
<1>2. CASE S # {}
  <2>1. S \subseteq 0..n OBVIOUS
  <2>2. Max(S) \in S /\ \A y \in S : y <= Max(S) BY <2>1, <1>2, MaxIn
  <2>3. S = 1..Max(S)
    <3>1. 1..Max(S) \subseteq S BY <2>2
    <3>2. \A y \in S : y \in 1..Max(S) BY <2>2
    <3> QED BY <3>1, <3>2
  <2>4. Max(S) \in 1..n BY <2>2
  <2>5. Cardinality(1..Max(S)) = Max(S)
    BY <2>4, FS_Interval
  <2> QED BY <2>3, <2>4, <2>5
<1> QED BY <1>1, <1>2

\* What comes before the cursor are the first trades.
LEMMA EarlyIsPrefix ==
  ASSUME NEW srv \in Seq(1..MaxTime), NEW before \in Int,
         \A i, j \in DOMAIN srv : i <= j => srv[i] <= srv[j]
  PROVE  /\ Count(srv, before) \in 0..Len(srv)
         /\ Early(srv, before) = 1..Count(srv, before)
<1>1. Len(srv) \in Nat /\ DOMAIN srv = 1..Len(srv) /\ \A i \in DOMAIN srv : srv[i] \in Nat
  <2>1. Len(srv) \in Nat /\ DOMAIN srv = 1..Len(srv) OBVIOUS
  <2>2. \A i \in DOMAIN srv : srv[i] \in 1..MaxTime BY SeqTyped
  <2> QED BY <2>1, <2>2
<1>2. \A j \in Early(srv, before) : 1..j \subseteq Early(srv, before)
  <2>1. SUFFICES ASSUME NEW j \in Early(srv, before), NEW i \in 1..j PROVE i \in Early(srv, before)
    OBVIOUS
  <2>2. j \in DOMAIN srv /\ i \in DOMAIN srv /\ srv[i] <= srv[j]
    BY <2>1, <1>1 DEF Early
  <2>3. srv[i] \in Nat /\ srv[j] \in Nat BY <2>2, <1>1
  <2> QED BY <2>2, <2>3 DEF Early
<1>3. Early(srv, before) \subseteq 1..Len(srv) BY <1>1 DEF Early
<1> QED BY <1>1, <1>2, <1>3, PrefixIsInterval DEF Count

LEMMA MatchingIs ==
  ASSUME InTyped, InOrder
  PROVE  /\ Len(Matching) = Count(server, fetch.before)
         /\ Len(Matching) \in 0..Len(server) /\ Matching \in Seq(1..Len(server))
         /\ \A k \in 1..Len(Matching) : Matching[k] = Len(Matching) + 1 - k
<1> DEFINE m == Count(server, fetch.before)
<1>1. server \in Seq(1..MaxTime) /\ fetch.before \in Int BY DEF InTyped, Runs
<1>2. m \in 0..Len(server) /\ Len(server) \in Nat
  <2>1. \A i, j \in DOMAIN server : i <= j => server[i] <= server[j] BY DEF InOrder
  <2>2. m \in 0..Len(server) BY <1>1, <2>1, EarlyIsPrefix
  <2> QED BY <2>2, <1>1
<1>3. Matching = [k \in 1..m |-> m + 1 - k]
  BY DEF Matching, Matches, Count, Early
<1> HIDE DEF m
<1>4. Matching \in [1..m -> 1..Len(server)] BY <1>2, <1>3
<1>5. Matching \in Seq(1..Len(server)) /\ Len(Matching) = m
  BY <1>2, <1>3, <1>4
<1> QED BY <1>2, <1>3, <1>5 DEF m

\* The rows of a page, and how many they are.
LEMMA PageIs ==
  ASSUME InTyped, InOrder
  PROVE  LET m == Len(Matching)
             o == fetch.offset
         IN  /\ ToSet(Page) \subseteq DOMAIN server
             /\ \A i \in DOMAIN server : i \in ToSet(Page) <=> m - o - PageSize < i /\ i <= m - o
             /\ Page = <<>> => m <= o
             /\ Page # <<>> => ToSet(Page) # {}
             /\ Len(Page) < PageSize => m - o < PageSize
             /\ Len(Page) >= PageSize => m - o >= PageSize
<1> USE IngestAssumption
<1> DEFINE m == Len(Matching)
           o == fetch.offset
           last == Min({Len(Matching), fetch.offset + PageSize})
<1>1. /\ m \in Nat /\ m <= Len(server) /\ Matching \in Seq(1..Len(server))
      /\ \A k \in 1..m : Matching[k] = m + 1 - k
      /\ o \in Nat /\ PageSize \in Nat \ {0} /\ Len(server) \in Nat /\ DOMAIN server = 1..Len(server)
  BY MatchingIs DEF InTyped, Runs
<1>2. last = IF m <= o + PageSize THEN m ELSE o + PageSize
  <2>1. \E x \in {m, o + PageSize} : \A y \in {m, o + PageSize} : x <= y BY <1>1
  <2>2. last \in {m, o + PageSize} /\ last <= m /\ last <= o + PageSize
    BY <2>1 DEF Min
  <2> QED BY <2>2, <1>1
<1>3. Page = SubSeq(Matching, o + 1, last)
  BY DEF Page
<1> HIDE DEF last, o, m
<1>4. last \in Int /\ last <= m /\ o + 1 \in Int BY <1>1, <1>2
<1>5. /\ Page = [k \in 1..(last - o) |-> Matching[o + k]]
      /\ Len(Page) = IF o + 1 <= last THEN last - o ELSE 0
  BY <1>1, <1>3, <1>4 DEF m
<1>6. DOMAIN Page = 1..(last - o) /\ \A k \in 1..(last - o) : Page[k] = m + 1 - (o + k)
  <2>1. ASSUME NEW k \in 1..(last - o) PROVE Page[k] = m + 1 - (o + k)
    <3>1. o + k \in 1..m BY <1>1, <1>4
    <3> QED BY <3>1, <1>1, <1>5
  <2> QED BY <2>1, <1>5
<1>7. ToSet(Page) = {Page[k] : k \in 1..(last - o)}
  BY <1>6 DEF ToSet
<1>8. ASSUME NEW i \in ToSet(Page) PROVE i \in DOMAIN server /\ m - o - PageSize < i /\ i <= m - o
  <2>1. PICK k \in 1..(last - o) : i = m + 1 - (o + k) BY <1>6, <1>7
  <2> QED BY <2>1, <1>1, <1>2
<1>9. ASSUME NEW i \in DOMAIN server, m - o - PageSize < i, i <= m - o PROVE i \in ToSet(Page)
  <2>1. m + 1 - o - i \in 1..(last - o) BY <1>1, <1>2, <1>9
  <2>2. Page[m + 1 - o - i] = i BY <2>1, <1>1, <1>6
  <2> QED BY <2>1, <2>2, <1>7
<1>10. Page = <<>> => m <= o
  <2>1. SUFFICES ASSUME Page = <<>> PROVE m <= o OBVIOUS
  <2>2. Len(Page) = 0 BY <2>1
  <2> QED BY <2>2, <1>1, <1>2, <1>5
<1>11. Page # <<>> => ToSet(Page) # {}
  <2>1. SUFFICES ASSUME ToSet(Page) = {} PROVE Page = <<>> OBVIOUS
  <2>2. ~(1 \in 1..(last - o)) BY <2>1, <1>7
  <2>3. 1..(last - o) = {} BY <2>2, <1>1, <1>4
  <2> QED BY <2>3, <1>5
<1>12. (Len(Page) < PageSize => m - o < PageSize) /\ (Len(Page) >= PageSize => m - o >= PageSize)
  <2>1. CASE m <= o + PageSize
    <3>1. last = m BY <2>1, <1>2
    <3>2. Len(Page) = IF o + 1 <= m THEN m - o ELSE 0 BY <3>1, <1>5
    <3> QED BY <3>2, <2>1, <1>1
  <2>2. CASE ~(m <= o + PageSize)
    <3>1. last = o + PageSize BY <2>2, <1>2
    <3>2. Len(Page) = PageSize BY <3>1, <1>1, <1>5
    <3> QED BY <3>2, <2>2, <1>1
  <2> QED BY <2>1, <2>2
<1>13. ToSet(Page) \subseteq DOMAIN server BY <1>8
<1>14. \A i \in DOMAIN server : i \in ToSet(Page) <=> m - o - PageSize < i /\ i <= m - o
  BY <1>8, <1>9
<1> QED BY <1>10, <1>11, <1>12, <1>13, <1>14 DEF m, o

\* The types, as the steps use them.
LEMMA TypesOf ==
  ASSUME InTyped
  PROVE  /\ Len(server) \in Nat /\ DOMAIN server = 1..Len(server)
         /\ \A i \in DOMAIN server : server[i] \in 1..MaxTime /\ server[i] \in Nat
         /\ knew \in Nat /\ knew <= Len(server) /\ 1..knew \subseteq DOMAIN server
         /\ fetch.offset \in Nat /\ fetch.oldest \in Nat /\ fetch.before \in Int
         /\ fetch.from \in Nat /\ fetch.to \in Nat
<1>1. server \in Seq(1..MaxTime) /\ knew \in 0..Len(server) BY DEF InTyped
<1>2. Len(server) \in Nat /\ DOMAIN server = 1..Len(server) BY <1>1
<1>3. \A i \in DOMAIN server : server[i] \in 1..MaxTime BY <1>1, SeqTyped
<1>4. /\ fetch.offset \in Nat /\ fetch.oldest \in Nat /\ fetch.before \in Int
      /\ fetch.from \in Nat /\ fetch.to \in Nat
  BY DEF InTyped, Runs
<1> QED BY <1>1, <1>2, <1>3, <1>4

\* A trade that arrives is the last, and what was to be found is no nearer.
LEMMA ArrivesKeeps ==
  ASSUME InInv, NEW ts \in 1..MaxTime, TradeArrives(ts) PROVE InInv'
<1> USE IngestAssumption
<1> DEFINE n == Len(server)
<1>1. /\ server' = Append(server, ts) /\ UNCHANGED <<fetch, stored, knew>>
      /\ \A i \in DOMAIN server : server[i] <= ts
  BY DEF TradeArrives
<1>2. InTyped /\ InOrder /\ StillAhead /\ TradesComplete BY DEF InInv
<1>3. /\ server \in Seq(1..MaxTime) /\ n \in Nat /\ DOMAIN server = 1..n
      /\ \A i \in DOMAIN server : server[i] \in Nat
      /\ knew \in Nat /\ 1..knew \subseteq DOMAIN server
  BY <1>2, TypesOf DEF InTyped
<1>4. /\ server' \in Seq(1..MaxTime) /\ Len(server') = n + 1 /\ DOMAIN server' = 1..(n + 1)
      /\ \A i \in 1..n : server'[i] = server[i]
      /\ server'[n + 1] = ts
  BY <1>1, <1>3
<1> HIDE DEF n
<1>5. InTyped'
  BY <1>1, <1>2, <1>3, <1>4 DEF InTyped, n
<1>6. InOrder'
  <2>1. SUFFICES ASSUME NEW i \in 1..(n + 1), NEW j \in 1..(n + 1), i <= j
                 PROVE  server'[i] <= server'[j]
    BY <1>4 DEF InOrder
  <2>2. CASE j = n + 1 BY <2>2, <1>1, <1>3, <1>4
  <2>3. CASE j # n + 1
    <3>1. i \in 1..n /\ j \in 1..n BY <2>1, <2>3, <1>3
    <3>2. server[i] <= server[j] BY <3>1, <2>1, <1>2, <1>3 DEF InOrder
    <3> QED BY <3>1, <3>2, <1>4
  <2> QED BY <2>2, <2>3
<1>7. \A i \in 1..knew : server'[i] = server[i] /\ (ToFind(i)' <=> ToFind(i))
  <2>1. ASSUME NEW i \in 1..knew PROVE server'[i] = server[i] BY <1>3, <1>4
  <2> QED BY <2>1, <1>1 DEF ToFind, InWindow, PassedOver
<1>8. Count(server', fetch.before) >= Count(server, fetch.before) /\ Count(server, fetch.before) \in Nat /\ Count(server', fetch.before) \in Nat
  <2>1. fetch.before \in Int BY <1>2, TypesOf
  <2>2. /\ Count(server, fetch.before) \in 0..n
        /\ Early(server, fetch.before) = 1..Count(server, fetch.before)
    BY <1>2, <1>3, <2>1, EarlyIsPrefix DEF InOrder, n
  <2>3. /\ Count(server', fetch.before) \in 0..(n + 1)
        /\ Early(server', fetch.before) = 1..Count(server', fetch.before)
    BY <1>4, <1>6, <2>1, EarlyIsPrefix DEF InOrder
  <2>4. Early(server, fetch.before) \subseteq Early(server', fetch.before)
    BY <1>3, <1>4 DEF Early
  <2>5. Count(server, fetch.before) # 0 => Count(server, fetch.before) \in Early(server', fetch.before)
    BY <2>2, <2>4
  <2> QED BY <2>2, <2>3, <2>5
<1>9. StillAhead'
  <2>1. SUFFICES ASSUME fetch.pc = "page", NEW i \in 1..knew, ToFind(i)
                 PROVE  /\ i <= Count(server', fetch.before) - fetch.offset
                        /\ fetch.before = NoCursor => server'[i] <= fetch.oldest
    BY <1>1, <1>2, <1>7 DEF StillAhead
  <2>2. /\ i <= Count(server, fetch.before) - fetch.offset
        /\ fetch.before = NoCursor => server[i] <= fetch.oldest
    BY <2>1, <1>2 DEF StillAhead
  <2>3. fetch.offset \in Nat /\ i \in Nat BY <1>2, TypesOf
  <2> QED BY <2>2, <2>3, <1>7, <1>8
<1>10. TradesComplete'
  <2>1. SUFFICES ASSUME fetch.pc = "done", NewerThanWindow' < PageSize,
                        NEW i \in 1..knew, InWindow(i)', ~PassedOver(server[i])'
                 PROVE  i \in stored
    BY <1>1 DEF TradesComplete
  <2>2. NewerThanWindow < PageSize
    <3> DEFINE S == {k \in DOMAIN server : server[k] > fetch.to}
               T == {k \in DOMAIN server' : server'[k] > fetch.to}
    <3>1. NewerThanWindow = Cardinality(S) /\ NewerThanWindow' = Cardinality(T)
      BY <1>1 DEF NewerThanWindow
    <3>2. S \subseteq T BY <1>3, <1>4
    <3>3. IsFiniteSet(T)
      <4>1. IsFiniteSet(1..(n + 1)) BY <1>3, FS_Interval
      <4>2. T \subseteq 1..(n + 1) BY <1>4
      <4> QED BY <4>1, <4>2, FS_Subset
    <3>4. Cardinality(S) <= Cardinality(T) /\ Cardinality(T) \in Nat /\ Cardinality(S) \in Nat
      BY <3>2, <3>3, FS_Subset, FS_CardinalityType
    <3> HIDE DEF S, T
    <3> QED BY <3>1, <3>4, <2>1
  <2>3. InWindow(i) /\ ~PassedOver(server[i])
    BY <2>1, <1>1, <1>7 DEF InWindow, PassedOver
  <2> QED BY <2>1, <2>2, <2>3, <1>2 DEF TradesComplete
<1> QED BY <1>5, <1>6, <1>9, <1>10 DEF InInv

\* A page of rows: what is still to be found is further back than all of them,
\* and the two ways to end leave nothing there.
LEMMA TradePageKeeps == ASSUME InInv, TradePage PROVE InInv'
<1> USE IngestAssumption
<1> DEFINE rows == ToSet(Page)
           oldest == Min({fetch.oldest} \union {server[i] : i \in rows})
           over == Len(Page) < PageSize \/ \A i \in rows : ~InWindow(i)
           m == Count(server, fetch.before)
           o == fetch.offset
<1>1. /\ fetch.pc = "page" /\ Page # <<>> /\ UNCHANGED <<server, knew>>
      /\ stored' = stored \union {i \in rows : InWindow(i)}
      /\ fetch' = [fetch EXCEPT !.oldest = oldest, !.offset = o + PageSize,
                                !.pc = IF over THEN "done" ELSE "page"]
  BY DEF TradePage, TradePageFor
<1>2. InTyped /\ InOrder /\ StillAhead BY DEF InInv
<1>3. /\ Len(server) \in Nat /\ DOMAIN server = 1..Len(server)
      /\ \A i \in DOMAIN server : server[i] \in 1..MaxTime /\ server[i] \in Nat
      /\ knew \in Nat /\ 1..knew \subseteq DOMAIN server
      /\ o \in Nat /\ fetch.oldest \in Nat /\ fetch.before \in Int /\ fetch.from \in Nat /\ fetch.to \in Nat
  BY <1>2, TypesOf
<1>4. /\ m \in Nat /\ m = Len(Matching) /\ rows \subseteq DOMAIN server /\ rows # {}
      /\ \A i \in DOMAIN server : i \in rows <=> m - o - PageSize < i /\ i <= m - o
      /\ Len(Page) < PageSize => m - o < PageSize
      /\ Len(Page) >= PageSize => m - o >= PageSize
      /\ Len(Page) \in Int
  <2>1. m = Len(Matching) /\ m \in Nat BY <1>2, <1>3, MatchingIs
  <2>2. Len(Page) \in Int
    <3>1. Matching \in Seq(1..Len(server)) BY <1>2, MatchingIs
    <3>2. fetch.offset + 1 \in Int /\ Min({Len(Matching), fetch.offset + PageSize}) \in Int
      <4>1. \E x \in {m, o + PageSize} : \A y \in {m, o + PageSize} : x <= y BY <1>3, <2>1
      <4> QED BY <4>1, <1>3, <2>1 DEF Min
    <3> QED BY <3>1, <3>2 DEF Page
  <2> QED BY <1>1, <1>2, <2>1, <2>2, PageIs
<1>5. /\ oldest \in Nat /\ oldest <= fetch.oldest /\ \A i \in rows : oldest <= server[i]
      /\ oldest = fetch.oldest \/ \E i \in rows : oldest = server[i]
  <2> DEFINE S == {fetch.oldest} \union {server[i] : i \in rows}
  <2>1. S \subseteq Nat /\ S # {} BY <1>3, <1>4
  <2>2. \E x \in S : \A y \in S : x <= y
    <3> HIDE DEF S
    <3> QED BY <2>1, LeastNat
  <2>3. Min(S) \in S /\ \A y \in S : Min(S) <= y BY <2>2 DEF Min
  <2>4. oldest = Min(S) OBVIOUS
  <2>5. fetch.oldest \in S /\ \A i \in rows : server[i] \in S OBVIOUS
  <2>6. oldest \in Nat /\ oldest <= fetch.oldest /\ \A i \in rows : oldest <= server[i]
    <3> HIDE DEF S, oldest
    <3> QED BY <2>1, <2>3, <2>4, <2>5
  <2> QED BY <2>3, <2>4, <2>6
<1> HIDE DEF rows, oldest, m, o
<1>6. fetch \in Runs BY <1>2 DEF InTyped
<1>7. /\ fetch' \in Runs /\ fetch'.oldest = oldest /\ fetch'.offset = o + PageSize
      /\ fetch'.pc = (IF over THEN "done" ELSE "page") /\ fetch'.before = fetch.before
      /\ fetch'.from = fetch.from /\ fetch'.to = fetch.to
  <2> HIDE DEF over
  <2>1. o + PageSize \in Nat BY <1>3
  <2> QED BY <1>1, <1>5, <1>6, <2>1 DEF Runs
<1>8. InTyped'
  BY <1>1, <1>2, <1>4, <1>7 DEF InTyped
<1>9. InOrder' BY <1>1, <1>2 DEF InOrder
<1>10. ASSUME NEW i \in 1..knew, ToFind(i)'
       PROVE  /\ ToFind(i) /\ i <= m - o /\ i \notin rows /\ i <= m - o - PageSize
              /\ \A j \in rows : server[i] <= server[j]
  <2>1. ToFind(i) /\ i \notin rows
    BY <1>1, <1>7, <1>10 DEF ToFind, InWindow, PassedOver
  <2>2. i \in DOMAIN server /\ i \in Nat BY <1>3
  <2>3. i <= m - o BY <2>1, <1>1, <1>2 DEF StillAhead, m, o
  <2>4. i <= m - o - PageSize
    <3>1. ~(m - o - PageSize < i /\ i <= m - o) BY <2>1, <2>2, <1>4
    <3>2. m \in Nat /\ o \in Nat BY <1>3, <1>4
    <3> QED BY <3>1, <3>2, <2>2, <2>3
  <2>5. ASSUME NEW j \in rows PROVE server[i] <= server[j]
    <3>1. j \in DOMAIN server /\ i <= j BY <2>2, <2>4, <1>3, <1>4
    <3> QED BY <3>1, <2>2, <1>2 DEF InOrder
  <2> QED BY <2>1, <2>3, <2>4, <2>5
<1>11. StillAhead'
  <2>1. SUFFICES ASSUME ~over
                 PROVE  /\ oldest >= 1
                        /\ fetch.before # NoCursor => fetch.before >= 0
                        /\ \A i \in 1..knew : ToFind(i)' =>
                              /\ i <= m - (o + PageSize)
                              /\ fetch.before = NoCursor => server[i] <= oldest
    BY <1>1, <1>7 DEF StillAhead, m
  <2>2. oldest >= 1
    <3>1. fetch.oldest >= 1 BY <1>1, <1>2 DEF StillAhead
    <3> QED BY <3>1, <1>3, <1>4, <1>5
  <2>3. fetch.before # NoCursor => fetch.before >= 0 BY <1>1, <1>2 DEF StillAhead
  <2>4. ASSUME NEW i \in 1..knew, ToFind(i)'
        PROVE  i <= m - (o + PageSize) /\ (fetch.before = NoCursor => server[i] <= oldest)
    <3>1. i <= m - (o + PageSize) BY <2>4, <1>3, <1>4, <1>10
    <3>2. fetch.before = NoCursor => server[i] <= fetch.oldest
      BY <2>4, <1>1, <1>2, <1>10 DEF StillAhead
    <3> QED BY <3>1, <3>2, <2>4, <1>5, <1>10
  <2> QED BY <2>2, <2>3, <2>4
<1>12. TradesComplete'
  <2>0. SUFFICES ASSUME over, NewerThanWindow' < PageSize, NEW i \in 1..knew,
                        InWindow(i)', ~PassedOver(server[i])', i \notin stored'
                 PROVE  FALSE
    BY <1>1, <1>7 DEF TradesComplete
  <2>1. NewerThanWindow < PageSize /\ ToFind(i)'
    BY <2>0, <1>1, <1>7 DEF NewerThanWindow, ToFind
  <2>2. i \in Nat /\ i >= 1 /\ i \in DOMAIN server /\ server[i] \in Nat BY <1>3
  <2>3. m - o >= PageSize + 1 BY <2>1, <2>2, <1>3, <1>4, <1>10
  <2>4. \A j \in rows : ~InWindow(j)
    BY <2>0, <2>3, <1>3, <1>4
  <2>5. ASSUME NEW j \in rows PROVE server[j] > fetch.to
    <3>1. server[i] \in fetch.from..fetch.to
      BY <2>1, <1>10 DEF ToFind, InWindow
    <3>2. server[i] <= server[j] /\ server[j] \in Nat /\ ~(server[j] \in fetch.from..fetch.to)
      BY <2>1, <2>4, <1>3, <1>4, <1>10 DEF InWindow
    <3> QED BY <3>1, <3>2, <2>2, <1>3
  <2>6. (m - o - PageSize + 1)..(m - o) \subseteq {k \in DOMAIN server : server[k] > fetch.to}
    <3>1. ASSUME NEW k \in (m - o - PageSize + 1)..(m - o) PROVE k \in rows
      <4>1. m <= Len(server) BY <1>2, <1>4, MatchingIs
      <4>2. k \in DOMAIN server BY <2>3, <4>1, <1>3, <1>4
      <4> QED BY <4>2, <1>3, <1>4
    <3> QED BY <3>1, <2>5, <1>4
  <2>7. PageSize <= NewerThanWindow
    <3> DEFINE S == {k \in DOMAIN server : server[k] > fetch.to}
    <3>1. IsFiniteSet(S)
      <4>1. IsFiniteSet(1..Len(server)) BY <1>3, FS_Interval
      <4>2. S \subseteq 1..Len(server) BY <1>3
      <4> QED BY <4>1, <4>2, FS_Subset
    <3>2. Cardinality((m - o - PageSize + 1)..(m - o)) = PageSize
      <4>1. m - o - PageSize + 1 \in Int /\ m - o \in Int BY <1>3, <1>4
      <4>2. Cardinality((m - o - PageSize + 1)..(m - o)) =
              IF m - o - PageSize + 1 > m - o THEN 0 ELSE (m - o) - (m - o - PageSize + 1) + 1
        BY <4>1, FS_Interval
      <4> QED BY <4>1, <4>2
    <3>3. Cardinality((m - o - PageSize + 1)..(m - o)) <= Cardinality(S)
      <4> HIDE DEF S
      <4> QED BY <3>1, <2>6, FS_Subset DEF S
    <3> QED BY <3>2, <3>3 DEF NewerThanWindow
  <2>8. NewerThanWindow \in Nat
    <3>1. IsFiniteSet(1..Len(server)) BY <1>3, FS_Interval
    <3>2. {k \in DOMAIN server : server[k] > fetch.to} \subseteq 1..Len(server) BY <1>3
    <3>3. IsFiniteSet({k \in DOMAIN server : server[k] > fetch.to}) BY <3>1, <3>2, FS_Subset
    <3> QED BY <3>3, FS_CardinalityType DEF NewerThanWindow
  <2> QED BY <2>1, <2>7, <2>8
<1> QED BY <1>8, <1>9, <1>11, <1>12 DEF InInv

\* A page without rows: nothing is further back than the offset.
LEMMA EmptyLeavesNothing ==
  ASSUME InInv, fetch.pc = "page", Page = <<>>, NEW i \in 1..knew PROVE ~ToFind(i)
<1>1. SUFFICES ASSUME ToFind(i) PROVE FALSE OBVIOUS
<1>2. InTyped /\ InOrder BY DEF InInv
<1>3. Len(Matching) <= fetch.offset BY <1>2, PageIs
<1>4. i <= Len(Matching) - fetch.offset
  BY <1>1, <1>2, MatchingIs DEF InInv, StillAhead
<1>5. Len(Matching) \in Nat /\ fetch.offset \in Nat
  <2>1. Len(Matching) \in 0..Len(server) BY <1>2, MatchingIs
  <2> QED BY <2>1, <1>2, TypesOf
<1> QED BY <1>3, <1>4, <1>5

\* The second cursor is put before all that is left to find, but for the two
\* seconds it passes over.
LEMMA CursorKeeps ==
  ASSUME InInv, fetch.pc = "page", fetch.before = NoCursor, Cursor,
         UNCHANGED <<server, stored, knew>>
  PROVE  InInv'
<1> USE IngestAssumption
<1> DEFINE b == fetch.oldest - 1
<1>1. InTyped /\ InOrder /\ StillAhead BY DEF InInv
<1>2. fetch \in Runs BY <1>1 DEF InTyped
<1>3. fetch.oldest >= 1 /\ fetch.oldest \in Nat BY <1>1, <1>2 DEF StillAhead, Runs
<1>4. /\ fetch' \in Runs /\ fetch'.before = b /\ fetch'.offset = 0 /\ fetch'.pc = "page"
      /\ fetch'.oldest = fetch.oldest /\ fetch'.from = fetch.from /\ fetch'.to = fetch.to
      /\ b \in Nat
  <2>1. b \in Nat /\ b \in Int /\ 0 \in Nat BY <1>3
  <2>2. fetch' = [fetch EXCEPT !.before = b, !.offset = 0] BY DEF Cursor
  <2> HIDE DEF b
  <2> QED BY <1>2, <2>1, <2>2 DEF Runs
<1> HIDE DEF b
<1>5. InTyped' /\ InOrder' BY <1>1, <1>4 DEF InTyped, InOrder
<1>6. ASSUME NEW i \in 1..knew, ToFind(i)' PROVE i <= Count(server, b) - 0
  <2>1. i \notin stored /\ InWindow(i) /\ ~(server[i] \in {b, b + 1})
    BY <1>4, <1>6 DEF ToFind, InWindow, PassedOver, NoCursor
  <2>2. ToFind(i) BY <2>1 DEF ToFind, PassedOver
  <2>3. server[i] <= fetch.oldest BY <2>2, <1>1 DEF StillAhead
  <2>4. server[i] \in Nat /\ i \in DOMAIN server /\ i \in Nat BY <1>1, TypesOf
  <2>5. server[i] < b BY <2>1, <2>3, <2>4, <1>3 DEF b
  <2>6. i \in Early(server, b) BY <2>4, <2>5 DEF Early
  <2>7. Early(server, b) = 1..Count(server, b) /\ Count(server, b) \in 0..Len(server)
    <3>1. server \in Seq(1..MaxTime) /\ b \in Int BY <1>1, <1>4 DEF InTyped
    <3>2. \A k, j \in DOMAIN server : k <= j => server[k] <= server[j] BY <1>1 DEF InOrder
    <3> QED BY <3>1, <3>2, EarlyIsPrefix
  <2> QED BY <2>4, <2>6, <2>7, <1>1, TypesOf
<1>7. StillAhead'
  <2>1. b # NoCursor BY <1>4 DEF NoCursor
  <2> QED BY <2>1, <1>3, <1>4, <1>6 DEF StillAhead
<1>8. TradesComplete' BY <1>4 DEF TradesComplete
<1> QED BY <1>5, <1>7, <1>8 DEF InInv

\* A run that ends for another reason leaves the catalog as it is.
LEMMA EndsKeeps ==
  ASSUME InInv, NEW how \in {"done", "misled", "failed"}, FetchEnds(how), UNCHANGED <<server, stored, knew>>,
         how = "done" => \A i \in 1..knew : ~ToFind(i)
  PROVE  InInv'
<1>1. InTyped /\ InOrder BY DEF InInv
<1>2. fetch \in Runs BY <1>1 DEF InTyped
<1>3. /\ fetch' \in Runs /\ fetch'.pc = how /\ fetch'.before = fetch.before
      /\ fetch'.from = fetch.from /\ fetch'.to = fetch.to
  BY <1>2 DEF FetchEnds, Runs
<1>4. InTyped' /\ InOrder' BY <1>1, <1>3 DEF InTyped, InOrder
<1>5. StillAhead' BY <1>3 DEF StillAhead
<1>6. TradesComplete'
  BY <1>3 DEF TradesComplete, ToFind, InWindow, PassedOver
<1> QED BY <1>4, <1>5, <1>6 DEF InInv

\* Everything is still to be found when the run begins.
LEMMA BeginKeeps ==
  ASSUME InInv, NEW from \in 1..MaxTime, NEW to \in 1..MaxTime, BeginTrades(from, to)
  PROVE  InInv'
<1> USE IngestAssumption
<1>1. InTyped /\ InOrder BY DEF InInv
<1>2. /\ knew' = Len(server) /\ UNCHANGED <<server, stored>>
      /\ fetch' = [pc |-> "page", from |-> from, to |-> to, offset |-> 0,
                   before |-> NoCursor, oldest |-> to]
  BY DEF BeginTrades
<1>3. Len(server) \in Nat /\ DOMAIN server = 1..Len(server) /\ \A i \in DOMAIN server : server[i] \in Nat
  BY <1>1, TypesOf
<1>4. fetch' \in Runs
  <2>1. NoCursor \in Int BY DEF NoCursor
  <2> QED BY <1>2, <2>1 DEF Runs
<1>5. InTyped' /\ InOrder' BY <1>1, <1>2, <1>3, <1>4 DEF InTyped, InOrder
<1>6. Count(server, NoCursor) = Len(server)
  <2>1. Early(server, NoCursor) = 1..Len(server) BY <1>3 DEF Early
  <2>2. Cardinality(1..Len(server)) = Len(server)
    <3>1. 1 \in Int /\ Len(server) \in Int BY <1>3
    <3>2. Cardinality(1..Len(server)) = IF 1 > Len(server) THEN 0 ELSE Len(server) - 1 + 1
      BY <3>1, FS_Interval
    <3> QED BY <3>2, <1>3
  <2> QED BY <2>1, <2>2 DEF Count
<1>7. ASSUME NEW i \in 1..Len(server), ToFind(i)' PROVE server[i] <= to
  <2>1. server[i] \in from..to BY <1>2, <1>7 DEF ToFind, InWindow
  <2> QED BY <2>1, <1>3
<1>8. StillAhead' BY <1>2, <1>3, <1>6, <1>7 DEF StillAhead
<1>9. TradesComplete' BY <1>2 DEF TradesComplete
<1> QED BY <1>5, <1>8, <1>9 DEF InInv

\* InInv holds before the first trade.
LEMMA InStarts == InInit => InInv
<1> SUFFICES ASSUME InInit PROVE InInv
  OBVIOUS
<1> USE IngestAssumption
<1>1. server \in Seq(1..MaxTime) /\ Len(server) = 0 /\ DOMAIN server = {}
  BY DEF InInit
<1>2. fetch \in Runs /\ fetch.pc = "idle"
  BY DEF InInit, Resting, NoCursor, Runs
<1> QED BY <1>1, <1>2 DEF InInit, InInv, InTyped, InOrder, StillAhead, TradesComplete

\* Every step keeps InInv.
LEMMA InStep == InInv /\ [InNext]_inVars => InInv'
<1> SUFFICES ASSUME InInv, [InNext]_inVars PROVE InInv'
  OBVIOUS
<1>1. CASE \E ts \in 1..MaxTime : TradeArrives(ts) BY <1>1, ArrivesKeeps
<1>2. CASE \E from, to \in 1..MaxTime : BeginTrades(from, to) BY <1>2, BeginKeeps
<1>3. CASE TradePageRefused
  <2>1. CASE fetch.before = NoCursor BY <2>1, <1>3, CursorKeeps DEF TradePageRefused
  <2>2. CASE fetch.before # NoCursor BY <2>2, <1>3, EndsKeeps DEF TradePageRefused
  <2> QED BY <2>1, <2>2
<1>4. CASE TradePageFails BY <1>4, EndsKeeps DEF TradePageFails
<1>5. CASE TradePageEmpty
  <2>1. CASE fetch.before = NoCursor /\ fetch.oldest > fetch.from
    BY <2>1, <1>5, CursorKeeps DEF TradePageEmpty, NoMore
  <2>2. CASE ~(fetch.before = NoCursor /\ fetch.oldest > fetch.from)
    <3>1. FetchEnds("done") /\ UNCHANGED <<server, stored, knew>> /\ fetch.pc = "page" /\ Page = <<>>
      BY <2>2, <1>5 DEF TradePageEmpty, NoMore
    <3>2. \A i \in 1..knew : ~ToFind(i) BY <3>1, EmptyLeavesNothing
    <3> QED BY <3>1, <3>2, EndsKeeps
  <2> QED BY <2>1, <2>2
<1>8. CASE TradePageNoList
  <2>1. CASE fetch.before = NoCursor /\ fetch.oldest > fetch.from
    BY <2>1, <1>8, CursorKeeps DEF TradePageNoList, NoMore
  <2>2. CASE ~(fetch.before = NoCursor /\ fetch.oldest > fetch.from)
    BY <2>2, <1>8, EndsKeeps DEF TradePageNoList, NoMore
  <2> QED BY <2>1, <2>2
<1>6. CASE TradePage BY <1>6, TradePageKeeps
<1>7. CASE UNCHANGED inVars
  BY <1>7 DEF inVars, InInv, InTyped, InOrder, StillAhead, TradesComplete, ToFind, InWindow,
     PassedOver, NewerThanWindow
<1> QED BY <1>1, <1>2, <1>3, <1>4, <1>5, <1>6, <1>7, <1>8 DEF InNext

LEMMA InHolds == InSpec => []InInv
  BY InStarts, InStep, PTL DEF InSpec

\* Only trades the server has are stored, and every variable keeps its type.
THEOREM IngestTyped == InSpec => []InTypeOK
<1>1. InInv => InTypeOK BY DEF InInv, InTyped, InTypeOK, Runs
<1> QED BY <1>1, InHolds, PTL

\* A run that ended has stored every trade of its window that was there when it
\* began, whatever arrived meanwhile, but for the three exceptions it names.
THEOREM TradesAreComplete == InSpec => []TradesComplete
<1>1. InInv => TradesComplete BY DEF InInv
<1> QED BY <1>1, InHolds, PTL

-------------------------------------------------------------------------------
(* Backtest *)

\* A lot, what a fill is matched with, and the accounts of the two series.
Lot == [px : Int, qty : Int]
Tot == [qty : Int, pnl : Int, rest : Seq(Lot)]
Account == [pnl : Int, q : [Legs -> Seq(Lot)]]
OneSide == [pnl : Int, q : Seq(FillOf)]

\* A fill has a price, a quantity, a token and a side.
LEMMA FillTyped == ASSUME NEW f \in FillOf PROVE f.px \in Int /\ f.qty \in Nat /\ f.tok \in Legs /\ f.buy \in BOOLEAN
<1>1. f.px \in TickPrices /\ f.qty \in Lots /\ f.tok \in Legs /\ f.buy \in BOOLEAN BY DEF FillOf
<1>2. f.px \in 1..(One - 1) /\ f.qty \in Nat BY <1>1, BacktestAssumption
<1> QED BY <1>1, <1>2, BacktestAssumption

\* One lot: the profit and the types.
LEMMA MatchLegTyped ==
  ASSUME NEW tot \in Tot, NEW leg \in Lot, NEW px \in Int
  PROVE  MatchLeg(tot, leg, px) \in Tot
<1> DEFINE k == Lesser(tot.qty, leg.qty)
<1>1. k \in Int BY DEF Lesser, Tot, Lot
<1>2. One \in Int BY BacktestAssumption
<1> HIDE DEF k
<1>3. [leg EXCEPT !.qty = @ - k] \in Lot BY <1>1 DEF Lot
<1>4. tot.rest \in Seq(Lot) /\ tot.qty \in Int /\ tot.pnl \in Int BY DEF Tot
<1>5. Append(tot.rest, [leg EXCEPT !.qty = @ - k]) \in Seq(Lot) BY <1>3, <1>4
<1>6. tot.qty - k \in Int BY <1>1, <1>4
<1>7. k * (One - px - leg.px) \in Int
  <2>1. leg.px \in Int BY DEF Lot
  <2>2. One - px - leg.px \in Int BY <1>2, <2>1
  <2> QED BY <1>1, <2>2
<1>8. tot.pnl + k * (One - px - leg.px) \in Int BY <1>7, <1>4
<1> QED BY <1>4, <1>5, <1>6, <1>8 DEF MatchLeg, Tot, k

\* What a fill takes from the other token's lots, lot by lot.
LEMMA MatchedRuns ==
  ASSUME NEW q \in Seq(Lot), NEW f \in FillOf, NEW pnl \in Int
  PROVE  \E c \in [0..Len(q) -> Tot] :
           /\ c[0] = [qty |-> f.qty, pnl |-> pnl, rest |-> <<>>]
           /\ \A k \in 1..Len(q) : c[k] = MatchLeg(c[k - 1], q[k], f.px)
           /\ Matched(q, f, pnl) = c[Len(q)]
<1> DEFINE F == [p \in Tot \X Lot |-> MatchLeg(p[1], p[2], f.px)]
           b == [qty |-> f.qty, pnl |-> pnl, rest |-> <<>>]
           P == SUBSET (1..Len(q))
<1>0. b \in Tot /\ DOMAIN q = 1..Len(q) /\ Len(q) \in Nat /\ q \in [1..Len(q) -> Lot]
  BY FillTyped DEF Tot
<1>1. F \in [Tot \X Lot -> Tot] /\ \A x \in Tot, y \in Lot : F[<<x, y>>] = MatchLeg(x, y, f.px)
  <2>1. \A x \in Tot, y \in Lot : MatchLeg(x, y, f.px) \in Tot BY FillTyped, MatchLegTyped
  <2> QED BY <2>1
<1> HIDE DEF F, b
<1>2. PICK c \in [0..Len(q) -> Tot] : StepsOf(c, F, b, q) BY <1>0, <1>1, RunExists, Zenon
<1>3. PICK g \in [SUBSET (1..Len(q)) -> Tot] : Iterates(g, F, b, q, Tot)
  BY <1>0, <1>1, IterExists, Zenon
<1>4. ASSUME NEW S \in P, S # {} PROVE q[Max(S)] \in Lot /\ S \ {Max(S)} \in P
  BY <1>4, LastOfPositions
<1>5. g = [S \in P |-> IF S = {} THEN b ELSE MatchLeg(g[S \ {Max(S)}], q[Max(S)], f.px)]
  <2>1. ASSUME NEW S \in P, S # {} PROVE g[S] = MatchLeg(g[S \ {Max(S)}], q[Max(S)], f.px)
    <3>1. g[S \ {Max(S)}] \in Tot BY <1>4, <2>1
    <3> QED BY <1>1, <1>3, <1>4, <2>1, <3>1 DEF Iterates
  <2>2. g = [S \in P |-> g[S]] OBVIOUS
  <2> QED BY <1>3, <2>1, <2>2 DEF Iterates
<1> DEFINE h == CHOOSE g1 : g1 = [S \in P |-> IF S = {} THEN b ELSE MatchLeg(g1[S \ {Max(S)}], q[Max(S)], f.px)]
<1>6. h = [S \in P |-> IF S = {} THEN b ELSE MatchLeg(h[S \ {Max(S)}], q[Max(S)], f.px)] BY <1>5
<1>7. Matched(q, f, pnl) = h[DOMAIN q] BY <1>0 DEF Matched, FoldLeft, MapThenFoldSet, b
<1> HIDE DEF h
<1>8. Iterates(h, F, b, q, Tot)
  <2>1. h[{}] = b BY <1>6
  <2>2. \A S \in P : S # {} => h[S] = MatchLeg(h[S \ {Max(S)}], q[Max(S)], f.px) BY <1>6
  <2>3. ASSUME NEW S \in P, S # {}, h[S \ {Max(S)}] \in Tot
        PROVE  h[S] = F[<<h[S \ {Max(S)}], q[Max(S)]>>]
    <3>1. h[S] = MatchLeg(h[S \ {Max(S)}], q[Max(S)], f.px) BY <2>2, <2>3
    <3>2. q[Max(S)] \in Lot BY <1>4, <2>3
    <3> HIDE DEF P
    <3> QED BY <1>1, <2>3, <3>1, <3>2
  <2> QED BY <2>1, <2>3 DEF Iterates
<1>9. IterFollows(h, c, q) BY <1>0, <1>1, <1>2, <1>8, IterIs, Zenon
<1>10. ASSUME NEW k \in 1..Len(q) PROVE c[k] = MatchLeg(c[k - 1], q[k], f.px)
  <2>1. k - 1 \in 0..Len(q) /\ q[k] \in Lot BY <1>0
  <2>2. c[k] = F[<<c[k - 1], q[k]>>] BY <1>2 DEF StepsOf
  <2>3. c[k - 1] \in Tot BY <2>1
  <2> QED BY <2>1, <2>2, <2>3, <1>1
<1>11. c[0] = b BY <1>2 DEF StepsOf
<1>12. Matched(q, f, pnl) = c[Len(q)] BY <1>0, <1>7, <1>9 DEF IterFollows
<1> QED BY <1>10, <1>11, <1>12 DEF b


\* A fill matched against a queue leaves a queue.
LEMMA MatchedTyped ==
  ASSUME NEW q \in Seq(Lot), NEW f \in FillOf, NEW pnl \in Int
  PROVE  Matched(q, f, pnl) \in Tot
<1>1. PICK c \in [0..Len(q) -> Tot] : Matched(q, f, pnl) = c[Len(q)] BY MatchedRuns
<1>2. Len(q) \in 0..Len(q) OBVIOUS
<1> QED BY <1>1, <1>2

\* The other leg of a leg is a leg.
LEMMA OtherLeg ==
  ASSUME NEW u \in Legs PROVE (CHOOSE t \in Legs : t # u) \in Legs /\ (CHOOSE t \in Legs : t # u) # u
BY DEF Legs

\* A fill takes the account of the pairs to one.
LEMMA ArbStepTyped ==
  ASSUME NEW acc \in Account, NEW f \in FillOf PROVE ArbStep(acc, f) \in Account
<1> DEFINE other == CHOOSE t \in Legs : t # f.tok
           r == Matched(acc.q[other], f, acc.pnl)
<1>1. other \in Legs BY FillTyped, OtherLeg
<1> HIDE DEF other
<1>2. acc.q \in [Legs -> Seq(Lot)] /\ acc.pnl \in Int BY DEF Account
<1>3. r \in Tot BY <1>1, <1>2, MatchedTyped
<1> HIDE DEF r
<1>4. [px |-> f.px, qty |-> r.qty] \in Lot BY <1>3, FillTyped DEF Lot, Tot
<1>5. ASSUME NEW t \in Legs PROVE Append(acc.q[t], [px |-> f.px, qty |-> r.qty]) \in Seq(Lot)
  BY <1>2, <1>4
<1>6. [t \in Legs |-> IF t = other THEN r.rest
               ELSE IF r.qty = 0 THEN acc.q[t]
               ELSE Append(acc.q[t], [px |-> f.px, qty |-> r.qty])] \in [Legs -> Seq(Lot)]
  BY <1>2, <1>3, <1>5 DEF Tot
<1> QED BY <1>3, <1>6 DEF ArbStep, Account, Tot, other, r

\* The series of an arbitrage, fill by fill.
LEMMA ArbRuns ==
  ASSUME NEW fs \in Seq(FillOf)
  PROVE  \E c \in [0..Len(fs) -> Account] :
           /\ c[0] = [pnl |-> 0, q |-> [t \in Legs |-> <<>>]]
           /\ \A k \in 1..Len(fs) : c[k] = ArbStep(c[k - 1], fs[k])
           /\ ArbSeries(fs) = c[Len(fs)]
<1> DEFINE F == [p \in Account \X FillOf |-> ArbStep(p[1], p[2])]
           b == [pnl |-> 0, q |-> [t \in Legs |-> <<>>]]
           P == SUBSET (1..Len(fs))
<1>0. b \in Account /\ DOMAIN fs = 1..Len(fs) /\ Len(fs) \in Nat /\ fs \in [1..Len(fs) -> FillOf]
  BY DEF Account
<1>1. F \in [Account \X FillOf -> Account] /\ \A x \in Account, y \in FillOf : F[<<x, y>>] = ArbStep(x, y)
  <2>1. \A x \in Account, y \in FillOf : ArbStep(x, y) \in Account BY ArbStepTyped
  <2> QED BY <2>1
<1> HIDE DEF F, b
<1>2. PICK c \in [0..Len(fs) -> Account] : StepsOf(c, F, b, fs) BY <1>0, <1>1, RunExists, Zenon
<1>3. PICK g \in [SUBSET (1..Len(fs)) -> Account] : Iterates(g, F, b, fs, Account)
  BY <1>0, <1>1, IterExists, Zenon
<1>4. ASSUME NEW S \in P, S # {} PROVE fs[Max(S)] \in FillOf /\ S \ {Max(S)} \in P
  BY <1>4, LastOfPositions
<1>5. g = [S \in P |-> IF S = {} THEN b ELSE ArbStep(g[S \ {Max(S)}], fs[Max(S)])]
  <2>1. ASSUME NEW S \in P, S # {} PROVE g[S] = ArbStep(g[S \ {Max(S)}], fs[Max(S)])
    <3>1. g[S \ {Max(S)}] \in Account BY <1>4, <2>1
    <3> QED BY <1>1, <1>3, <1>4, <2>1, <3>1 DEF Iterates
  <2>2. g = [S \in P |-> g[S]] OBVIOUS
  <2> QED BY <1>3, <2>1, <2>2 DEF Iterates
<1> DEFINE h == CHOOSE g1 : g1 = [S \in P |-> IF S = {} THEN b ELSE ArbStep(g1[S \ {Max(S)}], fs[Max(S)])]
<1>6. h = [S \in P |-> IF S = {} THEN b ELSE ArbStep(h[S \ {Max(S)}], fs[Max(S)])] BY <1>5
<1>7. ArbSeries(fs) = h[DOMAIN fs] BY <1>0 DEF ArbSeries, FoldLeft, MapThenFoldSet, b
<1> HIDE DEF h
<1>8. Iterates(h, F, b, fs, Account)
  <2>1. h[{}] = b BY <1>6
  <2>2. \A S \in P : S # {} => h[S] = ArbStep(h[S \ {Max(S)}], fs[Max(S)]) BY <1>6
  <2>3. ASSUME NEW S \in P, S # {}, h[S \ {Max(S)}] \in Account
        PROVE  h[S] = F[<<h[S \ {Max(S)}], fs[Max(S)]>>]
    <3>1. h[S] = ArbStep(h[S \ {Max(S)}], fs[Max(S)]) BY <2>2, <2>3
    <3>2. fs[Max(S)] \in FillOf BY <1>4, <2>3
    <3> HIDE DEF P
    <3> QED BY <1>1, <2>3, <3>1, <3>2
  <2> QED BY <2>1, <2>3 DEF Iterates
<1>9. IterFollows(h, c, fs) BY <1>0, <1>1, <1>2, <1>8, IterIs, Zenon
<1>10. ASSUME NEW k \in 1..Len(fs) PROVE c[k] = ArbStep(c[k - 1], fs[k])
  <2>1. k - 1 \in 0..Len(fs) /\ fs[k] \in FillOf BY <1>0
  <2>2. c[k] = F[<<c[k - 1], fs[k]>>] BY <1>2 DEF StepsOf
  <2>3. c[k - 1] \in Account BY <2>1
  <2> QED BY <2>1, <2>2, <2>3, <1>1
<1>11. c[0] = b BY <1>2 DEF StepsOf
<1>12. ArbSeries(fs) = c[Len(fs)] BY <1>0, <1>7, <1>9 DEF IterFollows
<1> QED BY <1>10, <1>11, <1>12 DEF b


\* A sell removes lots from a queue, which stays one.
LEMMA RemoveTyped ==
  ASSUME NEW R, NEW s \in Seq(R), NEW i \in 1..Len(s) PROVE RemoveAt(s, i) \in Seq(R)
<1>1. Len(s) \in Nat OBVIOUS
<1>2. SubSeq(s, 1, i - 1) \in Seq(R) /\ SubSeq(s, i + 1, Len(s)) \in Seq(R)
  BY <1>1
<1> QED BY <1>2 DEF RemoveAt

\* A fill takes the account of one token to one.
LEMMA TwoSidedTyped ==
  ASSUME NEW acc \in OneSide, NEW f \in FillOf PROVE TwoSidedStep(acc, f) \in OneSide
<1> DEFINE I == {j \in 1..Len(acc.q) : acc.q[j].buy # f.buy}
           i == SelectInSeq(acc.q, LAMBDA o : o.buy # f.buy)
<1>1. acc.pnl \in Int /\ acc.q \in Seq(FillOf) BY DEF OneSide
<1>2. i = IF I # {} THEN Min(I) ELSE 0 BY DEF SelectInSeq
<1>3. ASSUME I # {} PROVE Min(I) \in I
  <2>1. I \subseteq Nat OBVIOUS
  <2>2. \E x \in I : \A y \in I : x <= y BY <1>3, <2>1, LeastNat
  <2> QED BY <2>2 DEF Min
<1>4. i = 0 \/ i \in 1..Len(acc.q) BY <1>2, <1>3
<1> HIDE DEF i
<1>5. ASSUME i = 0 PROVE TwoSidedStep(acc, f) \in OneSide
  <2>1. Append(acc.q, f) \in Seq(FillOf) BY <1>1
  <2>2. [acc EXCEPT !.q = Append(@, f)] \in OneSide BY <2>1 DEF OneSide
  <2> QED BY <1>5, <2>2 DEF TwoSidedStep, i
<1>6. ASSUME i # 0 PROVE TwoSidedStep(acc, f) \in OneSide
  <2> DEFINE gain == IF acc.q[i].buy THEN f.px - acc.q[i].px ELSE acc.q[i].px - f.px
             n == Lesser(f.qty, acc.q[i].qty)
  <2>1. i \in 1..Len(acc.q) BY <1>4, <1>6
  <2>2. acc.q[i] \in FillOf BY <1>1, <2>1
  <2>3. gain \in Int BY <2>2, FillTyped
  <2>4. n \in Int
    <3>1. f.qty \in Int /\ acc.q[i].qty \in Int BY <2>2, FillTyped
    <3> QED BY <3>1 DEF Lesser
  <2>5. RemoveAt(acc.q, i) \in Seq(FillOf) BY <1>1, <2>1, RemoveTyped
  <2> HIDE DEF gain, n
  <2>6. acc.pnl + gain * n \in Int BY <1>1, <2>3, <2>4
  <2>7. TwoSidedStep(acc, f) = [pnl |-> acc.pnl + gain * n, q |-> RemoveAt(acc.q, i)]
    BY <1>6 DEF TwoSidedStep, gain, n, i
  <2> QED BY <2>5, <2>6, <2>7 DEF OneSide
<1> QED BY <1>5, <1>6

\* The series of a single token, fill by fill.
LEMMA TwoSidedRuns ==
  ASSUME NEW fs \in Seq(FillOf)
  PROVE  \E c \in [0..Len(fs) -> OneSide] :
           /\ c[0] = [pnl |-> 0, q |-> <<>>]
           /\ \A k \in 1..Len(fs) : c[k] = TwoSidedStep(c[k - 1], fs[k])
           /\ TwoSidedSeries(fs) = c[Len(fs)]
<1> DEFINE F == [p \in OneSide \X FillOf |-> TwoSidedStep(p[1], p[2])]
           b == [pnl |-> 0, q |-> <<>>]
           P == SUBSET (1..Len(fs))
<1>0. b \in OneSide /\ DOMAIN fs = 1..Len(fs) /\ Len(fs) \in Nat /\ fs \in [1..Len(fs) -> FillOf]
  BY DEF OneSide
<1>1. F \in [OneSide \X FillOf -> OneSide] /\ \A x \in OneSide, y \in FillOf : F[<<x, y>>] = TwoSidedStep(x, y)
  <2>1. \A x \in OneSide, y \in FillOf : TwoSidedStep(x, y) \in OneSide BY TwoSidedTyped
  <2> QED BY <2>1
<1> HIDE DEF F, b
<1>2. PICK c \in [0..Len(fs) -> OneSide] : StepsOf(c, F, b, fs) BY <1>0, <1>1, RunExists, Zenon
<1>3. PICK g \in [SUBSET (1..Len(fs)) -> OneSide] : Iterates(g, F, b, fs, OneSide)
  BY <1>0, <1>1, IterExists, Zenon
<1>4. ASSUME NEW S \in P, S # {} PROVE fs[Max(S)] \in FillOf /\ S \ {Max(S)} \in P
  BY <1>4, LastOfPositions
<1>5. g = [S \in P |-> IF S = {} THEN b ELSE TwoSidedStep(g[S \ {Max(S)}], fs[Max(S)])]
  <2>1. ASSUME NEW S \in P, S # {} PROVE g[S] = TwoSidedStep(g[S \ {Max(S)}], fs[Max(S)])
    <3>1. g[S \ {Max(S)}] \in OneSide BY <1>4, <2>1
    <3> QED BY <1>1, <1>3, <1>4, <2>1, <3>1 DEF Iterates
  <2>2. g = [S \in P |-> g[S]] OBVIOUS
  <2> QED BY <1>3, <2>1, <2>2 DEF Iterates
<1> DEFINE h == CHOOSE g1 : g1 = [S \in P |-> IF S = {} THEN b ELSE TwoSidedStep(g1[S \ {Max(S)}], fs[Max(S)])]
<1>6. h = [S \in P |-> IF S = {} THEN b ELSE TwoSidedStep(h[S \ {Max(S)}], fs[Max(S)])] BY <1>5
<1>7. TwoSidedSeries(fs) = h[DOMAIN fs] BY <1>0 DEF TwoSidedSeries, FoldLeft, MapThenFoldSet, b
<1> HIDE DEF h
<1>8. Iterates(h, F, b, fs, OneSide)
  <2>1. h[{}] = b BY <1>6
  <2>2. \A S \in P : S # {} => h[S] = TwoSidedStep(h[S \ {Max(S)}], fs[Max(S)]) BY <1>6
  <2>3. ASSUME NEW S \in P, S # {}, h[S \ {Max(S)}] \in OneSide
        PROVE  h[S] = F[<<h[S \ {Max(S)}], fs[Max(S)]>>]
    <3>1. h[S] = TwoSidedStep(h[S \ {Max(S)}], fs[Max(S)]) BY <2>2, <2>3
    <3>2. fs[Max(S)] \in FillOf BY <1>4, <2>3
    <3> HIDE DEF P
    <3> QED BY <1>1, <2>3, <3>1, <3>2
  <2> QED BY <2>1, <2>3 DEF Iterates
<1>9. IterFollows(h, c, fs) BY <1>0, <1>1, <1>2, <1>8, IterIs, Zenon
<1>10. ASSUME NEW k \in 1..Len(fs) PROVE c[k] = TwoSidedStep(c[k - 1], fs[k])
  <2>1. k - 1 \in 0..Len(fs) /\ fs[k] \in FillOf BY <1>0
  <2>2. c[k] = F[<<c[k - 1], fs[k]>>] BY <1>2 DEF StepsOf
  <2>3. c[k - 1] \in OneSide BY <2>1
  <2> QED BY <2>1, <2>2, <2>3, <1>1
<1>11. c[0] = b BY <1>2 DEF StepsOf
<1>12. TwoSidedSeries(fs) = c[Len(fs)] BY <1>0, <1>7, <1>9 DEF IterFollows
<1> QED BY <1>10, <1>11, <1>12 DEF b

\* What a lot is worth beyond its price, and the lots of a queue.
Value(o) == o.qty * (One - 2 * o.px)
\* The values of a queue.
Values(q) == [i \in DOMAIN q |-> Value(q[i])]

\* The values of a queue are as many numbers as it has lots, and Worth adds them.
LEMMA ValuesTyped ==
  ASSUME NEW q \in Seq(Lot)
  PROVE  Values(q) \in Seq(Int) /\ Len(Values(q)) = Len(q) /\ Worth(q) = Total(Values(q)) /\ Worth(q) \in Int
<1>1. ASSUME NEW o \in Lot PROVE Value(o) \in Int
  <2>1. o.qty \in Int /\ One - 2 * o.px \in Int BY BacktestAssumption DEF Lot
  <2> QED BY <2>1 DEF Value
<1>2. q \in [1..Len(q) -> Lot] /\ DOMAIN q = 1..Len(q) /\ Len(q) \in Nat OBVIOUS
<1>3. \A i \in 1..Len(q) : Value(q[i]) \in Int BY <1>1, <1>2
<1> HIDE DEF Value
<1>4. Values(q) \in [1..Len(q) -> Int] BY <1>2, <1>3 DEF Values
<1>5. Values(q) \in Seq(Int) /\ Len(Values(q)) = Len(q) BY <1>2, <1>4
<1>6. Worth(q) = Total(Values(q)) BY DEF Worth, Values, Value
<1> QED BY <1>5, <1>6, TotalInt

\* A queue without lots is worth nothing; a lot more at its end adds its value.
LEMMA WorthEmpty == Worth(<<>>) = 0
<1>1. Values(<<>>) = <<>> BY DEF Values
<1>2. <<>> \in Seq(Lot) OBVIOUS
<1> QED BY <1>1, <1>2, ValuesTyped, TotalEmpty

LEMMA WorthAppend ==
  ASSUME NEW q \in Seq(Lot), NEW o \in Lot PROVE Worth(Append(q, o)) = Worth(q) + Value(o)
<1>1. Append(q, o) \in Seq(Lot) OBVIOUS
<1>2. Value(o) \in Int
  <2>1. o.qty \in Int /\ One - 2 * o.px \in Int BY BacktestAssumption DEF Lot
  <2> QED BY <2>1 DEF Value
<1>3. Values(Append(q, o)) = Append(Values(q), Value(o))
  <2> DEFINE a == Values(Append(q, o))
             z == Append(Values(q), Value(o))
  <2>1. Len(q) \in Nat /\ DOMAIN Append(q, o) = 1..(Len(q) + 1) /\ DOMAIN q = 1..Len(q)
        /\ (\A i \in 1..Len(q) : Append(q, o)[i] = q[i]) /\ Append(q, o)[Len(q) + 1] = o OBVIOUS
  <2>2. a \in [1..(Len(q) + 1) -> Int]
    <3>1. Len(Append(q, o)) = Len(q) + 1 OBVIOUS
    <3>2. a \in Seq(Int) /\ Len(a) = Len(q) + 1 BY <1>1, <3>1, ValuesTyped
    <3> HIDE DEF a
    <3> QED BY <3>2
  <2>3. z \in [1..(Len(q) + 1) -> Int]
    <3>1. Values(q) \in Seq(Int) /\ Len(Values(q)) = Len(q) BY ValuesTyped
    <3>2. z \in Seq(Int) /\ Len(z) = Len(q) + 1 BY <3>1, <1>2
    <3> HIDE DEF z
    <3> QED BY <3>2
  <2>4. ASSUME NEW i \in 1..(Len(q) + 1) PROVE a[i] = z[i]
    <3>1. Values(q) \in Seq(Int) /\ Len(Values(q)) = Len(q) BY ValuesTyped
    <3>2. a[i] = Value(Append(q, o)[i]) BY <2>1 DEF Values
    <3>3. i # Len(q) + 1 => i \in 1..Len(q) BY <2>1
    <3>4. i # Len(q) + 1 => z[i] = Values(q)[i] BY <3>1, <3>3, <1>2
    <3>5. i # Len(q) + 1 => Values(q)[i] = Value(q[i]) BY <3>3, <2>1 DEF Values
    <3>6. i = Len(q) + 1 => z[i] = Value(o) BY <3>1, <1>2
    <3> HIDE DEF a, z
    <3> QED BY <2>1, <3>2, <3>3, <3>4, <3>5, <3>6
  <2> HIDE DEF a, z
  <2> QED BY <2>2, <2>3, <2>4 DEF a, z
<1>4. Worth(Append(q, o)) = Total(Values(Append(q, o))) /\ Worth(q) = Total(Values(q)) /\ Values(q) \in Seq(Int)
  BY <1>1, ValuesTyped
<1> QED BY <1>2, <1>3, <1>4, TotalAppend

\* The profit so far, and what the lots left over and the rest of the fill
\* are worth.
Balance(tot, px) == 2 * tot.pnl + Worth(tot.rest) + tot.qty * (One - 2 * px)

\* Matching one lot moves its worth, and the fill's, into the profit.
LEMMA MatchLegBalances ==
  ASSUME NEW tot \in Tot, NEW leg \in Lot, NEW px \in Int
  PROVE  Balance(MatchLeg(tot, leg, px), px) = Balance(tot, px) + Value(leg)
<1> DEFINE k == Lesser(tot.qty, leg.qty)
           to == MatchLeg(tot, leg, px)
<1>1. k \in Int BY DEF Lesser, Tot, Lot
<1>2. One \in Int BY BacktestAssumption
<1>3. tot.rest \in Seq(Lot) /\ tot.qty \in Int /\ tot.pnl \in Int BY DEF Tot
<1>4. leg.px \in Int /\ leg.qty \in Int BY DEF Lot
<1> HIDE DEF k
<1>5. [leg EXCEPT !.qty = @ - k] \in Lot BY <1>1 DEF Lot
<1>6. Value([leg EXCEPT !.qty = @ - k]) = (leg.qty - k) * (One - 2 * leg.px)
  BY DEF Value, Lot
<1>7. /\ to.qty = tot.qty - k /\ to.pnl = tot.pnl + k * (One - px - leg.px)
      /\ to.rest = IF k = leg.qty THEN tot.rest ELSE Append(tot.rest, [leg EXCEPT !.qty = @ - k])
  BY DEF MatchLeg, k
<1>8. Worth(to.rest) = Worth(tot.rest) + (leg.qty - k) * (One - 2 * leg.px)
  <2>1. Worth(tot.rest) \in Int /\ One - 2 * leg.px \in Int BY <1>2, <1>3, <1>4, ValuesTyped
  <2>2. ASSUME k = leg.qty PROVE (leg.qty - k) * (One - 2 * leg.px) = 0
    <3>1. leg.qty - k = 0 BY <2>2, <1>4
    <3> QED BY <3>1, <2>1
  <2>3. ASSUME k = leg.qty PROVE Worth(to.rest) = Worth(tot.rest) + (leg.qty - k) * (One - 2 * leg.px)
    <3>1. to.rest = tot.rest BY <1>7, <2>3
    <3>2. Worth(tot.rest) + 0 = Worth(tot.rest) BY <2>1
    <3> QED BY <3>1, <3>2, <2>2, <2>3
  <2>4. ASSUME k # leg.qty PROVE Worth(to.rest) = Worth(tot.rest) + (leg.qty - k) * (One - 2 * leg.px)
    <3>1. to.rest = Append(tot.rest, [leg EXCEPT !.qty = @ - k]) BY <1>7, <2>4
    <3> QED BY <3>1, <1>3, <1>5, <1>6, WorthAppend
  <2> QED BY <2>3, <2>4
<1>9. Worth(tot.rest) \in Int BY <1>3, ValuesTyped
<1>10. Value(leg) = leg.qty * (One - 2 * leg.px) BY DEF Value
<1> DEFINE w == Worth(tot.rest)
           a == tot.qty
           p == tot.pnl
           lq == leg.qty
           lp == leg.px
<1> HIDE DEF to, w, a, p, lq, lp
<1>11. 2 * (p + k * (One - px - lp)) + (w + (lq - k) * (One - 2 * lp)) + (a - k) * (One - 2 * px)
         = 2 * p + w + a * (One - 2 * px) + lq * (One - 2 * lp)
  <2>1. /\ p \in Int /\ w \in Int /\ a \in Int /\ lq \in Int /\ lp \in Int
        /\ k \in Int /\ One \in Int /\ px \in Int
    BY <1>1, <1>2, <1>3, <1>4, <1>9 DEF w, a, p, lq, lp
  <2> QED BY ONLY <2>1
<1> QED BY <1>7, <1>8, <1>10, <1>11 DEF Balance, to, w, a, p, lq, lp

\* A fill matched against the other token's lots.
LEMMA MatchedBalances ==
  ASSUME NEW q \in Seq(Lot), NEW f \in FillOf, NEW pnl \in Int
  PROVE  Balance(Matched(q, f, pnl), f.px) = 2 * pnl + f.qty * (One - 2 * f.px) + Worth(q)
<1> DEFINE u == One - 2 * f.px
           start == [qty |-> f.qty, pnl |-> pnl, rest |-> <<>>]
<1>1. PICK c \in [0..Len(q) -> Tot] :
        /\ c[0] = start
        /\ \A k \in 1..Len(q) : c[k] = MatchLeg(c[k - 1], q[k], f.px)
        /\ Matched(q, f, pnl) = c[Len(q)]
  BY MatchedRuns
<1>2. /\ Values(q) \in Seq(Int) /\ Len(Values(q)) = Len(q) /\ Worth(q) = Total(Values(q))
      /\ \A k \in 1..Len(q) : Values(q)[k] = Value(q[k])
  BY ValuesTyped DEF Values
<1>3. PICK w \in [0..Len(q) -> Int] :
        /\ w[0] = 0 /\ Total(Values(q)) = w[Len(q)]
        /\ \A k \in 1..Len(q) : w[k] = w[k - 1] + Values(q)[k]
  BY <1>2, TotalRuns
<1>4. f.px \in Int /\ f.qty \in Int /\ u \in Int /\ Len(q) \in Nat BY FillTyped, BacktestAssumption
<1> DEFINE total == 2 * pnl + f.qty * u
           Bad == {k \in 0..Len(q) : Balance(c[k], f.px) # total + w[k]}
<1>5. total \in Int BY <1>4
<1>6. Balance(c[0], f.px) = total + w[0]
  <2>1. Worth(start.rest) = 0 BY WorthEmpty
  <2>2. f.qty * u \in Int BY <1>4
  <2>3. start.pnl = pnl /\ start.qty = f.qty OBVIOUS
  <2>4. Balance(start, f.px) = 2 * pnl + 0 + f.qty * u BY <2>1, <2>3 DEF Balance
  <2> HIDE DEF u, start
  <2> QED BY <1>1, <1>3, <1>4, <2>2, <2>4
<1>7. ASSUME NEW k \in 1..Len(q), Balance(c[k - 1], f.px) = total + w[k - 1] PROVE Balance(c[k], f.px) = total + w[k]
  <2>1. k - 1 \in 0..Len(q) /\ q[k] \in Lot BY <1>4
  <2>2. c[k - 1] \in Tot BY <2>1
  <2>3. Balance(MatchLeg(c[k - 1], q[k], f.px), f.px) = Balance(c[k - 1], f.px) + Value(q[k])
    <3>1. \A tot \in Tot, leg \in Lot :
            Balance(MatchLeg(tot, leg, f.px), f.px) = Balance(tot, f.px) + Value(leg)
      BY <1>4, MatchLegBalances
    <3> QED BY <2>1, <2>2, <3>1
  <2>4. w[k] = w[k - 1] + Value(q[k]) /\ c[k] = MatchLeg(c[k - 1], q[k], f.px)
    <3>1. w[k] = w[k - 1] + Values(q)[k] BY <1>3
    <3>2. Values(q)[k] = Value(q[k]) BY <1>2
    <3>3. c[k] = MatchLeg(c[k - 1], q[k], f.px) BY <1>1
    <3> QED BY <3>1, <3>2, <3>3
  <2>5. w[k - 1] \in Int /\ Value(q[k]) \in Int
    <3>1. k \in 0..Len(q) /\ k \in 1..Len(Values(q)) BY <1>2, <1>4
    <3>2. Values(q)[k] \in Int BY <3>1, <1>2
    <3>3. w[k - 1] \in Int BY <2>1
    <3> QED BY <3>2, <3>3, <1>2
  <2> HIDE DEF total
  <2> QED BY <1>5, <1>7, <2>3, <2>4, <2>5
<1> HIDE DEF total, start, u
<1>8. Bad = {}
  <2> SUFFICES ASSUME Bad # {} PROVE FALSE OBVIOUS
  <2>1. PICK k \in Bad : \A y \in Bad : k <= y
    <3>1. Bad \subseteq Nat OBVIOUS
    <3> HIDE DEF Bad
    <3> QED BY <3>1, LeastNat
  <2>2. k \in 0..Len(q) /\ Balance(c[k], f.px) # total + w[k] OBVIOUS
  <2>3. k # 0 BY <2>2, <1>6
  <2>4. k - 1 \in 0..Len(q) /\ ~(k <= k - 1) /\ k \in 1..Len(q) BY <2>2, <2>3, <1>4
  <2>5. Balance(c[k - 1], f.px) = total + w[k - 1] BY <2>4, <2>1
  <2> QED BY <2>2, <2>4, <2>5, <1>7
<1>9. Balance(c[Len(q)], f.px) = total + w[Len(q)]
  <2>1. Len(q) \in 0..Len(q) /\ Len(q) \notin Bad BY <1>4, <1>8
  <2> QED BY <2>1
<1>10. Balance(Matched(q, f, pnl), f.px) = total + Worth(q) BY <1>1, <1>2, <1>3, <1>9
<1>11. Worth(q) \in Int /\ f.qty * u \in Int BY <1>4, ValuesTyped
<1> QED BY <1>10, <1>11 DEF total, u

-------------------------------------------------------------------------------
\* The profit of the pairs so far, and what the open lots are worth.
Stake(acc) == 2 * acc.pnl + Worth(acc.q["yes"]) + Worth(acc.q["no"])

\* A fill adds to the stake what it is worth itself: nothing is matched twice.
LEMMA ArbStepBalances ==
  ASSUME NEW acc \in Account, NEW f \in FillOf
  PROVE  Stake(ArbStep(acc, f)) = Stake(acc) + f.qty * (One - 2 * f.px)
<1> DEFINE other == CHOOSE t \in Legs : t # f.tok
           r == Matched(acc.q[other], f, acc.pnl)
           lot == [px |-> f.px, qty |-> r.qty]
           u == One - 2 * f.px
           to == ArbStep(acc, f)
<1>1. other \in Legs /\ other # f.tok /\ f.tok \in Legs BY FillTyped, OtherLeg
<1> HIDE DEF other
<1>2. acc.q \in [Legs -> Seq(Lot)] /\ acc.pnl \in Int BY DEF Account
<1>3. r \in Tot /\ Balance(r, f.px) = 2 * acc.pnl + f.qty * u + Worth(acc.q[other])
  BY <1>1, <1>2, MatchedTyped, MatchedBalances
<1>4. /\ to.pnl = r.pnl /\ to.q[other] = r.rest
      /\ to.q[f.tok] = IF r.qty = 0 THEN acc.q[f.tok] ELSE Append(acc.q[f.tok], lot)
  BY <1>1 DEF ArbStep, other
<1>5. f.px \in Int /\ f.qty \in Int /\ u \in Int BY FillTyped, BacktestAssumption
<1> HIDE DEF r, to
<1>6. r.qty \in Int /\ r.pnl \in Int /\ r.rest \in Seq(Lot) BY <1>3 DEF Tot
<1>7. lot \in Lot /\ Value(lot) = r.qty * u BY <1>5, <1>6 DEF Lot, Value
<1> HIDE DEF lot, u
<1>8. Worth(acc.q[f.tok]) \in Int /\ Worth(acc.q[other]) \in Int /\ Worth(r.rest) \in Int
  BY <1>1, <1>2, <1>6, ValuesTyped
<1>9. Worth(to.q[f.tok]) = Worth(acc.q[f.tok]) + r.qty * u
  <2>1. ASSUME r.qty = 0 PROVE Worth(to.q[f.tok]) = Worth(acc.q[f.tok]) + r.qty * u
    <3>1. r.qty * u = 0 BY <2>1, <1>5
    <3> QED BY <2>1, <3>1, <1>4, <1>8
  <2>2. ASSUME r.qty # 0 PROVE Worth(to.q[f.tok]) = Worth(acc.q[f.tok]) + r.qty * u
    <3>1. acc.q[f.tok] \in Seq(Lot) BY <1>1, <1>2
    <3> QED BY <2>2, <3>1, <1>4, <1>7, WorthAppend
  <2> QED BY <2>1, <2>2
<1>10. r.qty * u \in Int /\ f.qty * u \in Int BY <1>5, <1>6
<1>11. Balance(r, f.px) = 2 * r.pnl + Worth(r.rest) + r.qty * u BY DEF Balance, u
<1>12. 2 * to.pnl + Worth(to.q[other]) + Worth(to.q[f.tok])
         = 2 * acc.pnl + Worth(acc.q[other]) + Worth(acc.q[f.tok]) + f.qty * u
  <2>1. Worth(to.q[other]) = Worth(r.rest) /\ to.pnl = r.pnl BY <1>4
  <2> DEFINE ru == r.qty * u
             fu == f.qty * u
  <2>2. 2 * r.pnl + Worth(r.rest) + ru = 2 * acc.pnl + fu + Worth(acc.q[other]) BY <1>3, <1>11
  <2>3. Worth(to.q[f.tok]) = Worth(acc.q[f.tok]) + ru BY <1>9
  <2>4. ru \in Int /\ fu \in Int BY <1>10
  <2> HIDE DEF ru, fu
  <2>5. 2 * r.pnl + Worth(r.rest) + (Worth(acc.q[f.tok]) + ru)
          = 2 * acc.pnl + Worth(acc.q[other]) + Worth(acc.q[f.tok]) + fu
    <3>1. /\ r.pnl \in Int /\ acc.pnl \in Int /\ Worth(r.rest) \in Int
          /\ Worth(acc.q[other]) \in Int /\ Worth(acc.q[f.tok]) \in Int
      BY <1>2, <1>6, <1>8
    <3> DEFINE p == r.pnl
               wr == Worth(r.rest)
               ap == acc.pnl
               wo == Worth(acc.q[other])
               wf == Worth(acc.q[f.tok])
    <3>2. 2 * p + wr + ru = 2 * ap + fu + wo BY <2>2
    <3>3. p \in Int /\ wr \in Int /\ ap \in Int /\ wo \in Int /\ wf \in Int BY <3>1
    <3> HIDE DEF p, wr, ap, wo, wf
    <3>4. 2 * p + wr + (wf + ru) = 2 * ap + wo + wf + fu BY ONLY <3>2, <3>3, <2>4
    <3> QED BY <3>4 DEF p, wr, ap, wo, wf
  <2>6. fu = f.qty * u BY DEF fu
  <2> QED BY <2>1, <2>3, <2>5, <2>6
<1>13. (other = "yes" /\ f.tok = "no") \/ (other = "no" /\ f.tok = "yes") BY <1>1 DEF Legs
<1>14. to.pnl \in Int /\ Worth(to.q[other]) \in Int /\ Worth(to.q[f.tok]) \in Int
  BY <1>4, <1>6, <1>8, <1>9, <1>10
<1> DEFINE fu == f.qty * u
<1>15. Stake(to) = Stake(acc) + fu
  <2>1. fu \in Int /\ 2 * to.pnl + Worth(to.q[other]) + Worth(to.q[f.tok])
          = 2 * acc.pnl + Worth(acc.q[other]) + Worth(acc.q[f.tok]) + fu BY <1>10, <1>12
  <2> HIDE DEF fu
  <2>2. /\ to.pnl \in Int /\ Worth(to.q["yes"]) \in Int /\ Worth(to.q["no"]) \in Int
        /\ acc.pnl \in Int /\ Worth(acc.q["yes"]) \in Int /\ Worth(acc.q["no"]) \in Int
    BY <1>2, <1>8, <1>13, <1>14
  <2>3. 2 * to.pnl + Worth(to.q["yes"]) + Worth(to.q["no"])
          = 2 * acc.pnl + Worth(acc.q["yes"]) + Worth(acc.q["no"]) + fu
    <3>1. ASSUME other = "yes", f.tok = "no"
          PROVE  2 * to.pnl + Worth(to.q["yes"]) + Worth(to.q["no"])
                   = 2 * acc.pnl + Worth(acc.q["yes"]) + Worth(acc.q["no"]) + fu
      BY <2>1, <3>1
    <3>2. ASSUME other = "no", f.tok = "yes"
          PROVE  2 * to.pnl + Worth(to.q["yes"]) + Worth(to.q["no"])
                   = 2 * acc.pnl + Worth(acc.q["yes"]) + Worth(acc.q["no"]) + fu
      <4>1. 2 * to.pnl + Worth(to.q["no"]) + Worth(to.q["yes"])
              = 2 * acc.pnl + Worth(acc.q["no"]) + Worth(acc.q["yes"]) + fu
        BY <2>1, <3>2
      <4> QED BY ONLY <4>1, <2>1, <2>2
    <3> QED BY <3>1, <3>2, <1>13
  <2> QED BY <2>3 DEF Stake
<1> QED BY <1>15 DEF to, u

\* The fills' quantities and costs, summed as _terminal_pnl sums them.
Shares(fs, t) == [i \in DOMAIN fs |-> IF fs[i].tok = t THEN fs[i].qty ELSE 0]
Costs(fs) == [i \in DOMAIN fs |-> fs[i].px * fs[i].qty]

\* As many numbers as there are fills.
LEMMA SharesTyped ==
  ASSUME NEW fs \in Seq(FillOf)
  PROVE  /\ \A t : Shares(fs, t) \in Seq(Int) /\ Len(Shares(fs, t)) = Len(fs)
         /\ Costs(fs) \in Seq(Int) /\ Len(Costs(fs)) = Len(fs)
<1>1. DOMAIN fs = 1..Len(fs) /\ Len(fs) \in Nat /\ fs \in [1..Len(fs) -> FillOf] OBVIOUS
<1>2. ASSUME NEW i \in 1..Len(fs) PROVE fs[i].px \in Int /\ fs[i].qty \in Int /\ fs[i].px * fs[i].qty \in Int
  <2>1. fs[i] \in FillOf BY <1>1
  <2>2. fs[i].px \in Int /\ fs[i].qty \in Int BY <2>1, FillTyped
  <2> QED BY <2>2
<1>3. ASSUME NEW t PROVE Shares(fs, t) \in [1..Len(fs) -> Int] BY <1>1, <1>2 DEF Shares
<1>4. Costs(fs) \in [1..Len(fs) -> Int] BY <1>1, <1>2 DEF Costs
<1>5. \A s : s \in [1..Len(fs) -> Int] => s \in Seq(Int) /\ Len(s) = Len(fs) BY <1>1
<1> QED BY <1>3, <1>4, <1>5

\* The stake after all fills: the shares at half a payout each, less the cost.
LEMMA ArbBalances ==
  ASSUME NEW fs \in Seq(FillOf) PROVE Stake(ArbSeries(fs)) = TerminalPnl(fs)
<1> DEFINE y == Shares(fs, "yes")
           n == Shares(fs, "no")
           x == Costs(fs)
           N == Len(fs)
           start == [pnl |-> 0, q |-> [t \in Legs |-> <<>>]]
<1>1. /\ y \in Seq(Int) /\ Len(y) = N /\ n \in Seq(Int) /\ Len(n) = N
      /\ x \in Seq(Int) /\ Len(x) = N /\ N \in Nat
  BY SharesTyped
<1> HIDE DEF y, n, x
<1>2. PICK c \in [0..N -> Account] :
        /\ c[0] = start
        /\ \A k \in 1..N : c[k] = ArbStep(c[k - 1], fs[k])
        /\ ArbSeries(fs) = c[N]
  BY ArbRuns
<1>3. PICK sy \in [0..N -> Int] :
        sy[0] = 0 /\ (\A k \in 1..N : sy[k] = sy[k - 1] + y[k]) /\ Total(y) = sy[N]
  BY <1>1, TotalRuns
<1>4. PICK sn \in [0..N -> Int] :
        sn[0] = 0 /\ (\A k \in 1..N : sn[k] = sn[k - 1] + n[k]) /\ Total(n) = sn[N]
  BY <1>1, TotalRuns
<1>5. PICK sx \in [0..N -> Int] :
        sx[0] = 0 /\ (\A k \in 1..N : sx[k] = sx[k - 1] + x[k]) /\ Total(x) = sx[N]
  BY <1>1, TotalRuns
<1> DEFINE Worths(k) == One * (sy[k] + sn[k]) - 2 * sx[k]
           Bad == {k \in 0..N : Stake(c[k]) # Worths(k)}
<1>6. Stake(c[0]) = Worths(0)
  <2>1. start.pnl = 0 /\ start.q["yes"] = <<>> /\ start.q["no"] = <<>> BY DEF Legs
  <2>2. Stake(start) = 2 * 0 + 0 + 0 BY <2>1, WorthEmpty DEF Stake
  <2>3. One * (0 + 0) - 2 * 0 = 0 BY BacktestAssumption
  <2> HIDE DEF start
  <2> QED BY <2>2, <2>3, <1>2, <1>3, <1>4, <1>5
<1> HIDE DEF start
<1>7. ASSUME NEW k \in 1..N, Stake(c[k - 1]) = Worths(k - 1) PROVE Stake(c[k]) = Worths(k)
  <2> DEFINE f == fs[k]
  <2>1. k - 1 \in 0..N /\ k \in 0..N /\ f \in FillOf BY <1>1
  <2>2. c[k - 1] \in Account BY <2>1
  <2>3. c[k] = ArbStep(c[k - 1], f) BY <1>2
  <2>4. sy[k] = sy[k - 1] + y[k] BY <1>3
  <2>5. sn[k] = sn[k - 1] + n[k] BY <1>4
  <2>6. sx[k] = sx[k - 1] + x[k] BY <1>5
  <2>7. /\ y[k] = IF f.tok = "yes" THEN f.qty ELSE 0
        /\ n[k] = IF f.tok = "no" THEN f.qty ELSE 0
        /\ x[k] = f.px * f.qty
    <3>1. k \in DOMAIN fs BY <1>1
    <3> QED BY <3>1 DEF y, n, x, Shares, Costs
  <2> HIDE DEF f
  <2>8. f.px \in Int /\ f.qty \in Int /\ One \in Int /\ f.tok \in Legs
    BY <2>1, FillTyped, BacktestAssumption
  <2>9. y[k] + n[k] = f.qty BY <2>7, <2>8 DEF Legs
  <2>10. Stake(c[k]) = Stake(c[k - 1]) + f.qty * (One - 2 * f.px)
    <3>1. Stake(ArbStep(c[k - 1], f)) = Stake(c[k - 1]) + f.qty * (One - 2 * f.px)
      BY <2>1, <2>2, ArbStepBalances
    <3> QED BY <3>1, <2>3
  <2>11. sy[k - 1] \in Int /\ sn[k - 1] \in Int /\ sx[k - 1] \in Int BY <2>1
  <2>12. y[k] \in Int /\ n[k] \in Int BY <2>7, <2>8
  <2>13. One * (sy[k] + sn[k]) = One * (sy[k - 1] + sn[k - 1]) + One * f.qty
    <3>1. sy[k] + sn[k] = (sy[k - 1] + sn[k - 1]) + f.qty BY <2>4, <2>5, <2>9, <2>11, <2>12
    <3>2. sy[k - 1] + sn[k - 1] \in Int BY <2>11
    <3>3. \A a \in Int : One * (a + f.qty) = One * a + One * f.qty BY <2>8
    <3> QED BY <3>1, <3>2, <3>3
  <2>14. f.qty * (One - 2 * f.px) = One * f.qty - 2 * (f.px * f.qty)
    <3>1. f.qty * (One - 2 * f.px) = f.qty * One - f.qty * (2 * f.px) BY ONLY <2>8
    <3>2. f.qty * One = One * f.qty BY ONLY <2>8
    <3>3. f.qty * (2 * f.px) = 2 * (f.px * f.qty) BY ONLY <2>8
    <3> QED BY ONLY <3>1, <3>2, <3>3
  <2>15. \A i, j \in Int : i * j \in Int OBVIOUS
  <2>16. One * (sy[k - 1] + sn[k - 1]) \in Int /\ One * f.qty \in Int /\ f.px * f.qty \in Int
    <3>1. sy[k - 1] + sn[k - 1] \in Int BY ONLY <2>11
    <3> QED BY ONLY <2>8, <2>15, <3>1
  <2>17. Stake(c[k - 1]) = One * (sy[k - 1] + sn[k - 1]) - 2 * sx[k - 1] BY <1>7
  <2>18. sx[k] = sx[k - 1] + f.px * f.qty BY <2>6, <2>7
  <2> DEFINE all == One * (sy[k - 1] + sn[k - 1])
             own == One * f.qty
             cost == f.px * f.qty
             paid == sx[k - 1]
             was == Stake(c[k - 1])
  <2> HIDE DEF all, own, cost, paid, was
  <2>19. was = all - 2 * paid /\ all \in Int /\ own \in Int /\ cost \in Int /\ paid \in Int
    BY <2>11, <2>16, <2>17 DEF all, own, cost, paid, was
  <2>20. was + (own - 2 * cost) = (all + own) - 2 * (paid + cost) BY ONLY <2>19
  <2>21. Stake(c[k]) = was + (own - 2 * cost) BY <2>10, <2>14 DEF was, own, cost
  <2>22. Worths(k) = (all + own) - 2 * (paid + cost)
    BY <2>13, <2>18 DEF all, own, cost, paid
  <2> QED BY <2>20, <2>21, <2>22
<1>8. Bad = {}
  <2> SUFFICES ASSUME Bad # {} PROVE FALSE OBVIOUS
  <2> HIDE DEF Worths
  <2>1. PICK k \in Bad : \A z \in Bad : k <= z
    <3>1. Bad \subseteq Nat OBVIOUS
    <3> HIDE DEF Bad
    <3> QED BY <3>1, LeastNat
  <2>2. k \in 0..N /\ Stake(c[k]) # Worths(k) OBVIOUS
  <2>3. k # 0 BY <2>2, <1>6
  <2>4. k - 1 \in 0..N /\ ~(k <= k - 1) /\ k \in 1..N BY <2>2, <2>3, <1>1
  <2>5. Stake(c[k - 1]) = Worths(k - 1) BY <2>4, <2>1
  <2> QED BY <2>2, <2>4, <2>5, <1>7
<1>9. Stake(c[N]) = Worths(N)
  <2> HIDE DEF Worths
  <2>1. N \in 0..N /\ N \notin Bad BY <1>1, <1>8
  <2> QED BY <2>1
<1>10. TerminalPnl(fs) = One * (Total(y) + Total(n)) - 2 * Total(x)
  BY DEF TerminalPnl, Held, Spent, y, n, x, Shares, Costs
<1> QED BY <1>2, <1>3, <1>4, <1>5, <1>9, <1>10

-------------------------------------------------------------------------------
\* The series of an arbitrage leaves an account.
LEMMA ArbTyped == ASSUME NEW fs \in Seq(FillOf) PROVE ArbSeries(fs) \in Account
<1>1. PICK c \in [0..Len(fs) -> Account] : ArbSeries(fs) = c[Len(fs)] BY ArbRuns
<1>2. Len(fs) \in 0..Len(fs) OBVIOUS
<1> QED BY <1>1, <1>2

\* What a market made is a number.
LEMMA MarketPnlTyped == ASSUME NEW fs \in Seq(FillOf) PROVE MarketPnl(fs) \in Int
<1>1. ArbSeries(fs).pnl \in Int BY ArbTyped DEF Account
<1>2. TwoSidedSeries(fs).pnl \in Int
  <2>1. PICK c \in [0..Len(fs) -> OneSide] : TwoSidedSeries(fs) = c[Len(fs)] BY TwoSidedRuns
  <2>2. Len(fs) \in 0..Len(fs) OBVIOUS
  <2>3. TwoSidedSeries(fs) \in OneSide BY <2>1, <2>2
  <2> QED BY <2>3 DEF OneSide
<1>3. 2 * SeriesPnl(fs) \in Int
  <2>1. SeriesPnl(fs) \in Int BY <1>1, <1>2 DEF SeriesPnl
  <2> QED BY <2>1
<1>4. TerminalPnl(fs) \in Int
  <2>1. Held(fs, "yes") = Total(Shares(fs, "yes")) /\ Held(fs, "no") = Total(Shares(fs, "no"))
        /\ Spent(fs) = Total(Costs(fs))
    BY DEF Held, Spent, Shares, Costs
  <2>2. Held(fs, "yes") \in Int /\ Held(fs, "no") \in Int /\ Spent(fs) \in Int
    BY <2>1, SharesTyped, TotalInt
  <2> QED BY <2>2, BacktestAssumption DEF TerminalPnl
<1> QED BY <1>3, <1>4 DEF MarketPnl

\* A market that runs is the first of those left.
BtInv == BtTypeOK /\ (engine.runs => left # <<>>)

\* The run starts with the invariant,
LEMMA BtStarts == BtInit => BtInv
<1> SUFFICES ASSUME BtInit PROVE BtInv OBVIOUS
<1>1. NoEngine \in [runs : BOOLEAN, ticks : BOOLEAN, rebuilt : BookSources] /\ ~NoEngine.runs
  BY DEF NoEngine, BookSources
<1>2. \A S : <<>> \in Seq(S) OBVIOUS
<1> QED BY <1>1, <1>2, BacktestAssumption DEF BtInit, BtInv, BtTypeOK

\* every step of the run keeps it,
LEMMA BtStep == BtInv /\ [BtNext]_btVars => BtInv'
<1> SUFFICES ASSUME BtInv, [BtNext]_btVars PROVE BtInv' OBVIOUS
<1> DEFINE M == ToSet(MarketIds)
           E == [runs : BOOLEAN, ticks : BOOLEAN, rebuilt : BookSources]
           R == [m : M, fills : Nat, pnl : Int, rebuilt : BOOLEAN]
<1>1. /\ left \in Seq(M) /\ fills \in Seq(FillOf) /\ engine \in E
      /\ results \in Seq(R) /\ dropped \subseteq M /\ (engine.runs => left # <<>>)
  BY DEF BtInv, BtTypeOK
<1>2. /\ NoEngine \in E /\ ~NoEngine.runs
      /\ \A b1 \in BOOLEAN, b2 \in BookSources : [runs |-> TRUE, ticks |-> b1, rebuilt |-> b2] \in E
  BY DEF NoEngine, BookSources
<1> HIDE DEF M, E
<1>3. ASSUME left # <<>> PROVE Head(left) \in M /\ Tail(left) \in Seq(M) BY <1>1, <1>3
<1>4. <<>> \in Seq(FillOf) OBVIOUS
<1> SUFFICES /\ left' \in Seq(M) /\ fills' \in Seq(FillOf) /\ engine' \in E
             /\ results' \in Seq(R) /\ dropped' \subseteq M /\ (engine'.runs => left' # <<>>)
  BY DEF BtInv, BtTypeOK, M, E
<1>5. CASE SkipMarket BY <1>1, <1>3, <1>5 DEF SkipMarket
<1>6. CASE EndMarket
  <2> DEFINE r == [m |-> Head(left), fills |-> Len(fills), pnl |-> MarketPnl(fills), rebuilt |-> FALSE]
  <2>1. engine.runs /\ results' = Append(results, r) /\ left' = Tail(left)
        /\ engine' = NoEngine /\ fills' = <<>> /\ dropped' = dropped
    BY <1>6 DEF EndMarket
  <2>2. Len(fills) \in Nat /\ MarketPnl(fills) \in Int BY <1>1, MarketPnlTyped
  <2>3. Head(left) \in M /\ Tail(left) \in Seq(M) BY <1>1, <1>3, <2>1
  <2>4. r \in R BY <2>2, <2>3
  <2> HIDE DEF r, R
  <2>5. Append(results, r) \in Seq(R) BY <1>1, <2>4
  <2> QED BY <1>1, <1>2, <1>4, <2>1, <2>3, <2>5
<1> HIDE DEF R
<1>7. CASE CrashMarket BY <1>1, <1>2, <1>3, <1>4, <1>7 DEF CrashMarket
<1>8. ASSUME NEW ticks \in BOOLEAN, NEW rebuilt \in BookSources, BeginMarket(ticks, rebuilt)
      PROVE  /\ left' \in Seq(M) /\ fills' \in Seq(FillOf) /\ engine' \in E
             /\ results' \in Seq(R) /\ dropped' \subseteq M /\ (engine'.runs => left' # <<>>)
  BY <1>1, <1>2, <1>8 DEF BeginMarket
<1>9. ASSUME NEW f \in FillOf, EngineFills(f)
      PROVE  /\ left' \in Seq(M) /\ fills' \in Seq(FillOf) /\ engine' \in E
             /\ results' \in Seq(R) /\ dropped' \subseteq M /\ (engine'.runs => left' # <<>>)
  <2>1. Append(fills, f) \in Seq(FillOf) BY <1>1
  <2> QED BY <1>1, <1>9, <2>1 DEF EngineFills
<1>10. CASE UNCHANGED btVars BY <1>1, <1>10 DEF btVars
<1> QED BY <1>5, <1>6, <1>7, <1>8, <1>9, <1>10 DEF BtNext

\* and it holds in every state.
LEMMA BtHolds == BtSpec => []BtInv
BY BtStarts, BtStep, PTL DEF BtSpec

\* The runner's books are typed: the profit of a market that ended is a number
\* whichever path priced it.
THEOREM BacktestTyped == BtSpec => []BtTypeOK
<1>1. BtInv => BtTypeOK BY DEF BtInv
<1> QED BY <1>1, BtHolds, PTL

\* The two prices of a run agree on what was matched.
THEOREM SeriesAgree == BtSpec => []SeriesIsTerminal
<1>1. BtInv => SeriesIsTerminal
  <2> SUFFICES ASSUME BtInv PROVE SeriesIsTerminal OBVIOUS
  <2> DEFINE acc == ArbSeries(fills)
  <2>1. fills \in Seq(FillOf) BY DEF BtInv, BtTypeOK
  <2>2. acc \in Account /\ Stake(acc) = TerminalPnl(fills) BY <2>1, ArbTyped, ArbBalances
  <2> HIDE DEF acc
  <2>3. acc.pnl \in Int /\ acc.q["yes"] \in Seq(Lot) /\ acc.q["no"] \in Seq(Lot)
    BY <2>2 DEF Account, Legs
  <2> DEFINE p == acc.pnl
             y == Worth(acc.q["yes"])
             n == Worth(acc.q["no"])
  <2>4. p \in Int /\ y \in Int /\ n \in Int BY <2>3, ValuesTyped
  <2>5. 2 * p + y + n = TerminalPnl(fills) BY <2>2 DEF Stake
  <2> HIDE DEF p, y, n
  <2>6. 2 * p = (2 * p + y + n) - (y + n) BY <2>4
  <2> QED BY <2>5, <2>6 DEF SeriesIsTerminal, acc, p, y, n
<1> QED BY <1>1, BtHolds, PTL

-------------------------------------------------------------------------------
(* HlBacktest *)

\* The quantities of the orders.
OrderQtys(fs) == [i \in DOMAIN fs |-> fs[i].qty]

\* The account has a row for the deposit and one for each fill, in the order
\* of time.
RowsFollowFills ==
  slot > 0 =>
    /\ Len(account) = Len(orders) + 1 /\ account[1].at = 1
    /\ \A i \in DOMAIN orders : orders[i].at = account[i + 1].at
    /\ \A i, j \in DOMAIN account : i <= j => account[i].at <= account[j].at
    /\ \A i \in DOMAIN account : account[i].at \in 1..slot

\* The position is what was filled.
PositionIsFills == /\ position.qty = Total(OrderQtys(orders))
                   /\ slot = 0 => orders = <<>>

\* A coin's result ends at its total.
EndsAtTotal(m) == /\ m.curve # {} /\ \A c \in m.curve : c.at \in 1..Slots
                  /\ EndOf(m.curve) = m.total
\* So does every coin's.
ResultsEnd == \A i \in DOMAIN markets : EndsAtTotal(markets[i])

\* Funding is paid in the slots that have begun.
RatesInWindow == \A i \in DOMAIN rates : rates[i].at \in 1..slot

\* The inductive invariant.
HlInv == HlTypeOK /\ RatesInWindow /\ RowsFollowFills /\ PositionIsFills /\ ResultsEnd

-------------------------------------------------------------------------------
\* LastAt is a position or none, and the last one if all the times are up to t.
LEMMA LastAtIs ==
  ASSUME NEW R, NEW s \in Seq(R), NEW t
  PROVE  /\ LastAt(s, t) \in 0..Len(s)
         /\ s # <<>> /\ s[Len(s)].at <= t => LastAt(s, t) = Len(s)
<1> DEFINE I == {i \in 1..Len(s) : s[i].at <= t}
<1>1. LastAt(s, t) = IF I # {} THEN Max(I) ELSE 0 BY DEF LastAt, SelectLastInSeq
<1>2. Len(s) \in Nat /\ I \subseteq 0..Len(s) OBVIOUS
<1>3. ASSUME I # {} PROVE Max(I) \in I /\ \A y \in I : y <= Max(I) BY <1>2, <1>3, MaxIn
<1>4. ASSUME s # <<>>, s[Len(s)].at <= t PROVE LastAt(s, t) = Len(s)
  <2>1. Len(s) \in 1..Len(s) BY <1>4
  <2>2. Len(s) \in I BY <2>1, <1>4
  <2>3. Max(I) \in 1..Len(s) /\ Len(s) <= Max(I) BY <2>2, <1>3
  <2>4. Max(I) = Len(s) BY <2>3, <1>2
  <2> HIDE DEF I
  <2> QED BY <1>1, <2>2, <2>4
<1>5. LastAt(s, t) \in 0..Len(s) BY <1>1, <1>2, <1>3
<1> QED BY <1>4, <1>5

\* The value of a series at a slot is a number.
LEMMA ValueTyped ==
  ASSUME NEW s \in Seq(CurveRow), NEW t PROVE ValueAt(s, t, 0) \in Int
<1>1. LastAt(s, t) \in 0..Len(s) BY LastAtIs
<1>2. LastAt(s, t) # 0 => s[LastAt(s, t)] \in CurveRow BY <1>1
<1> QED BY <1>2 DEF ValueAt, CurveRow

\* The total of the first orders is a number.
LEMMA PrefixTotal ==
  ASSUME NEW fs \in Seq(CoinOrder), NEW i \in 0..Len(fs) PROVE Total([j \in 1..i |-> fs[j].qty]) \in Int
<1>1. [j \in 1..i |-> fs[j].qty] \in [1..i -> Int]
  <2>1. ASSUME NEW j \in 1..i PROVE fs[j].qty \in Int
    <3>1. j \in 1..Len(fs) OBVIOUS
    <3>2. fs[j] \in CoinOrder BY <3>1
    <3> QED BY <3>2 DEF CoinOrder
  <2> QED BY <2>1
<1>2. i \in Nat OBVIOUS
<1>3. [j \in 1..i |-> fs[j].qty] \in Seq(Int) BY <1>1, <1>2
<1> QED BY <1>3, TotalInt

\* The history has a row for each fill, with the total filled up to it.
LEMMA HistoryIs ==
  ASSUME NEW fs \in Seq(CoinOrder)
  PROVE  /\ History(fs) \in Seq(CurveRow) /\ Len(History(fs)) = Len(fs)
         /\ \A i \in 1..Len(fs) : /\ History(fs)[i].at = fs[i].at
                                  /\ History(fs)[i].val = Total([j \in 1..i |-> fs[j].qty])
<1>1. DOMAIN fs = 1..Len(fs) /\ Len(fs) \in Nat OBVIOUS
<1>2. ASSUME NEW i \in 1..Len(fs) PROVE [at |-> fs[i].at, val |-> Total([j \in 1..i |-> fs[j].qty])] \in CurveRow
  <2>1. fs[i] \in CoinOrder OBVIOUS
  <2>2. fs[i].at \in Nat BY <2>1 DEF CoinOrder
  <2>3. i \in 0..Len(fs) OBVIOUS
  <2>4. Total([j \in 1..i |-> fs[j].qty]) \in Int BY <2>3, PrefixTotal
  <2> QED BY <2>2, <2>4 DEF CurveRow
<1>3. History(fs) \in [1..Len(fs) -> CurveRow] BY <1>1, <1>2 DEF History
<1>4. History(fs) \in Seq(CurveRow) /\ Len(History(fs)) = Len(fs) BY <1>1, <1>3
<1> QED BY <1>1, <1>4 DEF History

\* Each payment is of the position held then, at its rate.
LEMMA ContributionsTyped ==
  ASSUME NEW fs \in Seq(CoinOrder), NEW rs \in Seq(Payment)
  PROVE  /\ Contributions(fs, rs) \in Seq(CurveRow) /\ Len(Contributions(fs, rs)) = Len(rs)
         /\ \A i \in 1..Len(rs) :
              /\ Contributions(fs, rs)[i].at = rs[i].at
              /\ Contributions(fs, rs)[i].val = -ValueAt(History(fs), rs[i].at, 0) * rs[i].rate
<1>1. DOMAIN rs = 1..Len(rs) /\ Len(rs) \in Nat OBVIOUS
<1>2. ASSUME NEW i \in 1..Len(rs)
      PROVE  [at |-> rs[i].at, val |-> -ValueAt(History(fs), rs[i].at, 0) * rs[i].rate] \in CurveRow
  <2>1. rs[i] \in Payment OBVIOUS
  <2>2. rs[i].at \in Nat /\ rs[i].rate \in Int BY <2>1 DEF Payment
  <2>3. ValueAt(History(fs), rs[i].at, 0) \in Int BY HistoryIs, ValueTyped
  <2>4. -ValueAt(History(fs), rs[i].at, 0) * rs[i].rate \in Int BY <2>2, <2>3
  <2> QED BY <2>2, <2>4 DEF CurveRow
<1>3. Contributions(fs, rs) \in [1..Len(rs) -> CurveRow] BY <1>1, <1>2 DEF Contributions
<1>4. Contributions(fs, rs) \in Seq(CurveRow) /\ Len(Contributions(fs, rs)) = Len(rs) BY <1>1, <1>3
<1> QED BY <1>1, <1>4 DEF Contributions

\* The parts of a sum up to t.
UpTo(cs, t) == [i \in DOMAIN cs |-> IF cs[i].at <= t THEN cs[i].val ELSE 0]
\* A sum up to a slot is a number.
LEMMA SumTyped ==
  ASSUME NEW cs \in Seq(CurveRow), NEW t PROVE UpTo(cs, t) \in Seq(Int) /\ SumUpTo(cs, t) \in Int
<1>1. DOMAIN cs = 1..Len(cs) /\ Len(cs) \in Nat OBVIOUS
<1>2. \A i \in 1..Len(cs) : cs[i].val \in Int
  <2>1. \A i \in 1..Len(cs) : cs[i] \in CurveRow OBVIOUS
  <2> QED BY <2>1 DEF CurveRow
<1>3. UpTo(cs, t) \in [1..Len(cs) -> Int] BY <1>1, <1>2 DEF UpTo
<1>4. UpTo(cs, t) \in Seq(Int) BY <1>1, <1>3
<1>5. SumUpTo(cs, t) = Total(UpTo(cs, t)) BY DEF SumUpTo, UpTo
<1> QED BY <1>4, <1>5, TotalInt

\* A set of rows that is not empty has a last one, whose value EndOf is.
LEMMA EndOfIs ==
  ASSUME NEW C, C \subseteq CurveRow, C # {}, \A c \in C : c.at \in 1..Slots
  PROVE  \E c \in C : c.val = EndOf(C) /\ \A d \in C : d.at <= c.at
<1> DEFINE T == {c.at : c \in C}
<1>1. Slots \in Nat /\ T \subseteq 0..Slots /\ T # {} BY HlBacktestAssumption
<1>2. Max(T) \in T /\ \A y \in T : y <= Max(T) BY <1>1, MaxIn
<1>3. PICK c \in C : c.at = Max(T) BY <1>2
<1>4. \A d \in C : d.at <= c.at BY <1>2, <1>3
<1> DEFINE e == CHOOSE e \in C : \A d \in C : d.at <= e.at
<1>5. e \in C /\ \A d \in C : d.at <= e.at BY <1>4
<1>6. EndOf(C) = e.val BY DEF EndOf
<1> QED BY <1>5, <1>6

-------------------------------------------------------------------------------
\* The account's first and last rows, of a coin that runs.
LEMMA AccountIs ==
  ASSUME HlInv, slot > 0
  PROVE  /\ account \in Seq(CurveRow) /\ Len(account) \in Nat \ {0} /\ account # <<>>
         /\ Last(account) = account[Len(account)] /\ Last(account) \in CurveRow
         /\ account[1].at = 1 /\ Last(account).at \in 1..slot /\ slot \in 1..Slots
         /\ \A i \in 1..Len(account) : account[i].at <= Last(account).at
<1>1. account \in Seq(CurveRow) /\ orders \in Seq(CoinOrder) BY DEF HlInv, HlTypeOK
<1>2. Len(account) = Len(orders) + 1 /\ account[1].at = 1 BY DEF HlInv, RowsFollowFills
<1>3. Len(account) \in Nat \ {0} /\ DOMAIN account = 1..Len(account) /\ account # <<>> BY <1>1, <1>2
<1>4. Last(account) = account[Len(account)] BY DEF Last
<1>5. Len(account) \in DOMAIN account BY <1>3
<1>6. account[Len(account)] \in CurveRow BY <1>1, <1>5
<1>7. account[Len(account)].at \in 1..slot BY <1>5 DEF HlInv, RowsFollowFills
<1>8. \A i \in 1..Len(account) : account[i].at <= account[Len(account)].at
  BY <1>3, <1>5 DEF HlInv, RowsFollowFills
<1>9. slot \in 1..Slots BY HlBacktestAssumption DEF HlInv, HlTypeOK
<1> QED BY <1>1, <1>2, <1>3, <1>4, <1>6, <1>7, <1>8, <1>9

\* The curve before funding: rows of the window up to the account's last one.
LEMMA CurveIs ==
  ASSUME HlInv, slot > 0
  PROVE  /\ Curve(account) \subseteq CurveRow /\ Curve(account) # {}
         /\ \A c \in Curve(account) : c.at \in 1..Last(account).at
         /\ \A c \in Curve(account) : c.at = Last(account).at => c.val = Last(account).val
         /\ Last(account).at \in GridOf(account) => \E c \in Curve(account) : c.at = Last(account).at
<1> DEFINE n == Len(account)
           l == Last(account).at
<1>1. /\ account \in Seq(CurveRow) /\ n \in Nat \ {0} /\ Last(account) = account[n] /\ account # <<>>
      /\ Last(account) \in CurveRow /\ account[1].at = 1 /\ l \in 1..slot /\ slot \in 1..Slots
      /\ \A i \in 1..n : account[i].at <= l
  BY AccountIs
<1>2. l \in Nat /\ l <= Slots /\ Slots \in Nat BY <1>1, HlBacktestAssumption
<1>3. \A t : ValueAt(account, t, Capital) \in Int BY <1>1, ValueTyped DEF Capital
<1>4. ASSUME NEW t \in Nat, l <= t PROVE ValueAt(account, t, Capital) = Last(account).val
  <2>1. account[n].at <= t BY <1>1, <1>4
  <2>2. LastAt(account, t) = n BY <1>1, <2>1, LastAtIs
  <2> QED BY <1>1, <2>2 DEF ValueAt
<1> HIDE DEF n
<1>5. CASE l = account[1].at
  <2> DEFINE c1 == [at |-> account[1].at, val |-> ValueAt(account, Slots, Capital)]
  <2>1. Curve(account) = {c1} BY <1>5 DEF Curve
  <2>2. c1 \in CurveRow /\ c1.at = l /\ c1.val = Last(account).val BY <1>1, <1>2, <1>3, <1>4, <1>5 DEF CurveRow
  <2> HIDE DEF c1, l
  <2>3. l \in 1..l BY <1>1, <1>2
  <2> QED BY <2>1, <2>2, <2>3 DEF l
<1>6. CASE l # account[1].at
  <2> DEFINE P(t) == [at |-> t, val |-> ValueAt(account, t, Capital)]
  <2>1. Curve(account) = {P(t) : t \in GridOf(account)} BY <1>6 DEF Curve
  <2>2. GridOf(account) \subseteq 1..l BY <1>1 DEF GridOf
  <2>3. account[1].at \in GridOf(account)
    <3>1. (account[1].at - account[1].at) % Grid = 0
      <4>1. Grid \in Nat \ {0} BY HlBacktestAssumption
      <4>2. 0 % Grid = 0 BY <4>1
      <4> QED BY <1>1, <4>2
    <3>2. account[1].at \in account[1].at..Last(account).at BY <1>1, <1>2
    <3> QED BY <3>1, <3>2 DEF GridOf
  <2>4. \A t \in GridOf(account) : P(t) \in CurveRow /\ P(t).at = t /\ P(t).at \in 1..l
    BY <2>2, <1>2, <1>3 DEF CurveRow
  <2>5. ASSUME l \in GridOf(account) PROVE P(l).val = Last(account).val
    BY <1>2, <1>4
  <2>6. \A c \in Curve(account) : \E t \in GridOf(account) : c = P(t) BY <2>1
  <2>7. \A t \in GridOf(account) : P(t) \in Curve(account) BY <2>1
  <2> HIDE DEF P
  <2>8. Curve(account) \subseteq CurveRow /\ Curve(account) # {} BY <2>3, <2>4, <2>6, <2>7
  <2>9. \A c \in Curve(account) : c.at \in 1..l BY <2>4, <2>6
  <2>10. \A c \in Curve(account) : c.at = l => c.val = Last(account).val
    <3> TAKE c \in Curve(account)
    <3> HAVE c.at = l
    <3>1. PICK t \in GridOf(account) : c = P(t) BY <2>6
    <3>2. t = l BY <3>1, <2>4
    <3> QED BY <3>1, <3>2, <2>5
  <2>11. l \in GridOf(account) => \E c \in Curve(account) : c.at = l BY <2>4, <2>7
  <2> QED BY <2>8, <2>9, <2>10, <2>11
<1> QED BY <1>5, <1>6

\* With the funding added: the same points.
LEMMA FundedIs ==
  ASSUME HlInv, slot > 0
  PROVE  LET cs == Contributions(orders, rates)
             W == WithFunding(Curve(account), cs)
             l == Last(account)
         IN /\ cs \in Seq(CurveRow)
            /\ W \subseteq CurveRow /\ W # {} /\ \A c \in W : c.at \in 1..l.at
            /\ \A c \in W : c.at = l.at => c.val = l.val + SumUpTo(cs, l.at)
            /\ l.at \in GridOf(account) => \E c \in W : c.at = l.at
<1> DEFINE cs == Contributions(orders, rates)
           W == WithFunding(Curve(account), cs)
           l == Last(account)
           F(c) == [c EXCEPT !.val = @ + SumUpTo(cs, c.at)]
           C == Curve(account)
<1>1. cs \in Seq(CurveRow) BY ContributionsTyped DEF HlInv, HlTypeOK
<1>2. /\ C \subseteq CurveRow /\ C # {} /\ \A c \in C : c.at \in 1..l.at
      /\ \A c \in C : c.at = l.at => c.val = l.val
      /\ l.at \in GridOf(account) => \E c \in C : c.at = l.at
  BY CurveIs
<1>3. W = {F(c) : c \in C} BY DEF WithFunding
<1> HIDE DEF W, C, cs, l
<1>4. ASSUME NEW c \in C
      PROVE  F(c) \in CurveRow /\ F(c).at = c.at /\ F(c).val = c.val + SumUpTo(cs, c.at)
  <2>1. SumUpTo(cs, c.at) \in Int BY <1>1, SumTyped
  <2>2. c \in CurveRow BY <1>2
  <2> QED BY <2>1, <2>2 DEF CurveRow
<1>5. \A d \in W : \E c \in C : d = F(c) BY <1>3
<1>6. \A c \in C : F(c) \in W BY <1>3
<1> HIDE DEF F
<1>7. W \subseteq CurveRow /\ W # {} BY <1>2, <1>4, <1>5, <1>6
<1>8. \A d \in W : d.at \in 1..l.at BY <1>2, <1>4, <1>5
<1>9. \A d \in W : d.at = l.at => d.val = l.val + SumUpTo(cs, l.at)
  <2> TAKE d \in W
  <2> HAVE d.at = l.at
  <2>1. PICK c \in C : d = F(c) BY <1>5
  <2> QED BY <2>1, <1>2, <1>4
<1>10. l.at \in GridOf(account) => \E d \in W : d.at = l.at BY <1>2, <1>4, <1>6
<1> QED BY <1>1, <1>7, <1>8, <1>9, <1>10 DEF W, C, cs, l

\* The coin's result ends at its total.
LEMMA ExtractIs ==
  ASSUME HlInv, slot > 0 PROVE Extract \in CoinResult /\ EndsAtTotal(Extract)
<1> DEFINE cs == Contributions(orders, rates)
           W == WithFunding(Curve(account), cs)
           l == Last(account)
           f == FundingPnl(orders, rates)
<1>1. cs \in Seq(CurveRow) /\ W \subseteq CurveRow /\ W # {} /\ \A c \in W : c.at \in 1..l.at BY FundedIs
<1>2. \A c \in W : c.at \in 1..Slots
  <2>1. l.at \in Nat /\ l.at <= Slots /\ Slots \in Nat BY AccountIs, HlBacktestAssumption
  <2> HIDE DEF W, l
  <2> QED BY <1>1, <2>1
<1>3. f \in Int BY <1>1, SumTyped DEF FundingPnl
<1> HIDE DEF W, f
<1>4. EndOf(W) \in Int
  <2>1. PICK c \in W : c.val = EndOf(W) BY <1>1, <1>2, EndOfIs
  <2> QED BY <1>1, <2>1 DEF CurveRow
<1>5. Extract = [curve |-> W, total |-> EndOf(W) - 0, funding |-> f, price |-> (EndOf(W) - 0) - f]
  BY DEF Extract, W, f, Capital
<1>6. EndOf(W) - 0 = EndOf(W) /\ (EndOf(W) - 0) - f \in Int BY <1>3, <1>4
<1>7. Extract \in CoinResult BY <1>1, <1>3, <1>4, <1>5, <1>6 DEF CoinResult
<1>8. Extract.curve = W /\ Extract.total = EndOf(W) BY <1>5, <1>6
<1> QED BY <1>1, <1>2, <1>7, <1>8 DEF EndsAtTotal

-------------------------------------------------------------------------------
\* A flat position earns no funding after the account's last row, so what was
\* paid up to then is all that was paid.
LEMMA NoFundingAfter ==
  ASSUME HlInv, slot > 0, position.qty = 0
  PROVE  SumUpTo(Contributions(orders, rates), Last(account).at) = FundingPnl(orders, rates)
<1> DEFINE cs == Contributions(orders, rates)
           l == Last(account).at
           n == Len(orders)
           H == History(orders)
<1>1. orders \in Seq(CoinOrder) /\ rates \in Seq(Payment) /\ n \in Nat BY DEF HlInv, HlTypeOK
<1>2. l \in Nat /\ l <= Slots /\ Slots \in Nat BY AccountIs, HlBacktestAssumption
<1>3. \A i \in 1..n : orders[i].at <= l
  <2> TAKE i \in 1..n
  <2>1. Len(account) = n + 1 /\ i \in DOMAIN orders BY <1>1 DEF HlInv, RowsFollowFills
  <2>2. orders[i].at = account[i + 1].at BY <2>1 DEF HlInv, RowsFollowFills
  <2>3. i + 1 \in 1..Len(account) BY <2>1, <1>1
  <2> QED BY <2>2, <2>3, AccountIs
<1>4. Total([j \in 1..n |-> orders[j].qty]) = 0
  <2>1. DOMAIN orders = 1..n BY <1>1
  <2>2. OrderQtys(orders) = [j \in 1..n |-> orders[j].qty] BY <2>1 DEF OrderQtys
  <2> QED BY <2>2 DEF HlInv, PositionIsFills
<1>5. ASSUME NEW t \in Nat, l < t PROVE ValueAt(H, t, 0) = 0
  <2>1. H \in Seq(CurveRow) /\ Len(H) = n BY <1>1, HistoryIs
  <2>2. ASSUME n = 0 PROVE ValueAt(H, t, 0) = 0
    <3>1. LastAt(H, t) \in 0..0 BY <2>1, <2>2, LastAtIs
    <3> QED BY <3>1 DEF ValueAt
  <2>3. ASSUME n # 0 PROVE ValueAt(H, t, 0) = 0
    <3>1. n \in 1..n BY <1>1, <2>3
    <3>2. H[n].at = orders[n].at /\ H[n].val = 0 BY <1>1, <1>4, <3>1, HistoryIs
    <3>3. H[n] \in CurveRow BY <2>1, <3>1
    <3>4. H[n].at <= t
      <4>1. H[n].at \in Nat BY <3>3 DEF CurveRow
      <4>2. H[n].at <= l BY <1>3, <3>1, <3>2
      <4> HIDE DEF H, l
      <4> QED BY <4>1, <4>2, <1>2, <1>5
    <3>5. LastAt(H, t) = n BY <2>1, <2>3, <3>4, LastAtIs
    <3> QED BY <2>3, <3>2, <3>5 DEF ValueAt
  <2> QED BY <2>2, <2>3
<1>6. /\ cs \in Seq(CurveRow) /\ Len(cs) = Len(rates)
      /\ \A i \in 1..Len(rates) : /\ cs[i].at = rates[i].at
                                  /\ cs[i].val = -ValueAt(H, rates[i].at, 0) * rates[i].rate
  BY <1>1, ContributionsTyped
<1>7. \A i \in 1..Len(rates) : rates[i].at \in 1..slot BY <1>1 DEF HlInv, RatesInWindow
<1>8. slot \in 1..Slots BY AccountIs
<1> HIDE DEF cs, H, l
<1>9. ASSUME NEW i \in 1..Len(rates)
      PROVE  (IF cs[i].at <= l THEN cs[i].val ELSE 0) = (IF cs[i].at <= Slots THEN cs[i].val ELSE 0)
  <2>1. rates[i].at \in Nat /\ rates[i].at <= Slots BY <1>2, <1>7, <1>8
  <2>2. rates[i].rate \in Int
    <3>1. rates[i] \in Payment BY <1>1
    <3> QED BY <3>1 DEF Payment
  <2>3. ASSUME ~(rates[i].at <= l) PROVE cs[i].val = 0
    <3>1. l < rates[i].at BY <1>2, <2>1, <2>3
    <3>2. ValueAt(H, rates[i].at, 0) = 0 BY <1>5, <2>1, <3>1
    <3>3. cs[i].val = -0 * rates[i].rate BY <1>6, <3>2
    <3> QED BY <2>2, <3>3
  <2> QED BY <1>6, <2>1, <2>3
<1>10. UpTo(cs, l) = UpTo(cs, Slots)
  <2>1. DOMAIN cs = 1..Len(rates) BY <1>6
  <2> QED BY <1>9, <2>1 DEF UpTo
<1>11. \A t : SumUpTo(cs, t) = Total(UpTo(cs, t)) BY DEF SumUpTo, UpTo
<1>12. FundingPnl(orders, rates) = SumUpTo(cs, Slots) BY DEF FundingPnl, cs
<1> QED BY <1>10, <1>11, <1>12 DEF cs, l

\* Without a position the price earns nothing: FlatIsExact.
LEMMA FlatHolds == ASSUME HlInv PROVE FlatIsExact
<1> SUFFICES ASSUME slot > 0, position.qty = 0, Last(account).at \in GridOf(account)
             PROVE  Extract.price = Last(account).val - Capital
  BY DEF FlatIsExact
<1> DEFINE cs == Contributions(orders, rates)
           W == WithFunding(Curve(account), cs)
           l == Last(account)
           f == FundingPnl(orders, rates)
<1>1. /\ cs \in Seq(CurveRow) /\ W \subseteq CurveRow /\ W # {} /\ \A c \in W : c.at \in 1..l.at
      /\ \A c \in W : c.at = l.at => c.val = l.val + SumUpTo(cs, l.at)
      /\ \E c \in W : c.at = l.at
  BY FundedIs
<1>2. l.at \in Nat /\ l.at <= Slots /\ Slots \in Nat /\ l.val \in Int
  BY AccountIs, HlBacktestAssumption DEF CurveRow
<1>3. SumUpTo(cs, l.at) = f BY NoFundingAfter
<1>4. f \in Int BY <1>1, <1>3, SumTyped
<1>5. Extract.price = (EndOf(W) - Capital) - f BY DEF Extract
<1> HIDE DEF W, f, l, cs
<1>6. EndOf(W) = l.val + f
  <2>1. \A c \in W : c.at \in 1..Slots BY <1>1, <1>2
  <2>2. PICK c \in W : c.val = EndOf(W) /\ \A d \in W : d.at <= c.at BY <1>1, <2>1, EndOfIs
  <2>3. PICK d \in W : d.at = l.at BY <1>1
  <2>4. c.at \in 1..l.at /\ l.at <= c.at BY <1>1, <2>2, <2>3
  <2>5. c.at = l.at BY <1>2, <2>4
  <2> QED BY <1>1, <1>3, <2>2, <2>5
<1> QED BY <1>2, <1>4, <1>5, <1>6 DEF Capital, l

\* Each curve held at its last value ends at its coin's total.
LEMMA PortfolioHolds == ASSUME HlInv PROVE PortfolioIsSum
<1> DEFINE times == UNION {{c.at : c \in markets[i].curve} : i \in DOMAIN markets}
<1>1. markets \in Seq(CoinResult) /\ Slots \in Nat BY HlBacktestAssumption DEF HlInv, HlTypeOK
<1>2. \A i \in DOMAIN markets : EndsAtTotal(markets[i]) BY DEF HlInv, ResultsEnd
<1>3. ASSUME NEW i \in DOMAIN markets, NEW c \in markets[i].curve PROVE c.at \in times OBVIOUS
<1>4. \A t \in times : t \in 1..Slots BY <1>2 DEF EndsAtTotal
<1>5. CASE times = {}
  <2>1. DOMAIN markets = {}
    <3> SUFFICES ASSUME NEW i \in DOMAIN markets PROVE FALSE OBVIOUS
    <3>1. PICK c : c \in markets[i].curve BY <1>2 DEF EndsAtTotal
    <3> HIDE DEF times
    <3> QED BY <3>1, <1>3, <1>5
  <2>2. markets = <<>> BY <1>1, <2>1
  <2>3. [i \in DOMAIN markets |-> markets[i].total] = <<>> BY <2>2
  <2>4. PortfolioEnd = 0 BY <1>5 DEF PortfolioEnd, Capital
  <2> QED BY <2>3, <2>4, TotalEmpty DEF PortfolioIsSum
<1>6. CASE times # {}
  <2>1. times \subseteq 0..Slots BY <1>1, <1>4
  <2> HIDE DEF times
  <2>2. \A t \in times : t <= Max(times) BY <1>1, <1>6, <2>1, MaxIn
  <2>3. ASSUME NEW i \in DOMAIN markets
        PROVE  HeldAt(markets[i].curve, Max(times)) = markets[i].total
    <3>1. {c \in markets[i].curve : c.at <= Max(times)} = markets[i].curve BY <1>3, <2>2
    <3> QED BY <1>2, <3>1 DEF HeldAt, EndsAtTotal
  <2>4. [i \in DOMAIN markets |-> HeldAt(markets[i].curve, Max(times))]
          = [i \in DOMAIN markets |-> markets[i].total]
    BY <2>3
  <2>5. PortfolioEnd = Total([i \in DOMAIN markets |-> HeldAt(markets[i].curve, Max(times))])
    BY <1>6 DEF PortfolioEnd, times
  <2> QED BY <2>4, <2>5 DEF PortfolioIsSum
<1> QED BY <1>5, <1>6

-------------------------------------------------------------------------------
\* The quantities of the orders, one more with every order.
LEMMA QtysTyped ==
  ASSUME NEW fs \in Seq(CoinOrder) PROVE OrderQtys(fs) \in Seq(Int) /\ Len(OrderQtys(fs)) = Len(fs)
<1>1. DOMAIN fs = 1..Len(fs) /\ Len(fs) \in Nat OBVIOUS
<1>2. \A i \in 1..Len(fs) : fs[i].qty \in Int
  <2>1. \A i \in 1..Len(fs) : fs[i] \in CoinOrder OBVIOUS
  <2> QED BY <2>1 DEF CoinOrder
<1>3. OrderQtys(fs) \in [1..Len(fs) -> Int] BY <1>1, <1>2 DEF OrderQtys
<1> QED BY <1>1, <1>3

LEMMA QtysAppend ==
  ASSUME NEW fs \in Seq(CoinOrder), NEW o \in CoinOrder
  PROVE  Total(OrderQtys(Append(fs, o))) = Total(OrderQtys(fs)) + o.qty
<1> DEFINE a == OrderQtys(Append(fs, o))
           z == Append(OrderQtys(fs), o.qty)
           n == Len(fs)
<1>1. Append(fs, o) \in Seq(CoinOrder) /\ Len(Append(fs, o)) = n + 1 /\ n \in Nat OBVIOUS
<1>2. a \in Seq(Int) /\ Len(a) = n + 1 BY <1>1, QtysTyped
<1>3. OrderQtys(fs) \in Seq(Int) /\ Len(OrderQtys(fs)) = n /\ o.qty \in Int BY QtysTyped DEF CoinOrder
<1>4. z \in Seq(Int) /\ Len(z) = n + 1 /\ z[n + 1] = o.qty
      /\ \A i \in 1..n : z[i] = OrderQtys(fs)[i]
  BY <1>3
<1>5. \A i \in 1..n : OrderQtys(fs)[i] = fs[i].qty BY DEF OrderQtys
<1>6. \A i \in 1..(n + 1) : a[i] = Append(fs, o)[i].qty BY <1>1 DEF OrderQtys
<1>7. Append(fs, o)[n + 1] = o /\ \A i \in 1..n : Append(fs, o)[i] = fs[i] OBVIOUS
<1> HIDE DEF a, z
<1>8. ASSUME NEW i \in 1..(n + 1) PROVE a[i] = z[i]
  <2>1. i = n + 1 \/ i \in 1..n BY <1>1
  <2> QED BY <2>1, <1>4, <1>5, <1>6, <1>7
<1>9. a = z
  <2>1. a \in [1..(n + 1) -> Int] BY <1>2
  <2>2. z \in [1..(n + 1) -> Int] BY <1>4
  <2> QED BY <2>1, <2>2, <1>8
<1> QED BY <1>3, <1>9, TotalAppend DEF a, z

\* The run starts with the invariant.
LEMMA HlStarts == HlInit => HlInv
<1> SUFFICES ASSUME HlInit PROVE HlInv OBVIOUS
<1>1. \A S : <<>> \in Seq(S) OBVIOUS
<1>2. OrderQtys(<<>>) = <<>> BY DEF OrderQtys
<1>3. position.qty = Total(OrderQtys(orders)) /\ orders = <<>>
  BY <1>2, TotalEmpty DEF HlInit, Flat
<1>4. HlTypeOK
  <2>1. Len(markets) = 0 /\ Len(coinsLeft) \in Nat /\ coinsLeft = Coins
    BY HlBacktestAssumption DEF HlInit
  <2>2. Flat \in [qty : -1..1, px : Int] BY DEF Flat
  <2> QED BY <1>1, <2>1, <2>2, HlBacktestAssumption DEF HlInit, HlTypeOK
<1>5. RatesInWindow /\ RowsFollowFills /\ ResultsEnd
  BY DEF HlInit, RatesInWindow, RowsFollowFills, ResultsEnd
<1> QED BY <1>3, <1>4, <1>5 DEF HlInv, PositionIsFills

\* A coin that ends or fails leaves nothing behind.
LEMMA ClearedKeeps ==
  ASSUME HlInv, slot > 0, Cleared, markets' \in Seq(CoinResult), ResultsEnd',
         Len(markets') <= Len(markets) + 1
  PROVE  HlInv'
<1>1. /\ coinsLeft' = Tail(coinsLeft) /\ slot' = 0 /\ position' = Flat /\ account' = <<>>
      /\ orders' = <<>> /\ rates' = <<>> /\ moves' = moves
  BY DEF Cleared
<1>2. /\ coinsLeft \in Seq(ToSet(Coins)) /\ coinsLeft # <<>> /\ moves \in 0..MaxMoves
      /\ Len(markets) + Len(coinsLeft) <= Len(Coins) /\ markets \in Seq(CoinResult)
  BY DEF HlInv, HlTypeOK
<1>3. Tail(coinsLeft) \in Seq(ToSet(Coins)) /\ Len(Tail(coinsLeft)) = Len(coinsLeft) - 1 BY <1>2
<1>4. Len(markets') + Len(coinsLeft') <= Len(Coins)
  <2>1. Len(markets') \in Nat /\ Len(markets) \in Nat /\ Len(coinsLeft) \in Nat /\ Len(Coins) \in Nat
    BY <1>2, HlBacktestAssumption
  <2> QED BY <2>1, <1>1, <1>2, <1>3
<1>5. \A S : <<>> \in Seq(S) OBVIOUS
<1>6. HlTypeOK'
  <2>1. Flat \in [qty : -1..1, px : Int] BY DEF Flat
  <2>2. 0 \in 0..Slots BY HlBacktestAssumption
  <2> QED BY <1>1, <1>2, <1>3, <1>4, <1>5, <2>1, <2>2 DEF HlTypeOK
<1>7. RatesInWindow' /\ RowsFollowFills' BY <1>1 DEF RatesInWindow, RowsFollowFills
<1>8. PositionIsFills'
  <2>1. OrderQtys(<<>>) = <<>> BY DEF OrderQtys
  <2> QED BY <1>1, <2>1, TotalEmpty DEF PositionIsFills, Flat
<1> QED BY <1>6, <1>7, <1>8 DEF HlInv

\* A fill moves the position by what it filled, and writes a row.
LEMMA CoinFillKeeps ==
  ASSUME HlInv, NEW q \in {-2, -1, 1, 2}, NEW px \in HlPrices, CoinFill(q, px)
  PROVE  HlInv'
<1> DEFINE gain == IF position.qty # 0 THEN position.qty * (px - position.px) ELSE 0
           row == [at |-> slot, val |-> Last(account).val + gain]
           o == [at |-> slot, qty |-> q]
<1>1. /\ slot > 0 /\ moves < MaxMoves /\ moves' = moves + 1 /\ position.qty + q \in -1..1
      /\ account' = Append(account, row) /\ orders' = Append(orders, o)
      /\ position' = IF position.qty + q = 0 THEN Flat ELSE [qty |-> position.qty + q, px |-> px]
      /\ coinsLeft' = coinsLeft /\ slot' = slot /\ rates' = rates /\ markets' = markets
  BY DEF CoinFill
<1>2. /\ coinsLeft \in Seq(ToSet(Coins)) /\ slot \in 0..Slots /\ moves \in 0..MaxMoves
      /\ coinsLeft # <<>> /\ position \in [qty : -1..1, px : Int]
      /\ account \in Seq(CurveRow) /\ orders \in Seq(CoinOrder) /\ rates \in Seq(Payment)
      /\ markets \in Seq(CoinResult) /\ Len(markets) + Len(coinsLeft) <= Len(Coins)
  BY <1>1 DEF HlInv, HlTypeOK
<1>3. /\ Len(account) \in Nat \ {0} /\ Last(account) = account[Len(account)] /\ Last(account) \in CurveRow
      /\ account[1].at = 1 /\ Last(account).at \in 1..slot
  BY <1>1, AccountIs
<1>4. gain \in Int
  <2>1. px \in Int /\ position.qty \in Int /\ position.px \in Int BY <1>2, HlBacktestAssumption
  <2> QED BY <2>1
<1> HIDE DEF gain
<1>5. row \in CurveRow /\ row.at = slot
  <2>1. Last(account).val + gain \in Int BY <1>3, <1>4 DEF CurveRow
  <2>2. slot \in Nat BY <1>2, HlBacktestAssumption
  <2> QED BY <2>1, <2>2 DEF CurveRow
<1>6. o \in CoinOrder /\ o.at = slot /\ o.qty = q BY <1>2 DEF CoinOrder
<1> HIDE DEF row, o
<1>7. account' \in Seq(CurveRow) /\ orders' \in Seq(CoinOrder) BY <1>1, <1>2, <1>5, <1>6
<1>8. position' \in [qty : -1..1, px : Int] /\ position'.qty = position.qty + q
  BY <1>1, <1>2, HlBacktestAssumption DEF Flat
<1>9. HlTypeOK'
  <2>1. moves' \in 0..MaxMoves BY <1>1, <1>2, HlBacktestAssumption
  <2> QED BY <1>1, <1>2, <1>7, <1>8, <2>1 DEF HlTypeOK
<1>10. RatesInWindow' /\ ResultsEnd' BY <1>1 DEF HlInv, RatesInWindow, ResultsEnd
<1>11. RowsFollowFills'
  <2> DEFINE n == Len(orders)
             m == Len(account)
  <2>1. n \in Nat /\ m \in Nat /\ m = n + 1 /\ DOMAIN orders = 1..n /\ DOMAIN account = 1..m
    BY <1>1, <1>2 DEF HlInv, RowsFollowFills
  <2>2. /\ Len(account') = m + 1 /\ DOMAIN account' = 1..(m + 1) /\ account'[m + 1] = row
        /\ \A i \in 1..m : account'[i] = account[i]
    BY <1>1, <1>2, <1>5
  <2>3. /\ Len(orders') = n + 1 /\ DOMAIN orders' = 1..(n + 1) /\ orders'[n + 1] = o
        /\ \A i \in 1..n : orders'[i] = orders[i]
    BY <1>1, <1>2, <1>6
  <2>4. /\ \A i \in 1..n : orders[i].at = account[i + 1].at
        /\ \A i, j \in 1..m : i <= j => account[i].at <= account[j].at
        /\ \A i \in 1..m : account[i].at \in 1..slot
    BY <1>1, <2>1 DEF HlInv, RowsFollowFills
  <2> HIDE DEF n, m
  <2>5. \A i \in 1..(n + 1) : orders'[i].at = account'[i + 1].at
    <3> TAKE i \in 1..(n + 1)
    <3>1. CASE i = n + 1 BY <3>1, <2>1, <2>2, <2>3, <1>5, <1>6
    <3>2. CASE i # n + 1
      <4>1. i \in 1..n /\ i + 1 \in 1..m BY <3>2, <2>1
      <4> QED BY <4>1, <2>2, <2>3, <2>4
    <3> QED BY <3>1, <3>2
  <2>6. \A i \in 1..(m + 1) : account'[i].at \in 1..slot
    <3> TAKE i \in 1..(m + 1)
    <3>1. CASE i = m + 1
      <4>1. slot \in 1..slot BY <1>1, <1>2
      <4> QED BY <3>1, <4>1, <2>2, <1>5
    <3>2. CASE i # m + 1
      <4>1. i \in 1..m BY <3>2, <2>1
      <4> QED BY <4>1, <2>2, <2>4
    <3> QED BY <3>1, <3>2
  <2>7. \A i, j \in 1..(m + 1) : i <= j => account'[i].at <= account'[j].at
    <3> TAKE i, j \in 1..(m + 1)
    <3> HAVE i <= j
    <3>1. CASE j = m + 1
      <4>1. account'[j].at = slot BY <3>1, <2>2, <1>5
      <4>2. account'[i].at \in 1..slot BY <2>6
      <4> QED BY <4>1, <4>2, <1>2
    <3>2. CASE j # m + 1
      <4>1. i \in 1..m /\ j \in 1..m BY <3>2, <2>1
      <4> QED BY <4>1, <2>2, <2>4
    <3> QED BY <3>1, <3>2
  <2>8. account'[1].at = 1
    <3>1. 1 \in 1..m BY <2>1
    <3> QED BY <3>1, <2>2, <1>3
  <2> QED BY <1>1, <2>1, <2>2, <2>3, <2>5, <2>6, <2>7, <2>8 DEF RowsFollowFills
<1>12. PositionIsFills'
  <2>1. Total(OrderQtys(orders')) = Total(OrderQtys(orders)) + q BY <1>1, <1>2, <1>6, QtysAppend
  <2> QED BY <1>1, <1>8, <2>1 DEF HlInv, PositionIsFills
<1> QED BY <1>9, <1>10, <1>11, <1>12 DEF HlInv

\* Every step of the run keeps the invariant,
LEMMA HlStep == HlInv /\ [HlNext]_hlVars => HlInv'
<1> SUFFICES ASSUME HlInv, [HlNext]_hlVars PROVE HlInv' OBVIOUS
<1>1. CASE BeginCoin
  <2>1. /\ slot = 0 /\ coinsLeft # <<>> /\ slot' = 1 /\ account' = <<[at |-> 1, val |-> 0]>>
        /\ UNCHANGED <<coinsLeft, position, orders, rates, markets, moves>>
    BY <1>1 DEF BeginCoin, Capital
  <2>2. orders = <<>> BY <2>1 DEF HlInv, PositionIsFills
  <2>3. [at |-> 1, val |-> 0] \in CurveRow BY DEF CurveRow
  <2>4. account' \in Seq(CurveRow) /\ Len(account') = 1 /\ account'[1].at = 1 BY <2>1, <2>3
  <2>5. HlTypeOK' BY <2>1, <2>4, HlBacktestAssumption DEF HlInv, HlTypeOK
  <2>6. RatesInWindow' 
    <3>1. \A i \in DOMAIN rates : rates[i].at \in 1..0 BY <2>1 DEF HlInv, RatesInWindow
    <3> QED BY <2>1, <3>1 DEF RatesInWindow
  <2>7. RowsFollowFills'
    <3>1. Len(orders') = 0 /\ DOMAIN orders' = {} /\ DOMAIN account' = 1..1 BY <2>1, <2>2, <2>4
    <3> QED BY <2>1, <2>4, <3>1 DEF RowsFollowFills
  <2>8. PositionIsFills' /\ ResultsEnd' BY <2>1 DEF HlInv, PositionIsFills, ResultsEnd
  <2> QED BY <2>5, <2>6, <2>7, <2>8 DEF HlInv
<1>2. CASE NextSlot
  <2>1. /\ slot \in 1..(Slots - 1) /\ slot' = slot + 1
        /\ UNCHANGED <<coinsLeft, position, account, orders, rates, markets, moves>>
    BY <1>2 DEF NextSlot
  <2>2. slot' \in 0..Slots /\ slot' > 0 /\ slot > 0 /\ \A x \in 1..slot : x \in 1..slot'
    BY <2>1, HlBacktestAssumption
  <2>3. HlTypeOK' BY <2>1, <2>2 DEF HlInv, HlTypeOK
  <2>4. RatesInWindow' BY <2>1, <2>2 DEF HlInv, RatesInWindow
  <2>5. RowsFollowFills' BY <2>1, <2>2 DEF HlInv, RowsFollowFills
  <2>6. PositionIsFills' /\ ResultsEnd' BY <2>1, <2>2 DEF HlInv, PositionIsFills, ResultsEnd
  <2> QED BY <2>3, <2>4, <2>5, <2>6 DEF HlInv
<1>3. CASE EndCoin
  <2>1. slot > 0 /\ Cleared /\ markets' = Append(markets, Extract)
    BY <1>3, HlBacktestAssumption DEF EndCoin
  <2>2. Extract \in CoinResult /\ EndsAtTotal(Extract) BY <2>1, ExtractIs
  <2>3. markets \in Seq(CoinResult) /\ \A i \in DOMAIN markets : EndsAtTotal(markets[i])
    BY DEF HlInv, HlTypeOK, ResultsEnd
  <2> DEFINE e == Extract
  <2> HIDE DEF e
  <2>4. markets' = Append(markets, e) /\ e \in CoinResult /\ EndsAtTotal(e) BY <2>1, <2>2 DEF e
  <2>5. markets' \in Seq(CoinResult) /\ Len(markets') = Len(markets) + 1 /\ Len(markets) \in Nat
    BY <2>3, <2>4
  <2>6. ASSUME NEW i \in DOMAIN markets' PROVE EndsAtTotal(markets'[i])
    <3>1. i \in 1..(Len(markets) + 1) BY <2>5
    <3>2. i = Len(markets) + 1 => markets'[i] = e BY <2>3, <2>4
    <3>3. i # Len(markets) + 1 => i \in DOMAIN markets /\ markets'[i] = markets[i]
      BY <2>3, <2>4, <2>5, <3>1
    <3> QED BY <2>3, <2>4, <3>2, <3>3
  <2>7. ResultsEnd' BY <2>6 DEF ResultsEnd, EndsAtTotal, EndOf
  <2> QED BY <2>1, <2>5, <2>7, ClearedKeeps
<1>4. CASE FailCoin
  <2>1. slot > 0 /\ Cleared /\ markets' = markets BY <1>4 DEF FailCoin
  <2>2. markets \in Seq(CoinResult) BY DEF HlInv, HlTypeOK
  <2>3. Len(markets') <= Len(markets) + 1 BY <2>1, <2>2
  <2>4. ResultsEnd' BY <2>1 DEF HlInv, ResultsEnd
  <2> QED BY <2>1, <2>2, <2>3, <2>4, ClearedKeeps
<1>5. ASSUME NEW q \in {-2, -1, 1, 2}, NEW px \in HlPrices, CoinFill(q, px) PROVE HlInv'
  BY <1>5, CoinFillKeeps
<1>6. ASSUME NEW rate \in {-1, 1}, FundingPaid(rate) PROVE HlInv'
  <2> DEFINE r == [at |-> slot, rate |-> rate]
  <2>1. /\ slot > 0 /\ moves < MaxMoves /\ moves' = moves + 1 /\ rates' = Append(rates, r)
        /\ UNCHANGED <<coinsLeft, slot, position, account, orders, markets>>
    BY <1>6 DEF FundingPaid
  <2>2. rates \in Seq(Payment) /\ slot \in 0..Slots /\ moves \in 0..MaxMoves BY DEF HlInv, HlTypeOK
  <2>3. r \in Payment /\ r.at \in 1..slot BY <2>1, <2>2 DEF Payment
  <2> HIDE DEF r
  <2>4. rates' \in Seq(Payment) /\ moves' \in 0..MaxMoves BY <2>1, <2>2, <2>3, HlBacktestAssumption
  <2>5. HlTypeOK' BY <2>1, <2>4 DEF HlInv, HlTypeOK
  <2>6. RatesInWindow'
    <3>1. \A i \in DOMAIN rates : rates[i].at \in 1..slot BY DEF HlInv, RatesInWindow
    <3>2. ASSUME NEW i \in DOMAIN rates' PROVE rates'[i].at \in 1..slot
      <4>1. i \in 1..(Len(rates) + 1) BY <2>1, <2>2
      <4>2. i = Len(rates) + 1 => rates'[i] = r BY <2>1, <2>2
      <4>3. i # Len(rates) + 1 => i \in DOMAIN rates /\ rates'[i] = rates[i] BY <2>1, <2>2, <4>1
      <4> QED BY <2>3, <3>1, <4>2, <4>3
    <3> QED BY <2>1, <3>2 DEF RatesInWindow
  <2>7. RowsFollowFills' BY <2>1 DEF HlInv, RowsFollowFills
  <2>8. PositionIsFills' /\ ResultsEnd' BY <2>1 DEF HlInv, PositionIsFills, ResultsEnd
  <2> QED BY <2>5, <2>6, <2>7, <2>8 DEF HlInv
<1>7. CASE UNCHANGED hlVars
  <2>1. UNCHANGED <<coinsLeft, slot, position, account, orders, rates, markets, moves>>
    BY <1>7 DEF hlVars
  <2> QED BY <2>1 DEF HlInv, HlTypeOK, RatesInWindow, RowsFollowFills, PositionIsFills, ResultsEnd
<1> QED BY <1>1, <1>2, <1>3, <1>4, <1>5, <1>6, <1>7 DEF HlNext

\* and it holds in every state.
LEMMA HlHolds == HlSpec => []HlInv
BY HlStarts, HlStep, PTL DEF HlSpec

\* The runner's state is typed, and no coin is counted twice.
THEOREM HlBacktestTyped == HlSpec => []HlTypeOK
<1>1. HlInv => HlTypeOK BY DEF HlInv
<1> QED BY <1>1, HlHolds, PTL

\* Funding, price and portfolio are parts of one balance.
THEOREM CoinsAreAdded == HlSpec => []CoinsAddUp
<1>1. HlInv => CoinsAddUp BY FlatHolds, PortfolioHolds DEF CoinsAddUp
<1> QED BY <1>1, HlHolds, PTL
===============================================================================
