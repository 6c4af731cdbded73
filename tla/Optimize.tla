-------------------------------- MODULE Optimize -------------------------------
(* How a hypothesis in OPTIMIZE gets its verdict.  On Polymarket              *)
(* (optimize_strategy.py) a grid of parameters is run over the training part  *)
(* and its best points over every window; on Hyperliquid (hl_optimize.py)     *)
(* every configuration is run on every walk-forward fold.  A run is a process *)
(* that may fail or time out, and the verdict is made from those that did not.*)
EXTENDS Integers, FiniteSets, FiniteSetsExt

CONSTANTS
  Points,      \* the parameter grid
  Windows,     \* number of windows (n_windows); the last holds the recent days
  TopK,        \* candidates taken to the windows
  Floor,       \* min_trades_floor
  Sample,      \* trades that make up for a low Sharpe (100)
  Outcomes,    \* what a run may return: Sharpe in tenths, pnl, trades
  Folds, Embargo, MinTrain, MinTest,   \* n_folds and the days of a window
  FoldTrades,  \* trades every fold needs (10)
  MaxSpan      \* bound: days of data

ASSUME OptimizeAssumption ==
  /\ Windows \in Nat \ {0} /\ TopK \in Nat \ {0} /\ Folds \in Nat \ {0}
  /\ Floor \in Nat /\ Sample \in Nat /\ FoldTrades \in Nat \ {0}
  /\ Embargo \in Nat /\ MinTrain \in Nat /\ MinTest \in Nat \ {0} /\ MaxSpan \in Nat
  /\ \A o \in Outcomes : o.sharpe \in Int /\ o.pnl \in Int /\ o.trades \in Nat

VARIABLES
  phase,    \* idle, grid, windows, cells, done
  ran,      \* result of each run of the phases: of a point, of a point in a
            \* window, of a point in a fold; a run that failed has none
  todo,     \* runs not ended
  picked,   \* candidates of the grid
  tests,    \* first and last day of each fold's test, with the end of its train
  decided   \* the verdict and the point it is about
optVars == <<phase, ran, todo, picked, tests, decided>>

None == [state |-> "none", of |-> "none"]
OptInit == /\ phase = "idle" /\ ran = <<>> /\ todo = {} /\ picked = {}
           /\ tests = <<>> /\ decided = None

\* A run ends, with a result or without.
RunEnds(job, o) == /\ job \in todo /\ todo' = todo \ {job}
                   /\ ran' = [j \in DOMAIN ran \union {job} |->
                                IF j = job THEN o ELSE ran[j]]
                   /\ UNCHANGED <<phase, picked, tests, decided>>
RunFails(job) == /\ job \in todo /\ todo' = todo \ {job}
                 /\ UNCHANGED <<phase, ran, picked, tests, decided>>

\* assess_backtest, as far as the ranking tells states apart
Assess(o) ==
  CASE o.trades < Floor \/ o.trades = 0 \/ o.pnl <= 0 -> "REJECTED"
    [] o.sharpe < 0 /\ o.trades >= Sample -> "OPTIMIZE"
    [] o.sharpe < 10 /\ ~(o.sharpe < 0 /\ o.trades >= Sample) -> "SHELVED"
    [] OTHER -> "OPTIMIZE"
\* score_backtest_result: the state, the gates (a profit passes two), then pnl
\* and Sharpe; drawdowns, fill rates and the spread over markets are left out.
Score(o) ==
  1000000 * (CASE Assess(o) = "OPTIMIZE" -> 3 [] Assess(o) = "SHELVED" -> 2 [] OTHER -> 1)
  + 100000 * Cardinality({g \in 1..4 : <<o.trades >= Floor, o.trades > 0,
                                         o.pnl > 0, o.pnl > 0>>[g]})
  + 10 * (o.pnl + o.sharpe)

-------------------------------------------------------------------------------
(* Polymarket *)

BeginGrid == /\ phase = "idle" /\ phase' = "grid"
             /\ todo' = Points /\ UNCHANGED <<ran, picked, tests, decided>>

\* the best of the grid above the trade floor; equal ones in any order
Best(S) == {c \in SUBSET S :
              /\ Cardinality(c) = Min({TopK, Cardinality(S)})
              /\ \A a \in c, b \in S \ c : Score(ran[a]) >= Score(ran[b])}
PickCandidates ==
  /\ phase = "grid" /\ todo = {}
  /\ LET able == {p \in DOMAIN ran : ran[p].trades >= Floor} IN
     IF able = {}
     THEN /\ phase' = "done" /\ UNCHANGED <<todo, picked>>
          /\ decided' = IF DOMAIN ran = {} THEN None
                        ELSE [state |-> "REJECTED", of |-> "none"]
     ELSE /\ phase' = "windows" /\ picked' \in Best(able)
          /\ todo' = picked' \X (1..Windows) /\ UNCHANGED decided
  /\ UNCHANGED <<ran, tests>>

RanIn(p) == {w \in 1..Windows : <<p, w>> \in DOMAIN ran}
Recent(p) == ran[<<p, Max(RanIn(p))>>]
SharpeSum(p) == MapThenSumSet(LAMBDA w : ran[<<p, w>>].sharpe, RanIn(p))
PnlSum(p) == MapThenSumSet(LAMBDA w : ran[<<p, w>>].pnl, RanIn(p))
TradeSum(p) == MapThenSumSet(LAMBDA w : ran[<<p, w>>].trades, RanIn(p))
\* the mean Sharpe of the windows that ran is at least t tenths
MeanSharpe(p, t) == SharpeSum(p) >= t * Cardinality(RanIn(p))

\* decide_oos
DecideOos(p) ==
  LET active == {w \in RanIn(p) : ran[<<p, w>>].trades > 0}
      winsAll == /\ Recent(p).pnl > 0 /\ active # {}
                 /\ \A w \in active : ran[<<p, w>>].pnl > 0
      proven == winsAll /\ TradeSum(p) >= Sample
      overfitted == ~MeanSharpe(p, 7) /\ ~winsAll
      shelved == \/ Recent(p).sharpe < 7 /\ Recent(p).pnl <= 0
                 \/ ~MeanSharpe(p, 10) /\ ~proven
                 \/ /\ ran[p].sharpe > 0
                    /\ 10 * SharpeSum(p) < 6 * ran[p].sharpe * Cardinality(RanIn(p))
  IN CASE overfitted -> "REJECTED"
       [] shelved /\ ~overfitted -> "SHELVED"
       [] OTHER -> "PAPER_READY"

\* the mean of the windows, the sum of their trades
Mean(p) == [sharpe |-> SharpeSum(p) \div Cardinality(RanIn(p)),
            pnl |-> PnlSum(p) \div Cardinality(RanIn(p)), trades |-> TradeSum(p)]
Inert == /\ Cardinality(DOMAIN ran \intersect Points) > 1
         /\ \A a, b \in DOMAIN ran \intersect Points :
              ran[a].pnl = ran[b].pnl /\ ran[a].trades = ran[b].trades
DecideWinner ==
  /\ phase = "windows" /\ todo = {} /\ phase' = "done"
  /\ LET ranked == {p \in picked : RanIn(p) # {}} IN
     IF ranked = {} THEN decided' = None
     ELSE \E p \in ranked :
            /\ \A q \in ranked : \/ Score(Mean(p)) > Score(Mean(q))
                                 \/ /\ Score(Mean(p)) = Score(Mean(q))
                                    /\ Recent(p).pnl >= Recent(q).pnl
            /\ decided' = [of |-> p,
                           state |-> IF Inert THEN "REJECTED" ELSE DecideOos(p)]
  /\ UNCHANGED <<ran, todo, picked, tests>>

-------------------------------------------------------------------------------
(* Hyperliquid *)

\* make_walk_forward_windows, anchored; days are counted from data_start
TestDays(span) == Max({(span - MinTrain - Embargo) \div Folds, MinTest})
TestStart(span, i) == MinTrain + Embargo + i * TestDays(span)
TestEnd(span, i) == Min({TestStart(span, i) + TestDays(span), span})
FoldsOf(span) ==
  IF span < MinTrain + Embargo + MinTest THEN <<>>
  ELSE LET kept == {i \in 0..(Folds - 1) :
                      \A j \in 0..i : TestEnd(span, j) - TestStart(span, j) >= MinTest}
       IN [n \in 1..Cardinality(kept) |->
             [train |-> TestStart(span, n - 1) - Embargo,
              from |-> TestStart(span, n - 1), to |-> TestEnd(span, n - 1)]]
BeginCells(span) ==
  /\ phase = "idle" /\ FoldsOf(span) # <<>> /\ phase' = "cells"
  /\ tests' = FoldsOf(span) /\ todo' = Points \X DOMAIN FoldsOf(span)
  /\ UNCHANGED <<ran, picked, decided>>

FoldsRun(c) == {f \in DOMAIN tests : <<c, f>> \in DOMAIN ran}
\* a fold that failed counts as one without trades, and its Sharpe not at all
TradesIn(c, f) == IF f \in FoldsRun(c) THEN ran[<<c, f>>].trades ELSE 0
FewestTradesRun(c) == IF FoldsRun(c) = {} THEN 0
                      ELSE Min({ran[<<c, f>>].trades : f \in FoldsRun(c)})
FewestTrades(c) == Min({TradesIn(c, f) : f \in DOMAIN tests})
OosSharpe(c) == MapThenSumSet(LAMBDA f : ran[<<c, f>>].sharpe, FoldsRun(c))
Overall(c) == [sharpe |-> OosSharpe(c) \div Cardinality(FoldsRun(c)),
               pnl |-> MapThenSumSet(LAMBDA f : ran[<<c, f>>].pnl, FoldsRun(c)),
               trades |-> MapThenSumSet(LAMBDA f : ran[<<c, f>>].trades, FoldsRun(c))]

\* _decide; whether the overfitting tests (PBO), the deflated Sharpe and the
\* stability of the parameters pass is left open
DecideFolds(c, overfit, doubtful) ==
  LET rejected == FewestTrades(c) < FoldTrades \/ OosSharpe(c) <= 0 \/ overfit
      shelved == doubtful \/ OosSharpe(c) < 5 * Cardinality(FoldsRun(c))
  IN CASE rejected -> "REJECTED"
       [] shelved /\ ~rejected -> "SHELVED"
       [] OTHER -> "PAPER_READY"
\* A configuration that failed in every fold has NaN for its score, and the
\* order the sort leaves is then any.
DecideConfig ==
  /\ phase = "cells" /\ todo = {} /\ phase' = "done"
  /\ \E c \in Points, overfit, doubtful \in BOOLEAN :
       /\ (\A d \in Points : FoldsRun(d) # {})
            => \A d \in Points : Score(Overall(c)) >= Score(Overall(d))
       /\ decided' = [of |-> c, state |-> DecideFolds(c, overfit, doubtful)]
  /\ UNCHANGED <<ran, todo, picked, tests>>

OptNext == \/ BeginGrid \/ PickCandidates \/ DecideWinner
           \/ \E span \in 0..MaxSpan : BeginCells(span)
           \/ DecideConfig
           \/ \E job \in todo : RunFails(job) \/ \E o \in Outcomes : RunEnds(job, o)
OptSpec == OptInit /\ [][OptNext]_optVars

-------------------------------------------------------------------------------
\* Shape of the state.
OptTypeOK == /\ phase \in {"idle", "grid", "windows", "cells", "done"}
             /\ \A j \in DOMAIN ran : ran[j] \in Outcomes
             /\ picked \subseteq Points /\ decided.of \in Points \union {"none"}
             /\ (phase = "done" => todo = {})

\* On Hyperliquid a configuration is declared ready for paper trading only if
\* its test ran in every fold that was planned, with enough trades in each, and
\* no two tests share a day, none starts before its train and the embargo are
\* over, and none goes past the data: a run that failed is never passed over.
ReadyRanEverywhere ==
  /\ decided.state = "PAPER_READY" /\ tests # <<>> =>
       \A f \in DOMAIN tests : /\ <<decided.of, f>> \in DOMAIN ran
                               /\ ran[<<decided.of, f>>].trades >= FoldTrades
  /\ \A f, g \in DOMAIN tests :
       /\ tests[f].train + Embargo <= tests[f].from /\ tests[f].to <= MaxSpan
       /\ f < g => tests[f].to <= tests[g].from
===============================================================================
