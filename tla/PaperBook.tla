------------------------------- MODULE PaperBook ------------------------------
(* How the loss of a PAPER slug comes to halt it: the runner appends signals  *)
(* to a log named after the day it was built (generic_paper.py), hourly       *)
(* paper_summary.py pairs the signals of today's log and adds a row with the  *)
(* day's profit so far, and paper_watcher.py reads the rows, unless the global *)
(* kill switch stands, for which it halts every PAPER slug.  One token.  A     *)
(* log is kept as what pairing its signals from the first to the last makes:  *)
(* the signals still open, the number of pairs and their profit.              *)
EXTENDS Integers, Sequences, FiniteSets, SequencesExt

CONSTANTS
  Prices, Qtys,      \* of signals
  MaxSignals,        \* bound: signals written
  MaxDay,            \* bound: days
  RowLimit,          \* list_experiments(limit=...): rows the watcher is given
  WindowDays,        \* WATCHER_ROLLING_WINDOW_DAYS
  DayLimit,          \* loss of a day that halts
  RollingLimit       \* loss of the window that retires

ASSUME PaperBookAssumption ==
  /\ Prices \subseteq Nat /\ Qtys \subseteq Nat \ {0}
  /\ MaxSignals \in Nat /\ MaxDay \in Nat \ {0}
  /\ RowLimit \in Nat \ {0} /\ WindowDays \in Nat
  /\ DayLimit \in Nat \ {0} /\ RollingLimit \in Nat \ {0}

VARIABLES
  standing,  \* lifecycle state of the slug
  category,  \* rejection_category of its last transition
  flagged,   \* read_flag gives a tripped global kill switch
  today,
  built,  \* day on which the live runner was built; 0: no runner
  logOf,  \* logOf[d]: the log named after day d, paired
  rows,   \* summary rows, oldest first: day and profit
  told,   \* history of each log: signals, cash paid and brought, the sizes
          \* seen, and the lowest profit on the way
  wrote   \* counter for MaxSignals

bookVars == <<standing, category, flagged, today, built, logOf, rows, told, wrote>>

verdict == <<standing, category, flagged>>
Days == 1..MaxDay
Signals == [buy : BOOLEAN, price : Prices, qty : Qtys]

BookInit == /\ standing = "PAPER" /\ category = "none" /\ flagged = FALSE
            /\ today = 1 /\ built = 0
            /\ logOf = [d \in Days |-> [open |-> <<>>, pairs |-> 0, pnl |-> 0]]
            /\ told = [d \in Days |-> [cash |-> 0, sizes |-> {}, low |-> 0]]
            /\ rows = <<>> /\ wrote = 0

-------------------------------------------------------------------------------
(* paper_summary.py                                                           *)

PairPnlLongOnly(opener, s) ==
  LET qty == IF opener.qty < s.qty THEN opener.qty ELSE s.qty
  IN (s.price - opener.price) * qty
\* FillPair.pnl_usdc, of the smaller quantity
PairPnl(opener, s) ==
  LET qty == IF opener.qty < s.qty THEN opener.qty ELSE s.qty
  IN (IF opener.buy THEN s.price - opener.price ELSE opener.price - s.price) * qty

\* _pair_signals: a signal closes the oldest open one of the other side, whose
\* rest, if it was larger, is dropped; without one it is open itself.
PairSignal(log, s) ==
  LET i == SelectInSeq(log.open, LAMBDA o : o.buy # s.buy)
  IN IF i = 0 THEN [log EXCEPT !.open = Append(@, s)]
     ELSE [open |-> RemoveAt(log.open, i), pairs |-> log.pairs + 1,
           pnl |-> log.pnl + PairPnl(log.open[i], s)]

\* main, _record_into_db: one row per run, none without a pair
Latest(rs) == IF Len(rs) > RowLimit THEN Tail(rs) ELSE rs
SummariseOnce ==
  /\ logOf[today].pairs > 0 /\ \A i \in DOMAIN rows : rows[i].day # today
  /\ rows' = Latest(Append(rows, [day |-> today, pnl |-> logOf[today].pnl]))
  /\ UNCHANGED <<verdict, today, built, logOf, told, wrote>>
Summarise ==
  /\ logOf[today].pairs > 0
  /\ rows' = Latest(Append(rows, [day |-> today, pnl |-> logOf[today].pnl]))
  /\ UNCHANGED <<verdict, today, built, logOf, told, wrote>>

-------------------------------------------------------------------------------
(* generic_paper.py: __init__ (the log's name), _append_log                   *)

\* KillSwitch.__init__ refuses under the flag.
BuildRunner == /\ standing = "PAPER" /\ ~flagged /\ built = 0 /\ built' = today
               /\ UNCHANGED <<verdict, today, logOf, rows, told, wrote>>
EmitSignal(s) ==
  /\ built # 0 /\ wrote < MaxSignals /\ wrote' = wrote + 1
  /\ logOf' = [logOf EXCEPT ![built] = PairSignal(@, s)]
  /\ told' = [told EXCEPT ![built] =
                [cash |-> @.cash + (IF s.buy THEN -1 ELSE 1) * s.price * s.qty,
                 sizes |-> @.sizes \union {s.qty},
                 low |-> IF logOf'[built].pnl < @.low THEN logOf'[built].pnl ELSE @.low]]
  /\ UNCHANGED <<verdict, today, built, rows>>
EndRunner == /\ built # 0 /\ built' = 0
             /\ UNCHANGED <<verdict, today, logOf, rows, told, wrote>>

\* A run lasts 24 hours at most: past one midnight, never two.
NextDay == /\ today < MaxDay /\ built \in {0, today} /\ today' = today + 1
           /\ UNCHANGED <<verdict, built, logOf, rows, told, wrote>>

-------------------------------------------------------------------------------
(* paper_watcher.py                                                           *)

SumOf(rs) == FoldLeft(LAMBDA n, r : n + r.pnl, 0, rs)
NewestRow == rows[Len(rows)]
WindowRows == SelectSeq(rows, LAMBDA r : r.day >= today - WindowDays)

LosesDaySum == SumOf(rows) <= -DayLimit
LosesDay == NewestRow.pnl <= -DayLimit
LosesWindow == SumOf(WindowRows) <= -RollingLimit

Moves(state, why) == /\ standing = "PAPER" /\ standing' = state /\ category' = why
                     /\ UNCHANGED <<flagged, today, built, logOf, rows, told, wrote>>

\* While the flag stands every PAPER slug is halted, and no loss is looked at.
WatchKilled == flagged /\ Moves("HALTED", "global_kill_switch")
WatchHalts == /\ ~flagged /\ rows # <<>> /\ LosesDay
              /\ Moves("HALTED", "single_day_drawdown")
WatchRetires == /\ ~flagged /\ rows # <<>> /\ ~LosesDay /\ LosesWindow
                /\ Moves("RETIRED", "drawdown")
WatchTick == WatchKilled \/ WatchHalts \/ WatchRetires

\* A switch is tripped, or reset, or its file cannot be read any more.
FlagTurns == /\ flagged' = ~flagged
             /\ UNCHANGED <<standing, category, today, built, logOf, rows, told, wrote>>

BookNext == \/ BuildRunner \/ EndRunner \/ NextDay \/ Summarise
            \/ \E s \in Signals : EmitSignal(s)
            \/ WatchTick \/ FlagTurns

\* Both jobs run every hour: more than once between two midnights.
BookFair == WF_bookVars(Summarise) /\ WF_bookVars(WatchTick)
BookSpec == BookInit /\ [][BookNext]_bookVars
BookFairSpec == BookSpec /\ BookFair

-------------------------------------------------------------------------------
BookTypeOK ==
  /\ standing \in {"PAPER", "HALTED", "RETIRED"}
  /\ category \in {"none", "global_kill_switch", "single_day_drawdown", "drawdown"}
  /\ flagged \in BOOLEAN
  /\ today \in Days /\ built \in 0..today
  /\ logOf \in [Days -> [open : Seq(Signals), pairs : Nat, pnl : Int]]
  /\ rows \in Seq([day : Days, pnl : Int]) /\ Len(rows) <= RowLimit

\* Where every signal has one size and none is left open, what the summary
\* reports is what the signals cost and brought, in whatever order they came.
ReportedIsCash ==
  \A d \in Days : Cardinality(told[d].sizes) <= 1 /\ logOf[d].open = <<>>
                   => logOf[d].pnl = told[d].cash

\* A slug is halted for the global kill switch, or for a loss that one day's
\* signals had made at some time of that day.
HaltIsEarned ==
  standing = "HALTED" /\ category # "global_kill_switch" => \E d \in Days : told[d].low <= -DayLimit

\* The loss that today's log shows and keeps halts the slug, unless it had
\* been retired or the day ends first (the new day's log has no loss yet, and a
\* runner's signals past midnight are in yesterday's, which nobody reads again);
\* a kill switch that comes and goes meanwhile, under which no loss is looked
\* at, does not save it.
LossIsHalted == ~<>[](standing = "PAPER" /\ logOf[today].pnl <= -DayLimit)

\* README.md: a PAPER strategy is RETIRED on a seven-day loss of 15%: what the
\* days of the window lost, each by its newest summary, is past the limit.
DayRow(d) == LET rs == SelectSeq(WindowRows, LAMBDA r : r.day = d)
             IN IF rs = <<>> THEN 0 ELSE rs[Len(rs)].pnl
WindowPnl == FoldLeft(LAMBDA n, d : n + DayRow(d), 0, [d \in Days |-> d])
RetireIsEarned ==
  [][standing = "PAPER" /\ standing' = "RETIRED" => WindowPnl <= -RollingLimit]_bookVars
===============================================================================
