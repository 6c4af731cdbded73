----------------------------- MODULE Lifecycle ------------------------------
(***************************************************************************)
(* The life of a strategy: the state column of table hypotheses, and the   *)
(* processes that move it without knowing of each other.                   *)
(*                                                                         *)
(*   jobs     cron or an agent runs a script on a slug: generate the code, *)
(*            evaluate, optimize, evaluate again on a rolling window.  A   *)
(*            job picks the slug by its state, or by name whatever its     *)
(*            state, works for minutes or hours, then moves it to its      *)
(*            verdict                                                      *)
(*   watcher  lists the PAPER slugs and moves those that lost too much     *)
(*   user     moves slugs with transition_lifecycle.py, and so do agents   *)
(*                                                                         *)
(* lifecycle.transition is one SQLite transaction.  It refuses two moves   *)
(* to an agent and checks nothing else, so whoever comes last wins.        *)
(*                                                                         *)
(* Abstractions.  Slugs are numbered by created_at, oldest first.  What a  *)
(* backtest says is a nondeterministic verdict among those the decision    *)
(* rules know.  HALTED or RETIRED is the watcher's choice: its thresholds  *)
(* and the kill flag only decide which.                                    *)
(***************************************************************************)
EXTENDS Integers, FiniteSets

CONSTANTS
  N,          \* number of slugs
  Jobs,       \* bound: scripts that run at the same time
  Cap,        \* BudgetCaps.backtests_per_day
  MaxBacktests,    \* bound: backtests one job consumes
  MayFail,    \* slugs whose backtests may fail or whose grid is inert
  HlSlugs,    \* slugs of Hyperliquid, which hl_optimize.py optimizes
  InitialStates, \* the states slugs are registered in (--initial-state)
  UserMoves,  \* the moves a user asks for, as <<from, to>>
  AgentMoves  \* the moves agents ask for outside their scripts

Slugs == 1..N

ASSUME JobsAssumption   == N \in Nat /\ Cap \in Nat /\ MaxBacktests \in Nat \ {0}
ASSUME FewAssumption    == IsFiniteSet(Jobs)
ASSUME MemberAssumption == MayFail \subseteq Slugs /\ HlSlugs \subseteq Slugs

States == {"ABSENT", "PROPOSED", "CODEGEN", "SMOKE_PASS", "BACKTEST", "OPTIMIZE",
           "WALK_FORWARD", "PAPER_READY", "PAPER", "LIVE_READY", "LIVE",
           "HALTED", "SHELVED", "REJECTED", "RETIRED"}
Queues == {"codegen", "test", "opt", "rolling"}
Kinds  == Queues \union {"hlopt"}

Rows   == States \ {"ABSENT"}

ASSUME MoveAssumption == /\ UserMoves \subseteq Rows \X Rows
                         /\ AgentMoves \subseteq Rows \X Rows
                         /\ InitialStates \subseteq Rows

VARIABLES
  state,    \* state[s]: the column; "ABSENT": s has no row
  job,      \* job[j]: what script j is doing
  spent,    \* today's budget_ledger.backtests
  listed,   \* slugs the watcher listed and has not looked at yet
  review    \* history: is a user's review of s "due", because the watcher
            \* took it down and no user has moved it since, or has an agent
            \* "sidestepped" it; else "none"

lifeVars == <<state, job, spent, listed, review>>

Idle == [step |-> "idle", kind |-> "none", s |-> 0, seen |-> "ABSENT", left |-> 0]

Picked(kind, s) ==
  [step |-> "picked", kind |-> kind, s |-> s, seen |-> "ABSENT", left |-> 0]
-----------------------------------------------------------------------------
(* lifecycle.py *)

\* Moves that need a user.
HUMAN_GATED == {<<"PAPER_READY", "PAPER">>, <<"LIVE_READY", "LIVE">>}

\* Mutant: the gate lets agents through.
TransitionUngated(s, to, user) ==
  state' = IF state[s] # "ABSENT" THEN [state EXCEPT ![s] = to] ELSE state

\* transition(): one transaction, the gate its only check.
Transition(s, to, user) ==
  state' = IF state[s] # "ABSENT" /\ (<<state[s], to>> \in HUMAN_GATED => user)
             THEN [state EXCEPT ![s] = to] ELSE state

\* add_hypothesis: an existing row keeps its state.
Propose(s, initial) ==
  /\ state[s] = "ABSENT"
  /\ initial \in InitialStates
  /\ state' = [state EXCEPT ![s] = initial]
  /\ UNCHANGED <<job, spent, listed, review>>

UserMove(s, to) ==
  /\ <<state[s], to>> \in UserMoves
  /\ Transition(s, to, TRUE)
  /\ review' = [review EXCEPT ![s] = "none"]
  /\ UNCHANGED <<job, spent, listed>>

\* States of a strategy that trades, or is about to.
Resumed == {"PAPER", "LIVE_READY", "LIVE"}

\* transition_lifecycle.py asks for no particular actor: an agent may move a
\* slug anywhere, but through the gate.
AgentMove(s, to) ==
  /\ <<state[s], to>> \in AgentMoves
  /\ Transition(s, to, FALSE)
  /\ review' = IF to \in Resumed /\ <<state[s], to>> \notin HUMAN_GATED
                 THEN [review EXCEPT ![s] = IF @ = "due" THEN "sidestepped" ELSE @]
                 ELSE review
  /\ UNCHANGED <<job, spent, listed>>
-----------------------------------------------------------------------------
(* Jobs *)

\* The states from which a queue is fed.
QueueOf(q) ==
  CASE q = "codegen" -> {"PROPOSED"}
    [] q = "test"    -> {"SMOKE_PASS", "BACKTEST"}
    [] q = "opt"     -> {"OPTIMIZE"}
    [] q = "rolling" -> {"PAPER"}

Queue(q) == {s \in Slugs : state[s] \in QueueOf(q)}

\* _oldest_slug goes through the states in turn, and takes the oldest of the
\* first that has any: of the two states of the test queue, SMOKE_PASS.
Ahead(t, s) == \/ state[t] = state[s] /\ t < s
               \/ state[t] = "SMOKE_PASS" /\ state[s] = "BACKTEST"

\* Mutant: the newest slug first.
HeadsNewest(q) == {s \in Queue(q) : \A t \in Queue(q) : t <= s}

\* The queues take the slug that has none ahead, the rolling evaluation and
\* the agent that generates code take any.
Heads(q) ==
  CASE q \in {"rolling", "codegen"} -> Queue(q)
    [] q \in {"test", "opt"} -> {s \in Queue(q) : \A t \in Queue(q) : ~Ahead(t, s)}

\* The script that serves a queue.
Script(q, s) == IF q = "opt" /\ s \in HlSlugs THEN "hlopt" ELSE q

\* The states a verdict can name.
Verdicts(kind) ==
  CASE kind = "codegen" -> {"SMOKE_PASS", "REJECTED"}
    [] kind \in {"opt", "hlopt"}    -> {"PAPER_READY", "SHELVED", "REJECTED"}
    [] kind \in {"test", "rolling"} -> {"OPTIMIZE", "SHELVED", "REJECTED"}

\* The backtests a script bills; hl_optimize.py bills none.
Costs(kind) ==
  CASE kind \in {"codegen", "hlopt"} -> {0}
    [] kind = "opt"                  -> 1..MaxBacktests
    [] kind \in {"test", "rolling"}  -> {1}

\* Scripts that look at the budget; hl_optimize.py does not.
Budgeted == {"test", "opt", "rolling"}

\* Cron, an agent or rolling_eval chooses a slug; the two queues only while
\* the budget lasts.
Pick(j, q, s) ==
  /\ job[j] = Idle
  /\ q \in {"test", "opt"} => spent < Cap
  /\ s \in Heads(q)
  /\ job' = [job EXCEPT ![j] = Picked(Script(q, s), s)]
  /\ UNCHANGED <<state, spent, listed, review>>

\* eval_strategy.py or optimize_strategy.py run on a slug by its name.
PickByName(j, kind, s) ==
  /\ job[j] = Idle
  /\ kind \in {"test", "opt"} /\ state[s] # "ABSENT"
  /\ Script(kind, s) = kind
  /\ job' = [job EXCEPT ![j] = Picked(kind, s)]
  /\ UNCHANGED <<state, spent, listed, review>>

\* Mutant: the budget is not looked at.
ReadUnchecked(j, cost) ==
  /\ job[j].step = "picked"
  /\ cost \in Costs(job[j].kind)
  /\ LET s == job[j].s
     IN  /\ job' = [job EXCEPT ![j].step = "works", ![j].seen = state[s], ![j].left = cost]
         /\ IF job[j].kind = "codegen" THEN Transition(s, "CODEGEN", FALSE)
                                       ELSE UNCHANGED state
  /\ UNCHANGED <<spent, listed, review>>

\* The script checks the budget and reads the row; code generation claims
\* the slug instead.
Read(j, cost) ==
  /\ job[j].step = "picked"
  /\ cost \in Costs(job[j].kind)
  /\ job[j].kind \in Budgeted => spent < Cap
  /\ LET s == job[j].s
     IN  /\ job' = [job EXCEPT ![j].step = "works", ![j].seen = state[s], ![j].left = cost]
         /\ IF job[j].kind = "codegen" THEN Transition(s, "CODEGEN", FALSE)
                                       ELSE UNCHANGED state
  /\ UNCHANGED <<spent, listed, review>>

\* budget_exhausted.
TurnedAway(j) ==
  /\ job[j].step = "picked" /\ job[j].kind \in Budgeted /\ spent >= Cap
  /\ job' = [job EXCEPT ![j] = Idle]
  /\ UNCHANGED <<state, spent, listed, review>>

\* budget.consume, once per backtest, when it is done.
Consume(j) ==
  /\ job[j].step = "works" /\ job[j].left > 0
  /\ job' = [job EXCEPT ![j].left = @ - 1]
  /\ spent' = spent + 1
  /\ UNCHANGED <<state, listed, review>>

\* The verdict, unless it is the state the job read before it worked.  A grid
\* with too few trades is rejected without that comparison; cron applies the
\* verdict of hl_optimize.py, and compares it with the state of now.
Conclude(j, verdict) ==
  /\ job[j].step = "works" /\ job[j].left = 0
  /\ verdict \in Verdicts(job[j].kind)
  /\ \/ /\ \/ job[j].seen # verdict
           \/ job[j].kind = "hlopt"
           \/ job[j].kind = "opt" /\ verdict = "REJECTED"
        /\ Transition(job[j].s, verdict, FALSE)
     \/ /\ job[j].seen = verdict /\ job[j].kind # "hlopt"
        /\ UNCHANGED state
  /\ job' = [job EXCEPT ![j] = Idle]
  /\ UNCHANGED <<spent, listed, review>>

\* A backtest fails, a timeout kills the script, or the grid is inert: the
\* job ends without a verdict.
GiveUp(j) ==
  /\ job[j].step = "works" /\ job[j].s \in MayFail
  /\ job' = [job EXCEPT ![j] = Idle]
  /\ UNCHANGED <<state, spent, listed, review>>

NewDay ==
  /\ spent > 0
  /\ spent' = 0
  /\ UNCHANGED <<state, job, listed, review>>
-----------------------------------------------------------------------------
(* paper_watcher.py *)

WatcherLists ==
  /\ listed = {}
  /\ listed' = {s \in Slugs : state[s] = "PAPER"}
  /\ listed' # {}
  /\ UNCHANGED <<state, job, spent, review>>

WatcherKeeps(s) ==
  /\ s \in listed
  /\ listed' = listed \ {s}
  /\ UNCHANGED <<state, job, spent, review>>

\* Whatever state the slug has by now.
WatcherMoves(s, to) ==
  /\ s \in listed
  /\ to \in {"HALTED", "RETIRED"}
  /\ listed' = listed \ {s}
  /\ Transition(s, to, FALSE)
  /\ review' = [review EXCEPT ![s] = "due"]
  /\ UNCHANGED <<job, spent>>
-----------------------------------------------------------------------------
LifeInit ==
  /\ state = [s \in Slugs |-> "ABSENT"]
  /\ job = [j \in Jobs |-> Idle]
  /\ spent = 0
  /\ listed = {}
  /\ review = [s \in Slugs |-> "none"]

JobSteps(j) ==
  \/ \E cost \in 0..MaxBacktests : Read(j, cost)
  \/ TurnedAway(j)
  \/ Consume(j)
  \/ \E verdict \in States : Conclude(j, verdict)
  \/ GiveUp(j)

Watcher ==
  \/ WatcherLists
  \/ \E s \in Slugs : WatcherKeeps(s)
  \/ \E s \in Slugs, to \in States : WatcherMoves(s, to)

LifeNext ==
  \/ \E s \in Slugs, to \in States : \/ Propose(s, to)
                                    \/ UserMove(s, to)
                                    \/ AgentMove(s, to)
  \/ \E j \in Jobs, q \in Queues, s \in Slugs : \/ Pick(j, q, s)
                                              \/ PickByName(j, q, s)
  \/ \E j \in Jobs : JobSteps(j)
  \/ NewDay
  \/ Watcher

LifeSpec == LifeInit /\ [][LifeNext]_lifeVars

\* The queues run at fixed hours, early in the ledger's (UTC) day: there are
\* days that begin while no script runs, and on which cron comes before the
\* budget is gone.
QuietMidnight == NewDay /\ \A j \in Jobs : job[j] = Idle
CronRuns(q) == \E j \in Jobs, s \in Slugs : Pick(j, q, s)

\* Scripts end, days pass, and cron runs each queue again and again.
Fairness ==
  /\ \A j \in Jobs : WF_lifeVars(JobSteps(j))
  /\ SF_lifeVars(QuietMidnight)
  /\ \A q \in {"test", "opt"} : SF_lifeVars(CronRuns(q))

LifeFairSpec == LifeSpec /\ Fairness
-----------------------------------------------------------------------------
(* Properties *)

JobType == [step : {"idle", "picked", "works"}, kind : Kinds \union {"none"},
            s : Slugs \union {0}, seen : States, left : 0..MaxBacktests]

LifeTypeOK ==
  /\ state \in [Slugs -> States]
  /\ job \in [Jobs -> JobType]
  /\ spent \in Nat
  /\ listed \subseteq Slugs
  /\ review \in [Slugs -> {"none", "due", "sidestepped"}]

\* "Agent halts strategy; requires user review before resume"
\* (paper_watcher.py): scripts in their queues, scripts run by name, races
\* between them and agents' own moves may take a halted slug out of HALTED,
\* but not back to paper trading or beyond: for that a user moves it, or an
\* agent makes a move to it that is no gated one.
NoResumeUnreviewed ==
  \A s \in Slugs : review[s] = "due" => state[s] \notin Resumed

\* The check comes before the work and the bill after it, so jobs that run
\* together overrun the cap, but by no more than what they were running.
BudgetBounded == spent <= Cap - 1 + MaxBacktests * Cardinality(Jobs) \/ spent = 0

\* A slug in a queue is worked off, unless its own backtests fail: again and
\* again it is out of the queue, or another is ahead of it there.
QueueDrains ==
  \A q \in {"test", "opt"} : \A s \in Slugs \ MayFail :
    []<>(s \notin Queue(q) \/ \E t \in Queue(q) : Ahead(t, s))

\* docs/scheduling.md: "`make paper-watcher` is the only piece that
\* auto-transitions PAPER strategies": a slug leaves PAPER by the watcher's
\* hand or a user's.
OnlyWatcherLeavesPaper ==
  [][\A s \in Slugs :
       state[s] = "PAPER" /\ state'[s] # "PAPER"
         => \E to \in States : WatcherMoves(s, to) \/ UserMove(s, to)]_lifeVars
=============================================================================
