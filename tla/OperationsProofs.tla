--------------------------- MODULE OperationsProofs --------------------------
(***************************************************************************)
(* What the scheduled jobs keep, for every value of the constants.         *)
(*                                                                         *)
(* Lifecycle: NoResumeUnreviewed and BudgetBounded, for every number of    *)
(* slugs and scripts, every budget and every set of moves users and agents *)
(* ask for.  NoResumeUnreviewed is inductive once the invariant also says  *)
(* that a slug whose review is due has a row, so nobody can register it in *)
(* a state of his choice; and what the watcher listed has a row, so its    *)
(* own move takes effect.  No verdict of a script names a state that       *)
(* trades, and an agent's move to one is refused or no gated one.          *)
(* BudgetBounded is inductive once the backtests that running scripts have *)
(* yet to bill count as spent: a script that starts finds the ledger below *)
(* the cap, whatever the others still owe.                                 *)
(*                                                                         *)
(* PaperOps: AuditorStartsOne, for any slugs and faults.  The auditor asks *)
(* for a process before it starts one, so what the invariant adds is that  *)
(* between the two steps nobody else starts one that counts.               *)
(***************************************************************************)
EXTENDS Lifecycle, PaperOps, FiniteSetTheorems, SequenceTheorems, TLAPS

-----------------------------------------------------------------------------
(* Lifecycle *)

AtWork == [step : {"picked", "works"}, kind : Kinds, s : Slugs, seen : States,
           left : 0..MaxBacktests]

JobsTyped == job \in [Jobs -> AtWork \union {Idle}]

StatesTyped ==
  /\ state \in [Slugs -> States]
  /\ review \in [Slugs -> {"none", "due", "sidestepped"}]
  /\ listed \subseteq Slugs

\* What the watcher listed has a row.
ListedExist == \A s \in listed : state[s] # "ABSENT"

\* A slug whose review is due has a row.
DueExists == \A s \in Slugs : review[s] = "due" => state[s] # "ABSENT"

Inv == JobsTyped /\ StatesTyped /\ ListedExist /\ NoResumeUnreviewed /\ DueExists

-----------------------------------------------------------------------------
\* A transition moves its own slug at most, and never drops a row.
LEMMA TransitionMovesOne ==
  ASSUME state \in [Slugs -> States], NEW s \in Slugs, NEW to \in Rows,
         NEW user \in BOOLEAN, Transition(s, to, user)
  PROVE  /\ state' \in [Slugs -> States]
         /\ \A t \in Slugs : t # s => state'[t] = state[t]
         /\ \A t \in Slugs : state[t] # "ABSENT" => state'[t] # "ABSENT"
         /\ state'[s] \in {state[s], to}
  BY DEF Transition, Rows

\* A step of a script moves slugs to no state that trades, and leaves the
\* watcher's state and the reviews alone.
LEMMA JobStepIsMild ==
  ASSUME JobsTyped, StatesTyped, NEW j \in Jobs, JobSteps(j)
  PROVE  /\ JobsTyped'
         /\ state' \in [Slugs -> States]
         /\ \A t \in Slugs : state'[t] = state[t] \/ state'[t] \notin Resumed
         /\ \A t \in Slugs : state[t] # "ABSENT" => state'[t] # "ABSENT"
         /\ UNCHANGED <<listed, review>>
<1>1. CASE \E cost \in 0..MaxBacktests : Read(j, cost)
  <2>1. PICK cost \in 0..MaxBacktests : Read(j, cost)
    BY <1>1
  <2>2. /\ job[j] \in AtWork
        /\ job' = [job EXCEPT ![j].step = "works", ![j].seen = state[job[j].s],
                              ![j].left = cost]
    BY <2>1 DEF JobsTyped, Read, Idle
  <2>3. job[j].s \in Slugs /\ state[job[j].s] \in States
    BY <2>2 DEF AtWork, StatesTyped
  <2>4. job'[j] \in AtWork
    BY <2>2, <2>3 DEF AtWork, JobsTyped
  <2>5. JobsTyped'
    BY <2>2, <2>4 DEF JobsTyped
  <2>6. /\ state' \in [Slugs -> States]
        /\ \A t \in Slugs : state'[t] = state[t] \/ state'[t] \notin Resumed
        /\ \A t \in Slugs : state[t] # "ABSENT" => state'[t] # "ABSENT"
    <3>1. CASE job[j].kind = "codegen"
      <4>1. Transition(job[j].s, "CODEGEN", FALSE)
        BY <2>1, <3>1 DEF Read
      <4>2. "CODEGEN" \in Rows /\ "CODEGEN" \notin Resumed
        BY DEF Rows, States, Resumed
      <4> QED BY <4>1, <4>2, <2>3, TransitionMovesOne DEF StatesTyped
    <3>2. CASE job[j].kind # "codegen"
      BY <2>1, <3>2 DEF Read, StatesTyped
    <3> QED BY <3>1, <3>2
  <2> QED BY <2>1, <2>5, <2>6 DEF Read
<1>2. CASE TurnedAway(j) \/ GiveUp(j)
  <2>1. /\ job' = [job EXCEPT ![j] = Idle]
        /\ UNCHANGED <<state, listed, review>>
    BY <1>2 DEF TurnedAway, GiveUp
  <2> QED BY <2>1 DEF JobsTyped, StatesTyped
<1>3. CASE Consume(j)
  <2>1. /\ job[j] \in AtWork
        /\ job[j].left > 0
        /\ job' = [job EXCEPT ![j].left = @ - 1]
        /\ UNCHANGED <<state, listed, review>>
    BY <1>3 DEF Consume, JobsTyped, Idle
  <2>2. job'[j] \in AtWork
    BY <2>1, JobsAssumption DEF AtWork, JobsTyped
  <2>3. JobsTyped'
    BY <2>1, <2>2 DEF JobsTyped
  <2> QED BY <2>1, <2>3 DEF StatesTyped
<1>4. CASE \E verdict \in States : Conclude(j, verdict)
  <2>1. PICK verdict \in States : Conclude(j, verdict)
    BY <1>4
  <2>2. /\ job[j] \in AtWork
        /\ job' = [job EXCEPT ![j] = Idle]
        /\ UNCHANGED <<listed, review>>
    BY <2>1 DEF Conclude, JobsTyped, Idle
  <2>3. job[j].s \in Slugs /\ job[j].kind \in Kinds
    BY <2>2 DEF AtWork
  <2>4. verdict \in Rows /\ verdict \notin Resumed
    BY <2>1, <2>3 DEF Conclude, Verdicts, Kinds, Queues, Rows, Resumed
  <2>5. Transition(job[j].s, verdict, FALSE) \/ UNCHANGED state
    BY <2>1 DEF Conclude
  <2>6. CASE Transition(job[j].s, verdict, FALSE)
    <3> DEFINE s == job[j].s
    <3>1. s \in Slugs /\ verdict \in Rows /\ Transition(s, verdict, FALSE)
          /\ state \in [Slugs -> States]
      BY <2>3, <2>4, <2>6 DEF StatesTyped
    <3> HIDE DEF s
    <3>2. /\ state' \in [Slugs -> States] /\ state'[s] \in {state[s], verdict}
          /\ \A t \in Slugs : t # s => state'[t] = state[t]
          /\ \A t \in Slugs : state[t] # "ABSENT" => state'[t] # "ABSENT"
      BY <3>1, TransitionMovesOne
    <3>3. JobsTyped' BY <2>2 DEF JobsTyped
    <3> QED BY <2>2, <2>4, <3>1, <3>2, <3>3
  <2>7. CASE UNCHANGED state
    BY <2>2, <2>7 DEF StatesTyped, JobsTyped
  <2> QED BY <2>5, <2>6, <2>7
<1> QED BY <1>1, <1>2, <1>3, <1>4 DEF JobSteps
-----------------------------------------------------------------------------
LEMMA InitInv == LifeInit => Inv
  BY DEF LifeInit, Inv, JobsTyped, StatesTyped, ListedExist, NoResumeUnreviewed,
         DueExists, States

LEMMA PickedTyped ==
  ASSUME NEW kind \in Kinds, NEW s \in Slugs
  PROVE  Picked(kind, s) \in AtWork /\ Picked(kind, s).left = 0
<1>1. 0 \in 0..MaxBacktests /\ "ABSENT" \in States
  BY JobsAssumption DEF States
<1> QED BY <1>1 DEF AtWork, Picked

\* However a script is chosen, it starts with nothing billed.
LEMMA PickSets ==
  ASSUME NEW j \in Jobs, NEW q \in Queues, NEW s \in Slugs,
         Pick(j, q, s) \/ PickByName(j, q, s)
  PROVE  /\ \E r \in AtWork : r.left = 0 /\ job' = [job EXCEPT ![j] = r]
         /\ UNCHANGED <<state, spent, listed, review>>
<1>1. Script(q, s) \in Kinds /\ q \in Kinds
  BY DEF Script, Kinds, Queues
<1>2. CASE Pick(j, q, s)
  BY <1>1, <1>2, PickedTyped DEF Pick
<1>3. CASE PickByName(j, q, s)
  BY <1>1, <1>3, PickedTyped DEF PickByName
<1> QED BY <1>2, <1>3

LEMMA NextInv == Inv /\ [LifeNext]_lifeVars => Inv'
<1> SUFFICES ASSUME Inv, [LifeNext]_lifeVars
             PROVE  Inv'
  OBVIOUS
<1> USE DEF Inv
<1>1. ASSUME NEW s \in Slugs, NEW to \in States, Propose(s, to)
      PROVE  Inv'
  <2>1. /\ state[s] = "ABSENT" /\ to \in Rows
        /\ state' = [state EXCEPT ![s] = to]
        /\ UNCHANGED <<job, listed, review>>
    BY <1>1, MoveAssumption DEF Propose
  <2>2. review[s] # "due"
    BY <2>1 DEF DueExists
  <2> QED BY <2>1, <2>2 DEF JobsTyped, StatesTyped, Rows, ListedExist,
                            NoResumeUnreviewed, DueExists
<1>2. ASSUME NEW s \in Slugs, NEW to \in States, UserMove(s, to)
      PROVE  Inv'
  <2>1. /\ to \in Rows
        /\ Transition(s, to, TRUE)
        /\ review' = [review EXCEPT ![s] = "none"]
        /\ UNCHANGED <<job, listed>>
    BY <1>2, MoveAssumption DEF UserMove
  <2>2. /\ state' \in [Slugs -> States]
        /\ \A t \in Slugs : t # s => state'[t] = state[t]
        /\ \A t \in Slugs : state[t] # "ABSENT" => state'[t] # "ABSENT"
    BY <2>1, TransitionMovesOne DEF StatesTyped
  <2> QED BY <2>1, <2>2 DEF JobsTyped, StatesTyped, ListedExist,
                            NoResumeUnreviewed, DueExists
<1>3. ASSUME NEW s \in Slugs, NEW to \in States, AgentMove(s, to)
      PROVE  Inv'
  <2>1. to \in Rows /\ Transition(s, to, FALSE) /\ UNCHANGED <<job, listed>>
    BY <1>3, MoveAssumption DEF AgentMove
  <2>2. /\ state' \in [Slugs -> States]
        /\ \A t \in Slugs : t # s => state'[t] = state[t]
        /\ \A t \in Slugs : state[t] # "ABSENT" => state'[t] # "ABSENT"
        /\ state'[s] \in {state[s], to}
    BY <2>1, TransitionMovesOne DEF StatesTyped
  <2>3. /\ review' \in [Slugs -> {"none", "due", "sidestepped"}]
        /\ \A t \in Slugs : review'[t] = "due" => review[t] = "due"
    BY <1>3 DEF AgentMove, StatesTyped
  <2>4. ASSUME review'[s] = "due" PROVE state'[s] \notin Resumed
    <3>1. review[s] = "due" /\ state[s] \notin Resumed
      BY <2>3, <2>4 DEF NoResumeUnreviewed
    <3>2. CASE to \notin Resumed
      BY <2>2, <3>1, <3>2
    <3>3. CASE to \in Resumed /\ <<state[s], to>> \in HUMAN_GATED
      BY <2>1, <3>1, <3>3 DEF Transition
    <3>4. CASE to \in Resumed /\ <<state[s], to>> \notin HUMAN_GATED
      BY <1>3, <2>4, <3>1, <3>4 DEF AgentMove, StatesTyped
    <3> QED BY <3>2, <3>3, <3>4
  <2>5. NoResumeUnreviewed' BY <2>2, <2>3, <2>4 DEF NoResumeUnreviewed
  <2> QED BY <2>1, <2>2, <2>3, <2>5 DEF JobsTyped, StatesTyped, ListedExist, DueExists
<1>4. ASSUME NEW j \in Jobs, NEW q \in Queues, NEW s \in Slugs,
             Pick(j, q, s) \/ PickByName(j, q, s)
      PROVE  Inv'
  BY <1>4, PickSets DEF JobsTyped, StatesTyped, ListedExist, NoResumeUnreviewed, DueExists
<1>5. ASSUME NEW j \in Jobs, JobSteps(j)
      PROVE  Inv'
  BY <1>5, JobStepIsMild DEF StatesTyped, ListedExist, NoResumeUnreviewed, DueExists
<1>6. ASSUME NewDay \/ UNCHANGED lifeVars
      PROVE  Inv'
  BY <1>6 DEF NewDay, lifeVars, JobsTyped, StatesTyped, ListedExist,
              NoResumeUnreviewed, DueExists
<1>7. ASSUME Watcher
      PROVE  Inv'
  <2>1. CASE WatcherLists \/ \E s \in Slugs : WatcherKeeps(s)
    <3>1. /\ listed' \subseteq Slugs
          /\ \A s \in listed' : state[s] # "ABSENT"
          /\ UNCHANGED <<state, job, review>>
      BY <2>1 DEF WatcherLists, WatcherKeeps, StatesTyped, ListedExist
    <3> QED BY <3>1 DEF JobsTyped, StatesTyped, ListedExist, NoResumeUnreviewed,
                        DueExists
  <2>2. CASE \E s \in Slugs, to \in States : WatcherMoves(s, to)
    <3>1. PICK s \in Slugs, to \in States : WatcherMoves(s, to)
      BY <2>2
    <3>2. /\ s \in listed /\ to \in Rows /\ to \notin Resumed
          /\ <<state[s], to>> \notin HUMAN_GATED
          /\ listed' = listed \ {s}
          /\ Transition(s, to, FALSE)
          /\ review' = [review EXCEPT ![s] = "due"]
          /\ UNCHANGED job
      BY <3>1 DEF WatcherMoves, Rows, States, Resumed, HUMAN_GATED
    <3>3. /\ state' \in [Slugs -> States]
          /\ \A t \in Slugs : t # s => state'[t] = state[t]
          /\ \A t \in Slugs : state[t] # "ABSENT" => state'[t] # "ABSENT"
      BY <3>2, TransitionMovesOne DEF StatesTyped
    <3>4. state'[s] = to
      BY <3>2 DEF Transition, ListedExist, StatesTyped
    <3>5. JobsTyped' /\ StatesTyped' /\ ListedExist'
      BY <3>2, <3>3 DEF JobsTyped, StatesTyped, ListedExist
    <3>6. NoResumeUnreviewed' /\ DueExists'
      BY <3>2, <3>3, <3>4 DEF NoResumeUnreviewed, DueExists, StatesTyped, Rows
    <3> QED BY <3>5, <3>6
  <2> QED BY <1>7, <2>1, <2>2 DEF Watcher
<1> QED BY <1>1, <1>2, <1>3, <1>4, <1>5, <1>6, <1>7 DEF LifeNext

-----------------------------------------------------------------------------
(* The budget *)

\* The backtests that running scripts have yet to bill, one element each.
Owed == {u \in Jobs \X (1..MaxBacktests) : u[2] <= job[u[1]].left}

Overrun == MaxBacktests * Cardinality(Jobs)

\* Spent and owed stay below the cap and one round of all scripts; with no
\* budget at all no script starts.
Billed ==
  /\ spent \in Nat
  /\ Cap = 0 => spent = 0 /\ Owed = {}
  /\ Cap # 0 => spent + Cardinality(Owed) <= Cap - 1 + Overrun

\* However much the scripts owe, it is finite and at most one round of them.
LEMMA OwedBound ==
  ASSUME NEW U \in SUBSET (Jobs \X (1..MaxBacktests))
  PROVE  /\ IsFiniteSet(U) /\ Cardinality(U) \in Nat
         /\ Overrun \in Nat /\ Cardinality(U) <= Overrun
<1>1. /\ IsFiniteSet(1..MaxBacktests)
      /\ Cardinality(1..MaxBacktests) = MaxBacktests
  BY FS_Interval, JobsAssumption
<1>2. /\ IsFiniteSet(Jobs \X (1..MaxBacktests))
      /\ Cardinality(Jobs \X (1..MaxBacktests))
            = Cardinality(Jobs) * Cardinality(1..MaxBacktests)
  BY <1>1, FewAssumption, FS_Product
<1>3. /\ IsFiniteSet(U)
      /\ Cardinality(U) <= Cardinality(Jobs \X (1..MaxBacktests))
  BY <1>2, FS_Subset
<1>4. Cardinality(U) \in Nat /\ Cardinality(Jobs) \in Nat
  BY <1>3, FewAssumption, FS_CardinalityType
<1>5. Overrun = Cardinality(Jobs \X (1..MaxBacktests)) /\ Overrun \in Nat
  BY <1>1, <1>2, <1>4, JobsAssumption DEF Overrun
<1> QED BY <1>3, <1>4, <1>5

\* A step that bills nothing and takes on no backtest keeps the bound.
LEMMA OwedShrinks ==
  ASSUME Billed, spent' = spent, Owed' \subseteq Owed
  PROVE  Billed'
<1>1. Owed \in SUBSET (Jobs \X (1..MaxBacktests))
  BY DEF Owed
<1>2. IsFiniteSet(Owed) /\ Cardinality(Owed) \in Nat /\ Overrun \in Nat
  BY <1>1, OwedBound
<1>3. Cardinality(Owed') \in Nat /\ Cardinality(Owed') <= Cardinality(Owed)
  <2>1. Owed' \in SUBSET (Jobs \X (1..MaxBacktests))
    BY <1>1
  <2> QED BY <2>1, <1>2, OwedBound, FS_Subset
<1> QED BY <1>2, <1>3, JobsAssumption DEF Billed, Overrun

\* A script that stops owes nothing any more.
LEMMA IdleOwesNothing ==
  ASSUME JobsTyped, NEW j \in Jobs, NEW r \in AtWork \union {Idle}, r.left = 0,
         job' = [job EXCEPT ![j] = r]
  PROVE  Owed' \subseteq Owed
<1>1. \A i \in Jobs : job'[i] = IF i = j THEN r ELSE job[i]
  BY DEF JobsTyped
<1> QED BY <1>1, JobsAssumption DEF Owed

\* A step of a script keeps the bound.
LEMMA JobStepBills ==
  ASSUME JobsTyped, Billed, NEW j \in Jobs, JobSteps(j)
  PROVE  Billed'
<1>1. CASE \E cost \in 0..MaxBacktests : Read(j, cost)
  <2>1. PICK cost \in 0..MaxBacktests : Read(j, cost)
    BY <1>1
  <2>2. /\ job' = [job EXCEPT ![j].step = "works", ![j].seen = state[job[j].s],
                              ![j].left = cost]
        /\ spent' = spent
    BY <2>1 DEF Read
  <2>3. CASE job[j].kind \in {"codegen", "hlopt"}
    <3>1. cost = 0
      BY <2>1, <2>3 DEF Read, Costs
    <3>2. \A i \in Jobs : job'[i].left = IF i = j THEN 0 ELSE job[i].left
      BY <2>2, <3>1 DEF JobsTyped, AtWork, Idle
    <3>3. Owed' \subseteq Owed
      BY <3>2, JobsAssumption DEF Owed
    <3> QED BY <2>2, <3>3, OwedShrinks
  <2>4. CASE job[j].kind \notin {"codegen", "hlopt"}
    <3>0. job[j].kind \in Kinds
      BY <2>1 DEF Read, JobsTyped, AtWork, Idle
    <3>1. spent < Cap
      BY <2>1, <2>4, <3>0 DEF Read, Budgeted, Kinds, Queues
    <3>2. Owed' \in SUBSET (Jobs \X (1..MaxBacktests))
      BY DEF Owed
    <3>3. /\ Cardinality(Owed') \in Nat /\ Overrun \in Nat
          /\ Cardinality(Owed') <= Overrun
      BY <3>2, OwedBound
    <3> QED BY <2>2, <3>1, <3>3, JobsAssumption DEF Billed, Overrun
  <2> QED BY <2>3, <2>4
<1>2. CASE TurnedAway(j) \/ GiveUp(j) \/ \E verdict \in States : Conclude(j, verdict)
  <2>1. job' = [job EXCEPT ![j] = Idle] /\ spent' = spent
    BY <1>2 DEF TurnedAway, GiveUp, Conclude
  <2>2. Idle.left = 0
    BY DEF Idle
  <2> QED BY <2>1, <2>2, IdleOwesNothing, OwedShrinks
<1>3. CASE Consume(j)
  <2>1. /\ job[j].left > 0 /\ job' = [job EXCEPT ![j].left = @ - 1]
        /\ spent' = spent + 1
    BY <1>3 DEF Consume
  <2>2. job[j].left \in 1..MaxBacktests
    BY <2>1, JobsAssumption DEF JobsTyped, AtWork, Idle
  <2>3. \A i \in Jobs : job'[i].left = IF i = j THEN job[j].left - 1 ELSE job[i].left
    BY <2>1 DEF JobsTyped, AtWork, Idle
  <2>4. <<j, job[j].left>> \in Owed
    BY <2>2 DEF Owed
  <2>5. Owed' = Owed \ {<<j, job[j].left>>}
    <3>1. \A i \in Jobs : job[i].left \in 0..MaxBacktests
      BY JobsAssumption DEF JobsTyped, AtWork, Idle
    <3>2. ASSUME NEW i \in Jobs, NEW n \in 1..MaxBacktests
          PROVE  n <= job'[i].left
                   <=> n <= job[i].left /\ ~(i = j /\ n = job[j].left)
      BY <2>2, <2>3, <3>1, JobsAssumption
    <3>3. Owed' = {u \in Jobs \X (1..MaxBacktests) : u[2] <= job'[u[1]].left}
      BY DEF Owed
    <3> QED BY <3>2, <3>3 DEF Owed
  <2>6. Owed \in SUBSET (Jobs \X (1..MaxBacktests))
    BY DEF Owed
  <2>7. /\ IsFiniteSet(Owed) /\ Cardinality(Owed) \in Nat /\ Overrun \in Nat
        /\ Cardinality(Owed') = Cardinality(Owed) - 1
    BY <2>4, <2>5, <2>6, OwedBound, FS_RemoveElement
  <2>8. Cap # 0
    BY <2>4 DEF Billed
  <2> QED BY <2>1, <2>7, <2>8, JobsAssumption DEF Billed, Overrun
<1> QED BY <1>1, <1>2, <1>3 DEF JobSteps

LEMMA NextBilled == Inv /\ Billed /\ [LifeNext]_lifeVars => Billed'
<1> SUFFICES ASSUME Inv, Billed, [LifeNext]_lifeVars
             PROVE  Billed'
  OBVIOUS
<1>1. ASSUME UNCHANGED <<job, spent>>
      PROVE  Billed'
  <2>1. Owed' = Owed
    BY <1>1 DEF Owed
  <2> QED BY <1>1, <2>1, OwedShrinks
<1>2. ASSUME NEW j \in Jobs, NEW q \in Queues, NEW s \in Slugs,
             Pick(j, q, s) \/ PickByName(j, q, s)
      PROVE  Billed'
  <2>1. PICK r \in AtWork : /\ r.left = 0 /\ job' = [job EXCEPT ![j] = r]
                         /\ spent' = spent
    BY <1>2, PickSets
  <2> QED BY <2>1, IdleOwesNothing, OwedShrinks DEF Inv
<1>3. ASSUME NEW j \in Jobs, JobSteps(j)
      PROVE  Billed'
  BY <1>3, JobStepBills DEF Inv
<1>4. ASSUME NewDay
      PROVE  Billed'
  <2>1. spent' = 0 /\ Owed' = Owed
    BY <1>4 DEF NewDay, Owed
  <2>2. Owed \in SUBSET (Jobs \X (1..MaxBacktests))
    BY DEF Owed
  <2>3. Cardinality(Owed) \in Nat /\ Overrun \in Nat /\ Cardinality(Owed) <= Overrun
    BY <2>2, OwedBound
  <2> QED BY <2>1, <2>3, JobsAssumption DEF Billed, Overrun
<1>5. CASE \/ \E s \in Slugs, to \in States : \/ Propose(s, to)
                                               \/ UserMove(s, to)
                                               \/ AgentMove(s, to)
           \/ Watcher \/ UNCHANGED lifeVars
  BY <1>5, <1>1 DEF Propose, UserMove, AgentMove, Watcher, WatcherLists, WatcherKeeps, WatcherMoves,
                    lifeVars
<1> QED BY <1>2, <1>3, <1>4, <1>5 DEF LifeNext

LEMMA InitBilled == LifeInit => Billed
<1> SUFFICES ASSUME LifeInit PROVE Billed
  OBVIOUS
<1>1. spent = 0 /\ Owed = {}
  BY JobsAssumption DEF LifeInit, Owed, Idle
<1>2. {} \in SUBSET (Jobs \X (1..MaxBacktests))
  OBVIOUS
<1>3. Overrun \in Nat /\ Cardinality({}) = 0
  BY <1>2, OwedBound, FS_EmptySet
<1> QED BY <1>1, <1>3, JobsAssumption DEF Billed, Overrun

-----------------------------------------------------------------------------
\* The slugs' states, the scripts' memories, the ledger and the watcher's list
\* keep their types.
THEOREM LifeTyped == LifeSpec => []LifeTypeOK
<1>1. Inv /\ Billed => LifeTypeOK
  <2> SUFFICES ASSUME Inv, Billed PROVE LifeTypeOK
    OBVIOUS
  <2>1. AtWork \subseteq JobType
    BY DEF AtWork, JobType
  <2>2. Idle \in JobType
    BY JobsAssumption DEF Idle, JobType, States
  <2> QED BY <2>1, <2>2 DEF Inv, JobsTyped, StatesTyped, Billed, LifeTypeOK
<1>2. LifeInit => Inv /\ Billed
  BY InitInv, InitBilled
<1>3. Inv /\ Billed /\ [LifeNext]_lifeVars => Inv' /\ Billed'
  BY NextInv, NextBilled
<1> QED BY <1>1, <1>2, <1>3, PTL DEF LifeSpec

\* A slug the watcher took down does not come back to PAPER, LIVE_READY or
\* LIVE before a user moved it, or an agent made a move there that is no
\* gated one.
THEOREM NobodyResumesUnreviewed == LifeSpec => []NoResumeUnreviewed
<1>1. Inv => NoResumeUnreviewed
  BY DEF Inv
<1> QED BY InitInv, NextInv, <1>1, PTL DEF LifeSpec

\* For any number of scripts that run at once: the backtests billed on a day
\* are fewer than the cap and one round of all scripts (budget.check before the
\* work, budget.consume after it).
THEOREM BudgetOverrunBounded == LifeSpec => []BudgetBounded
<1>1. Inv /\ Billed => BudgetBounded
  <2> SUFFICES ASSUME Billed PROVE BudgetBounded
    OBVIOUS
  <2>1. Owed \in SUBSET (Jobs \X (1..MaxBacktests))
    BY DEF Owed
  <2>2. Cardinality(Owed) \in Nat /\ Overrun \in Nat
    BY <2>1, OwedBound
  <2> QED BY <2>2, JobsAssumption DEF Billed, BudgetBounded, Overrun
<1>2. LifeInit => Inv /\ Billed
  BY InitInv, InitBilled
<1>3. Inv /\ Billed /\ [LifeNext]_lifeVars => Inv' /\ Billed'
  BY NextInv, NextBilled
<1> QED BY <1>1, <1>2, <1>3, PTL DEF LifeSpec

-----------------------------------------------------------------------------
(* PaperOps *)

MarkSets == [OpsSlugs \union {"watcher"} -> SUBSET Reporters]
Item == [slug : OpsSlugs, mark : SUBSET Reporters]

AuditorTyped ==
  /\ autos \in [OpsSlugs -> Nat] /\ marks \in MarkSets
  /\ auditor \in [pc : {"idle", "look", "start"}, mem : MarkSets, todo : Seq(Item)]

\* The slug about to be started was found without a runner, and until it is
\* started nobody else starts one that counts.
FoundIdle ==
  auditor.pc = "start" => auditor.todo # <<>> /\ autos[Head(auditor.todo).slug] = 0

OpsInv == AuditorTyped /\ FoundIdle /\ AuditorStartsOne

-----------------------------------------------------------------------------
\* The slugs of a sequence are finitely many.
LEMMA SlugsFinite == IsFiniteSet(OpsSlugs)
<1>1. PaperSlugs \in Seq(OpsSlugs) /\ Len(PaperSlugs) \in Nat /\ DOMAIN PaperSlugs = 1..Len(PaperSlugs)
  BY PaperOpsAssumption DEF OpsSlugs
<1>2. PaperSlugs \in Surjection(1..Len(PaperSlugs), OpsSlugs)
  BY <1>1 DEF Surjection, OpsSlugs, ToSet
<1>3. IsFiniteSet(1..Len(PaperSlugs))
  BY <1>1, FS_Interval
<1> QED BY <1>2, <1>3, FS_Surjection

\* A new output empties marks and renames no slug.
LEMMA ReplacedTyped ==
  ASSUME NEW ms \in MarkSets, NEW j PROVE Replaced(ms, j) \in MarkSets
  BY DEF MarkSets, Replaced

LEMMA OutputKeeps ==
  ASSUME OpsInv, NEW j, NEW s, Output(j, s), autos' = autos
  PROVE  OpsInv'
<1>1. /\ auditor \in [pc : {"idle", "look", "start"}, mem : MarkSets, todo : Seq(Item)]
      /\ autos \in [OpsSlugs -> Nat] /\ marks \in MarkSets
  BY DEF OpsInv, AuditorTyped
<1> DEFINE empty(it) == IF j \in it.mark THEN [it EXCEPT !.mark = {}] ELSE it
           todo == auditor.todo
           rest == [i \in DOMAIN todo |-> empty(todo[i])]
<1>2. auditor' = [auditor EXCEPT !.mem = Replaced(auditor.mem, j), !.todo = rest]
  BY DEF Output
<1>3. todo \in Seq(Item) /\ DOMAIN todo = 1..Len(todo) /\ Len(todo) \in Nat
  BY <1>1
<1>4. ASSUME NEW it \in Item PROVE empty(it) \in Item /\ empty(it).slug = it.slug
  BY DEF Item
<1>5. rest \in Seq(Item) /\ Len(rest) = Len(todo)
  <2>1. \A i \in DOMAIN todo : todo[i] \in Item BY <1>3
  <2>2. rest \in [1..Len(todo) -> Item]
    BY <2>1, <1>3, <1>4
  <2> QED BY <2>2, <1>3
<1>6. /\ auditor'.pc = auditor.pc /\ auditor'.mem = Replaced(auditor.mem, j)
      /\ auditor'.todo = rest
      /\ auditor' \in [pc : {"idle", "look", "start"}, mem : MarkSets, todo : Seq(Item)]
  BY <1>1, <1>2, <1>5, ReplacedTyped
<1>7. AuditorTyped'
  BY <1>1, <1>6, ReplacedTyped DEF AuditorTyped, Output
<1>8. FoundIdle'
  <2>1. SUFFICES ASSUME auditor'.pc = "start"
                 PROVE  auditor'.todo # <<>> /\ autos'[Head(auditor'.todo).slug] = 0
    BY DEF FoundIdle
  <2>2. todo # <<>> /\ autos[Head(todo).slug] = 0
    BY <2>1, <1>6 DEF OpsInv, FoundIdle
  <2>3. Len(todo) > 0 /\ Head(todo) = todo[1] /\ todo[1] \in Item
    BY <2>2, <1>3
  <2>4. rest # <<>> /\ Head(rest) = empty(todo[1])
    BY <2>3, <1>3, <1>5
  <2>5. Head(rest).slug = Head(todo).slug
    BY <2>3, <2>4, <1>4
  <2> HIDE DEF rest, todo
  <2> QED BY <2>2, <2>4, <2>5, <1>6
<1>9. AuditorStartsOne'
  BY DEF OpsInv, AuditorStartsOne
<1> QED BY <1>7, <1>8, <1>9 DEF OpsInv

\* The auditor's run starts with slugs of the store and an empty hand.
LEMMA BeginKeeps == ASSUME OpsInv, AuditBegin PROVE OpsInv'
<1> DEFINE stale == late /\ marks["watcher"] # {"watcher"}
           ms == IF stale THEN [marks EXCEPT !["watcher"] = {"watcher"}] ELSE marks
           due == {s \in Found : ms[s] # Mark(s)}
<1>1. ms \in MarkSets
  <2>1. marks \in MarkSets BY DEF OpsInv, AuditorTyped
  <2>2. {"watcher"} \in SUBSET Reporters BY DEF Reporters
  <2> QED BY <2>1, <2>2 DEF MarkSets
<1>2. autos' = autos /\ marks' = marks
  BY DEF AuditBegin
<1> HIDE DEF ms
<1>3. PICK mem, todo : mem \in MarkSets /\ todo \in Seq(Item) /\ Goto("look", mem, todo)
  <2>1. CASE haltFlag
    <3> DEFINE mem == [k \in DOMAIN ms |-> IF k \in Found THEN {} ELSE ms[k]]
    <3>1. Goto("look", mem, <<>>) BY <2>1 DEF AuditBegin, ms
    <3>2. mem \in MarkSets BY <1>1 DEF MarkSets
    <3>3. <<>> \in Seq(Item) BY EmptySeq
    <3> QED BY <3>1, <3>2, <3>3
  <2>2. CASE ~haltFlag
    <3>1. PICK order \in SetToSeqs(due) :
             Goto("look", ms, [i \in DOMAIN order |->
                                     [slug |-> order[i], mark |-> Mark(order[i])]])
      BY <2>2 DEF AuditBegin, ms
    <3>2. due \subseteq OpsSlugs BY DEF Found
    <3>3. IsFiniteSet(due) BY <3>2, SlugsFinite, FS_Subset
    <3>4. Cardinality(due) \in Nat BY <3>3, FS_CardinalityType
    <3>5. order \in [1..Cardinality(due) -> due]
      BY <3>1 DEF SetToSeqs
    <3>6. \A s : Mark(s) \in SUBSET Reporters BY DEF Mark
    <3> DEFINE todo == [i \in DOMAIN order |-> [slug |-> order[i], mark |-> Mark(order[i])]]
    <3>7. todo \in [1..Cardinality(due) -> Item]
      <4> HIDE DEF due
      <4>1. DOMAIN order = 1..Cardinality(due) /\ \A i \in DOMAIN order : order[i] \in OpsSlugs
        BY <3>5, <3>2
      <4> QED BY <4>1, <3>6 DEF Item
    <3>8. todo \in Seq(Item)
      <4> HIDE DEF todo, due
      <4> QED BY <3>4, <3>7
    <3> QED BY <3>1, <3>8, <1>1
  <2> QED BY <2>1, <2>2
<1>4. auditor' = [pc |-> "look", mem |-> mem, todo |-> todo]
  BY <1>3 DEF Goto
<1> QED BY <1>2, <1>3, <1>4 DEF OpsInv, AuditorTyped, FoundIdle, AuditorStartsOne

\* A slug is only taken to be started when no process of it runs.
LEMMA LookKeeps == ASSUME OpsInv, AuditLook PROVE OpsInv'
<1> DEFINE it == Head(auditor.todo)
           mem == [auditor.mem EXCEPT ![it.slug] = it.mark]
           active == [s \in OpsSlugs |-> RunnerActive(s)]
<1>1. /\ auditor.todo # <<>> /\ autos' = autos /\ marks' = marks
      /\ IF slugState[it.slug] # "PAPER" \/ active[it.slug]
           THEN Goto("look", mem, Tail(auditor.todo))
           ELSE Goto("start", mem, auditor.todo)
  BY DEF AuditLook, AuditLookIf, world
<1>2. auditor.todo \in Seq(Item) /\ auditor.mem \in MarkSets
  BY DEF OpsInv, AuditorTyped
<1>3. it \in Item /\ Tail(auditor.todo) \in Seq(Item)
  BY <1>1, <1>2
<1>4. it.slug \in OpsSlugs /\ it.mark \in SUBSET Reporters
  BY <1>3 DEF Item
<1>5. mem \in MarkSets
  <2> HIDE DEF it
  <2> QED BY <1>2, <1>4 DEF MarkSets
<1>6. ~active[it.slug] => autos[it.slug] = 0
  <2>1. autos[it.slug] \in Nat BY <1>4 DEF OpsInv, AuditorTyped
  <2>2. RunnerActive(it.slug) \/ ~Running(it.slug) BY <1>4 DEF RunnerActive
  <2>3. ~active[it.slug] => ~Running(it.slug) BY <2>2, <1>4
  <2> QED BY <2>1, <2>3 DEF Running
<1> HIDE DEF mem, active, it
<1>7. \/ auditor' = [pc |-> "look", mem |-> mem, todo |-> Tail(auditor.todo)]
      \/ /\ auditor' = [pc |-> "start", mem |-> mem, todo |-> auditor.todo]
         /\ autos[it.slug] = 0
  BY <1>1, <1>6 DEF Goto
<1>8. AuditorTyped'
  BY <1>1, <1>2, <1>3, <1>5, <1>7, SMTT(30) DEF OpsInv, AuditorTyped
<1>9. FoundIdle'
  BY <1>1, <1>7 DEF FoundIdle, it
<1>10. AuditorStartsOne'
  BY <1>1 DEF OpsInv, AuditorStartsOne
<1> QED BY <1>8, <1>9, <1>10 DEF OpsInv

\* A start adds one process where there was none.
LEMMA StartKeeps == ASSUME OpsInv, AuditStart PROVE OpsInv'
<1> DEFINE s == Head(auditor.todo).slug
<1>1. auditor.todo \in Seq(Item) /\ auditor.todo # <<>> /\ autos[s] = 0
  BY DEF OpsInv, AuditorTyped, FoundIdle, AuditStart
<1>2. s \in OpsSlugs /\ Tail(auditor.todo) \in Seq(Item)
  <2>1. Head(auditor.todo) \in Item BY <1>1
  <2> QED BY <1>1, <2>1 DEF Item
<1>3. /\ marks' = marks
      /\ autos' = [autos EXCEPT ![s] = @ + 1] \/ autos' = autos
      /\ auditor' = [pc |-> "look", mem |-> auditor.mem, todo |-> Tail(auditor.todo)]
  BY DEF AuditStart, Goto
<1> HIDE DEF s
<1>4. AuditorTyped'
  BY <1>2, <1>3 DEF OpsInv, AuditorTyped, AuditStart
<1>5. AuditorStartsOne'
  BY <1>1, <1>2, <1>3 DEF OpsInv, AuditorTyped, AuditorStartsOne
<1>6. FoundIdle' BY <1>3 DEF FoundIdle
<1> QED BY <1>4, <1>5, <1>6 DEF OpsInv

\* A run that is over, or that died, has nothing left to look at.
LEMMA RestTyped ==
  AtRest \in [pc : {"idle", "look", "start"}, mem : MarkSets, todo : Seq(Item)]
<1>1. NoMarks \in MarkSets BY DEF NoMarks, MarkSets
<1>2. <<>> \in Seq(Item) BY EmptySeq
<1> QED BY <1>1, <1>2 DEF AtRest

\* OpsInv holds before paper trading.
LEMMA OpsStarts == OpsInit => OpsInv
<1> SUFFICES ASSUME OpsInit PROVE OpsInv
  OBVIOUS
<1>1. autos = [s \in OpsSlugs |-> 0] /\ marks = NoMarks /\ auditor = AtRest
  BY DEF OpsInit
<1>2. AuditorTyped
  BY <1>1, RestTyped DEF AuditorTyped, AtRest
<1> QED BY <1>1, <1>2 DEF OpsInv, FoundIdle, AuditorStartsOne, AtRest

\* Every step keeps OpsInv.
LEMMA OpsStep == OpsInv /\ [OpsNext]_opsVars => OpsInv'
<1> SUFFICES ASSUME OpsInv, [OpsNext]_opsVars PROVE OpsInv'
  OBVIOUS
<1>0. ASSUME autos' = autos, marks' = marks, auditor' = auditor PROVE OpsInv'
  BY <1>0 DEF OpsInv, AuditorTyped, FoundIdle, AuditorStartsOne
<1>1. CASE \E s \in OpsSlugs : Approve(s) \/ StartByHand(s)
  BY <1>0, <1>1 DEF Approve, StartByHand
<1>2. ASSUME NEW s \in OpsSlugs, RunnerDies(s) PROVE OpsInv'
  <2>1. /\ marks' = marks /\ auditor' = auditor
        /\ autos' = autos \/ (autos[s] > 0 /\ autos' = [autos EXCEPT ![s] = @ - 1])
    BY <1>2 DEF RunnerDies
  <2>2. autos \in [OpsSlugs -> Nat] BY DEF OpsInv, AuditorTyped
  <2>3. autos' \in [OpsSlugs -> Nat] /\ \A t \in OpsSlugs : autos'[t] <= autos[t]
    BY <2>1, <2>2
  <2>4. AuditorTyped' BY <2>1, <2>3 DEF OpsInv, AuditorTyped
  <2>5. AuditorStartsOne' BY <2>2, <2>3 DEF OpsInv, AuditorStartsOne
  <2>6. FoundIdle'
    <3>1. SUFFICES ASSUME auditor.pc = "start"
                   PROVE  auditor.todo # <<>> /\ autos'[Head(auditor.todo).slug] = 0
      BY <2>1 DEF FoundIdle
    <3>2. /\ auditor.todo # <<>> /\ autos[Head(auditor.todo).slug] = 0
          /\ auditor.todo \in Seq(Item)
      BY <3>1 DEF OpsInv, FoundIdle, AuditorTyped
    <3>3. Head(auditor.todo).slug \in OpsSlugs
      <4>1. Head(auditor.todo) \in Item BY <3>2
      <4> QED BY <4>1 DEF Item
    <3> QED BY <3>2, <3>3, <2>2, <2>3
  <2> QED BY <2>4, <2>5, <2>6 DEF OpsInv
<1>3. CASE SetFlag \/ ClearFlag \/ GoesLate
  BY <1>0, <1>3 DEF SetFlag, ClearFlag, GoesLate, world
<1>4. CASE \E logs, bad \in SUBSET OpsSlugs : SummaryCron(logs, bad)
  BY <1>4, OutputKeeps DEF SummaryCron, world
<1>5. CASE \E fails \in BOOLEAN : WatcherCron(fails)
  BY <1>5, OutputKeeps DEF WatcherCron, WatcherRuns, world
<1>6. CASE AuditBegin BY <1>6, BeginKeeps
<1>7. CASE AuditLook BY <1>7, LookKeeps
<1>8. CASE AuditStart BY <1>8, StartKeeps
<1>9. CASE AuditSave
  <2>1. autos' = autos /\ marks' = auditor.mem /\ auditor' = AtRest
    BY <1>9 DEF AuditSave, world
  <2>2. AuditorTyped' BY <2>1, RestTyped DEF OpsInv, AuditorTyped
  <2> QED BY <2>1, <2>2 DEF OpsInv, FoundIdle, AuditorStartsOne, AtRest
<1>10. CASE AuditDies
  <2>1. autos' = autos /\ marks' = marks /\ auditor' = AtRest
    BY <1>10 DEF AuditDies, world
  <2>2. AuditorTyped' BY <2>1, RestTyped DEF OpsInv, AuditorTyped
  <2> QED BY <2>1, <2>2 DEF OpsInv, FoundIdle, AuditorStartsOne, AtRest
<1>11. CASE UNCHANGED opsVars
  BY <1>0, <1>11 DEF opsVars
<1> QED BY <1>1, <1>2, <1>3, <1>4, <1>5, <1>6, <1>7, <1>8, <1>9, <1>10, <1>11
        DEF OpsNext, Audit

\* However often the auditor dies before its marks are on disk, it never has
\* two runners of one slug that it started itself.
THEOREM NeverTwoStarted == OpsSpec => []AuditorStartsOne
<1>1. OpsInv => AuditorStartsOne BY DEF OpsInv
<1> QED BY <1>1, OpsStarts, OpsStep, PTL DEF OpsSpec
=============================================================================
