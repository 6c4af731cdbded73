------------------------------- MODULE PaperOps -------------------------------
(* The hourly jobs that keep paper trading going: the summary and watcher     *)
(* crons of hermes_remaining_crons.py, each leaving one output that may name  *)
(* a slug whose runner is missing, and hermes_cron_auditor.py, which reads    *)
(* the two latest outputs and starts what is missing.  The auditor remembers  *)
(* in a file which outputs it has acted on, and writes that file only at its  *)
(* end.  A mark is the set of outputs it was made from; when a job leaves a   *)
(* new output the marks made from the old one can match nothing any more.     *)
EXTENDS Naturals, Sequences, FiniteSets, SequencesExt

CONSTANTS
  PaperSlugs, \* sequence of slugs, by created_at
  SlugPrefixes, \* pairs <<s, t>>: slug s is a proper prefix of slug t
  MaxFaults,  \* bound: failing scripts, dead auditors, starts that fail, late outputs
  MaxFlags,   \* bound: how often the kill flag is set
  NoSlug

ASSUME PaperOpsAssumption == /\ PaperSlugs \in Seq(ToSet(PaperSlugs))
                             /\ MaxFaults \in Nat /\ MaxFlags \in Nat
                             /\ NoSlug \notin ToSet(PaperSlugs)

VARIABLES
  slugState, \* slugState[s]: the slug's lifecycle state
  hand,      \* hand[s]: it has a live runner an operator started (one stands for all)
  autos,     \* autos[s]: live runners the auditor started
  haltFlag,  \* data/.kill_switch exists
  named,     \* named[j]: the slug the latest output of job j says is missing
  late,      \* the watcher's latest output is older than 95 minutes
  marks,     \* marks on disk: data/cron_auditor_state.json
  auditor,   \* the auditor's run: pc, marks in memory, slugs still to look at
  faults, flags

opsVars == <<slugState, hand, autos, haltFlag, named, late, marks, auditor,
             faults, flags>>
world == <<slugState, hand, autos, haltFlag>>

OpsSlugs == ToSet(PaperSlugs)
Reporters == {"summary", "watcher"}
NoMarks == [k \in OpsSlugs \union {"watcher"} |-> {}]
AtRest == [pc |-> "idle", mem |-> NoMarks, todo |-> <<>>]

OpsInit ==
  /\ slugState = [s \in OpsSlugs |-> "PAPER_READY"]
  /\ hand = [s \in OpsSlugs |-> FALSE] /\ autos = [s \in OpsSlugs |-> 0]
  /\ haltFlag = FALSE
  /\ named = [j \in Reporters |-> NoSlug] /\ late = FALSE
  /\ marks = NoMarks /\ auditor = AtRest
  /\ faults = 0 /\ flags = 0

Fault == faults < MaxFaults /\ faults' = faults + 1

\* _slugs_in_state, _paper_slugs
Paper == SelectSeq(PaperSlugs, LAMBDA s : slugState[s] = "PAPER")
Running(s) == hand[s] \/ autos[s] > 0
\* _runner_active: pgrep finds the command line of any slug that s begins
RunnerActive(s) == \E t \in OpsSlugs : (t = s \/ <<s, t>> \in SlugPrefixes) /\ Running(t)

\* An operator promotes a slug, starts its runner, sets or clears the flag.
Approve(s) == /\ slugState[s] = "PAPER_READY"
              /\ slugState' = [slugState EXCEPT ![s] = "PAPER"]
              /\ UNCHANGED <<hand, autos, haltFlag, named, late, marks,
                             auditor, faults, flags>>
StartByHand(s) == /\ slugState[s] \in {"PAPER_READY", "PAPER"} /\ ~hand[s]
                  /\ hand' = [hand EXCEPT ![s] = TRUE]
                  /\ UNCHANGED <<slugState, autos, haltFlag, named, late, marks,
                                 auditor, faults, flags>>
SetFlag == /\ ~haltFlag /\ flags < MaxFlags
           /\ haltFlag' = TRUE /\ flags' = flags + 1
           /\ UNCHANGED <<slugState, hand, autos, named, late, marks,
                          auditor, faults>>
ClearFlag == /\ haltFlag /\ haltFlag' = FALSE
             /\ UNCHANGED <<slugState, hand, autos, named, late, marks,
                            auditor, faults, flags>>

\* A runner ends, as often as it will: it crashes, or its 24 hours are over.
RunnerDies(s) == /\ Running(s)
          /\ \/ /\ hand[s] /\ hand' = [hand EXCEPT ![s] = FALSE]
                /\ UNCHANGED autos
             \/ /\ autos[s] > 0 /\ autos' = [autos EXCEPT ![s] = @ - 1]
                /\ UNCHANGED hand
          /\ UNCHANGED <<slugState, haltFlag, named, late, marks, auditor, faults, flags>>

\* A job's run leaves a new output that names s, or no slug at all; a mark
\* made from the output before matches nothing from now on.
ReplacedNever(ms, j) == ms
Replaced(ms, j) == [k \in DOMAIN ms |-> IF j \in ms[k] THEN {} ELSE ms[k]]
Output(j, s) ==
  /\ named' = [named EXCEPT ![j] = s]
  /\ late' = (late /\ j # "watcher")
  /\ marks' = Replaced(marks, j)
  /\ auditor' = [auditor EXCEPT
       !.mem = Replaced(@, j),
       !.todo = [i \in DOMAIN @ |->
                   IF j \in @[i].mark THEN [@[i] EXCEPT !.mark = {}] ELSE @[i]]]

\* No output of the watcher for 95 minutes.
GoesLate == /\ ~late /\ Fault /\ late' = TRUE
            /\ UNCHANGED <<world, named, marks, auditor, flags>>

\* cron_paper_summary: `logs` are the slugs with a log of today's date; a slug
\* without one is passed over while its runner is active.  `bad` are those
\* whose paper_summary.py fails.  The auditor's pattern finds a slug only in a
\* line that reports a single failure.
SummaryCron(logs, bad) ==
  LET missing == SelectSeq(Paper, LAMBDA s : s \notin logs /\ ~RunnerActive(s))
  IN /\ bad \subseteq ToSet(Paper) \intersect logs
     /\ IF bad = {} THEN UNCHANGED faults ELSE Fault
     /\ Output("summary", IF bad = {} /\ Len(missing) = 1 THEN missing[1]
                          ELSE NoSlug)
     /\ UNCHANGED <<world, flags>>

\* paper_watcher.py: under the flag every PAPER slug is halted, otherwise
\* those past a limit are halted (or retired, which is the same to the jobs
\* here; the limits are in PaperBook).
WatcherPass ==
  IF haltFlag THEN slugState' = [s \in OpsSlugs |-> IF slugState[s] = "PAPER" THEN "HALTED"
                                         ELSE slugState[s]]
  ELSE \E hit \in SUBSET ToSet(Paper) :
         slugState' = [s \in OpsSlugs |-> IF s \in hit THEN "HALTED" ELSE slugState[s]]

\* cron_paper_watcher: the first slug without a runner ends the run.
WatcherRuns(fails) ==
  /\ IF fails THEN Fault /\ UNCHANGED slugState ELSE WatcherPass /\ UNCHANGED faults
  /\ Output("watcher", NoSlug)
  /\ UNCHANGED <<hand, autos, haltFlag, flags>>
Missing == SelectSeq(Paper, LAMBDA s : ~RunnerActive(s))
WatcherCron(fails) ==
  IF Missing # <<>>
  THEN /\ Output("watcher", Missing[1]) /\ UNCHANGED <<world, faults, flags>>
  ELSE WatcherRuns(fails)

-------------------------------------------------------------------------------
(* hermes_cron_auditor.py                                                     *)

Goto(pc, mem, todo) == auditor' = [pc |-> pc, mem |-> mem, todo |-> todo]
Mark(s) == {j \in Reporters : named[j] = s}
Found == {s \in OpsSlugs : Mark(s) # {}}

\* _load_state and the latest outputs; an overdue watcher is run at once (the
\* rerun of an overdue summary changes nothing kept here); then, without the
\* flag, _runner_missing_by_slug and _mark_action: a slug named by the very
\* outputs it was marked with is passed over.  Under the flag the slugs get a
\* mark that no run without it can match.
AuditBegin ==
  /\ auditor.pc = "idle"
  /\ LET stale == late /\ marks["watcher"] # {"watcher"}
         ms == IF stale THEN [marks EXCEPT !["watcher"] = {"watcher"}] ELSE marks
     IN /\ IF stale THEN WatcherPass ELSE UNCHANGED slugState
        /\ IF haltFlag
           THEN Goto("look", [k \in DOMAIN ms |-> IF k \in Found THEN {} ELSE ms[k]],
                     <<>>)
           ELSE \E order \in SetToSeqs({s \in Found : ms[s] # Mark(s)}) :
                  Goto("look", ms, [i \in DOMAIN order |->
                                     [slug |-> order[i], mark |-> Mark(order[i])]])
  /\ UNCHANGED <<hand, autos, haltFlag, named, late, marks, faults, flags>>

\* One missing slug: marked, and started if it is still PAPER and still
\* without a runner.
AuditLookIf(active) ==
  /\ auditor.pc = "look" /\ auditor.todo # <<>>
  /\ LET it == Head(auditor.todo)
         mem == [auditor.mem EXCEPT ![it.slug] = it.mark]
     IN IF slugState[it.slug] # "PAPER" \/ active[it.slug]
        THEN Goto("look", mem, Tail(auditor.todo))
        ELSE Goto("start", mem, auditor.todo)
  /\ UNCHANGED <<world, named, late, marks, faults, flags>>
AuditLookAtStage == AuditLookIf([s \in OpsSlugs |-> FALSE])
AuditLook == AuditLookIf([s \in OpsSlugs |-> RunnerActive(s)])

\* _start_runner: the new process may already have exited when it is polled.
AuditStart ==
  /\ auditor.pc = "start"
  /\ LET s == Head(auditor.todo).slug
     IN \/ autos' = [autos EXCEPT ![s] = @ + 1] /\ UNCHANGED faults
        \/ Fault /\ UNCHANGED autos
  /\ Goto("look", auditor.mem, Tail(auditor.todo))
  /\ UNCHANGED <<slugState, hand, haltFlag, named, late, marks, flags>>

\* _save_state, at the end of the run
AuditSave ==
  /\ auditor.pc = "look" /\ auditor.todo = <<>>
  /\ marks' = auditor.mem /\ auditor' = AtRest
  /\ UNCHANGED <<world, named, late, faults, flags>>

\* The auditor dies: what it marked since it loaded is forgotten.
AuditDies == /\ auditor.pc # "idle" /\ Fault /\ auditor' = AtRest
             /\ UNCHANGED <<world, named, late, marks, flags>>

Audit == AuditBegin \/ AuditLook \/ AuditStart \/ AuditSave

OpsNext ==
  \/ \E s \in OpsSlugs : Approve(s) \/ StartByHand(s) \/ RunnerDies(s)
  \/ SetFlag \/ ClearFlag \/ GoesLate
  \/ \E logs, bad \in SUBSET OpsSlugs : SummaryCron(logs, bad)
  \/ \E fails \in BOOLEAN : WatcherCron(fails)
  \/ Audit \/ AuditDies

\* The three jobs are scheduled for ever.
OpsFair == /\ WF_opsVars(\E logs \in SUBSET OpsSlugs : SummaryCron(logs, {})) /\ WF_opsVars(WatcherCron(FALSE))
           /\ WF_opsVars(Audit)
OpsSpec == OpsInit /\ [][OpsNext]_opsVars
OpsFairSpec == OpsSpec /\ OpsFair

-------------------------------------------------------------------------------
OpsTypeOK ==
  /\ slugState \in [OpsSlugs -> {"PAPER_READY", "PAPER", "HALTED"}]
  /\ hand \in [OpsSlugs -> BOOLEAN] /\ autos \in [OpsSlugs -> Nat]
  /\ late \in BOOLEAN
  /\ named \in [Reporters -> OpsSlugs \union {NoSlug}]
  /\ auditor.pc \in {"idle", "look", "start"}

\* However often it dies before its marks are on disk, and however often the
\* same slug is named again, the auditor never runs two runners of one slug
\* that it started itself (two would double the slug's paper orders).
AuditorStartsOne == \A s \in OpsSlugs : autos[s] <= 1

\* The oldest PAPER slug the jobs find without a runner gets one, unless it
\* leaves PAPER or the kill flag is set: no mark, no other slug's output and no
\* dead auditor hides it for ever.  Two things do hide a slug: the runner of a
\* longer namesake, which pgrep takes for its own, and an older slug that is
\* without a runner again and again, whom alone the watcher names.
MissingComesBack ==
  \A s \in OpsSlugs : ~<>[](~haltFlag /\ Missing # <<>> /\ Missing[1] = s)
===============================================================================
