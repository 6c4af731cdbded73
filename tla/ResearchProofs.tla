----------------------------- MODULE ResearchProofs ----------------------------
(* What is proved of the components that research strategies and keep the     *)
(* paper book, for any number of points, folds, signals, sources and scripts. *)
(*                                                                            *)
(* CronCommit: a file a job wrote is committed or still dirty, so a job whose *)
(* push succeeded has left none behind.                                       *)
(*                                                                            *)
(* Optimize: a configuration is ready only if it has the trades of every      *)
(* fold, and one that did not run in a fold has none there.                   *)
(*                                                                            *)
(* PaperBook: the signals of a log that are open are of one side, so a signal *)
(* closes the oldest or none; with one size the profit of the pairs and the   *)
(* cash of the open signals, added up one after the other, are the cash of    *)
(* the log.                                                                   *)
(*                                                                            *)
(* Intake: the invariant of the files (a ready row has a spec; a script about *)
(* to set a name knows the folder the row has, and one about to make a row    *)
(* ready has seen its filled spec, unless the row is spoilt) and that of the  *)
(* registrations (a source registered once has one script at it, no           *)
(* hypothesis before add_hypothesis, and one after it) need each other        *)
(* nowhere.  A step that touches neither is seen through a frame.             *)
(*                                                                            *)
(* Research: a run of the whole is a run of each component, so it has the     *)
(* types and keeps the safety properties of all eight, those of DataProofs    *)
(* included.                                                                  *)
EXTENDS Research, DataProofs

-------------------------------------------------------------------------------
(* CronCommit *)

Paths == Captures \union Inbox \union Hypotheses \union Outputs \union Reports
CronStates == [pc : {"idle", "works", "adds", "diffs", "commits", "pushes"},
               before : SUBSET Paths, seen : SUBSET Paths,
               said : {"none", "ok", "failed", "undiffed"}]

\* How far the files a job found have come, by the job's next step.
FoundAreWritten(c) ==
  cron[c].pc \in {"adds", "diffs", "commits", "pushes"}
    => cron[c].seen \subseteq Under(c) \intersect disk
FoundAreStaged(c) ==
  cron[c].pc \in {"diffs", "commits", "pushes"} => cron[c].seen \subseteq index
FoundAreCommitted(c) == cron[c].pc = "pushes" => cron[c].seen \subseteq head
SilentAtWork(c) == cron[c].pc # "idle" => cron[c].said = "none"

CcInv ==
  /\ cron \in [Crons -> CronStates]
  /\ head \subseteq index /\ index \subseteq disk
  /\ \A c \in Crons : /\ FoundAreWritten(c) /\ FoundAreStaged(c)
                      /\ FoundAreCommitted(c) /\ SilentAtWork(c)

\* What SuccessIsCommitted says of one step and one job.
Kept(c) == cron[c].pc \notin {"idle", "works"} /\ cron'[c].said = "ok"
             => cron[c].seen \subseteq head'

\* Every path a job watches is a file of the model.
LEMMA UnderFiles == ASSUME NEW c \in Crons PROVE Under(c) \subseteq Paths
<1>1. CASE c = "capture" BY <1>1 DEF Under, Paths
<1>2. CASE c = "discover" BY <1>2 DEF Under, Paths
<1>3. CASE c = "optimize" BY <1>3 DEF Under, Paths
<1>4. CASE c = "summary" BY <1>4 DEF Under, Paths
<1> QED BY <1>1, <1>2, <1>3, <1>4 DEF Crons

-------------------------------------------------------------------------------
\* Nothing is written before the first job.
LEMMA CcStarts == CcInit => CcInv
<1> SUFFICES ASSUME CcInit PROVE CcInv
  OBVIOUS
<1>1. Idling \in CronStates BY DEF Idling, CronStates
<1>2. \A c \in Crons : cron[c].pc = "idle"
  BY DEF CcInit, Idling
<1> QED BY <1>1, <1>2 DEF CcInit, CcInv, FoundAreWritten, FoundAreStaged,
                         FoundAreCommitted, SilentAtWork

\* A job that ends, with whatever result, holds no claim any more; another
\* job's claims stand while the index and the commits grow.
LEMMA SaysKeeps ==
  ASSUME CcInv, NEW c \in Crons, NEW r \in {"ok", "failed", "undiffed"}, Says(c, r),
         disk \subseteq disk', index \subseteq index', head \subseteq head',
         head' \subseteq index', index' \subseteq disk',
         r = "ok" => cron[c].pc = "works" \/ cron[c].seen \subseteq head'
  PROVE  CcInv' /\ \A d \in Crons : Kept(d)
<1>1. [Idling EXCEPT !.said = r] \in CronStates
  BY DEF Idling, CronStates
<1>2. cron' = [cron EXCEPT ![c] = [Idling EXCEPT !.said = r]]
  BY DEF Says
<1>3. cron' \in [Crons -> CronStates]
  BY <1>1, <1>2 DEF CcInv
<1>4. cron'[c].pc = "idle" /\ cron'[c].said = r
  BY <1>2 DEF CcInv, Idling
<1>5. \A d \in Crons \ {c} : cron'[d] = cron[d]
  BY <1>2 DEF CcInv
<1>6. \A d \in Crons : /\ FoundAreWritten(d)' /\ FoundAreStaged(d)'
                       /\ FoundAreCommitted(d)' /\ SilentAtWork(d)'
  BY <1>4, <1>5 DEF CcInv, FoundAreWritten, FoundAreStaged, FoundAreCommitted, SilentAtWork
<1>7. \A d \in Crons : Kept(d)
  BY <1>4, <1>5 DEF CcInv, SilentAtWork, Kept
<1> QED BY <1>3, <1>6, <1>7 DEF CcInv

\* A job that goes on to its next step brings the claim of that step.
LEMMA GoesKeeps ==
  ASSUME CcInv, NEW c \in Crons, NEW to \in CronStates,
         cron' = [cron EXCEPT ![c] = to], to.said = "none",
         disk \subseteq disk', index \subseteq index', head \subseteq head',
         head' \subseteq index', index' \subseteq disk',
         to.pc \in {"adds", "diffs", "commits", "pushes"}
           => to.seen \subseteq Under(c) \intersect disk',
         to.pc \in {"diffs", "commits", "pushes"} => to.seen \subseteq index',
         to.pc = "pushes" => to.seen \subseteq head'
  PROVE  CcInv' /\ \A d \in Crons : Kept(d)
<1>1. cron' \in [Crons -> CronStates] BY DEF CcInv
<1>2. cron'[c] = to BY DEF CcInv
<1>3. \A d \in Crons \ {c} : cron'[d] = cron[d] BY DEF CcInv
<1>4. \A d \in Crons : /\ FoundAreWritten(d)' /\ FoundAreStaged(d)'
                       /\ FoundAreCommitted(d)' /\ SilentAtWork(d)'
  BY <1>2, <1>3 DEF CcInv, FoundAreWritten, FoundAreStaged, FoundAreCommitted, SilentAtWork
<1>5. \A d \in Crons : Kept(d)
  BY <1>2, <1>3 DEF CcInv, SilentAtWork, Kept
<1> QED BY <1>1, <1>4, <1>5 DEF CcInv

-------------------------------------------------------------------------------
\* The work: the snapshot before it, its files, its errors, the new ones found.
LEMMA WorkKeeps ==
  ASSUME CcInv, NEW c \in Crons,
         \/ CronBegins(c) \/ CronFails(c) \/ CronCollects(c)
         \/ \E f \in Under(c) \ disk : Writes(c, f)
  PROVE  CcInv' /\ \A d \in Crons : Kept(d)
<1> USE UnderFiles
<1>0. cron[c] \in CronStates /\ head \subseteq index /\ index \subseteq disk
  BY DEF CcInv
<1>1. CASE CronBegins(c)
  <2> DEFINE to == [cron[c] EXCEPT !.pc = "works", !.said = "none", !.before = CommitPaths(c)]
  <2>1. to \in CronStates /\ to.said = "none" /\ to.pc = "works"
    BY <1>0 DEF CronStates, CommitPaths
  <2>2. cron' = [cron EXCEPT ![c] = to] /\ UNCHANGED <<disk, index, head>>
    BY <1>1 DEF CronBegins, CcInv, CronStates
  <2> QED BY <1>0, <2>1, <2>2, GoesKeeps
<1>2. CASE CronFails(c)
  BY <1>0, <1>2, SaysKeeps DEF CronFails
<1>3. CASE CronCollects(c)
  <2>1. cron[c].pc = "works" /\ UNCHANGED <<disk, index, head>>
    BY <1>3 DEF CronCollects
  <2>2. CASE CommitPaths(c) \subseteq cron[c].before
    <3>1. Says(c, "ok") BY <1>3, <2>2 DEF CronCollects
    <3> QED BY <1>0, <2>1, <3>1, SaysKeeps
  <2>3. CASE ~(CommitPaths(c) \subseteq cron[c].before)
    <3> DEFINE to == [cron[c] EXCEPT !.pc = "adds", !.seen = CommitPaths(c)]
    <3>1. /\ to \in CronStates /\ to.said = "none" /\ to.pc = "adds"
          /\ to.seen = Under(c) \intersect disk
      BY <1>0, <2>1 DEF CronStates, CommitPaths, CcInv, SilentAtWork
    <3>2. cron' = [cron EXCEPT ![c] = to]
      BY <1>3, <2>3 DEF CronCollects, CcInv, CronStates
    <3> QED BY <1>0, <2>1, <3>1, <3>2, GoesKeeps
  <2> QED BY <2>2, <2>3
<1>4. ASSUME NEW f \in Under(c) \ disk, Writes(c, f)
      PROVE  CcInv' /\ \A d \in Crons : Kept(d)
  <2>1. disk' = disk \union {f} /\ UNCHANGED <<index, head, cron>>
    BY <1>4 DEF Writes
  <2> QED BY <1>0, <2>1 DEF CcInv, FoundAreWritten, FoundAreStaged, FoundAreCommitted,
                            SilentAtWork, Kept
<1> QED BY <1>1, <1>2, <1>3, <1>4

\* git add: what was found is staged, or the job says it failed.
LEMMA GitAddKeeps ==
  ASSUME CcInv, NEW c \in Crons, GitAdd(c) PROVE CcInv' /\ \A d \in Crons : Kept(d)
<1>0. /\ cron[c] \in CronStates /\ head \subseteq index /\ index \subseteq disk
      /\ cron[c].pc = "adds" /\ cron[c].seen \subseteq Under(c) \intersect disk
      /\ cron[c].said = "none"
      /\ disk' = disk /\ head' = head /\ index' = index \union Staged(c)
  BY DEF GitAdd, CcInv, FoundAreWritten, SilentAtWork
<1>1. index \subseteq index' /\ index' \subseteq disk' /\ head' \subseteq index'
  BY <1>0 DEF Staged, CommitPaths
<1>2. CASE Under(c) \intersect Ignored # {}
  <2>1. Says(c, "failed") BY <1>2 DEF GitAdd
  <2> QED BY <1>0, <1>1, <2>1, SaysKeeps
<1>3. CASE Under(c) \intersect Ignored = {}
  <2> DEFINE to == [cron[c] EXCEPT !.pc = "diffs"]
  <2>1. /\ to \in CronStates /\ to.said = "none" /\ to.pc = "diffs"
        /\ to.seen = cron[c].seen
    BY <1>0 DEF CronStates
  <2>2. cron' = [cron EXCEPT ![c] = to]
    BY <1>3 DEF GitAdd, CronGoes, CcInv, CronStates
  <2>3. to.seen \subseteq index'
    BY <1>0, <1>3, <2>1 DEF Staged, CommitPaths
  <2> QED BY <1>0, <1>1, <2>1, <2>2, <2>3, GoesKeeps
<1> QED BY <1>2, <1>3

\* A locked index, or a diff that fails: the job ends.
LEMMA LockedKeeps ==
  ASSUME CcInv, NEW c \in Crons, GitLocked(c) \/ GitDiffFails(c)
  PROVE  CcInv' /\ \A d \in Crons : Kept(d)
<1>1. /\ disk' = disk /\ index' = index /\ head' = head
      /\ head \subseteq index /\ index \subseteq disk
  BY DEF GitLocked, GitDiffFails, CcInv
<1>2. CASE Says(c, "failed") BY <1>1, <1>2, SaysKeeps
<1>3. CASE Says(c, "undiffed") BY <1>1, <1>3, SaysKeeps
<1> QED BY <1>2, <1>3 DEF GitLocked, GitDiffFails

\* git diff: nothing staged under the paths means all that was found is there.
LEMMA GitDiffKeeps ==
  ASSUME CcInv, NEW c \in Crons, GitDiff(c) PROVE CcInv' /\ \A d \in Crons : Kept(d)
<1>0. /\ cron[c] \in CronStates /\ head \subseteq index /\ index \subseteq disk
      /\ cron[c].pc = "diffs" /\ cron[c].seen \subseteq Under(c) \intersect disk
      /\ cron[c].seen \subseteq index /\ cron[c].said = "none"
      /\ disk' = disk /\ head' = head /\ index' = index
  BY DEF GitDiff, CcInv, FoundAreWritten, FoundAreStaged, SilentAtWork
<1>1. CASE index \intersect Under(c) \subseteq head
  <2>1. Says(c, "ok") BY <1>1 DEF GitDiff
  <2>2. cron[c].seen \subseteq head' BY <1>0, <1>1
  <2> QED BY <1>0, <2>1, <2>2, SaysKeeps
<1>2. CASE ~(index \intersect Under(c) \subseteq head)
  <2> DEFINE to == [cron[c] EXCEPT !.pc = "commits"]
  <2>1. /\ to \in CronStates /\ to.said = "none" /\ to.pc = "commits"
        /\ to.seen = cron[c].seen
    BY <1>0 DEF CronStates
  <2>2. cron' = [cron EXCEPT ![c] = to]
    BY <1>2 DEF GitDiff, CronGoes, CcInv, CronStates
  <2> QED BY <1>0, <2>1, <2>2, GoesKeeps
<1> QED BY <1>1, <1>2

\* git commit takes the index, with what was found in it.
LEMMA GitCommitKeeps ==
  ASSUME CcInv, NEW c \in Crons, GitCommit(c) PROVE CcInv' /\ \A d \in Crons : Kept(d)
<1>0. /\ cron[c] \in CronStates /\ head \subseteq index /\ index \subseteq disk
      /\ cron[c].pc = "commits" /\ cron[c].seen \subseteq Under(c) \intersect disk
      /\ cron[c].seen \subseteq index /\ cron[c].said = "none"
      /\ disk' = disk /\ head' = index /\ index' = index
  BY DEF GitCommit, CcInv, FoundAreWritten, FoundAreStaged, SilentAtWork
<1>1. CASE index = head
  <2>1. Says(c, "failed") BY <1>1 DEF GitCommit
  <2> QED BY <1>0, <2>1, SaysKeeps
<1>2. CASE index # head
  <2> DEFINE to == [cron[c] EXCEPT !.pc = "pushes"]
  <2>1. /\ to \in CronStates /\ to.said = "none" /\ to.pc = "pushes"
        /\ to.seen = cron[c].seen
    BY <1>0 DEF CronStates
  <2>2. cron' = [cron EXCEPT ![c] = to]
    BY <1>2 DEF GitCommit, CronGoes, CcInv, CronStates
  <2> QED BY <1>0, <2>1, <2>2, GoesKeeps
<1> QED BY <1>1, <1>2

\* git push: what was found is committed already, however the push ends.
LEMMA GitPushKeeps ==
  ASSUME CcInv, NEW c \in Crons, GitPush(c) PROVE CcInv' /\ \A d \in Crons : Kept(d)
<1>1. /\ cron[c].seen \subseteq head /\ head \subseteq index /\ index \subseteq disk
      /\ disk' = disk /\ index' = index /\ head' = head
  BY DEF GitPush, CcInv, FoundAreCommitted
<1>2. PICK r \in {"ok", "failed"} : Says(c, r)
  BY DEF GitPush
<1> QED BY <1>1, <1>2, SaysKeeps

-------------------------------------------------------------------------------
\* Every step of every job keeps the invariant and the claim about success.
LEMMA CronKeeps ==
  ASSUME CcInv, NEW c \in Crons, Cron(c) PROVE CcInv' /\ \A d \in Crons : Kept(d)
BY WorkKeeps, GitAddKeeps, LockedKeeps, GitDiffKeeps, GitCommitKeeps, GitPushKeeps DEF Cron

LEMMA CcSteps ==
  CcInv /\ [CcNext]_ccVars => CcInv' /\ [\A c \in Crons : Kept(c)]_ccVars
<1> SUFFICES ASSUME CcInv, [CcNext]_ccVars
             PROVE  CcInv' /\ [\A c \in Crons : Kept(c)]_ccVars
  OBVIOUS
<1>1. CASE CcNext
  <2>1. PICK c \in Crons : Cron(c)
    BY <1>1 DEF CcNext, Crons, cron_research_capture, cron_research_discover,
                cron_research_optimize_queue, cron_paper_summary
  <2> QED BY <2>1, CronKeeps
<1>2. CASE UNCHANGED ccVars
  BY <1>2 DEF ccVars, CcInv, FoundAreWritten, FoundAreStaged, FoundAreCommitted,
              SilentAtWork
<1> QED BY <1>1, <1>2

\* The jobs' state keeps its shape: what is committed was staged, what is staged
\* was written.
THEOREM CcTypeCorrect == CcSpec => []CcTypeOK
<1>1. CcInv => CcTypeOK BY DEF CcInv, CcTypeOK, CronStates
<1>2. CcInv /\ [CcNext]_ccVars => CcInv' BY CcSteps
<1> QED BY <1>1, <1>2, CcStarts, PTL DEF CcSpec

\* For any files, whatever the other jobs stage and commit meanwhile: a job that
\* found new files and reports success has them all in the repository.
THEOREM SuccessMeansCommitted == CcSpec => SuccessIsCommitted
<1>1. CcInv /\ [CcNext]_ccVars
        => [\A c \in Crons :
              cron[c].pc \notin {"idle", "works"} /\ cron'[c].said = "ok"
                => cron[c].seen \subseteq head']_ccVars
  BY CcSteps DEF Kept
<1>2. CcInv /\ [CcNext]_ccVars => CcInv' BY CcSteps
<1> QED BY <1>1, <1>2, CcStarts, PTL DEF CcSpec, SuccessIsCommitted

-------------------------------------------------------------------------------
(* Optimize *)

RanTyped == \A j \in DOMAIN ran : ran[j] \in Outcomes

\* The folds are planned once, from the days of data there are.
Planned ==
  /\ tests # <<>> => phase \in {"cells", "done"}
  /\ tests = <<>> \/ \E span \in 0..MaxSpan : tests = FoldsOf(span)

\* A verdict is the last thing that happens.
VerdictIsLast == /\ phase # "done" => decided = None
                 /\ phase = "done" => todo = {}
                 /\ phase = "cells" => tests # <<>>

\* Until the candidates are picked only points have run.
PointsFirst ==
  /\ phase \in {"idle", "grid", "windows", "cells", "done"}
  /\ phase = "idle" => todo = {} /\ DOMAIN ran = {}
  /\ phase = "grid" => todo \subseteq Points /\ DOMAIN ran \subseteq Points
  /\ picked \subseteq Points /\ decided.of \in Points \union {"none"}

OptInv == RanTyped /\ Planned /\ VerdictIsLast /\ PointsFirst /\ ReadyRanEverywhere

-------------------------------------------------------------------------------
\* A set of numbers not empty has a least one, and Min is it.
LEMMA MinIn ==
  ASSUME NEW S, S \subseteq Nat, S # {} PROVE Min(S) \in S /\ \A y \in S : Min(S) <= y
<1>1. \E x \in S : \A y \in S : x <= y BY LeastNat
<1> QED BY <1>1 DEF Min

\* The larger and the smaller of two numbers.
LEMMA MaxOfTwo ==
  ASSUME NEW a \in Int, NEW b \in Int PROVE Max({a, b}) \in {a, b} /\ Max({a, b}) >= a /\ Max({a, b}) >= b
<1>1. \E x \in {a, b} : \A y \in {a, b} : x >= y OBVIOUS
<1> QED BY <1>1 DEF Max
LEMMA MinOfTwo ==
  ASSUME NEW a \in Int, NEW b \in Int PROVE Min({a, b}) \in {a, b} /\ Min({a, b}) <= a /\ Min({a, b}) <= b
<1>1. \E x \in {a, b} : \A y \in {a, b} : x =< y OBVIOUS
<1> QED BY <1>1 DEF Min

\* The i-th of equal steps ends where a later one starts, or before.
LEMMA StepsInOrder ==
  ASSUME NEW t \in Nat, NEW i \in Nat, NEW j \in Nat, i < j PROVE i * t + t <= j * t
<1>1. PICK k \in Nat : j = i + 1 + k
  <2>1. j - i - 1 \in Nat /\ j = i + 1 + (j - i - 1) OBVIOUS
  <2> QED BY <2>1
<1>2. j * t = i * t + t + k * t BY <1>1
<1>3. k * t \in Nat /\ i * t \in Nat OBVIOUS
<1> QED BY <1>2, <1>3

\* The days of the folds follow one another, each after its train and the
\* embargo, and end with the data.
LEMMA FoldsInOrder ==
  ASSUME NEW span \in 0..MaxSpan
  PROVE  \A f, g \in DOMAIN FoldsOf(span) :
           /\ FoldsOf(span)[f].train + Embargo <= FoldsOf(span)[f].from
           /\ FoldsOf(span)[f].to <= MaxSpan
           /\ f < g => FoldsOf(span)[f].to <= FoldsOf(span)[g].from
<1> USE OptimizeAssumption
<1> DEFINE planned == {i \in 0..(Folds - 1) :
                      \A j \in 0..i : TestEnd(span, j) - TestStart(span, j) >= MinTest}
           n == Cardinality(planned)
           t == TestDays(span)
<1>1. n \in Nat
  <2>1. IsFiniteSet(0..(Folds - 1)) BY FS_Interval
  <2>2. planned \subseteq 0..(Folds - 1) OBVIOUS
  <2> HIDE DEF planned
  <2> QED BY <2>1, <2>2, FS_Subset, FS_CardinalityType
<1>2. t \in Nat
  <2> DEFINE d == (span - MinTrain - Embargo) \div Folds
  <2>1. d \in Int /\ MinTest \in Int OBVIOUS
  <2>2. t = Max({d, MinTest}) BY DEF TestDays
  <2> HIDE DEF d, t
  <2>3. t >= MinTest /\ t \in {d, MinTest} BY <2>1, <2>2, MaxOfTwo
  <2> QED BY <2>1, <2>3
<1> HIDE DEF planned, n, t
<1>3. ASSUME NEW i \in Nat
      PROVE  /\ TestStart(span, i) = MinTrain + Embargo + i * t /\ TestStart(span, i) \in Nat
             /\ TestEnd(span, i) \in Nat /\ TestEnd(span, i) <= span
             /\ TestEnd(span, i) <= TestStart(span, i) + t
  <2>1. TestStart(span, i) = MinTrain + Embargo + i * t BY DEF TestStart, t
  <2>2. i * t \in Nat BY <1>2
  <2>3. TestStart(span, i) \in Nat BY <2>1, <2>2
  <2>4. TestEnd(span, i) = Min({TestStart(span, i) + t, span}) BY DEF TestEnd, t
  <2>5. /\ TestEnd(span, i) \in {TestStart(span, i) + t, span} /\ TestEnd(span, i) <= span
        /\ TestEnd(span, i) <= TestStart(span, i) + t
    <3>1. TestStart(span, i) + t \in Int /\ span \in Int BY <1>2, <2>3
    <3> QED BY <3>1, <2>4, MinOfTwo
  <2> QED BY <1>2, <2>1, <2>3, <2>5
<1>4. CASE span < MinTrain + Embargo + MinTest
  BY <1>4 DEF FoldsOf
<1>5. CASE ~(span < MinTrain + Embargo + MinTest)
  <2>1. FoldsOf(span) = [k \in 1..n |->
             [train |-> TestStart(span, k - 1) - Embargo,
              from |-> TestStart(span, k - 1), to |-> TestEnd(span, k - 1)]]
    BY <1>5 DEF FoldsOf, n, planned
  <2>2. SUFFICES ASSUME NEW f \in 1..n, NEW g \in 1..n
        PROVE  /\ TestStart(span, f - 1) - Embargo + Embargo <= TestStart(span, f - 1)
               /\ TestEnd(span, f - 1) <= MaxSpan
               /\ f < g => TestEnd(span, f - 1) <= TestStart(span, g - 1)
    BY <2>1
  <2>3. f - 1 \in Nat /\ g - 1 \in Nat BY <1>1
  <2>4. /\ TestStart(span, f - 1) = MinTrain + Embargo + (f - 1) * t /\ TestStart(span, f - 1) \in Nat
        /\ TestEnd(span, f - 1) \in Nat /\ TestEnd(span, f - 1) <= span
        /\ TestEnd(span, f - 1) <= TestStart(span, f - 1) + t
        /\ TestStart(span, g - 1) = MinTrain + Embargo + (g - 1) * t
    BY <2>3, <1>3
  <2>5. f < g => (f - 1) * t + t <= (g - 1) * t BY <2>3, <1>2, <1>1, StepsInOrder
  <2>6. (f - 1) * t \in Nat /\ (g - 1) * t \in Nat BY <2>3, <1>2
  <2> QED BY <2>4, <2>5, <2>6, <1>2
<1> QED BY <1>4, <1>5

\* A configuration that is ready ran in every fold: one it did not run in
\* counts as a fold without trades, which is too few.
LEMMA ReadyHasTrades ==
  ASSUME RanTyped, Planned, tests # <<>>, NEW c \in Points, NEW overfit \in BOOLEAN,
         NEW doubtful \in BOOLEAN, DecideFolds(c, overfit, doubtful) = "PAPER_READY",
         NEW f \in DOMAIN tests
  PROVE  <<c, f>> \in DOMAIN ran /\ ran[<<c, f>>].trades >= FoldTrades
<1> USE OptimizeAssumption
<1>1. ~(FewestTrades(c) < FoldTrades)
  BY DEF DecideFolds
<1> DEFINE S == {TradesIn(c, g) : g \in DOMAIN tests}
<1>2. ASSUME NEW g \in DOMAIN tests
      PROVE  /\ TradesIn(c, g) \in Nat
             /\ TradesIn(c, g) # 0 => <<c, g>> \in DOMAIN ran /\ TradesIn(c, g) = ran[<<c, g>>].trades
  BY DEF TradesIn, FoldsRun, RanTyped
<1>3. S \subseteq Nat /\ TradesIn(c, f) \in S BY <1>2
<1>4. Min(S) <= TradesIn(c, f) /\ Min(S) \in Nat
  <2> HIDE DEF S
  <2> QED BY <1>3, MinIn
<1>5. FewestTrades(c) = Min(S) BY DEF FewestTrades
<1>6. TradesIn(c, f) >= FoldTrades /\ TradesIn(c, f) # 0
  <2> HIDE DEF S
  <2>1. ~(Min(S) < FoldTrades) BY <1>1, <1>5
  <2>2. TradesIn(c, f) \in Nat BY <1>2
  <2> QED BY <2>1, <2>2, <1>4
<1> QED BY <1>2, <1>6

\* OptInv holds before the first run.
LEMMA OptStarts == OptInit => OptInv
<1> SUFFICES ASSUME OptInit PROVE OptInv
  OBVIOUS
<1>1. DOMAIN tests = {} /\ DOMAIN ran = {} BY DEF OptInit
<1> QED BY <1>1 DEF OptInit, OptInv, RanTyped, Planned, VerdictIsLast, PointsFirst, ReadyRanEverywhere, None

\* A run that ends, with a result or without, is before the verdict.
LEMMA RunKeeps ==
  ASSUME OptInv, NEW job \in todo, RunFails(job) \/ \E o \in Outcomes : RunEnds(job, o)
  PROVE  OptInv'
<1>1. UNCHANGED <<phase, picked, tests, decided>> BY DEF RunFails, RunEnds
<1>2. phase # "done" /\ decided = None BY DEF OptInv, VerdictIsLast
<1>3. RanTyped' BY DEF RunFails, RunEnds, OptInv, RanTyped
<1>4. Planned' /\ VerdictIsLast' BY <1>1, <1>2 DEF OptInv, Planned, VerdictIsLast
<1>5. ReadyRanEverywhere' BY <1>1, <1>2 DEF OptInv, ReadyRanEverywhere, None
<1>6. PointsFirst'
  <2>1. todo' \subseteq todo /\ DOMAIN ran' \subseteq DOMAIN ran \union {job}
    BY DEF RunFails, RunEnds
  <2> QED BY <2>1, <1>1 DEF OptInv, PointsFirst
<1> QED BY <1>3, <1>4, <1>5, <1>6 DEF OptInv

\* Every step keeps OptInv.
LEMMA OptStep == OptInv /\ [OptNext]_optVars => OptInv'
<1> SUFFICES ASSUME OptInv, [OptNext]_optVars PROVE OptInv'
  OBVIOUS
<1> USE DEF OptInv
<1>1. CASE BeginGrid
  <2>1. phase = "idle" /\ phase' = "grid" /\ UNCHANGED <<ran, picked, tests, decided>>
    BY <1>1 DEF BeginGrid
  <2>2. tests = <<>> /\ decided = None BY <2>1 DEF Planned, VerdictIsLast
  <2>3. todo' = Points BY <1>1 DEF BeginGrid
  <2> QED BY <2>1, <2>2, <2>3 DEF RanTyped, Planned, VerdictIsLast, PointsFirst, ReadyRanEverywhere, None
<1>2. CASE PickCandidates
  <2>1. phase = "grid" /\ todo = {} /\ phase' \in {"windows", "done"} /\ UNCHANGED <<ran, tests>>
    BY <1>2 DEF PickCandidates
  <2>2. tests = <<>> /\ decided = None BY <2>1 DEF Planned, VerdictIsLast
  <2>3. phase' = "done" => todo' = {} BY <1>2 DEF PickCandidates
  <2>4. phase' # "done" => decided' = None BY <1>2, <2>2 DEF PickCandidates
  <2>5. picked' \subseteq Points
    <3>1. DOMAIN ran \subseteq Points /\ picked \subseteq Points BY <2>1 DEF PointsFirst
    <3>2. picked' = picked \/ picked' \subseteq DOMAIN ran BY <1>2 DEF PickCandidates, Best
    <3> QED BY <3>1, <3>2
  <2>6. decided' \in {None, [state |-> "REJECTED", of |-> "none"]}
    BY <1>2, <2>2 DEF PickCandidates
  <2>7. decided'.of = "none" BY <2>6 DEF None
  <2>8. PointsFirst' BY <2>1, <2>5, <2>7 DEF PointsFirst
  <2> QED BY <2>1, <2>2, <2>3, <2>4, <2>8 DEF RanTyped, Planned, VerdictIsLast, ReadyRanEverywhere
<1>3. CASE DecideWinner
  <2>1. phase = "windows" /\ todo = {} /\ phase' = "done" /\ UNCHANGED <<ran, todo, picked, tests>>
    BY <1>3 DEF DecideWinner
  <2>2. tests = <<>> BY <2>1 DEF Planned
  <2>3. decided' = None \/ \E p \in picked : decided'.of = p
    <3> DEFINE ranked == {p \in picked : RanIn(p) # {}}
    <3>1. \/ decided' = None
          \/ \E p \in ranked : decided' = [of |-> p, state |-> IF Inert THEN "REJECTED" ELSE DecideOos(p)]
      BY <1>3 DEF DecideWinner
    <3> QED BY <3>1
  <2>4. PointsFirst' BY <2>1, <2>3 DEF PointsFirst, None
  <2> QED BY <2>1, <2>2, <2>4 DEF RanTyped, Planned, VerdictIsLast, ReadyRanEverywhere
<1>4. ASSUME NEW span \in 0..MaxSpan, BeginCells(span) PROVE OptInv'
  <2>1. /\ phase = "idle" /\ phase' = "cells" /\ tests' = FoldsOf(span) /\ tests' # <<>>
        /\ UNCHANGED <<ran, picked, decided>>
    BY <1>4 DEF BeginCells
  <2>2. decided = None BY <2>1 DEF VerdictIsLast
  <2>3. ReadyRanEverywhere'
    BY <2>1, <2>2, FoldsInOrder DEF ReadyRanEverywhere, None
  <2> QED BY <2>1, <2>2, <2>3 DEF RanTyped, Planned, VerdictIsLast, PointsFirst
<1>5. CASE DecideConfig
  <2>1. phase = "cells" /\ todo = {} /\ phase' = "done" /\ UNCHANGED <<ran, todo, picked, tests>>
    BY <1>5 DEF DecideConfig
  <2>2. tests # <<>> BY <2>1 DEF VerdictIsLast
  <2>3. PICK c \in Points, overfit, doubtful \in BOOLEAN :
          decided' = [of |-> c, state |-> DecideFolds(c, overfit, doubtful)]
    BY <1>5, Zenon DEF DecideConfig
  <2>4. decided'.of = c /\ decided'.state = DecideFolds(c, overfit, doubtful) BY <2>3
  <2>5. decided'.state = "PAPER_READY" =>
          \A f \in DOMAIN tests : <<c, f>> \in DOMAIN ran /\ ran[<<c, f>>].trades >= FoldTrades
    BY <2>2, <2>4, ReadyHasTrades
  <2>6. ReadyRanEverywhere' BY <2>1, <2>4, <2>5 DEF ReadyRanEverywhere
  <2> QED BY <2>1, <2>4, <2>6 DEF RanTyped, Planned, VerdictIsLast, PointsFirst
<1>6. CASE \E job \in todo : RunFails(job) \/ \E o \in Outcomes : RunEnds(job, o)
  BY <1>6, RunKeeps
<1>7. CASE UNCHANGED optVars
  BY <1>7 DEF optVars, RanTyped, Planned, VerdictIsLast, PointsFirst, ReadyRanEverywhere
<1> QED BY <1>1, <1>2, <1>3, <1>4, <1>5, <1>6, <1>7 DEF OptNext

LEMMA OptHolds == OptSpec => []OptInv
  BY OptStarts, OptStep, PTL DEF OptSpec

\* The state of an optimisation keeps to its type: what ran has a result, and
\* the verdict is about a point of the grid and comes when no run is left.
THEOREM OptTyped == OptSpec => []OptTypeOK
<1>1. OptInv => OptTypeOK BY DEF OptInv, RanTyped, VerdictIsLast, PointsFirst, OptTypeOK
<1> QED BY <1>1, OptHolds, PTL

\* A configuration declared ready ran in every fold that was planned, with
\* enough trades in each, and the folds do not overlap, whatever the span of
\* the data and whichever runs fail.
THEOREM ReadyRan == OptSpec => []ReadyRanEverywhere
<1>1. OptInv => ReadyRanEverywhere BY DEF OptInv
<1> QED BY <1>1, OptHolds, PTL

-------------------------------------------------------------------------------
(* PaperBook *)

Logs == [open : Seq(Signals), pairs : Nat, pnl : Int]
Tellings == [cash : Int, sizes : SUBSET Qtys, low : Int]

\* What one signal costs or brings.
Flow(s) == IF s.buy THEN -(s.price * s.qty) ELSE s.price * s.qty

\* c adds up what the signals of a log still open cost and brought, from the
\* profit of its pairs on.
Adds(c, log) ==
  /\ c \in [0..Len(log.open) -> Int] /\ c[0] = log.pnl
  /\ \A i \in 1..Len(log.open) : c[i] = c[i - 1] + Flow(log.open[i])

\* A signal that finds an open one of the other side closes it: those left open
\* are of one side.
OneSided(log) == \A i, j \in 1..Len(log.open) : log.open[i].buy = log.open[j].buy

OneSize(sizes) == \A p, q \in sizes : p = q

\* A log and what is remembered of it: with one size, its profit and its open
\* signals make up the cash.
Agrees(log, story) ==
  /\ OneSided(log)
  /\ IsFiniteSet(story.sizes)
  /\ \A i \in 1..Len(log.open) : log.open[i].qty \in story.sizes
  /\ OneSize(story.sizes) => \E c : Adds(c, log) /\ c[Len(log.open)] = story.cash
  /\ story.low <= log.pnl

BookInv ==
  /\ BookTypeOK
  /\ told \in [Days -> Tellings]
  /\ \A d \in Days : Agrees(logOf[d], told[d])
  /\ \A i \in DOMAIN rows : told[rows[i].day].low <= rows[i].pnl
  /\ HaltIsEarned

-------------------------------------------------------------------------------
\* Where the open signals are of one side, the oldest is the match or none is.
LEMMA FirstMatch ==
  ASSUME NEW log \in Logs, OneSided(log), NEW s \in Signals
  PROVE  SelectInSeq(log.open, LAMBDA o : o.buy # s.buy)
           = IF log.open # <<>> /\ log.open[1].buy # s.buy THEN 1 ELSE 0
<1> DEFINE I == {i \in 1..Len(log.open) : log.open[i].buy # s.buy}
<1>1. Len(log.open) \in Nat /\ (log.open # <<>> <=> Len(log.open) >= 1)
  <2>1. log.open \in Seq(Signals) BY DEF Logs
  <2> QED BY <2>1
<1>2. SelectInSeq(log.open, LAMBDA o : o.buy # s.buy) = IF I # {} THEN Min(I) ELSE 0
  BY DEF SelectInSeq
<1>3. CASE log.open # <<>> /\ log.open[1].buy # s.buy
  <2>1. 1 \in I /\ \A i \in I : 1 <= i BY <1>1, <1>3
  <2>2. \E x \in I : \A y \in I : x =< y BY <2>1
  <2>3. Min(I) \in I /\ Min(I) <= 1
    <3> HIDE DEF I
    <3> QED BY <2>1, <2>2 DEF Min
  <2>4. Min(I) = 1
    <3>1. Min(I) \in Nat /\ Min(I) >= 1 BY <2>3
    <3> HIDE DEF I
    <3> QED BY <2>3, <3>1
  <2> QED BY <1>2, <1>3, <2>1, <2>4, Zenon
<1>4. CASE ~(log.open # <<>> /\ log.open[1].buy # s.buy)
  <2>1. I = {}
    <3> SUFFICES ASSUME NEW i \in I PROVE FALSE OBVIOUS
    <3>1. 1 \in 1..Len(log.open) /\ i \in 1..Len(log.open) BY <1>1
    <3>2. log.open[1].buy = log.open[i].buy BY <3>1 DEF OneSided
    <3> QED BY <1>1, <1>4, <3>1, <3>2
  <2> QED BY <1>2, <1>4, <2>1, Zenon
<1> QED BY <1>3, <1>4

\* A signal that finds no match is added to the open ones; one that does takes
\* the oldest away and adds the pair's profit.
LEMMA PairStays ==
  ASSUME NEW log \in Logs, OneSided(log), NEW s \in Signals,
         ~(log.open # <<>> /\ log.open[1].buy # s.buy)
  PROVE  PairSignal(log, s) = [log EXCEPT !.open = Append(@, s)]
BY FirstMatch, Zenon DEF PairSignal
LEMMA PairCloses ==
  ASSUME NEW log \in Logs, OneSided(log), NEW s \in Signals,
         log.open # <<>>, log.open[1].buy # s.buy
  PROVE  PairSignal(log, s) = [open |-> Tail(log.open), pairs |-> log.pairs + 1,
                               pnl |-> log.pnl + PairPnl(log.open[1], s)]
<1>1. SelectInSeq(log.open, LAMBDA o : o.buy # s.buy) = 1 BY FirstMatch
<1>2. RemoveAt(log.open, 1) = Tail(log.open)
  <2>1. log.open \in Seq(Signals) BY DEF Logs
  <2>2. Tail(log.open) = SubSeq(log.open, 2, Len(log.open)) BY <2>1, TailIsSubSeq
  <2>3. RemoveAt(log.open, 1) = SubSeq(log.open, 1, 0) \o SubSeq(log.open, 2, Len(log.open))
    BY DEF RemoveAt
  <2>4. SubSeq(log.open, 1, 0) = <<>> BY <2>1
  <2>5. Tail(log.open) \in Seq(Signals) BY <2>1, HeadTailProperties
  <2>6. <<>> \o Tail(log.open) = Tail(log.open) BY <2>5, ConcatEmptySeq
  <2> QED BY <2>2, <2>3, <2>4, <2>6
<1>3. 1 # 0 OBVIOUS
<1> QED BY <1>1, <1>2, <1>3, Zenon DEF PairSignal

\* The types of a signal and of a pair's profit.
LEMMA SignalTyped ==
  ASSUME NEW s \in Signals
  PROVE  /\ s.buy \in BOOLEAN /\ s.price \in Nat /\ s.qty \in Nat /\ s.qty \in Qtys
         /\ s.price * s.qty \in Nat /\ Flow(s) \in Int
<1>1. s.buy \in BOOLEAN /\ s.price \in Prices /\ s.qty \in Qtys BY DEF Signals
<1>2. s.price \in Nat /\ s.qty \in Nat BY <1>1, PaperBookAssumption
<1>3. s.price * s.qty \in Nat BY <1>2
<1> QED BY <1>1, <1>2, <1>3 DEF Flow
LEMMA PairTyped ==
  ASSUME NEW o \in Signals, NEW s \in Signals PROVE PairPnl(o, s) \in Int
<1>1. o.price \in Nat /\ s.price \in Nat /\ o.qty \in Nat /\ s.qty \in Nat BY SignalTyped
<1> QED BY <1>1 DEF PairPnl

\* Two signals of one size and opposite sides make the profit their cash adds
\* up to.
LEMMA PairIsCash ==
  ASSUME NEW o \in Signals, NEW s \in Signals, o.buy # s.buy, o.qty = s.qty
  PROVE  PairPnl(o, s) = Flow(o) + Flow(s)
<1>1. /\ o.price \in Nat /\ s.price \in Nat /\ s.qty \in Nat
      /\ o.buy \in BOOLEAN /\ s.buy \in BOOLEAN
  BY SignalTyped
<1>2. PairPnl(o, s) = (IF o.buy THEN s.price - o.price ELSE o.price - s.price) * s.qty
  BY DEF PairPnl
<1>3. CASE o.buy /\ ~s.buy BY <1>1, <1>2, <1>3 DEF Flow
<1>4. CASE ~o.buy /\ s.buy BY <1>1, <1>2, <1>4 DEF Flow
<1> QED BY <1>1, <1>3, <1>4

\* The log after a signal, and what is remembered of it, agree again.
LEMMA SignalKeeps ==
  ASSUME NEW log \in Logs, NEW story \in Tellings, Agrees(log, story), NEW s \in Signals,
         NEW after, after = PairSignal(log, s),
         NEW next, next = [cash |-> story.cash + (IF s.buy THEN -1 ELSE 1) * s.price * s.qty,
                           sizes |-> story.sizes \union {s.qty},
                           low |-> IF after.pnl < story.low THEN after.pnl ELSE story.low]
  PROVE  /\ after \in Logs /\ next \in Tellings /\ Agrees(after, next)
         /\ next.low <= story.low
<1> DEFINE open == log.open
           n == Len(open)
<1>1. /\ open \in Seq(Signals) /\ n \in Nat /\ log.pnl \in Int /\ log.pairs \in Nat
      /\ \A i \in 1..n : open[i] \in Signals
  <2>1. open \in Seq(Signals) /\ log.pnl \in Int /\ log.pairs \in Nat BY DEF Logs
  <2> QED BY <2>1
<1>2. /\ story.cash \in Int /\ story.sizes \subseteq Qtys /\ story.low \in Int
      /\ IsFiniteSet(story.sizes)
  BY DEF Tellings, Agrees
<1>3. /\ s.buy \in BOOLEAN /\ s.price \in Nat /\ s.qty \in Nat /\ s.qty \in Qtys
      /\ Flow(s) \in Int
  BY SignalTyped
<1>4. next.cash = story.cash + Flow(s)
  <2>1. next.cash = story.cash + (IF s.buy THEN -1 ELSE 1) * s.price * s.qty OBVIOUS
  <2>2. CASE s.buy BY <1>2, <1>3, <2>1, <2>2 DEF Flow
  <2>3. CASE ~s.buy BY <1>2, <1>3, <2>1, <2>3 DEF Flow
  <2> QED BY <2>2, <2>3
<1>5. /\ next.sizes = story.sizes \union {s.qty} /\ IsFiniteSet(next.sizes)
      /\ next.sizes \subseteq Qtys
  BY <1>2, <1>3, FS_AddElement
<1>6. \A i \in 1..n : open[i].qty \in story.sizes BY DEF Agrees
<1>7. OneSided(log) BY DEF Agrees
<1>8. OneSize(next.sizes) => OneSize(story.sizes) /\ \A i \in 1..n : open[i].qty = s.qty
  BY <1>5, <1>6 DEF OneSize
<1>9. OneSize(next.sizes) => \E c : Adds(c, log) /\ c[n] = story.cash
  BY <1>8 DEF Agrees
<1>10. CASE ~(open # <<>> /\ open[1].buy # s.buy)
  <2>1. /\ after.open = Append(open, s) /\ after.pairs = log.pairs /\ after.pnl = log.pnl
        /\ after = [open |-> Append(open, s), pairs |-> log.pairs, pnl |-> log.pnl]
    BY <1>7, <1>10, PairStays DEF Logs
  <2>2. /\ Append(open, s) \in Seq(Signals) /\ Len(Append(open, s)) = n + 1
        /\ \A i \in 1..n : Append(open, s)[i] = open[i]
        /\ Append(open, s)[n + 1] = s
    BY <1>1
  <2>3. after \in Logs BY <1>1, <2>1, <2>2 DEF Logs
  <2>4. OneSided(after)
    <3>1. \A i \in 1..n : open[i].buy = s.buy BY <1>1, <1>7, <1>10 DEF OneSided
    <3>2. \A i \in 1..(n + 1) : after.open[i].buy = s.buy
      BY <1>1, <2>1, <2>2, <3>1
    <3> QED BY <2>1, <2>2, <3>2 DEF OneSided
  <2>5. \A i \in 1..(n + 1) : after.open[i].qty \in next.sizes
    BY <1>1, <1>5, <1>6, <2>1, <2>2
  <2>6. ASSUME OneSize(next.sizes)
        PROVE  \E c : Adds(c, after) /\ c[Len(after.open)] = next.cash
    <3>1. PICK c : Adds(c, log) /\ c[n] = story.cash BY <1>9, <2>6
    <3> DEFINE e == [i \in 0..(n + 1) |-> IF i = n + 1 THEN c[n] + Flow(s) ELSE c[i]]
    <3>2. /\ c \in [0..n -> Int] /\ c[0] = log.pnl
          /\ \A i \in 1..n : c[i] = c[i - 1] + Flow(open[i])
      BY <3>1 DEF Adds
    <3>3. e \in [0..(n + 1) -> Int] /\ e[0] = after.pnl /\ e[n + 1] = next.cash
      BY <1>1, <1>2, <1>3, <1>4, <2>1, <3>1, <3>2, SMTT(30)
    <3>4. \A i \in 1..(n + 1) : e[i] = e[i - 1] + Flow(after.open[i])
      <4> SUFFICES ASSUME NEW i \in 1..(n + 1) PROVE e[i] = e[i - 1] + Flow(after.open[i])
        OBVIOUS
      <4>1. CASE i = n + 1
        BY <1>1, <2>1, <2>2, <4>1
      <4>2. CASE i # n + 1
        <5>1. i \in 1..n /\ i - 1 \in 0..(n + 1) /\ i \in 0..(n + 1) /\ i - 1 # n + 1
          BY <1>1, <4>2
        <5>2. after.open[i] = open[i] BY <2>1, <2>2, <5>1
        <5> QED BY <3>2, <5>1, <5>2, <4>2
      <4> QED BY <4>1, <4>2
    <3> HIDE DEF e
    <3> QED BY <2>1, <2>2, <3>3, <3>4 DEF Adds
  <2>7. next \in Tellings /\ next.low <= after.pnl /\ next.low <= story.low
    BY <1>1, <1>2, <1>3, <1>4, <1>5, <2>1, SMTT(30) DEF Tellings
  <2> QED BY <1>5, <2>1, <2>2, <2>3, <2>4, <2>5, <2>6, <2>7 DEF Agrees
<1>11. CASE open # <<>> /\ open[1].buy # s.buy
  <2> DEFINE p == PairPnl(open[1], s)
  <2>1. after = [open |-> Tail(open), pairs |-> log.pairs + 1, pnl |-> log.pnl + p]
    BY <1>7, <1>11, PairCloses
  <2>2. /\ n >= 1 /\ n - 1 \in Nat /\ Tail(open) \in Seq(Signals) /\ Len(Tail(open)) = n - 1
        /\ \A i \in 1..(n - 1) : Tail(open)[i] = open[i + 1]
        /\ open[1] \in Signals
    BY <1>1, <1>11
  <2>3. p \in Int BY <2>2, PairTyped
  <2> HIDE DEF p
  <2>4. after.open = Tail(open) /\ after.pnl = log.pnl + p BY <2>1
  <2>5. after \in Logs BY <1>1, <2>1, <2>2, <2>3 DEF Logs
  <2>6. OneSided(after)
    <3>1. Len(after.open) = n - 1 BY <2>2, <2>4
    <3>2. SUFFICES ASSUME NEW i \in 1..(n - 1), NEW j \in 1..(n - 1)
                   PROVE  after.open[i].buy = after.open[j].buy
      BY <3>1 DEF OneSided
    <3>3. i + 1 \in 1..n /\ j + 1 \in 1..n BY <1>1, <2>2
    <3>4. open[i + 1].buy = open[j + 1].buy BY <1>7, <3>3 DEF OneSided
    <3> QED BY <2>2, <2>4, <3>4
  <2>7. \A i \in 1..(n - 1) : after.open[i].qty \in next.sizes
    BY <1>1, <1>5, <1>6, <2>2, <2>4
  <2>8. ASSUME OneSize(next.sizes)
        PROVE  \E c : Adds(c, after) /\ c[Len(after.open)] = next.cash
    <3>1. PICK c : Adds(c, log) /\ c[n] = story.cash BY <1>9, <2>8
    <3> DEFINE e == [i \in 0..(n - 1) |-> c[i + 1] + Flow(s)]
    <3>2. /\ c \in [0..n -> Int] /\ c[0] = log.pnl
          /\ \A i \in 1..n : c[i] = c[i - 1] + Flow(open[i])
      BY <3>1 DEF Adds
    <3>3. p = Flow(open[1]) + Flow(s)
      <4>1. open[1].qty = s.qty BY <1>8, <2>2, <2>8
      <4> QED BY <1>11, <2>2, <4>1, PairIsCash DEF p
    <3>4. Flow(open[1]) \in Int BY <2>2, SignalTyped
    <3>5. e \in [0..(n - 1) -> Int] /\ e[n - 1] = next.cash
      <4>1. \A i \in 0..(n - 1) : i + 1 \in 0..n /\ c[i + 1] \in Int BY <1>1, <2>2, <3>2
      <4>2. e \in [0..(n - 1) -> Int] BY <1>3, <4>1
      <4>3. n - 1 \in 0..(n - 1) /\ (n - 1) + 1 = n BY <1>1, <2>2
      <4>4. e[n - 1] = c[n] + Flow(s) BY <4>3
      <4> QED BY <1>4, <3>1, <4>2, <4>4
    <3>6. e[0] = after.pnl
      <4>1. 1 \in 1..n /\ 0 \in 0..(n - 1) /\ 1 - 1 = 0 /\ 0 + 1 = 1 BY <1>1, <2>2
      <4>2. c[1] = c[0] + Flow(open[1]) BY <3>2, <4>1
      <4>3. e[0] = c[1] + Flow(s) BY <4>1
      <4>4. c[1] = log.pnl + Flow(open[1]) BY <3>2, <4>2
      <4>5. log.pnl \in Int /\ Flow(s) \in Int BY <1>1, <1>3
      <4>6. log.pnl + Flow(open[1]) + Flow(s) = log.pnl + (Flow(open[1]) + Flow(s))
        BY <3>4, <4>5
      <4> HIDE DEF e, open
      <4>7. e[0] = log.pnl + (Flow(open[1]) + Flow(s)) BY <4>3, <4>4, <4>6
      <4>8. log.pnl + (Flow(open[1]) + Flow(s)) = log.pnl + p BY <3>3, Zenon
      <4> QED BY <2>4, <4>7, <4>8, Zenon
    <3>7. \A i \in 1..(n - 1) : e[i] = e[i - 1] + Flow(after.open[i])
      <4> SUFFICES ASSUME NEW i \in 1..(n - 1) PROVE e[i] = e[i - 1] + Flow(after.open[i])
        OBVIOUS
      <4>1. i + 1 \in 1..n /\ i \in 0..(n - 1) /\ i - 1 \in 0..(n - 1) BY <1>1, <2>2
      <4>2. after.open[i] = open[i + 1] BY <2>2, <2>4
      <4>3. c[i + 1] = c[i] + Flow(open[i + 1]) /\ c[i] \in Int /\ c[i + 1] \in Int
        <5>1. (i + 1) - 1 = i /\ i \in 0..n /\ i + 1 \in 0..n BY <1>1, <4>1
        <5>2. c[i] \in Int /\ c[i + 1] \in Int BY <3>2, <5>1
        <5>3. c[i + 1] = c[(i + 1) - 1] + Flow(open[i + 1]) BY <3>2, <4>1
        <5> QED BY <5>1, <5>2, <5>3
      <4>4. Flow(open[i + 1]) \in Int BY <1>1, <4>1, SignalTyped
      <4>5. e[i] = c[i + 1] + Flow(s) /\ e[i - 1] = c[i] + Flow(s) BY <4>1
      <4> HIDE DEF e
      <4> QED BY <1>3, <4>2, <4>3, <4>4, <4>5
    <3> HIDE DEF e
    <3> QED BY <2>2, <2>4, <3>5, <3>6, <3>7 DEF Adds
  <2>9. next \in Tellings /\ next.low <= after.pnl /\ next.low <= story.low
    BY <1>1, <1>2, <1>3, <1>4, <1>5, <2>3, <2>4, SMTT(30) DEF Tellings
  <2> QED BY <1>5, <2>2, <2>4, <2>5, <2>6, <2>7, <2>8, <2>9 DEF Agrees
<1> QED BY <1>10, <1>11

-------------------------------------------------------------------------------
\* BookInv holds before the first run.
LEMMA BookStarts == BookInit => BookInv
<1> SUFFICES ASSUME BookInit PROVE BookInv
  OBVIOUS
<1> USE PaperBookAssumption
<1>1. BookTypeOK
  <2>1. <<>> \in Seq(Signals) /\ <<>> \in Seq([day : Days, pnl : Int]) /\ Len(<<>>) = 0 OBVIOUS
  <2>2. 1 \in Days BY DEF Days
  <2>3. [open |-> <<>>, pairs |-> 0, pnl |-> 0] \in Logs BY <2>1 DEF Logs
  <2>4. /\ standing = "PAPER" /\ category = "none" /\ flagged \in BOOLEAN
        /\ today = 1 /\ built = 0 /\ rows = <<>>
        /\ logOf = [d \in Days |-> [open |-> <<>>, pairs |-> 0, pnl |-> 0]]
    BY Zenon DEF BookInit
  <2>5. logOf \in [Days -> Logs] BY <2>3, <2>4
  <2> QED BY <2>1, <2>2, <2>4, <2>5 DEF BookTypeOK, Logs
<1>2. told \in [Days -> Tellings] BY DEF BookInit, Tellings
<1>3. ASSUME NEW d \in Days PROVE Agrees(logOf[d], told[d])
  <2>1. /\ logOf[d].open = <<>> /\ logOf[d].pnl = 0
        /\ told[d].cash = 0 /\ told[d].sizes = {} /\ told[d].low = 0
    BY DEF BookInit
  <2>2. Len(<<>>) = 0 /\ IsFiniteSet({}) BY FS_EmptySet
  <2> DEFINE c == [i \in 0..0 |-> 0]
  <2>3. Adds(c, logOf[d]) /\ c[0] = 0
    <3>1. c \in [0..0 -> Int] /\ c[0] = 0 OBVIOUS
    <3> HIDE DEF c
    <3> QED BY <2>1, <2>2, <3>1 DEF Adds
  <2> HIDE DEF c
  <2>4. OneSided(logOf[d]) BY <2>1, <2>2 DEF OneSided
  <2> QED BY <2>1, <2>2, <2>3, <2>4 DEF Agrees
<1>4. DOMAIN rows = {} BY DEF BookInit
<1> QED BY <1>1, <1>2, <1>3, <1>4 DEF BookInv, BookInit, HaltIsEarned

\* A signal reaches the log of the day its runner was built.
LEMMA EmitKeeps ==
  ASSUME BookInv, NEW s \in Signals, EmitSignal(s)
  PROVE  BookInv'
<1> USE PaperBookAssumption
<1>1. built \in Days
  BY DEF BookInv, BookTypeOK, EmitSignal, Days
<1>2. logOf \in [Days -> Logs] /\ told \in [Days -> Tellings]
  BY DEF BookInv, BookTypeOK, Logs
<1> DEFINE after == PairSignal(logOf[built], s)
           story == told[built]
           next == [cash |-> story.cash + (IF s.buy THEN -1 ELSE 1) * s.price * s.qty,
                    sizes |-> story.sizes \union {s.qty},
                    low |-> IF after.pnl < story.low THEN after.pnl ELSE story.low]
<1>3. logOf' = [logOf EXCEPT ![built] = after] BY DEF EmitSignal
<1>4. logOf'[built] = after BY <1>1, <1>2, <1>3
<1>5. told' = [told EXCEPT ![built] = next] BY <1>4 DEF EmitSignal
<1>6. /\ after \in Logs /\ next \in Tellings /\ Agrees(after, next)
      /\ next.low <= story.low
  <2>1. logOf[built] \in Logs /\ story \in Tellings /\ Agrees(logOf[built], story)
    BY <1>1, <1>2 DEF BookInv
  <2> HIDE DEF story
  <2> QED BY <2>1, SignalKeeps
<1> HIDE DEF after, next
<1>7. UNCHANGED <<standing, category, flagged, today, built, rows>> BY DEF EmitSignal, verdict
<1>8. logOf' \in [Days -> Logs] /\ told' \in [Days -> Tellings]
  BY <1>1, <1>2, <1>3, <1>5, <1>6
<1>9. \A d \in Days : Agrees(logOf'[d], told'[d]) /\ told'[d].low <= told[d].low
  <2> SUFFICES ASSUME NEW d \in Days
      PROVE Agrees(logOf'[d], told'[d]) /\ told'[d].low <= told[d].low
    OBVIOUS
  <2>1. CASE d = built BY <1>1, <1>2, <1>3, <1>5, <1>6, <2>1
  <2>2. CASE d # built
    <3>1. logOf'[d] = logOf[d] /\ told'[d] = told[d] BY <1>2, <1>3, <1>5, <2>2
    <3>2. Agrees(logOf[d], told[d]) /\ told[d].low \in Int BY <1>2 DEF BookInv, Tellings
    <3> QED BY <3>1, <3>2
  <2> QED BY <2>1, <2>2
<1>10. \A d \in Days : told'[d].low \in Int /\ told[d].low \in Int BY <1>2, <1>8 DEF Tellings
<1>11. BookTypeOK' BY <1>7, <1>8 DEF BookInv, BookTypeOK, Logs
<1>12. \A i \in DOMAIN rows : told'[rows[i].day].low <= rows[i].pnl
  <2> SUFFICES ASSUME NEW i \in DOMAIN rows PROVE told'[rows[i].day].low <= rows[i].pnl
    OBVIOUS
  <2>1. rows[i] \in [day : Days, pnl : Int] BY SeqTyped DEF BookInv, BookTypeOK
  <2>2. told[rows[i].day].low <= rows[i].pnl BY DEF BookInv
  <2> QED BY <1>9, <1>10, <2>1, <2>2
<1>13. HaltIsEarned'
  <2> SUFFICES ASSUME standing = "HALTED", category # "global_kill_switch"
      PROVE \E d \in Days : told'[d].low <= -DayLimit
    BY <1>7 DEF HaltIsEarned
  <2>1. PICK d \in Days : told[d].low <= -DayLimit BY DEF BookInv, HaltIsEarned
  <2>2. told'[d].low <= -DayLimit BY <1>9, <1>10, <2>1
  <2> QED BY <2>2
<1> QED BY <1>7, <1>8, <1>9, <1>11, <1>12, <1>13 DEF BookInv

\* A summary's row is what the log of the day says.
LEMMA SummariseKeeps ==
  ASSUME BookInv, Summarise
  PROVE  BookInv'
<1> USE PaperBookAssumption
<1> DEFINE R == [day : Days, pnl : Int]
           r == [day |-> today, pnl |-> logOf[today].pnl]
           all == Append(rows, r)
<1>1. today \in Days /\ rows \in Seq(R) /\ Len(rows) <= RowLimit /\ Len(rows) \in Nat
  BY DEF BookInv, BookTypeOK
<1>2. r \in R /\ told[r.day].low <= r.pnl
  BY <1>1 DEF BookInv, BookTypeOK, Agrees
<1>3. UNCHANGED <<standing, category, flagged, today, built, logOf, told, wrote>>
      /\ rows' = Latest(all)
  BY DEF Summarise, verdict
<1> HIDE DEF r, R
<1>4. /\ all \in Seq(R) /\ all # <<>> /\ Len(all) = Len(rows) + 1
      /\ \A i \in 1..Len(rows) : all[i] = rows[i]
      /\ all[Len(rows) + 1] = r
  BY <1>1, <1>2, AppendProperties
<1>5. \A i \in 1..Len(all) : told[all[i].day].low <= all[i].pnl
  <2> SUFFICES ASSUME NEW i \in 1..Len(all) PROVE told[all[i].day].low <= all[i].pnl
    OBVIOUS
  <2>1. CASE i \in 1..Len(rows) BY <1>1, <1>4, <2>1 DEF BookInv
  <2>2. CASE i = Len(rows) + 1 BY <1>2, <1>4, <2>2
  <2> HIDE DEF all
  <2> QED BY <1>1, <1>4, <2>1, <2>2
<1>6. /\ Tail(all) \in Seq(R) /\ Len(Tail(all)) = Len(all) - 1
      /\ \A i \in 1..Len(Tail(all)) : Tail(all)[i] = all[i + 1]
  <2> HIDE DEF all
  <2> QED BY <1>4, HeadTailProperties
<1> HIDE DEF all
<1>7. /\ rows' \in Seq(R) /\ Len(rows') <= RowLimit
      /\ \A i \in DOMAIN rows' : told[rows'[i].day].low <= rows'[i].pnl
  <2>1. CASE Len(all) > RowLimit
    <3>1. rows' = Tail(all) BY <1>3, <2>1 DEF Latest
    <3>2. \A i \in 1..Len(Tail(all)) : told[Tail(all)[i].day].low <= Tail(all)[i].pnl
      <4> SUFFICES ASSUME NEW i \in 1..Len(Tail(all))
          PROVE told[Tail(all)[i].day].low <= Tail(all)[i].pnl
        OBVIOUS
      <4>1. i + 1 \in 1..Len(all) BY <1>1, <1>4, <1>6
      <4> QED BY <1>5, <1>6, <4>1
    <3> QED BY <1>1, <1>4, <1>6, <3>1, <3>2
  <2>2. CASE ~(Len(all) > RowLimit)
    BY <1>1, <1>3, <1>4, <1>5, <2>2 DEF Latest
  <2> QED BY <2>1, <2>2
<1>8. BookTypeOK' BY <1>3, <1>7 DEF BookInv, BookTypeOK, R
<1> QED BY <1>3, <1>7, <1>8 DEF BookInv, HaltIsEarned

\* A halt is for the newest row, which some day's log has shown.
LEMMA HaltKeeps ==
  ASSUME BookInv, WatchHalts
  PROVE  BookInv'
<1> USE PaperBookAssumption
<1>1. rows \in Seq([day : Days, pnl : Int]) /\ rows # <<>> BY DEF BookInv, BookTypeOK, WatchHalts
<1>2. Len(rows) \in DOMAIN rows BY <1>1
<1>3. rows[Len(rows)] \in [day : Days, pnl : Int] BY <1>1, <1>2, SeqTyped
<1>4. /\ told[rows[Len(rows)].day].low <= rows[Len(rows)].pnl
      /\ told[rows[Len(rows)].day].low \in Int
  BY <1>2, <1>3 DEF BookInv, Tellings
<1>5. rows[Len(rows)].pnl <= -DayLimit BY DEF WatchHalts, LosesDay, NewestRow
<1>6. told[rows[Len(rows)].day].low <= -DayLimit BY <1>3, <1>4, <1>5
<1>7. /\ UNCHANGED <<flagged, today, built, logOf, rows, told, wrote>>
      /\ standing' = "HALTED" /\ category' = "single_day_drawdown"
  BY DEF WatchHalts, Moves
<1>8. HaltIsEarned' BY <1>3, <1>6, <1>7 DEF HaltIsEarned
<1> QED BY <1>7, <1>8 DEF BookInv, BookTypeOK

\* Every other step leaves logs and rows alone.
LEMMA BookSteps == BookInv /\ [BookNext]_bookVars => BookInv'
<1> SUFFICES ASSUME BookInv, [BookNext]_bookVars PROVE BookInv'
  OBVIOUS
<1> USE PaperBookAssumption
<1>1. CASE BuildRunner
  BY <1>1 DEF BookInv, BookTypeOK, BuildRunner, HaltIsEarned, Days, verdict
<1>2. CASE EndRunner
  BY <1>2 DEF BookInv, BookTypeOK, EndRunner, HaltIsEarned, Days, verdict
<1>3. CASE NextDay
  BY <1>3 DEF BookInv, BookTypeOK, NextDay, HaltIsEarned, Days, verdict
<1>4. CASE Summarise BY <1>4, SummariseKeeps
<1>5. CASE \E s \in Signals : EmitSignal(s) BY <1>5, EmitKeeps
<1>6. CASE WatchHalts BY <1>6, HaltKeeps
<1>7. CASE WatchRetires
  BY <1>7 DEF BookInv, BookTypeOK, WatchRetires, Moves, HaltIsEarned
<1>9. CASE WatchKilled
  BY <1>9 DEF BookInv, BookTypeOK, WatchKilled, Moves, HaltIsEarned
<1>10. CASE FlagTurns
  BY <1>10 DEF BookInv, BookTypeOK, FlagTurns, HaltIsEarned
<1>8. CASE UNCHANGED bookVars
  BY <1>8 DEF BookInv, BookTypeOK, HaltIsEarned, bookVars
<1> QED BY <1>1, <1>2, <1>3, <1>4, <1>5, <1>6, <1>7, <1>8, <1>9, <1>10
    DEF BookNext, WatchTick

\* BookInv is an invariant of the logs, the rows and the watcher.
LEMMA BookInvariant == BookSpec => []BookInv
<1>1. BookInit => BookInv BY BookStarts
<1>2. BookInv /\ [BookNext]_bookVars => BookInv' BY BookSteps
<1> QED BY <1>1, <1>2, PTL DEF BookSpec

\* A log's name is a day that has been, and the watcher is never given more
\* rows than it asks for.
THEOREM BookTyped == BookSpec => []BookTypeOK
<1>1. BookInv => BookTypeOK BY DEF BookInv
<1> QED BY <1>1, BookInvariant, PTL

\* Where every signal has one size and none is left open, what paper_summary.py
\* reports is what the signals cost and brought, in whatever order they came.
THEOREM SummaryIsCash == BookSpec => []ReportedIsCash
<1>1. BookInv => ReportedIsCash
  <2> SUFFICES ASSUME BookInv, NEW d \in Days,
                      Cardinality(told[d].sizes) <= 1, logOf[d].open = <<>>
      PROVE logOf[d].pnl = told[d].cash
    BY DEF ReportedIsCash
  <2>1. Agrees(logOf[d], told[d]) /\ IsFiniteSet(told[d].sizes) BY DEF BookInv, Agrees
  <2>2. OneSize(told[d].sizes)
    <3>1. Cardinality(told[d].sizes) \in Nat BY <2>1, FS_CardinalityType
    <3>2. CASE Cardinality(told[d].sizes) = 0
      BY <2>1, <3>2, FS_EmptySet DEF OneSize
    <3>3. CASE Cardinality(told[d].sizes) = 1
      <4>1. \E x : told[d].sizes = {x} BY <2>1, <3>3, FS_Singleton
      <4> QED BY <4>1 DEF OneSize
    <3> QED BY <3>1, <3>2, <3>3
  <2>3. PICK c : Adds(c, logOf[d]) /\ c[Len(logOf[d].open)] = told[d].cash
    BY <2>1, <2>2 DEF Agrees
  <2> QED BY <2>3 DEF Adds
<1> QED BY <1>1, BookInvariant, PTL

\* A slug is halted for the global kill switch, or for a loss that one day's
\* signals had made at some time of that day.
THEOREM HaltsAreEarned == BookSpec => []HaltIsEarned
<1>1. BookInv => HaltIsEarned BY DEF BookInv
<1> QED BY <1>1, BookInvariant, PTL

-------------------------------------------------------------------------------
(* Intake *)

Works == [pc : Steps, src : Sources, name : Names]

\* A source in the order has a row, and so has one whose script is past the
\* place where it recorded or read the row.
Needing == {"dossier", "built", "captured", "memo", "memo_row", "memo_stage", "memo_ready",
            "spec", "spec_row", "spec_stage", "spec_ready", "rename", "add", "advance",
            "migrated", "legacy_stage"}
OrderHasRows == \A i \in DOMAIN order : row[order[i]] # NoRow
ScriptsHaveRows == \A p \in Scripts : script[p].pc \in Needing => row[script[p].src] # NoRow

TypeInv == IntakeTypeOK /\ OrderHasRows /\ ScriptsHaveRows

\* No step takes a row away.
RowsStay == \A s \in Sources : row[s] # NoRow => row'[s] # NoRow

-------------------------------------------------------------------------------
\* The types, as the steps use them.
LEMMA IntakeParts ==
  ASSUME IntakeTypeOK
  PROVE  /\ row \in [Sources -> Rows \cup {NoRow}] /\ order \in Seq(Sources)
         /\ script \in [Scripts -> Works \cup {Idle}] /\ Idle.pc = "idle"
         /\ inbox \in [Names -> Sources \cup {NoSource}]
         /\ folder \in [Names -> Folders] /\ flat \in [Names -> Flats \cup {NoFlat}]
         /\ hyp \in [Names -> Hyps \cup {NoHyp}]
         /\ archived \subseteq Sources /\ taken \subseteq Sources
         /\ spoilt \subseteq Sources /\ again \subseteq Sources
BY DEF IntakeTypeOK, Works, Idle

\* A row whose stage is set is a row; its folder and its name stay.
LEMMA StageSet ==
  ASSUME NEW r \in [Sources -> Rows \cup {NoRow}], NEW s \in Sources, r[s] # NoRow,
         NEW stage \in Stages, NEW q, q = [r EXCEPT ![s].stage = stage]
  PROVE  /\ q \in [Sources -> Rows \cup {NoRow}]
         /\ q[s].stage = stage /\ q[s].folder = r[s].folder
         /\ \A t \in Sources : /\ q[t] # NoRow <=> r[t] # NoRow
                               /\ t # s => q[t] = r[t]
<1>1. r[s] \in Rows OBVIOUS
<1> DEFINE w == [r[s] EXCEPT !.stage = stage]
<1>2. w \in Rows /\ w.stage = stage /\ w.folder = r[s].folder
  BY <1>1 DEF Rows
<1>3. q = [r EXCEPT ![s] = w] OBVIOUS
<1> HIDE DEF w
<1>4. w # NoRow BY <1>2, IntakeAssumption
<1> QED BY <1>2, <1>3, <1>4

\* A row whose name and folder are set is a row.
LEMMA Named ==
  ASSUME NEW w \in Rows, NEW n \in Names, NEW v, v = [w EXCEPT !.thesis = n, !.folder = n]
  PROVE  v \in Rows /\ v # NoRow /\ v.stage = w.stage /\ v.folder = n
BY IntakeAssumption DEF Rows

\* A folder of which one part is set is a folder.
LEMMA DossierSet ==
  ASSUME NEW f \in [Names -> Folders], NEW n \in Names, NEW g, g = [f EXCEPT ![n].dossier = TRUE]
  PROVE  g \in [Names -> Folders] /\ \A m \in Names : g[m].spec = f[m].spec
<1> DEFINE w == [f[n] EXCEPT !.dossier = TRUE]
<1>1. w \in Folders /\ w.spec = f[n].spec BY DEF Folders
<1>2. g = [f EXCEPT ![n] = w] OBVIOUS
<1> HIDE DEF w
<1> QED BY <1>1, <1>2
LEMMA MemoSet ==
  ASSUME NEW f \in [Names -> Folders], NEW n \in Names, NEW x \in Drafts,
         NEW g, g = [f EXCEPT ![n].memo = x]
  PROVE  g \in [Names -> Folders] /\ \A m \in Names : g[m].spec = f[m].spec
<1> DEFINE w == [f[n] EXCEPT !.memo = x]
<1>1. w \in Folders /\ w.spec = f[n].spec BY DEF Folders
<1>2. g = [f EXCEPT ![n] = w] OBVIOUS
<1> HIDE DEF w
<1> QED BY <1>1, <1>2
LEMMA SpecSet ==
  ASSUME NEW f \in [Names -> Folders], NEW n \in Names, NEW x \in Drafts,
         NEW g, g = [f EXCEPT ![n].spec = x]
  PROVE  /\ g \in [Names -> Folders] /\ g[n].spec = x
         /\ \A m \in Names : m # n => g[m].spec = f[m].spec
<1> DEFINE w == [f[n] EXCEPT !.spec = x]
<1>1. w \in Folders /\ w.spec = x BY DEF Folders
<1>2. g = [f EXCEPT ![n] = w] OBVIOUS
<1> HIDE DEF w
<1> QED BY <1>1, <1>2

\* The slug a source is registered under, and its folder, are names.
LEMMA SlugTyped ==
  ASSUME IntakeTypeOK, NEW s \in Sources, row[s] # NoRow
  PROVE  SlugOf(s) \in Names /\ row[s].folder \in Names /\ row[s].stage \in Stages
BY IntakeParts, IntakeAssumption DEF SlugOf, Rows

LEMMA NamedTyped == ASSUME IntakeTypeOK, NEW n \in Names, NEW s \in BySlug(n)
                    PROVE s \in Sources /\ row[s] \in Rows /\ row[s] # NoRow
BY DEF IntakeTypeOK, BySlug

\* A source in the batch has a row that is SPEC_READY.
LEMMA BatchTyped ==
  ASSUME TypeInv, NEW s \in Batch
  PROVE  s \in Sources /\ row[s] \in Rows /\ row[s] # NoRow /\ row[s].stage = "SPEC_READY"
<1>1. PICK i \in DOMAIN order : s = order[i] /\ row[order[i]].stage = "SPEC_READY"
  BY DEF Batch, Queue
<1>2. order[i] \in Sources BY DEF TypeInv, IntakeTypeOK
<1> QED BY <1>1, <1>2 DEF TypeInv, IntakeTypeOK, OrderHasRows

-------------------------------------------------------------------------------
\* What the operations on the two tables do.
LEMMA RecordTyped ==
  ASSUME TypeInv, NEW s \in Sources, NEW n \in Names, RecordIntake(s, n)
  PROVE  /\ row' \in [Sources -> Rows \cup {NoRow}] /\ order' \in Seq(Sources)
         /\ row'[s] # NoRow /\ RowsStay /\ OrderHasRows'
         /\ \A t \in Sources : row[t] # NoRow => row'[t] = row[t]
         /\ \A t \in Sources : row[t] = NoRow /\ row'[t] # NoRow => row'[t].stage = "CAPTURED"
<1>1. row \in [Sources -> Rows \cup {NoRow}] /\ order \in Seq(Sources)
  BY DEF TypeInv, IntakeTypeOK
<1>2. \A i \in DOMAIN order : row[order[i]] # NoRow BY DEF TypeInv, OrderHasRows
<1>3. CASE row[s] # NoRow
  BY <1>1, <1>2, <1>3 DEF RecordIntake, RowsStay, OrderHasRows
<1>4. CASE row[s] = NoRow
  <2> DEFINE w == [stage |-> "CAPTURED", slug |-> n, thesis |-> NoName, folder |-> n]
  <2>1. w \in Rows /\ w.stage = "CAPTURED" BY DEF Rows, Stages
  <2>2. row' = [row EXCEPT ![s] = w] /\ order' = Append(order, s)
    BY <1>4 DEF RecordIntake
  <2> HIDE DEF w
  <2>3. w # NoRow BY <2>1, IntakeAssumption
  <2>4. /\ order' \in Seq(Sources) /\ Len(order') = Len(order) + 1
        /\ \A i \in 1..Len(order) : order'[i] = order[i]
        /\ order'[Len(order) + 1] = s
    BY <1>1, <2>2, AppendProperties
  <2>5. OrderHasRows'
    <3> SUFFICES ASSUME NEW i \in DOMAIN order' PROVE row'[order'[i]] # NoRow BY DEF OrderHasRows
    <3>1. i \in 1..(Len(order) + 1) /\ Len(order) \in Nat BY <1>1, <2>4
    <3>2. CASE i \in 1..Len(order)
      <4>1. order'[i] = order[i] /\ order[i] \in Sources /\ row[order[i]] # NoRow
        BY <1>1, <1>2, <2>4, <3>2
      <4> QED BY <1>1, <2>2, <2>3, <4>1
    <3>3. CASE i = Len(order) + 1 BY <1>1, <2>2, <2>3, <2>4, <3>3
    <3> QED BY <3>1, <3>2, <3>3
  <2>6. \A t \in Sources : row'[t] = IF t = s THEN w ELSE row[t] BY <1>1, <2>2
  <2>7. row' \in [Sources -> Rows \cup {NoRow}] BY <1>1, <2>1, <2>2
  <2> QED BY <1>4, <2>1, <2>3, <2>4, <2>5, <2>6, <2>7 DEF RowsStay
<1> QED BY <1>3, <1>4

LEMMA StageTyped ==
  ASSUME TypeInv, NEW s \in Sources, row[s] # NoRow, NEW stage \in Stages, AdvanceStage(s, stage)
  PROVE  /\ row' \in [Sources -> Rows \cup {NoRow}] /\ again' \subseteq Sources /\ RowsStay
         /\ row'[s].stage = stage /\ row'[s].folder = row[s].folder /\ row'[s] # NoRow
         /\ \A t \in Sources : t # s => row'[t] = row[t]
         /\ again \subseteq again' /\ (row[s].stage = "DISCOVERED" => s \in again')
<1>1. row \in [Sources -> Rows \cup {NoRow}] /\ again \subseteq Sources
  BY IntakeParts DEF TypeInv
<1>2. row' = [row EXCEPT ![s].stage = stage] BY DEF AdvanceStage
<1>3. /\ row' \in [Sources -> Rows \cup {NoRow}]
      /\ row'[s].stage = stage /\ row'[s].folder = row[s].folder
      /\ \A t \in Sources : (row'[t] # NoRow <=> row[t] # NoRow) /\ (t # s => row'[t] = row[t])
  <2> DEFINE q == row'
  <2>1. q = [row EXCEPT ![s].stage = stage] BY <1>2
  <2> HIDE DEF q
  <2>2. /\ q \in [Sources -> Rows \cup {NoRow}]
        /\ q[s].stage = stage /\ q[s].folder = row[s].folder
        /\ \A t \in Sources : (q[t] # NoRow <=> row[t] # NoRow) /\ (t # s => q[t] = row[t])
    BY <1>1, <2>1, StageSet
  <2> QED BY <2>2 DEF q
<1>4. /\ again' \subseteq Sources /\ again \subseteq again'
      /\ row[s].stage = "DISCOVERED" => s \in again'
  BY <1>1 DEF AdvanceStage
<1> QED BY <1>3, <1>4 DEF RowsStay

LEMMA AddTyped ==
  ASSUME IntakeTypeOK, NEW n \in Names, NEW s \in Sources \cup {NoSource}, NEW refs \in BOOLEAN,
         AddHypothesis(n, s, refs)
  PROVE  /\ hyp' \in [Names -> Hyps \cup {NoHyp}] /\ taken' \subseteq Sources
         /\ hyp'[n] # NoHyp /\ hyp'[n].src = s /\ hyp'[n].refs = refs
         /\ \A m \in Names : m # n => hyp'[m] = hyp[m]
         /\ taken \subseteq taken'
         /\ \A t \in Sources : hyp[n] # NoHyp /\ hyp[n].src = t /\ t # s => t \in taken'
<1> DEFINE h == [src |-> s, refs |-> refs]
<1>1. h \in Hyps /\ h.src = s /\ h.refs = refs BY DEF Hyps
<1>2. hyp' = [hyp EXCEPT ![n] = h] BY DEF AddHypothesis
<1>3. hyp \in [Names -> Hyps \cup {NoHyp}] /\ taken \subseteq Sources
  BY IntakeParts
<1>4. hyp[n] # NoHyp => hyp[n].src \in Sources \cup {NoSource} BY <1>3 DEF Hyps
<1>5. taken' \subseteq Sources /\ taken \subseteq taken' BY <1>3, <1>4 DEF AddHypothesis
<1>6. \A t \in Sources : hyp[n] # NoHyp /\ hyp[n].src = t /\ t # s => t \in taken'
  BY IntakeAssumption DEF AddHypothesis
<1> HIDE DEF h
<1>7. h # NoHyp BY <1>1, IntakeAssumption
<1> QED BY <1>1, <1>2, <1>3, <1>5, <1>6, <1>7

-------------------------------------------------------------------------------
\* A script that works has a source and a name.
LEMMA Working ==
  ASSUME IntakeTypeOK, NEW p \in Scripts, NEW pc \in Steps, At(p, pc)
  PROVE  script[p] \in Works /\ script[p] # Idle
<1>1. Idle.pc = "idle" BY DEF Idle
<1>2. pc # "idle" BY DEF Steps
<1> QED BY <1>1, <1>2 DEF IntakeTypeOK, At, Works

\* What a script's next step makes of the scripts.
LEMMA ScriptGoes ==
  ASSUME NEW f \in [Scripts -> Works \cup {Idle}], NEW p \in Scripts, f[p] \in Works,
         NEW pc \in Steps, NEW g, g = [f EXCEPT ![p].pc = pc]
  PROVE  /\ g \in [Scripts -> Works \cup {Idle}]
         /\ g[p].pc = pc /\ g[p].src = f[p].src /\ g[p].name = f[p].name
         /\ \A q \in Scripts : q # p => g[q] = f[q]
<1> DEFINE w == [f[p] EXCEPT !.pc = pc]
<1>1. w \in Works /\ w.pc = pc /\ w.src = f[p].src /\ w.name = f[p].name
  BY DEF Works
<1>2. g = [f EXCEPT ![p] = w] OBVIOUS
<1> HIDE DEF w
<1> QED BY <1>1, <1>2

LEMMA GoesFrame ==
  ASSUME IntakeTypeOK, NEW p \in Scripts, NEW from \in Steps, NEW pc \in Steps,
         At(p, from), Goes(p, pc)
  PROVE  /\ script' \in [Scripts -> Works \cup {Idle}]
         /\ script'[p].pc = pc /\ script[p].pc = from /\ script'[p].src = script[p].src
         /\ script'[p].name = script[p].name
         /\ script[p].src \in Sources /\ script[p].name \in Names
         /\ \A q \in Scripts : q # p => script'[q] = script[q]
<1>1. script[p] \in Works /\ script \in [Scripts -> Works \cup {Idle}]
  BY Working, IntakeParts
<1> DEFINE g == script'
<1>2. g = [script EXCEPT ![p].pc = pc] BY DEF Goes
<1> HIDE DEF g
<1>3. /\ g \in [Scripts -> Works \cup {Idle}]
      /\ g[p].pc = pc /\ g[p].src = script[p].src /\ g[p].name = script[p].name
      /\ \A q \in Scripts : q # p => g[q] = script[q]
  BY <1>1, <1>2, ScriptGoes
<1>4. script[p].src \in Sources /\ script[p].name \in Names BY <1>1 DEF Works
<1> QED BY <1>3, <1>4 DEF At, g

LEMMA EndsFrame ==
  ASSUME IntakeTypeOK, NEW p \in Scripts, NEW from \in Steps, At(p, from), Ends(p)
  PROVE  /\ script' \in [Scripts -> Works \cup {Idle}]
         /\ script'[p].pc = "idle" /\ script[p].pc = from
         /\ script[p].src \in Sources /\ script[p].name \in Names
         /\ \A q \in Scripts : q # p => script'[q] = script[q]
<1>1. script[p] \in Works /\ script \in [Scripts -> Works \cup {Idle}] /\ Idle.pc = "idle"
  BY Working, IntakeParts
<1>2. script' = [script EXCEPT ![p] = Idle] BY DEF Ends
<1> QED BY <1>1, <1>2 DEF Works, At

LEMMA StartsFrame ==
  ASSUME IntakeTypeOK, NEW p \in Scripts, NEW pc \in Steps, NEW s \in Sources, NEW n \in Names,
         NEW unusual, Starts(p, pc, s, n, unusual)
  PROVE  /\ script' \in [Scripts -> Works \cup {Idle}]
         /\ script'[p].pc = pc /\ script[p].pc = "idle"
         /\ script'[p].src = s /\ script'[p].name = n
         /\ \A q \in Scripts : q # p => script'[q] = script[q]
<1> DEFINE w == [pc |-> pc, src |-> s, name |-> n]
<1>1. w \in Works /\ w.pc = pc /\ w.src = s /\ w.name = n BY DEF Works
<1>2. script[p] = Idle /\ script' = [script EXCEPT ![p] = w] BY DEF Starts
<1>3. script \in [Scripts -> Works \cup {Idle}] /\ Idle.pc = "idle" BY IntakeParts
<1> HIDE DEF w
<1> QED BY <1>1, <1>2, <1>3

\* One script moves, and its source has a row when it needs one.
LEMMA ScriptsTyped ==
  ASSUME TypeInv, NEW p \in Scripts, script' \in [Scripts -> Works \cup {Idle}],
         \A q \in Scripts : q # p => script'[q] = script[q],
         script'[p].pc \in Needing => row'[script'[p].src] # NoRow,
         RowsStay
  PROVE  ScriptsHaveRows'
<1> SUFFICES ASSUME NEW q \in Scripts, script'[q].pc \in Needing
             PROVE  row'[script'[q].src] # NoRow
  BY DEF ScriptsHaveRows
<1>1. CASE q = p BY <1>1
<1>2. CASE q # p
  <2>1. script'[q] = script[q] /\ row[script[q].src] # NoRow
    BY <1>2 DEF TypeInv, ScriptsHaveRows
  <2>2. script[q].src \in Sources
    <3>1. script[q] # Idle /\ script[q] \in Works \cup {Idle}
      BY <2>1, IntakeParts DEF TypeInv, Needing
    <3> QED BY <3>1 DEF Works
  <2> QED BY <2>1, <2>2 DEF RowsStay
<1> QED BY <1>1, <1>2

\* The same, of a step that leaves the rows.
LEMMA TurnTyped ==
  ASSUME TypeInv, NEW p \in Scripts, script' \in [Scripts -> Works \cup {Idle}],
         \A q \in Scripts : q # p => script'[q] = script[q],
         script'[p].pc \in Needing => row[script'[p].src] # NoRow,
         UNCHANGED <<row, order>>
  PROVE  OrderHasRows' /\ ScriptsHaveRows'
<1>1. RowsStay BY DEF RowsStay
<1>2. ScriptsHaveRows' BY <1>1, ScriptsTyped
<1>3. OrderHasRows' BY DEF TypeInv, OrderHasRows
<1> QED BY <1>2, <1>3

LEMMA GoesTyped ==
  ASSUME TypeInv, NEW p \in Scripts, NEW from \in Steps, NEW pc \in Steps,
         At(p, from), Goes(p, pc), UNCHANGED <<row, order>>,
         from \in Needing \/ pc \notin Needing
  PROVE  script' \in [Scripts -> Works \cup {Idle}] /\ OrderHasRows' /\ ScriptsHaveRows'
<1>1. /\ script' \in [Scripts -> Works \cup {Idle}]
      /\ script'[p].pc = pc /\ script[p].pc = from /\ script'[p].src = script[p].src
      /\ \A q \in Scripts : q # p => script'[q] = script[q]
  BY GoesFrame DEF TypeInv
<1>2. script'[p].pc \in Needing => row[script'[p].src] # NoRow
  BY <1>1 DEF TypeInv, ScriptsHaveRows
<1> QED BY <1>1, <1>2, TurnTyped

LEMMA EndsTyped ==
  ASSUME TypeInv, NEW p \in Scripts, NEW from \in Steps, At(p, from), Ends(p),
         RowsStay, OrderHasRows'
  PROVE  script' \in [Scripts -> Works \cup {Idle}] /\ OrderHasRows' /\ ScriptsHaveRows'
<1>1. /\ script' \in [Scripts -> Works \cup {Idle}]
      /\ script'[p].pc = "idle" /\ \A q \in Scripts : q # p => script'[q] = script[q]
  BY EndsFrame DEF TypeInv
<1>2. script'[p].pc \notin Needing BY <1>1 DEF Needing
<1> QED BY <1>1, <1>2, ScriptsTyped

LEMMA StartsTyped ==
  ASSUME TypeInv, NEW p \in Scripts, NEW pc \in Steps, NEW s \in Sources, NEW n \in Names,
         NEW unusual, Starts(p, pc, s, n, unusual), UNCHANGED <<row, order>>,
         pc \in Needing => row[s] # NoRow
  PROVE  script' \in [Scripts -> Works \cup {Idle}] /\ OrderHasRows' /\ ScriptsHaveRows'
<1>1. /\ script' \in [Scripts -> Works \cup {Idle}] /\ script'[p].pc = pc /\ script'[p].src = s
      /\ \A q \in Scripts : q # p => script'[q] = script[q]
  BY StartsFrame DEF TypeInv
<1> QED BY <1>1, TurnTyped

-------------------------------------------------------------------------------
\* What each step does to the types.
LEMMA AdvancesTyped ==
  ASSUME TypeInv, NEW p \in Scripts, NEW pc \in Needing, NEW stage \in Stages,
         Advances(p, pc, stage)
  PROVE  TypeInv'
<1>0. /\ order \in Seq(Sources) /\ inbox \in [Names -> Sources \cup {NoSource}]
      /\ folder \in [Names -> Folders] /\ flat \in [Names -> Flats \cup {NoFlat}]
      /\ hyp \in [Names -> Hyps \cup {NoHyp}]
      /\ archived \subseteq Sources /\ taken \subseteq Sources /\ spoilt \subseteq Sources
  BY IntakeParts DEF TypeInv
<1>1. pc \in Steps BY DEF Needing, Steps
<1>2. script[p].src \in Sources /\ script[p].pc = pc BY <1>1, EndsFrame DEF Advances, TypeInv
<1>3. row[script[p].src] # NoRow BY <1>2 DEF TypeInv, ScriptsHaveRows
<1>4. row' \in [Sources -> Rows \cup {NoRow}] /\ again' \subseteq Sources /\ RowsStay
  BY <1>2, <1>3, StageTyped DEF Advances
<1>5. OrderHasRows'
  <2>1. \A i \in DOMAIN order : order[i] \in Sources BY <1>0
  <2> QED BY <1>4, <2>1 DEF TypeInv, OrderHasRows, RowsStay, Advances
<1>6. script' \in [Scripts -> Works \cup {Idle}] /\ ScriptsHaveRows'
  BY <1>1, <1>4, <1>5, EndsTyped DEF Advances
<1> QED BY <1>0, <1>4, <1>5, <1>6 DEF TypeInv, IntakeTypeOK, Advances, Works

LEMMA CarryTyped ==
  ASSUME TypeInv, NEW p \in Scripts, Carries(p)
  PROVE  TypeInv'
<1>0. /\ row \in [Sources -> Rows \cup {NoRow}] /\ order \in Seq(Sources)
      /\ inbox \in [Names -> Sources \cup {NoSource}]
      /\ folder \in [Names -> Folders] /\ flat \in [Names -> Flats \cup {NoFlat}]
      /\ hyp \in [Names -> Hyps \cup {NoHyp}]
      /\ archived \subseteq Sources /\ taken \subseteq Sources
      /\ spoilt \subseteq Sources /\ again \subseteq Sources
      /\ IntakeTypeOK /\ OrderHasRows
  BY IntakeParts DEF TypeInv
<1>00. /\ {"DOSSIER_READY", "MEMO_READY", "SPEC_READY", "DISCOVERED"} \subseteq Stages
       /\ {"todo", "filled"} \subseteq Drafts
  BY DEF Stages, Drafts
<1>01. UNCHANGED <<row, order>> => RowsStay /\ OrderHasRows'
  BY <1>0 DEF RowsStay, OrderHasRows
<1>1. CASE ArchiveSourceItem(p)
  <2>1. script[p].src \in Sources BY <1>0, <1>1, GoesFrame DEF ArchiveSourceItem, Steps
  <2>2. archived' \subseteq Sources BY <1>0, <1>1, <2>1 DEF ArchiveSourceItem
  <2>3. script' \in [Scripts -> Works \cup {Idle}] /\ OrderHasRows' /\ ScriptsHaveRows'
    BY <1>1, GoesTyped DEF ArchiveSourceItem, Steps, Needing
  <2> QED BY <1>0, <1>1, <2>2, <2>3 DEF ArchiveSourceItem, TypeInv, IntakeTypeOK, Works
<1>2. CASE CandidateToInbox(p)
  <2>1. script[p].src \in Sources /\ script[p].name \in Names
    BY <1>0, <1>2, GoesFrame DEF CandidateToInbox, Steps
  <2>2. inbox' \in [Names -> Sources \cup {NoSource}] BY <1>0, <1>2, <2>1 DEF CandidateToInbox
  <2>3. script' \in [Scripts -> Works \cup {Idle}] /\ OrderHasRows' /\ ScriptsHaveRows'
    BY <1>2, GoesTyped DEF CandidateToInbox, Steps, Needing
  <2> QED BY <1>0, <1>2, <2>2, <2>3 DEF CandidateToInbox, TypeInv, IntakeTypeOK, Works
<1>3. CASE CaptureIntake(p)
  <2>1. script[p].src \in Sources /\ script[p].name \in Names
    BY <1>0, <1>3, EndsFrame DEF CaptureIntake, Steps
  <2>2. /\ row' \in [Sources -> Rows \cup {NoRow}] /\ order' \in Seq(Sources)
        /\ RowsStay /\ OrderHasRows'
    <3>1. CASE RecordIntake(script[p].src, script[p].name) BY <2>1, <3>1, RecordTyped
    <3>2. CASE UNCHANGED <<row, order>> BY <1>0, <1>01, <3>2
    <3> QED BY <1>3, <3>1, <3>2 DEF CaptureIntake
  <2>3. script' \in [Scripts -> Works \cup {Idle}] /\ ScriptsHaveRows'
    BY <1>3, <2>2, EndsTyped DEF CaptureIntake, Steps
  <2> QED BY <1>0, <1>3, <2>2, <2>3 DEF CaptureIntake, TypeInv, IntakeTypeOK, Works
<1>4. CASE BuildWrite(p)
  <2>1. script[p].name \in Names BY <1>0, <1>4, GoesFrame DEF BuildWrite, Steps
  <2>2. folder' \in [Names -> Folders]
    <3>1. folder' = [folder EXCEPT ![script[p].name].dossier = TRUE] BY <1>4 DEF BuildWrite
    <3> QED BY <1>0, <2>1, <3>1, DossierSet
  <2>3. script' \in [Scripts -> Works \cup {Idle}] /\ OrderHasRows' /\ ScriptsHaveRows'
    BY <1>4, GoesTyped DEF BuildWrite, Steps, Needing
  <2> QED BY <1>0, <1>4, <2>2, <2>3 DEF BuildWrite, TypeInv, IntakeTypeOK, Works
<1>5. CASE BuildRead(p)
  <2>1. UNCHANGED store /\ UNCHANGED <<spoilt, again>> BY <1>5 DEF BuildRead
  <2>2. script' \in [Scripts -> Works \cup {Idle}] /\ OrderHasRows' /\ ScriptsHaveRows'
    <3>1. CASE Goes(p, "captured")
      BY <1>5, <2>1, <3>1, GoesTyped DEF BuildRead, Steps, Needing, store
    <3>2. CASE Ends(p) BY <1>01, <1>5, <2>1, <3>2, EndsTyped DEF BuildRead, Steps, store
    <3> QED BY <1>5, <3>1, <3>2 DEF BuildRead
  <2> QED BY <1>0, <2>1, <2>2 DEF store, TypeInv, IntakeTypeOK, Works
<1>6. CASE MemoWrite(p)
  <2>1. PICK from \in {"memo", "memo_row"} :
          At(p, from) /\ (Ends(p) \/ (from = "memo_row" /\ Goes(p, "memo_stage")))
    BY <1>6 DEF MemoWrite
  <2>2. from \in Steps /\ "memo_stage" \in Steps /\ "memo_row" \in Needing BY DEF Steps, Needing
  <2>3. script[p].name \in Names
    BY <1>0, <2>1, <2>2, GoesFrame, EndsFrame
  <2>4. folder' \in [Names -> Folders]
    <3>1. folder' = [folder EXCEPT ![script[p].name].memo = "todo"] BY <1>6 DEF MemoWrite
    <3> QED BY <1>0, <1>00, <2>3, <3>1, MemoSet
  <2>5. UNCHANGED <<archived, inbox, row, order, flat, hyp, taken, spoilt, again>>
    BY <1>6 DEF MemoWrite
  <2>6. script' \in [Scripts -> Works \cup {Idle}] /\ OrderHasRows' /\ ScriptsHaveRows'
    <3>1. CASE Ends(p) BY <1>01, <2>1, <2>2, <2>5, <3>1, EndsTyped
    <3>2. CASE from = "memo_row" /\ Goes(p, "memo_stage") BY <2>1, <2>2, <2>5, <3>2, GoesTyped
    <3> QED BY <2>1, <3>1, <3>2
  <2> QED BY <1>0, <2>4, <2>5, <2>6 DEF TypeInv, IntakeTypeOK, Works
<1>7. CASE SpecWrite(p)
  <2>1. PICK from \in {"spec", "spec_row"} :
          At(p, from) /\ (Ends(p) \/ (from = "spec_row" /\ Goes(p, "spec_stage")))
    BY <1>7 DEF SpecWrite
  <2>2. from \in Steps /\ "spec_stage" \in Steps /\ "spec_row" \in Needing BY DEF Steps, Needing
  <2>3. script[p].name \in Names
    BY <1>0, <2>1, <2>2, GoesFrame, EndsFrame
  <2>4. folder' \in [Names -> Folders] /\ spoilt' \subseteq Sources
    <3>1. CASE UNCHANGED <<folder, spoilt>> BY <1>0, <3>1
    <3>2. CASE /\ folder' = [folder EXCEPT ![script[p].name].spec = "todo"]
               /\ spoilt' = IF folder[script[p].name].spec # "filled" THEN spoilt
                            ELSE spoilt \cup {s \in Sources : row[s] # NoRow /\ row[s].folder = script[p].name}
      <4>1. folder' \in [Names -> Folders] BY <1>0, <1>00, <2>3, <3>2, SpecSet
      <4> QED BY <1>0, <3>2, <4>1
    <3> QED BY <1>7, <3>1, <3>2 DEF SpecWrite
  <2>5. UNCHANGED <<archived, inbox, row, order, flat, hyp, taken, again>>
    BY <1>7 DEF SpecWrite
  <2>6. script' \in [Scripts -> Works \cup {Idle}] /\ OrderHasRows' /\ ScriptsHaveRows'
    <3>1. CASE Ends(p) BY <1>01, <2>1, <2>2, <2>5, <3>1, EndsTyped
    <3>2. CASE from = "spec_row" /\ Goes(p, "spec_stage") BY <2>1, <2>2, <2>5, <3>2, GoesTyped
    <3> QED BY <2>1, <3>1, <3>2
  <2> QED BY <1>0, <2>4, <2>5, <2>6 DEF TypeInv, IntakeTypeOK, Works
<1>8. CASE \/ BuildAdvance(p) \/ MemoStage(p) \/ MemoReady(p) \/ SpecStage(p)
           \/ DiscoverAdvance(p) \/ MigrateAdvance(p)
  BY <1>00, <1>8, AdvancesTyped
     DEF BuildAdvance, MemoStage, MemoReady, SpecStage, DiscoverAdvance, MigrateAdvance, Needing
<1>9. CASE SpecReady(p)
  <2>1. script[p].src \in Sources /\ script[p].pc = "spec_ready"
    BY <1>0, <1>9, EndsFrame DEF SpecReady, Steps
  <2>2. row[script[p].src] # NoRow BY <2>1 DEF TypeInv, ScriptsHaveRows, Needing
  <2>3. row' \in [Sources -> Rows \cup {NoRow}] /\ again' \subseteq Sources /\ RowsStay
    BY <1>00, <1>9, <2>1, <2>2, StageTyped DEF SpecReady
  <2>4. UNCHANGED <<archived, inbox, order, folder, flat, hyp, taken>> BY <1>9 DEF SpecReady
  <2>5. OrderHasRows'
    <3>1. \A i \in DOMAIN order : order[i] \in Sources BY <1>0
    <3> QED BY <1>0, <2>3, <2>4, <3>1 DEF OrderHasRows, RowsStay
  <2>6. script' \in [Scripts -> Works \cup {Idle}] /\ ScriptsHaveRows'
    BY <1>9, <2>3, <2>5, EndsTyped DEF SpecReady, Steps
  <2>7. spoilt' \subseteq Sources BY <1>0, <1>9 DEF SpecReady, Settled
  <2> QED BY <1>0, <2>3, <2>4, <2>5, <2>6, <2>7 DEF TypeInv, IntakeTypeOK, Works
<1>10. CASE SetThesisIdentity(p)
  <2> DEFINE s == script[p].src
             n == script[p].name
             w == row[s]
             v == [w EXCEPT !.thesis = n, !.folder = n]
  <2>1. script[p].pc = "rename" /\ s \in Sources /\ n \in Names
    BY <1>0, <1>10, EndsFrame DEF SetThesisIdentity, Steps
  <2>2. w # NoRow /\ w \in Rows
    BY <1>0, <2>1 DEF TypeInv, ScriptsHaveRows, Needing
  <2>3. row' = [row EXCEPT ![s] = v] BY <1>0, <1>10, <2>1, <2>2 DEF SetThesisIdentity
  <2>4. spoilt' \subseteq Sources BY <1>0, <1>10 DEF SetThesisIdentity, Settled
  <2> HIDE DEF s, n, w
  <2>5. v \in Rows /\ v # NoRow BY <2>1, <2>2, Named
  <2> HIDE DEF v
  <2>6. row' \in [Sources -> Rows \cup {NoRow}] /\ RowsStay
    BY <1>0, <2>1, <2>3, <2>5 DEF RowsStay
  <2>7. UNCHANGED <<archived, inbox, order, folder, flat, hyp, taken, again>>
    BY <1>10 DEF SetThesisIdentity
  <2>8. OrderHasRows'
    <3>1. \A i \in DOMAIN order : order[i] \in Sources BY <1>0
    <3> QED BY <1>0, <2>6, <2>7, <3>1 DEF OrderHasRows, RowsStay
  <2>9. script' \in [Scripts -> Works \cup {Idle}] /\ ScriptsHaveRows'
    BY <1>10, <2>6, <2>8, EndsTyped DEF SetThesisIdentity, Steps
  <2> QED BY <1>0, <2>4, <2>6, <2>7, <2>8, <2>9 DEF TypeInv, IntakeTypeOK, Works
<1>11. CASE DiscoverAdd(p) \/ CandidateAdd(p)
  <2>1. PICK from \in {"add", "candidate"}, pc \in {"advance", "move"} :
          At(p, from) /\ Goes(p, pc) /\ (from = "add" \/ pc = "move")
    BY <1>11 DEF DiscoverAdd, CandidateAdd
  <2>2. from \in Steps /\ pc \in Steps /\ (from \in Needing \/ pc \notin Needing)
    BY <2>1 DEF Steps, Needing
  <2>3. script[p].src \in Sources /\ script[p].name \in Names BY <1>0, <2>1, <2>2, GoesFrame
  <2>4. AddHypothesis(script[p].name, script[p].src, FALSE)
    BY <1>11 DEF DiscoverAdd, CandidateAdd
  <2>5. hyp' \in [Names -> Hyps \cup {NoHyp}] /\ taken' \subseteq Sources
    BY <1>0, <2>3, <2>4, AddTyped
  <2>6. UNCHANGED <<archived, inbox, row, order, folder, flat, spoilt>> /\ again' \subseteq Sources
    BY <1>0, <1>11, <2>3 DEF DiscoverAdd, CandidateAdd
  <2>7. script' \in [Scripts -> Works \cup {Idle}] /\ OrderHasRows' /\ ScriptsHaveRows'
    BY <2>1, <2>2, <2>6, GoesTyped
  <2> QED BY <1>0, <2>5, <2>6, <2>7 DEF TypeInv, IntakeTypeOK, Works
<1>12. CASE MoveInbox(p)
  <2>1. inbox' \in [Names -> Sources \cup {NoSource}] BY <1>0, <1>12 DEF MoveInbox
  <2>2. script' \in [Scripts -> Works \cup {Idle}] /\ OrderHasRows' /\ ScriptsHaveRows'
    BY <1>01, <1>12, EndsTyped DEF MoveInbox, Steps
  <2> QED BY <1>0, <1>12, <2>1, <2>2 DEF MoveInbox, TypeInv, IntakeTypeOK, Works
<1>13. CASE MigrateIntake(p)
  <2>1. PICK from \in {"migrate", "legacy"}, pc \in {"migrated", "legacy_stage"} :
          At(p, from) /\ Goes(p, pc)
    BY <1>13 DEF MigrateIntake
  <2>2. from \in Steps /\ pc \in Steps BY DEF Steps
  <2>3. /\ script' \in [Scripts -> Works \cup {Idle}] /\ script'[p].src = script[p].src
        /\ script[p].src \in Sources /\ script[p].name \in Names
        /\ \A q \in Scripts : q # p => script'[q] = script[q]
    BY <1>0, <2>1, <2>2, GoesFrame
  <2>4. /\ row' \in [Sources -> Rows \cup {NoRow}] /\ order' \in Seq(Sources)
        /\ row'[script[p].src] # NoRow /\ RowsStay /\ OrderHasRows'
    BY <1>13, <2>3, RecordTyped DEF MigrateIntake
  <2>5. ScriptsHaveRows' BY <2>3, <2>4, ScriptsTyped
  <2> QED BY <1>0, <1>13, <2>3, <2>4, <2>5 DEF MigrateIntake, TypeInv, IntakeTypeOK, Works
<1>14. CASE MigrateDiscovers(p)
  <2>1. /\ script' \in [Scripts -> Works \cup {Idle}] /\ script'[p].src = script[p].src
        /\ script[p].src \in Sources /\ script[p].pc = "legacy_stage"
        /\ \A q \in Scripts : q # p => script'[q] = script[q]
    BY <1>0, <1>14, GoesFrame DEF MigrateDiscovers, Steps
  <2>2. row[script[p].src] # NoRow BY <2>1 DEF TypeInv, ScriptsHaveRows, Needing
  <2>3. /\ row' \in [Sources -> Rows \cup {NoRow}] /\ again' \subseteq Sources /\ RowsStay
        /\ row'[script[p].src] # NoRow
    BY <1>00, <1>14, <2>1, <2>2, StageTyped DEF MigrateDiscovers
  <2>4. UNCHANGED <<archived, inbox, order, folder, flat, hyp, taken>> BY <1>14 DEF MigrateDiscovers
  <2>5. OrderHasRows'
    <3>1. \A i \in DOMAIN order : order[i] \in Sources BY <1>0
    <3> QED BY <1>0, <2>3, <2>4, <3>1 DEF OrderHasRows, RowsStay
  <2>6. ScriptsHaveRows' BY <2>1, <2>3, ScriptsTyped
  <2>7. spoilt' \subseteq Sources BY <1>0, <1>14, <2>1 DEF MigrateDiscovers
  <2> QED BY <1>0, <2>1, <2>3, <2>4, <2>5, <2>6, <2>7 DEF TypeInv, IntakeTypeOK, Works
<1> QED BY <1>1, <1>2, <1>3, <1>4, <1>5, <1>6, <1>7, <1>8, <1>9, <1>10, <1>11, <1>12, <1>13, <1>14
        DEF Carries

\* What a script that begins, or dies, does to the types.
LEMMA BeginTyped ==
  ASSUME TypeInv, NEW p \in Scripts,
         \/ Discovers(p) \/ ScriptDies(p)
         \/ \E s \in Sources : \/ CaptureItem(p, s)
                               \/ \E f \in BOOLEAN : BuildIntake(p, s, f)
         \/ \E n \in Names : \/ RegisterCandidate(p, n) \/ MigrateMove(p, n) \/ MigrateFlat(p, n)
                             \/ \E s \in BySlug(n) : OnSlug(p, s)
  PROVE  TypeInv'
<1>0. /\ row \in [Sources -> Rows \cup {NoRow}] /\ order \in Seq(Sources)
      /\ inbox \in [Names -> Sources \cup {NoSource}]
      /\ folder \in [Names -> Folders] /\ flat \in [Names -> Flats \cup {NoFlat}]
      /\ hyp \in [Names -> Hyps \cup {NoHyp}]
      /\ archived \subseteq Sources /\ taken \subseteq Sources
      /\ spoilt \subseteq Sources /\ again \subseteq Sources
      /\ IntakeTypeOK /\ OrderHasRows
  BY IntakeParts DEF TypeInv
<1>00. {"todo", "filled"} \subseteq Drafts BY DEF Drafts
<1>01. UNCHANGED <<row, order>> => RowsStay /\ OrderHasRows'
  BY <1>0 DEF RowsStay, OrderHasRows
<1>02. CaptureSlug \in [Sources -> Names] BY IntakeAssumption
\* A script that begins and leaves the tables and the files alone.
<1>03. ASSUME NEW pc \in Steps, NEW s \in Sources, NEW n \in Names, NEW unusual,
              Starts(p, pc, s, n, unusual), pc \in Needing => row[s] # NoRow,
              UNCHANGED store, spoilt' \subseteq Sources, again' \subseteq Sources
       PROVE  TypeInv'
  <2>1. UNCHANGED <<row, order>> BY <1>03 DEF store
  <2>2. script' \in [Scripts -> Works \cup {Idle}] /\ OrderHasRows' /\ ScriptsHaveRows'
    BY <1>03, <2>1, StartsTyped
  <2> QED BY <1>0, <1>03, <2>2 DEF TypeInv, IntakeTypeOK, Works, store
<1>1. ASSUME NEW s \in Sources, RegisterFromIngestion(p, s) PROVE TypeInv'
  <2>1. row[s] # NoRow BY <1>1, BatchTyped DEF RegisterFromIngestion
  <2>2. SlugOf(s) \in Names BY <1>0, <2>1, SlugTyped
  <2> DEFINE n == SlugOf(s)
  <2>3. Starts(p, "add", s, n, 0) BY <1>1 DEF RegisterFromIngestion
  <2>4. UNCHANGED store /\ spoilt' \subseteq Sources /\ again' \subseteq Sources
    BY <1>0, <1>1 DEF RegisterFromIngestion
  <2>5. "add" \in Steps BY DEF Steps
  <2> HIDE DEF n
  <2>6. n \in Names BY <2>2 DEF n
  <2> QED BY <1>03, <2>1, <2>3, <2>4, <2>5, <2>6
<1>2. CASE ScriptDies(p)
  <2>1. UNCHANGED store /\ spoilt' = spoilt BY <1>2 DEF ScriptDies
  <2>2. PICK pc \in Steps : At(p, pc)
    BY <1>2, IntakeParts DEF ScriptDies, TypeInv, At, Works
  <2>3. script[p].src \in Sources BY <1>0, <1>2, <2>2, EndsFrame DEF ScriptDies
  <2>4. again' \subseteq Sources BY <1>0, <1>2, <2>3 DEF ScriptDies
  <2>5. RowsStay /\ OrderHasRows' BY <1>01, <2>1 DEF store
  <2>6. script' \in [Scripts -> Works \cup {Idle}] /\ ScriptsHaveRows'
    BY <1>2, <2>2, <2>5, EndsTyped DEF ScriptDies
  <2> QED BY <1>0, <2>1, <2>4, <2>5, <2>6 DEF TypeInv, IntakeTypeOK, Works, store
<1>3. ASSUME NEW s \in Sources, CaptureItem(p, s) PROVE TypeInv'
  <2> DEFINE n == CaptureSlug[s]
  <2>1. n \in Names BY <1>02
  <2>2. Starts(p, "archive", s, n, 0) BY <1>3 DEF CaptureItem
  <2>3. UNCHANGED store /\ spoilt' \subseteq Sources /\ again' \subseteq Sources
    BY <1>0, <1>3 DEF CaptureItem
  <2>4. "archive" \in Steps /\ "archive" \notin Needing BY DEF Steps, Needing
  <2> HIDE DEF n
  <2> QED BY <1>03, <2>1, <2>2, <2>3, <2>4
<1>4. ASSUME NEW s \in Sources, NEW f \in BOOLEAN, BuildIntake(p, s, f) PROVE TypeInv'
  <2> DEFINE n == CaptureSlug[s]
  <2>1. n \in Names BY <1>02
  <2>2. RecordIntake(s, n) BY <1>4 DEF BuildIntake
  <2>3. script' = script \/ Starts(p, "dossier", s, n, Forced(f)) BY <1>4 DEF BuildIntake
  <2>4. UNCHANGED <<archived, inbox, folder, flat, hyp, taken, spoilt, again>> BY <1>4 DEF BuildIntake
  <2> HIDE DEF n
  <2>5. /\ row' \in [Sources -> Rows \cup {NoRow}] /\ order' \in Seq(Sources)
        /\ row'[s] # NoRow /\ RowsStay /\ OrderHasRows'
    BY <2>1, <2>2, RecordTyped
  <2>6. script' \in [Scripts -> Works \cup {Idle}] /\ ScriptsHaveRows'
    <3>1. CASE script' = script
      <4>1. \A q \in Scripts : script[q].pc \in Needing => script[q].src \in Sources
        BY IntakeParts DEF TypeInv, Works, Needing
      <4> QED BY <2>5, <3>1, <4>1, IntakeParts DEF TypeInv, ScriptsHaveRows, RowsStay
    <3>2. CASE Starts(p, "dossier", s, n, Forced(f))
      <4>1. "dossier" \in Steps BY DEF Steps
      <4>2. /\ script' \in [Scripts -> Works \cup {Idle}] /\ script'[p].src = s
            /\ \A q \in Scripts : q # p => script'[q] = script[q]
        BY <1>0, <2>1, <3>2, <4>1, StartsFrame
      <4> QED BY <2>5, <4>2, ScriptsTyped
    <3> QED BY <2>3, <3>1, <3>2
  <2> QED BY <1>0, <2>4, <2>5, <2>6 DEF TypeInv, IntakeTypeOK, Works
<1>5. ASSUME NEW n \in Names, RegisterCandidate(p, n) PROVE TypeInv'
  <2>1. inbox[n] \in Sources BY <1>0, <1>5 DEF RegisterCandidate, InboxCandidate
  <2>2. flat' \in [Names -> Flats \cup {NoFlat}]
    <3>1. [src |-> inbox[n], spec |-> FALSE] \in Flats BY <2>1 DEF Flats
    <3> QED BY <1>0, <1>5, <3>1 DEF RegisterCandidate
  <2>3. UNCHANGED <<archived, inbox, row, order, folder, hyp, taken, spoilt, again>>
    BY <1>5 DEF RegisterCandidate
  <2>4. script' \in [Scripts -> Works \cup {Idle}] /\ OrderHasRows' /\ ScriptsHaveRows'
    <3>1. "candidate" \in Steps /\ "candidate" \notin Needing BY DEF Steps, Needing
    <3> DEFINE s == inbox[n]
    <3>2. Starts(p, "candidate", s, n, 1) /\ s \in Sources BY <1>5, <2>1 DEF RegisterCandidate
    <3> HIDE DEF s
    <3> QED BY <2>3, <3>1, <3>2, StartsTyped
  <2> QED BY <1>0, <2>2, <2>3, <2>4 DEF TypeInv, IntakeTypeOK, Works
<1>6. ASSUME NEW n \in Names, MigrateMove(p, n) PROVE TypeInv'
  <2>1. inbox[n] \in Sources BY <1>0, <1>6 DEF MigrateMove
  <2>2. folder' \in [Names -> Folders]
    <3>1. folder' = [folder EXCEPT ![n].dossier = TRUE] BY <1>6 DEF MigrateMove
    <3> QED BY <1>0, <3>1, DossierSet
  <2>3. /\ UNCHANGED <<archived, row, order, flat, hyp, taken, spoilt, again>>
        /\ inbox' \in [Names -> Sources \cup {NoSource}]
    BY <1>0, <1>6 DEF MigrateMove
  <2>4. script' \in [Scripts -> Works \cup {Idle}] /\ OrderHasRows' /\ ScriptsHaveRows'
    <3>1. "migrate" \in Steps /\ "migrate" \notin Needing BY DEF Steps, Needing
    <3> DEFINE s == inbox[n]
    <3>2. Starts(p, "migrate", s, n, 1) /\ s \in Sources BY <1>6, <2>1 DEF MigrateMove
    <3> HIDE DEF s
    <3> QED BY <2>3, <3>1, <3>2, StartsTyped
  <2> QED BY <1>0, <2>2, <2>3, <2>4 DEF TypeInv, IntakeTypeOK, Works
<1>7. ASSUME NEW n \in Names, MigrateFlat(p, n) PROVE TypeInv'
  <2>1. flat[n].src \in Sources BY <1>0, <1>7 DEF MigrateFlat, Flats
  <2>2. folder' \in [Names -> Folders]
    <3>1. CASE folder' = [folder EXCEPT ![n].dossier = TRUE] BY <1>0, <3>1, DossierSet
    <3>2. CASE folder' = [folder EXCEPT ![n].spec = "filled"] BY <1>0, <1>00, <3>2, SpecSet
    <3> QED BY <1>7, <3>1, <3>2 DEF MigrateFlat
  <2>3. /\ UNCHANGED <<archived, inbox, row, order, hyp, taken, spoilt, again>>
        /\ flat' \in [Names -> Flats \cup {NoFlat}]
    BY <1>0, <1>7 DEF MigrateFlat
  <2>4. script' \in [Scripts -> Works \cup {Idle}] /\ OrderHasRows' /\ ScriptsHaveRows'
    <3> DEFINE s == flat[n].src
    <3>1. PICK pc \in {"legacy", "migrate"} : Starts(p, pc, s, n, 1) BY <1>7 DEF MigrateFlat
    <3>2. pc \in Steps /\ pc \notin Needing BY DEF Steps, Needing
    <3>3. s \in Sources BY <2>1
    <3> HIDE DEF s
    <3> QED BY <2>3, <3>1, <3>2, <3>3, StartsTyped
  <2> QED BY <1>0, <2>2, <2>3, <2>4 DEF TypeInv, IntakeTypeOK, Works
<1>8. ASSUME NEW k \in Names, NEW s \in BySlug(k), OnSlug(p, s) PROVE TypeInv'
  <2>0. s \in Sources /\ row[s] # NoRow BY <1>0, NamedTyped
  <2>1. row[s].folder \in Names BY <1>0, <2>0, SlugTyped
  <2> DEFINE old == row[s].folder
  <2>2. ASSUME NEW m \in Names, AssignRename(p, s, m) PROVE TypeInv'
    <3>1. folder' \in [Names -> Folders] /\ spoilt' \subseteq Sources
      <4>1. NoFolder \in Folders BY DEF NoFolder, Folders, Drafts
      <4>2. folder[old] \in Folders BY <1>0, <2>1
      <4>3. /\ folder' = IF m = old THEN folder
                         ELSE [folder EXCEPT ![m] = folder[old], ![old] = NoFolder]
            /\ spoilt' = IF m = old THEN spoilt
                         ELSE spoilt \cup {t \in Sources : row[t] # NoRow /\ row[t].folder = old}
        BY <2>2 DEF AssignRename
      <4>4. old \in Names BY <2>1
      <4> HIDE DEF old
      <4> QED BY <1>0, <4>1, <4>2, <4>3, <4>4
    <3>2. UNCHANGED <<archived, inbox, row, order, flat, hyp, taken, again>> BY <2>2 DEF AssignRename
    <3>3. script' \in [Scripts -> Works \cup {Idle}] /\ OrderHasRows' /\ ScriptsHaveRows'
      <4>1. "rename" \in Steps BY DEF Steps
      <4>2. Starts(p, "rename", s, m, 1) BY <2>2 DEF AssignRename
      <4> QED BY <2>0, <3>2, <4>1, <4>2, StartsTyped
    <3> QED BY <1>0, <3>1, <3>2, <3>3 DEF TypeInv, IntakeTypeOK, Works
  <2>3. ASSUME ~\E m \in Names : AssignRename(p, s, m) PROVE TypeInv'
    <3>1. \E pc \in {"memo", "memo_row", "memo_ready", "spec", "spec_row", "spec_ready"}, u \in {0, 1} :
             Starts(p, pc, s, old, u)
      BY <1>8, <2>3 DEF OnSlug, ScaffoldMemo, ScaffoldSpec, FinalizeMemo, FinalizeSpec, Forced
    <3>2. UNCHANGED store /\ spoilt' \subseteq Sources /\ again' \subseteq Sources
      BY <1>0, <1>8, <2>3 DEF OnSlug, ScaffoldMemo, ScaffoldSpec, FinalizeMemo, FinalizeSpec
    <3>3. {"memo", "memo_row", "memo_ready", "spec", "spec_row", "spec_ready"} \subseteq Steps
      BY DEF Steps
    <3>4. old \in Names BY <2>1
    <3> HIDE DEF old
    <3> QED BY <1>03, <2>0, <3>1, <3>2, <3>3, <3>4
  <2> QED BY <2>2, <2>3
<1> QED BY <1>1, <1>2, <1>3, <1>4, <1>5, <1>6, <1>7, <1>8 DEF Discovers

\* What a file does that is edited or proposed outside those scripts.
LEMMA EditTyped ==
  ASSUME TypeInv, NEW n \in Names,
         FillIn(n) \/ \E s \in Urls(n), refs \in BOOLEAN : Propose(n, s, refs)
  PROVE  TypeInv'
<1>0. /\ folder \in [Names -> Folders] /\ hyp \in [Names -> Hyps \cup {NoHyp}]
      /\ again \subseteq Sources /\ "filled" \in Drafts /\ IntakeTypeOK
  BY IntakeParts DEF TypeInv, Drafts
<1>1. CASE FillIn(n)
  <2>1. folder' \in [Names -> Folders]
    <3>1. CASE folder' = [folder EXCEPT ![n].memo = "filled"] BY <1>0, <3>1, MemoSet
    <3>2. CASE folder' = [folder EXCEPT ![n].spec = "filled"] BY <1>0, <3>2, SpecSet
    <3> QED BY <1>1, <3>1, <3>2 DEF FillIn
  <2>2. UNCHANGED <<archived, inbox, row, order, flat, hyp, taken, script, spoilt, again>>
    BY <1>1 DEF FillIn
  <2> QED BY <2>1, <2>2 DEF TypeInv, OrderHasRows, ScriptsHaveRows, IntakeTypeOK
<1>2. ASSUME NEW s \in Urls(n), NEW refs \in BOOLEAN, Propose(n, s, refs) PROVE TypeInv'
  <2>1. s \in Sources \cup {NoSource} BY <1>0, IntakeAssumption DEF Urls, Hyps
  <2>2. hyp' \in [Names -> Hyps \cup {NoHyp}] /\ taken' \subseteq Sources
    BY <1>0, <1>2, <2>1, AddTyped DEF Propose
  <2>3. again' \subseteq Sources BY <1>0, <1>2, <2>1 DEF Propose
  <2>4. UNCHANGED <<archived, inbox, row, order, folder, flat, script, spoilt>> BY <1>2 DEF Propose
  <2> QED BY <2>2, <2>3, <2>4 DEF TypeInv, OrderHasRows, ScriptsHaveRows, IntakeTypeOK
<1> QED BY <1>1, <1>2

LEMMA IntakeTypeStarts == IntakeInit => TypeInv
<1> SUFFICES ASSUME IntakeInit PROVE TypeInv OBVIOUS
<1>1. order = <<>> /\ DOMAIN order = {} BY DEF IntakeInit
<1>2. \A p \in Scripts : script[p].pc \notin Needing BY DEF IntakeInit, Idle, Needing
<1>3. IntakeTypeOK
  BY <1>1, IntakeAssumption DEF IntakeInit, IntakeTypeOK, Folders, Drafts, NoFolder
<1> QED BY <1>1, <1>2, <1>3 DEF TypeInv, OrderHasRows, ScriptsHaveRows

LEMMA IntakeTypeSteps == TypeInv /\ [IntakeNext]_intakeVars => TypeInv'
<1> SUFFICES ASSUME TypeInv, [IntakeNext]_intakeVars PROVE TypeInv'
  OBVIOUS
<1>1. CASE UNCHANGED intakeVars
  BY <1>1 DEF TypeInv, OrderHasRows, ScriptsHaveRows, IntakeTypeOK, intakeVars
<1> QED BY <1>1, CarryTyped, BeginTyped, EditTyped DEF IntakeNext

-------------------------------------------------------------------------------
\* A script that is about to tell a row its folder, and whose source nobody
\* spoilt, tells it nothing new; one that is about to make a row ready has seen
\* a filled spec that is still the row's.
KnowsFolder(p) ==
  script[p].pc = "rename" /\ script[p].src \notin spoilt
    => row[script[p].src].folder = script[p].name
KnowsSpec(p) ==
  script[p].pc = "spec_ready" /\ script[p].src \notin spoilt
    => Files(script[p].src).spec = "filled"
Knows(p) == KnowsFolder(p) /\ KnowsSpec(p)

FileInv == SpecReadyHasSpec /\ \A p \in Scripts : Knows(p)

\* What a step may do to the rows, as far as the files and the registrations
\* are concerned.
RowsForFiles ==
  \A s \in Sources :
    row'[s] = row[s] \/ /\ row'[s].stage # "SPEC_READY"
                        /\ row[s] # NoRow => row'[s].folder = row[s].folder
RowsForRegister ==
  \A s \in Sources : row[s] # NoRow /\ row[s].stage = "DISCOVERED"
    => row'[s] # NoRow /\ (row'[s].stage = "DISCOVERED" \/ s \in again')

\* A step that takes no filled spec away, makes no row ready or moves it, and
\* moves a script only to a step that knows what it must.
FileFrame ==
  /\ \A n \in Names : folder[n].spec = "filled" => folder'[n].spec = "filled"
  /\ spoilt \subseteq spoilt'
  /\ RowsForFiles
  /\ \A p \in Scripts : script'[p] = script[p] \/ Knows(p)'

\* A script past add_hypothesis has a source that is registered; and a source
\* registered once has one script at it, none before add_hypothesis when there
\* is a hypothesis, and is DISCOVERED or about to be.
Registers(p, s) == script[p].src = s /\ script[p].pc \in {"add", "advance"}
Registered(s) == \E n \in Names : hyp[n] # NoHyp /\ hyp[n].src = s
AddedFirst ==
  \A p \in Scripts : script[p].pc = "advance" =>
    script[p].src \in taken \/ Registered(script[p].src)
OneAtIt(s) == \A p, q \in Scripts : Registers(p, s) /\ Registers(q, s) => p = q
NoneBefore(s) == \A p \in Scripts : ~(script[p].pc = "add" /\ script[p].src = s)
IsTold(s) == \/ row[s] # NoRow /\ row[s].stage = "DISCOVERED"
             \/ \E p \in Scripts : script[p].pc = "advance" /\ script[p].src = s
Once ==
  \A s \in Sources \ again :
    OneAtIt(s) /\ (Registered(s) => NoneBefore(s) /\ IsTold(s))

RegInv == AddedFirst /\ Once

\* A step that moves no script to, or from, a registration; it may end one that
\* has added nothing.
ScriptsForRegister ==
  \A p \in Scripts : \/ script'[p] = script[p]
                     \/ /\ script'[p].pc \notin {"add", "advance"}
                        /\ script[p].pc # "advance"

\* Such a step, that leaves the sources of the hypotheses and, but for sources
\* registered again, the rows that are DISCOVERED.
RegFrame ==
  /\ \A n \in Names : (hyp'[n] # NoHyp <=> hyp[n] # NoHyp) /\ hyp'[n].src = hyp[n].src
  /\ taken \subseteq taken' /\ again \subseteq again'
  /\ RowsForRegister /\ ScriptsForRegister

LEMMA WorksOn ==
  ASSUME IntakeTypeOK, NEW p \in Scripts, script[p].pc \in Steps
  PROVE  script[p].src \in Sources /\ script[p].name \in Names
BY IntakeParts DEF Works, Steps

LEMMA FileKeeps ==
  ASSUME TypeInv, FileInv, FileFrame PROVE FileInv'
<1>1. SpecReadyHasSpec'
  <2> SUFFICES ASSUME NEW s \in Sources, s \notin spoilt', row'[s] # NoRow,
                      row'[s].stage = "SPEC_READY"
      PROVE folder'[row'[s].folder].spec = "filled"
    BY DEF SpecReadyHasSpec, Files
  <2>1. row'[s] = row[s] /\ s \notin spoilt BY DEF FileFrame, RowsForFiles
  <2>2. folder[row[s].folder].spec = "filled" BY <2>1 DEF FileInv, SpecReadyHasSpec, Files
  <2>3. row[s].folder \in Names BY <2>1, SlugTyped DEF TypeInv
  <2> QED BY <2>1, <2>2, <2>3 DEF FileFrame
<1>2. ASSUME NEW p \in Scripts PROVE Knows(p)'
  <2>1. CASE script'[p] # script[p] BY <2>1 DEF FileFrame
  <2>2. CASE script'[p] = script[p] /\ script[p].pc \notin {"rename", "spec_ready"}
    BY <2>2 DEF Knows, KnowsFolder, KnowsSpec
  <2>3. CASE script'[p] = script[p] /\ script[p].pc \in {"rename", "spec_ready"}
    <3> DEFINE s == script[p].src
    <3>1. s \in Sources BY <2>3, WorksOn DEF TypeInv, Steps
    <3>2. row[s] # NoRow BY <2>3 DEF TypeInv, ScriptsHaveRows, Needing
    <3>3. row'[s].folder = row[s].folder BY <3>1, <3>2 DEF FileFrame, RowsForFiles
    <3>4. row[s].folder \in Names BY <3>1, <3>2, SlugTyped DEF TypeInv
    <3>5. Knows(p) BY DEF FileInv
    <3>6. s \notin spoilt' => s \notin spoilt BY DEF FileFrame
    <3>7. KnowsFolder(p)' BY <2>3, <3>3, <3>5, <3>6 DEF Knows, KnowsFolder
    <3>8. KnowsSpec(p)' BY <2>3, <3>3, <3>4, <3>5, <3>6 DEF Knows, KnowsSpec, FileFrame, Files
    <3> QED BY <3>7, <3>8 DEF Knows
  <2> QED BY <2>1, <2>2, <2>3
<1> QED BY <1>1, <1>2 DEF FileInv

\* A step that moves no script to, or from, a registration keeps every row that
\* is told, and every source no script is at.
LEMMA RegStays ==
  ASSUME RegInv, RowsForRegister, ScriptsForRegister, again \subseteq again',
         NEW s \in Sources, s \notin again'
  PROVE  OneAtIt(s)' /\ (Registered(s) => NoneBefore(s)' /\ IsTold(s)')
<1>1. OneAtIt(s) /\ (Registered(s) => NoneBefore(s) /\ IsTold(s)) BY DEF RegInv, Once
<1>2. \A p \in Scripts : Registers(p, s)' => Registers(p, s)
  BY DEF ScriptsForRegister, Registers
<1>3. OneAtIt(s)' BY <1>1, <1>2 DEF OneAtIt
<1>4. NoneBefore(s) => NoneBefore(s)' BY DEF NoneBefore, ScriptsForRegister
<1>5. IsTold(s) => IsTold(s)'
  <2>1. CASE row[s] # NoRow /\ row[s].stage = "DISCOVERED"
    BY <2>1 DEF IsTold, RowsForRegister
  <2>2. ASSUME NEW p \in Scripts, script[p].pc = "advance", script[p].src = s PROVE IsTold(s)'
    <3>1. script'[p] = script[p] BY <2>2 DEF ScriptsForRegister
    <3> QED BY <2>2, <3>1 DEF IsTold
  <2> QED BY <2>1, <2>2 DEF IsTold
<1> QED BY <1>1, <1>3, <1>4, <1>5

LEMMA RegKeeps ==
  ASSUME RegInv, RegFrame PROVE RegInv'
<1>0. \A s : Registered(s)' <=> Registered(s) BY DEF Registered, RegFrame
<1>1. AddedFirst'
  <2> SUFFICES ASSUME NEW p \in Scripts, script'[p].pc = "advance"
      PROVE script'[p].src \in taken' \/ Registered(script[p].src)'
    BY DEF AddedFirst
  <2>1. script'[p] = script[p] BY DEF RegFrame, ScriptsForRegister
  <2>2. script[p].src \in taken \/ Registered(script[p].src)
    BY <2>1 DEF RegInv, AddedFirst
  <2> QED BY <1>0, <2>1, <2>2 DEF RegFrame
<1>2. Once'
  <2> SUFFICES ASSUME NEW s \in Sources, s \notin again'
      PROVE OneAtIt(s)' /\ (Registered(s)' => NoneBefore(s)' /\ IsTold(s)')
    BY DEF Once
  <2> QED BY <1>0, RegStays DEF RegFrame
<1> QED BY <1>1, <1>2 DEF RegInv

-------------------------------------------------------------------------------
\* What the operations on the two tables do to the frames.
LEMMA RecordFrame ==
  ASSUME TypeInv, NEW s \in Sources, NEW n \in Names, RecordIntake(s, n)
  PROVE  RowsForFiles /\ RowsForRegister
<1>1. /\ \A t \in Sources : row[t] # NoRow => row'[t] = row[t]
      /\ \A t \in Sources : row[t] = NoRow /\ row'[t] # NoRow => row'[t].stage = "CAPTURED"
  BY RecordTyped
<1> QED BY <1>1 DEF RowsForFiles, RowsForRegister

LEMMA StageFrame ==
  ASSUME TypeInv, NEW s \in Sources, row[s] # NoRow, NEW stage \in Stages, AdvanceStage(s, stage)
  PROVE  RowsForRegister /\ (stage # "SPEC_READY" => RowsForFiles)
BY StageTyped DEF RowsForFiles, RowsForRegister

\* A hypothesis is added by a step that moves no script to, or from, a
\* registration, and its source is registered again from then on.
LEMMA AddsAgain ==
  ASSUME TypeInv, RegInv, NEW n \in Names, NEW s \in Sources \cup {NoSource},
         NEW refs \in BOOLEAN, AddHypothesis(n, s, refs), again' = again \cup ({s} \ {NoSource}),
         UNCHANGED row, ScriptsForRegister
  PROVE  RegInv'
<1>1. /\ hyp'[n] # NoHyp /\ hyp'[n].src = s
      /\ \A m \in Names : m # n => hyp'[m] = hyp[m]
      /\ taken \subseteq taken'
      /\ \A t \in Sources : hyp[n] # NoHyp /\ hyp[n].src = t /\ t # s => t \in taken'
  BY AddTyped DEF TypeInv
<1>2. AddedFirst'
  <2> SUFFICES ASSUME NEW q \in Scripts, script'[q].pc = "advance"
      PROVE script'[q].src \in taken' \/ Registered(script[q].src)'
    BY DEF AddedFirst
  <2>0. script'[q] = script[q] BY DEF ScriptsForRegister
  <2>1. PICK t \in Sources : t = script[q].src BY <2>0, WorksOn DEF TypeInv, Steps
  <2>2. t \in taken \/ Registered(t) BY <2>0, <2>1 DEF RegInv, AddedFirst
  <2> SUFFICES t \in taken' \/ Registered(t)' BY <2>0, <2>1
  <2>3. CASE t \in taken BY <1>1, <2>3
  <2>4. ASSUME NEW m \in Names, hyp[m] # NoHyp, hyp[m].src = t PROVE t \in taken' \/ Registered(t)'
    <3>1. CASE m # n BY <1>1, <2>4, <3>1 DEF Registered
    <3>2. CASE m = n /\ t = s BY <1>1, <3>2 DEF Registered
    <3>3. CASE m = n /\ t # s BY <1>1, <2>1, <2>4, <3>3
    <3> QED BY <3>1, <3>2, <3>3
  <2> QED BY <2>2, <2>3, <2>4 DEF Registered
<1>3. Once'
  <2> SUFFICES ASSUME NEW t \in Sources, t \notin again'
      PROVE OneAtIt(t)' /\ (Registered(t)' => NoneBefore(t)' /\ IsTold(t)')
    BY DEF Once
  <2>1. t # s BY IntakeAssumption
  <2>2. Registered(t)' => Registered(t) BY <1>1, <2>1 DEF Registered
  <2>3. RowsForRegister /\ again \subseteq again' BY DEF RowsForRegister
  <2> QED BY <2>2, <2>3, RegStays
<1> QED BY <1>2, <1>3 DEF RegInv

\* A script that was past add_hypothesis ends: its row is DISCOVERED, or its
\* source is registered again.
LEMMA EndStep ==
  ASSUME RegInv, NEW p \in Scripts, script'[p].pc = "idle",
         \A q \in Scripts : q # p => script'[q] = script[q],
         UNCHANGED <<hyp, taken>>, again \subseteq again', RowsForRegister,
         NEW s \in Sources, script[p].pc = "advance" => script[p].src = s,
         script[p].pc = "advance" => s \in again' \/ (row'[s] # NoRow /\ row'[s].stage = "DISCOVERED")
  PROVE  RegInv'
<1>1. AddedFirst' BY DEF RegInv, AddedFirst, Registered
<1>2. Once'
  <2> SUFFICES ASSUME NEW t \in Sources, t \notin again'
      PROVE OneAtIt(t)' /\ (Registered(t)' => NoneBefore(t)' /\ IsTold(t)')
    BY DEF Once
  <2>1. OneAtIt(t) /\ (Registered(t) => NoneBefore(t) /\ IsTold(t)) BY DEF RegInv, Once
  <2>2. OneAtIt(t)'
    <3>1. \A q \in Scripts : Registers(q, t)' => Registers(q, t) BY DEF Registers
    <3> QED BY <2>1, <3>1 DEF OneAtIt
  <2>3. Registered(t)' <=> Registered(t) BY DEF Registered
  <2>4. NoneBefore(t) => NoneBefore(t)' BY DEF NoneBefore
  <2>5. IsTold(t) => IsTold(t)'
    <3>1. CASE row[t] # NoRow /\ row[t].stage = "DISCOVERED" BY <3>1 DEF IsTold, RowsForRegister
    <3>2. ASSUME NEW q \in Scripts, script[q].pc = "advance", script[q].src = t PROVE IsTold(t)'
      BY <3>2 DEF IsTold
    <3> QED BY <3>1, <3>2 DEF IsTold
  <2> QED BY <2>1, <2>2, <2>3, <2>4, <2>5
<1> QED BY <1>1, <1>2 DEF RegInv

-------------------------------------------------------------------------------
\* A script that begins, goes on or ends, outside the registrations, the names
\* and the finalized specs.
Quiet == ScriptsForRegister /\ \A p \in Scripts : script'[p] = script[p] \/ Knows(p)'
Loud == {"add", "advance", "rename", "spec_ready"}

LEMMA QuietMove ==
  ASSUME NEW p \in Scripts, script'[p].pc \notin Loud, script[p].pc # "advance",
         \A q \in Scripts : q # p => script'[q] = script[q]
  PROVE  Quiet
BY DEF Quiet, Loud, ScriptsForRegister, Knows, KnowsFolder, KnowsSpec

LEMMA QuietGoes ==
  ASSUME TypeInv, NEW p \in Scripts, NEW from \in Steps, NEW pc \in Steps, At(p, from), Goes(p, pc),
         pc \notin Loud, from # "advance"
  PROVE  Quiet
<1>1. /\ script'[p].pc = pc /\ script[p].pc = from
      /\ \A q \in Scripts : q # p => script'[q] = script[q]
  BY GoesFrame DEF TypeInv
<1> QED BY <1>1, QuietMove
LEMMA QuietEnds ==
  ASSUME TypeInv, NEW p \in Scripts, NEW from \in Steps, At(p, from), Ends(p), from # "advance"
  PROVE  Quiet
<1>1. /\ script'[p].pc = "idle" /\ script[p].pc = from
      /\ \A q \in Scripts : q # p => script'[q] = script[q]
  BY EndsFrame DEF TypeInv
<1> QED BY <1>1, QuietMove DEF Loud
LEMMA QuietStarts ==
  ASSUME TypeInv, NEW p \in Scripts, NEW pc \in Steps, NEW s \in Sources, NEW n \in Names,
         NEW unusual, Starts(p, pc, s, n, unusual), pc \notin Loud
  PROVE  Quiet
<1>1. /\ script'[p].pc = pc /\ script[p].pc = "idle"
      /\ \A q \in Scripts : q # p => script'[q] = script[q]
  BY StartsFrame DEF TypeInv
<1> QED BY <1>1, QuietMove

\* A step of such a script that takes no filled spec away and treats the rows as
\* the frames ask is seen through them.
LEMMA QuietStep ==
  ASSUME Quiet, \A n \in Names : folder[n].spec = "filled" => folder'[n].spec = "filled",
         spoilt \subseteq spoilt', again \subseteq again', RowsForFiles, RowsForRegister,
         UNCHANGED <<hyp, taken>>
  PROVE  FileFrame /\ RegFrame
BY DEF Quiet, FileFrame, RegFrame

LEMMA QuietAdvances ==
  ASSUME TypeInv, NEW p \in Scripts, NEW pc \in Needing, pc # "advance",
         NEW stage \in Stages, stage # "SPEC_READY", Advances(p, pc, stage)
  PROVE  FileFrame /\ RegFrame
<1>1. pc \in Steps BY DEF Needing, Steps
<1>2. Quiet BY <1>1, QuietEnds DEF Advances
<1>3. script[p].src \in Sources /\ script[p].pc = pc
  BY <1>1, EndsFrame DEF Advances, TypeInv
<1>4. row[script[p].src] # NoRow BY <1>3 DEF TypeInv, ScriptsHaveRows
<1>5. RowsForFiles /\ RowsForRegister /\ again \subseteq again'
  BY <1>3, <1>4, StageFrame, StageTyped DEF Advances
<1>6. UNCHANGED <<folder, hyp, taken, spoilt>> BY DEF Advances
<1> QED BY <1>2, <1>5, <1>6, QuietStep

LEMMA QuietCarry ==
  ASSUME TypeInv, NEW p \in Scripts,
         \/ ArchiveSourceItem(p) \/ CandidateToInbox(p) \/ CaptureIntake(p)
         \/ BuildWrite(p) \/ BuildRead(p) \/ BuildAdvance(p)
         \/ MemoWrite(p) \/ MemoStage(p) \/ MemoReady(p) \/ SpecStage(p) \/ MoveInbox(p)
         \/ MigrateIntake(p) \/ MigrateAdvance(p) \/ MigrateDiscovers(p)
  PROVE  FileFrame /\ RegFrame
<1>0. folder \in [Names -> Folders] /\ IntakeTypeOK /\ "todo" \in Drafts
  BY IntakeParts DEF TypeInv, Drafts
<1>00. UNCHANGED row => RowsForFiles /\ RowsForRegister BY DEF RowsForFiles, RowsForRegister
<1>1. CASE ArchiveSourceItem(p)
  <2>1. Quiet BY <1>1, QuietGoes DEF ArchiveSourceItem, Steps, Loud
  <2> QED BY <1>00, <1>1, <2>1, QuietStep DEF ArchiveSourceItem
<1>2. CASE CandidateToInbox(p)
  <2>1. Quiet BY <1>2, QuietGoes DEF CandidateToInbox, Steps, Loud
  <2> QED BY <1>00, <1>2, <2>1, QuietStep DEF CandidateToInbox
<1>3. CASE CaptureIntake(p)
  <2>1. Quiet BY <1>3, QuietEnds DEF CaptureIntake, Steps
  <2>2. script[p].src \in Sources /\ script[p].name \in Names
    BY <1>0, <1>3, EndsFrame DEF CaptureIntake, Steps
  <2>3. RowsForFiles /\ RowsForRegister BY <1>00, <1>3, <2>2, RecordFrame DEF CaptureIntake
  <2> QED BY <1>3, <2>1, <2>3, QuietStep DEF CaptureIntake
<1>4. CASE BuildWrite(p)
  <2>1. Quiet BY <1>4, QuietGoes DEF BuildWrite, Steps, Loud
  <2>2. script[p].name \in Names BY <1>0, <1>4, GoesFrame DEF BuildWrite, Steps
  <2>3. \A n \in Names : folder'[n].spec = folder[n].spec
    <3>1. folder' = [folder EXCEPT ![script[p].name].dossier = TRUE] BY <1>4 DEF BuildWrite
    <3> QED BY <1>0, <2>2, <3>1, DossierSet
  <2> QED BY <1>00, <1>4, <2>1, <2>3, QuietStep DEF BuildWrite
<1>5. CASE BuildRead(p)
  <2>1. Quiet
    <3>1. CASE Goes(p, "captured") BY <1>5, <3>1, QuietGoes DEF BuildRead, Steps, Loud
    <3>2. CASE Ends(p) BY <1>5, <3>2, QuietEnds DEF BuildRead, Steps
    <3> QED BY <1>5, <3>1, <3>2 DEF BuildRead
  <2> QED BY <1>00, <1>5, <2>1, QuietStep DEF BuildRead, store
<1>6. CASE MemoWrite(p)
  <2>1. PICK from \in {"memo", "memo_row"} : At(p, from) /\ (Ends(p) \/ Goes(p, "memo_stage"))
    BY <1>6 DEF MemoWrite
  <2>2. from \in Steps /\ "memo_stage" \in Steps /\ "memo_stage" \notin Loud /\ from # "advance"
    BY DEF Steps, Loud
  <2>3. Quiet BY <2>1, <2>2, QuietGoes, QuietEnds
  <2>4. script[p].name \in Names BY <1>0, <2>1, <2>2, GoesFrame, EndsFrame
  <2>5. \A n \in Names : folder'[n].spec = folder[n].spec
    <3>1. folder' = [folder EXCEPT ![script[p].name].memo = "todo"] BY <1>6 DEF MemoWrite
    <3> QED BY <1>0, <2>4, <3>1, MemoSet
  <2> QED BY <1>00, <1>6, <2>3, <2>5, QuietStep DEF MemoWrite
<1>7. CASE BuildAdvance(p) \/ MemoStage(p) \/ MemoReady(p) \/ SpecStage(p) \/ MigrateAdvance(p)
  <2>1. {"captured", "memo_stage", "memo_ready", "spec_stage", "migrated"} \subseteq Needing \ {"advance"}
    BY DEF Needing
  <2>2. {"DOSSIER_READY", "MEMO_READY"} \subseteq Stages \ {"SPEC_READY"} BY DEF Stages
  <2> QED BY <1>7, <2>1, <2>2, QuietAdvances
          DEF BuildAdvance, MemoStage, MemoReady, SpecStage, MigrateAdvance
<1>8. CASE MoveInbox(p)
  <2>1. Quiet BY <1>8, QuietEnds DEF MoveInbox, Steps
  <2> QED BY <1>00, <1>8, <2>1, QuietStep DEF MoveInbox
<1>9. CASE MigrateIntake(p)
  <2>1. PICK from \in {"migrate", "legacy"}, pc \in {"migrated", "legacy_stage"} :
          At(p, from) /\ Goes(p, pc)
    BY <1>9 DEF MigrateIntake
  <2>2. from \in Steps /\ pc \in Steps /\ pc \notin Loud /\ from # "advance" BY DEF Steps, Loud
  <2>3. Quiet BY <2>1, <2>2, QuietGoes
  <2>4. script[p].src \in Sources /\ script[p].name \in Names BY <1>0, <2>1, <2>2, GoesFrame
  <2>5. RowsForFiles /\ RowsForRegister BY <1>9, <2>4, RecordFrame DEF MigrateIntake
  <2> QED BY <1>9, <2>3, <2>5, QuietStep DEF MigrateIntake
<1>10. CASE MigrateDiscovers(p)
  <2> DEFINE s == script[p].src
  <2>1. /\ script'[p].pc = "rename" /\ script[p].pc = "legacy_stage"
        /\ script'[p].src = s /\ script'[p].name = script[p].name /\ s \in Sources
        /\ \A q \in Scripts : q # p => script'[q] = script[q]
    BY <1>0, <1>10, GoesFrame DEF MigrateDiscovers, Steps
  <2>2. row[s] # NoRow BY <2>1 DEF TypeInv, ScriptsHaveRows, Needing
  <2>3. "DISCOVERED" \in Stages /\ "DISCOVERED" # "SPEC_READY" BY DEF Stages
  <2>4. /\ RowsForFiles /\ RowsForRegister /\ again \subseteq again'
        /\ row'[s].folder = row[s].folder
    BY <1>10, <2>1, <2>2, <2>3, StageFrame, StageTyped DEF MigrateDiscovers
  <2>5. /\ UNCHANGED <<folder, hyp, taken>> /\ spoilt \subseteq spoilt'
        /\ s \notin spoilt' => row[s].folder = script[p].name
    BY <1>10 DEF MigrateDiscovers
  <2>6. Knows(p)' BY <2>1, <2>4, <2>5 DEF Knows, KnowsFolder, KnowsSpec
  <2>7. Quiet BY <2>1, <2>6 DEF Quiet, ScriptsForRegister
  <2> QED BY <2>4, <2>5, <2>7, QuietStep
<1> QED BY <1>1, <1>2, <1>3, <1>4, <1>5, <1>6, <1>7, <1>8, <1>9, <1>10

LEMMA QuietBegin ==
  ASSUME TypeInv, NEW p \in Scripts,
         \/ \E s \in Sources : \/ CaptureItem(p, s)
                               \/ \E f \in BOOLEAN : BuildIntake(p, s, f)
         \/ \E n \in Names : \/ RegisterCandidate(p, n) \/ MigrateMove(p, n) \/ MigrateFlat(p, n)
                             \/ \E s \in BySlug(n) :
                                  /\ OnSlug(p, s) /\ ~\E m \in Names : AssignRename(p, s, m)
  PROVE  FileFrame /\ RegFrame
<1>0. /\ folder \in [Names -> Folders] /\ inbox \in [Names -> Sources \cup {NoSource}]
      /\ flat \in [Names -> Flats \cup {NoFlat}] /\ "filled" \in Drafts /\ IntakeTypeOK
  BY IntakeParts DEF TypeInv, Drafts
<1>00. UNCHANGED row => RowsForFiles /\ RowsForRegister BY DEF RowsForFiles, RowsForRegister
<1>01. CaptureSlug \in [Sources -> Names] BY IntakeAssumption
<1>1. ASSUME NEW s \in Sources, CaptureItem(p, s) PROVE FileFrame /\ RegFrame
  <2> DEFINE n == CaptureSlug[s]
  <2>1. n \in Names /\ "archive" \in Steps /\ "archive" \notin Loud BY <1>01 DEF Steps, Loud
  <2>2. Starts(p, "archive", s, n, 0) BY <1>1 DEF CaptureItem
  <2> HIDE DEF n
  <2>3. Quiet BY <2>1, <2>2, QuietStarts
  <2> QED BY <1>00, <1>1, <2>3, QuietStep DEF CaptureItem, store
<1>2. ASSUME NEW s \in Sources, NEW f \in BOOLEAN, BuildIntake(p, s, f) PROVE FileFrame /\ RegFrame
  <2> DEFINE n == CaptureSlug[s]
  <2>1. n \in Names /\ "dossier" \in Steps /\ "dossier" \notin Loud BY <1>01 DEF Steps, Loud
  <2>2. RecordIntake(s, n) /\ (script' = script \/ Starts(p, "dossier", s, n, Forced(f)))
    BY <1>2 DEF BuildIntake
  <2> HIDE DEF n
  <2>3. Quiet
    <3>1. CASE script' = script BY <3>1 DEF Quiet, ScriptsForRegister
    <3>2. CASE Starts(p, "dossier", s, n, Forced(f)) BY <2>1, <3>2, QuietStarts
    <3> QED BY <2>2, <3>1, <3>2
  <2>4. RowsForFiles /\ RowsForRegister BY <2>1, <2>2, RecordFrame
  <2> QED BY <1>2, <2>3, <2>4, QuietStep DEF BuildIntake
<1>3. ASSUME NEW n \in Names, RegisterCandidate(p, n) PROVE FileFrame /\ RegFrame
  <2> DEFINE s == inbox[n]
  <2>1. s \in Sources /\ "candidate" \in Steps /\ "candidate" \notin Loud
    BY <1>0, <1>3 DEF RegisterCandidate, InboxCandidate, Steps, Loud
  <2>2. Starts(p, "candidate", s, n, 1) BY <1>3 DEF RegisterCandidate
  <2> HIDE DEF s
  <2>3. Quiet BY <2>1, <2>2, QuietStarts
  <2> QED BY <1>00, <1>3, <2>3, QuietStep DEF RegisterCandidate
<1>4. ASSUME NEW n \in Names, MigrateMove(p, n) PROVE FileFrame /\ RegFrame
  <2> DEFINE s == inbox[n]
  <2>1. s \in Sources /\ "migrate" \in Steps /\ "migrate" \notin Loud
    BY <1>0, <1>4 DEF MigrateMove, Steps, Loud
  <2>2. Starts(p, "migrate", s, n, 1) BY <1>4 DEF MigrateMove
  <2> HIDE DEF s
  <2>3. Quiet BY <2>1, <2>2, QuietStarts
  <2>4. \A m \in Names : folder'[m].spec = folder[m].spec
    <3>1. folder' = [folder EXCEPT ![n].dossier = TRUE] BY <1>4 DEF MigrateMove
    <3> QED BY <1>0, <3>1, DossierSet
  <2> QED BY <1>00, <1>4, <2>3, <2>4, QuietStep DEF MigrateMove
<1>5. ASSUME NEW n \in Names, MigrateFlat(p, n) PROVE FileFrame /\ RegFrame
  <2> DEFINE s == flat[n].src
  <2>1. s \in Sources BY <1>0, <1>5 DEF MigrateFlat, Flats
  <2>2. PICK pc \in {"legacy", "migrate"} : Starts(p, pc, s, n, 1) BY <1>5 DEF MigrateFlat
  <2>3. pc \in Steps /\ pc \notin Loud BY DEF Steps, Loud
  <2> HIDE DEF s
  <2>4. Quiet BY <2>1, <2>2, <2>3, QuietStarts
  <2>5. \A m \in Names : folder[m].spec = "filled" => folder'[m].spec = "filled"
    <3>1. CASE folder' = [folder EXCEPT ![n].dossier = TRUE] BY <1>0, <3>1, DossierSet
    <3>2. CASE folder' = [folder EXCEPT ![n].spec = "filled"] BY <1>0, <3>2, SpecSet
    <3> QED BY <1>5, <3>1, <3>2 DEF MigrateFlat
  <2> QED BY <1>00, <1>5, <2>4, <2>5, QuietStep DEF MigrateFlat
<1>6. ASSUME NEW k \in Names, NEW s \in BySlug(k), OnSlug(p, s),
             ~\E m \in Names : AssignRename(p, s, m)
      PROVE  FileFrame /\ RegFrame
  <2> DEFINE n == row[s].folder
  <2>1. s \in Sources /\ n \in Names BY <1>0, NamedTyped, SlugTyped
  <2>2. UNCHANGED store /\ UNCHANGED <<spoilt, again>>
    BY <1>6 DEF OnSlug, ScaffoldMemo, ScaffoldSpec, FinalizeMemo, FinalizeSpec
  <2>3. PICK pc \in {"memo", "memo_row", "memo_ready", "spec", "spec_row", "spec_ready"}, u \in {0, 1} :
          Starts(p, pc, s, n, u) /\ (pc = "spec_ready" => Files(s).spec = "filled")
    BY <1>6 DEF OnSlug, ScaffoldMemo, ScaffoldSpec, FinalizeMemo, FinalizeSpec, Forced
  <2>4. pc \in Steps /\ (pc # "spec_ready" => pc \notin Loud) BY DEF Steps, Loud
  <2> HIDE DEF n
  <2>5. Quiet
    <3>1. CASE pc # "spec_ready" BY <2>1, <2>3, <2>4, <3>1, QuietStarts
    <3>2. CASE pc = "spec_ready"
      <4>1. /\ script'[p].pc = pc /\ script[p].pc = "idle" /\ script'[p].src = s
            /\ \A q \in Scripts : q # p => script'[q] = script[q]
        BY <1>0, <2>1, <2>3, <2>4, StartsFrame
      <4>2. Knows(p)' BY <2>2, <2>3, <3>2, <4>1 DEF Knows, KnowsFolder, KnowsSpec, Files, store
      <4> QED BY <3>2, <4>1, <4>2 DEF Quiet, ScriptsForRegister
    <3> QED BY <3>1, <3>2
  <2> QED BY <1>00, <2>2, <2>5, QuietStep DEF store
<1> QED BY <1>1, <1>2, <1>3, <1>4, <1>5, <1>6

LEMMA EditStep ==
  ASSUME TypeInv, RegInv, NEW n \in Names,
         FillIn(n) \/ \E s \in Urls(n), refs \in BOOLEAN : Propose(n, s, refs)
  PROVE  FileFrame /\ RegInv'
<1>0. /\ folder \in [Names -> Folders] /\ hyp \in [Names -> Hyps \cup {NoHyp}]
      /\ "filled" \in Drafts /\ IntakeTypeOK
  BY IntakeParts DEF TypeInv, Drafts
<1>00. UNCHANGED row => RowsForFiles /\ RowsForRegister BY DEF RowsForFiles, RowsForRegister
<1>01. UNCHANGED script => Quiet BY DEF Quiet, ScriptsForRegister
<1>1. CASE FillIn(n)
  <2>1. \A m \in Names : folder[m].spec = "filled" => folder'[m].spec = "filled"
    <3>1. CASE folder' = [folder EXCEPT ![n].memo = "filled"] BY <1>0, <3>1, MemoSet
    <3>2. CASE folder' = [folder EXCEPT ![n].spec = "filled"] BY <1>0, <3>2, SpecSet
    <3> QED BY <1>1, <3>1, <3>2 DEF FillIn
  <2>2. FileFrame /\ RegFrame BY <1>00, <1>01, <1>1, <2>1, QuietStep DEF FillIn
  <2> QED BY <2>2, RegKeeps
<1>2. ASSUME NEW s \in Urls(n), NEW refs \in BOOLEAN, Propose(n, s, refs) PROVE FileFrame /\ RegInv'
  <2>1. s \in Sources \cup {NoSource} BY <1>0, IntakeAssumption DEF Urls, Hyps
  <2>2. AddHypothesis(n, s, refs) /\ UNCHANGED <<row, folder, script, spoilt>>
    BY <1>2 DEF Propose
  <2>3. FileFrame BY <1>00, <1>01, <2>2 DEF FileFrame, Quiet
  <2>4. ScriptsForRegister BY <1>01, <2>2 DEF Quiet
  <2>5. CASE again' = again \cup ({s} \ {NoSource})
    BY <2>1, <2>2, <2>3, <2>4, <2>5, AddsAgain
  <2>6. CASE hyp[n] # NoHyp /\ hyp[n].src = s /\ again' = again
    <3>1. /\ hyp'[n] # NoHyp /\ hyp'[n].src = hyp[n].src /\ taken \subseteq taken'
          /\ \A m \in Names : m # n => hyp'[m] = hyp[m]
      BY <1>0, <2>1, <2>2, <2>6, AddTyped
    <3>2. RegFrame BY <1>00, <2>2, <2>4, <2>6, <3>1 DEF RegFrame
    <3> QED BY <2>3, <3>2, RegKeeps
  <2> QED BY <1>2, <2>5, <2>6 DEF Propose
<1> QED BY <1>1, <1>2

-------------------------------------------------------------------------------
\* The steps on specs and names.
LEMMA SpecWriteStep ==
  ASSUME TypeInv, FileInv, NEW p \in Scripts, SpecWrite(p)
  PROVE  FileInv' /\ RegFrame
<1> DEFINE n == script[p].name
<1>1. PICK from \in {"spec", "spec_row"} : At(p, from) /\ (Ends(p) \/ Goes(p, "spec_stage"))
  BY DEF SpecWrite
<1>2. from \in Steps /\ "spec_stage" \in Steps /\ "spec_stage" \notin Loud /\ from # "advance"
  BY DEF Steps, Loud
<1>3. Quiet BY <1>1, <1>2, QuietGoes, QuietEnds
<1>4. n \in Names BY <1>1, <1>2, GoesFrame, EndsFrame DEF TypeInv
<1>5. UNCHANGED <<row, hyp, taken, again>> BY DEF SpecWrite
<1>6. RegFrame BY <1>3, <1>5 DEF RegFrame, RowsForRegister, Quiet
<1>7. CASE UNCHANGED <<folder, spoilt>>
  <2>1. FileFrame BY <1>3, <1>5, <1>7, QuietStep DEF RowsForFiles, RowsForRegister
  <2> QED BY <1>6, <2>1, FileKeeps
<1>8. CASE /\ folder' = [folder EXCEPT ![n].spec = "todo"]
           /\ spoilt' = IF folder[n].spec # "filled" THEN spoilt
                        ELSE spoilt \cup {s \in Sources : row[s] # NoRow /\ row[s].folder = n}
  <2>1. folder \in [Names -> Folders] /\ "todo" \in Drafts BY IntakeParts DEF TypeInv, Drafts
  <2> HIDE DEF n
  <2>2. \A m \in Names : m # n => folder'[m].spec = folder[m].spec
    BY <1>4, <1>8, <2>1, SpecSet
  \* A row that still has a filled spec has another folder.
  <2>3. ASSUME NEW s \in Sources, row[s] # NoRow, s \notin spoilt', Files(s).spec = "filled"
        PROVE  Files(s)'.spec = "filled"
    <3>1. row[s].folder # n BY <1>8, <2>3 DEF Files
    <3>2. row[s].folder \in Names BY <2>3, SlugTyped DEF TypeInv
    <3> QED BY <1>5, <2>2, <2>3, <3>1, <3>2 DEF Files
  <2>4. spoilt \subseteq spoilt' BY <1>8
  <2>5. SpecReadyHasSpec' BY <1>5, <2>3, <2>4 DEF FileInv, SpecReadyHasSpec
  <2>6. ASSUME NEW q \in Scripts PROVE Knows(q)'
    <3>1. CASE script'[q] # script[q] BY <1>3, <3>1 DEF Quiet
    <3>2. CASE script'[q] = script[q]
      <4>1. Knows(q) BY DEF FileInv
      <4>2. KnowsFolder(q)' BY <1>5, <2>4, <3>2, <4>1 DEF Knows, KnowsFolder
      <4>3. script[q].pc = "spec_ready" => script[q].src \in Sources /\ row[script[q].src] # NoRow
        BY WorksOn DEF TypeInv, ScriptsHaveRows, Needing, Steps
      <4>4. KnowsSpec(q)' BY <2>3, <2>4, <3>2, <4>1, <4>3 DEF Knows, KnowsSpec
      <4> QED BY <4>2, <4>4 DEF Knows
    <3> QED BY <3>1, <3>2
  <2> QED BY <1>6, <2>5, <2>6 DEF FileInv
<1> QED BY <1>7, <1>8 DEF SpecWrite

\* A step that tells a row its folder, or makes it ready: the row is whole when
\* the folder has a filled spec and nobody else is about to tell it another.
LEMMA SettledStep ==
  ASSUME TypeInv, FileInv, NEW p \in Scripts, NEW s \in Sources, row[s] # NoRow, NEW n \in Names,
         script'[p].pc = "idle", \A q \in Scripts : q # p => script'[q] = script[q],
         UNCHANGED folder, \A t \in Sources : t # s => row'[t] = row[t],
         row'[s].folder = n, spoilt' = Settled(p, s, n),
         s \notin spoilt => row[s].folder = n,
         s \notin spoilt /\ row'[s].stage = "SPEC_READY" => folder[n].spec = "filled"
  PROVE  FileInv'
<1>1. /\ s \notin spoilt' => folder[n].spec = "filled" \/ s \notin spoilt
      /\ s \in spoilt /\ s \notin spoilt' =>
           \A q \in Scripts \ {p} : ~(script[q].pc = "rename" /\ script[q].src = s)
      /\ \A t \in Sources : t # s /\ t \notin spoilt' => t \notin spoilt
  BY DEF Settled, At
<1>2. SpecReadyHasSpec'
  <2> SUFFICES ASSUME NEW t \in Sources, t \notin spoilt', row'[t] # NoRow, row'[t].stage = "SPEC_READY"
      PROVE folder[row'[t].folder].spec = "filled"
    BY DEF SpecReadyHasSpec, Files
  <2>1. CASE t # s BY <1>1, <2>1 DEF FileInv, SpecReadyHasSpec, Files
  <2>2. CASE t = s BY <1>1, <2>2
  <2> QED BY <2>1, <2>2
<1>3. ASSUME NEW q \in Scripts PROVE Knows(q)'
  <2>1. CASE script'[q].pc \notin {"rename", "spec_ready"}
    BY <2>1 DEF Knows, KnowsFolder, KnowsSpec
  <2>2. CASE script'[q].pc \in {"rename", "spec_ready"}
    <3>1. q # p /\ script'[q] = script[q] /\ Knows(q) BY <2>2 DEF FileInv
    <3>2. script[q].src \in Sources BY <2>2, <3>1, WorksOn DEF TypeInv, Steps
    <3>3. KnowsFolder(q)'
      <4>1. CASE script[q].src # s BY <1>1, <3>1, <3>2, <4>1 DEF Knows, KnowsFolder
      <4>2. CASE script[q].src = s BY <1>1, <3>1, <4>2 DEF Knows, KnowsFolder
      <4> QED BY <4>1, <4>2
    <3>4. KnowsSpec(q)'
      <4>1. CASE script[q].src # s BY <1>1, <3>1, <3>2, <4>1 DEF Knows, KnowsSpec, Files
      <4>2. CASE script[q].src = s BY <1>1, <3>1, <4>2 DEF Knows, KnowsSpec, Files
      <4> QED BY <4>1, <4>2
    <3> QED BY <3>3, <3>4 DEF Knows
  <2> QED BY <2>1, <2>2
<1> QED BY <1>2, <1>3 DEF FileInv

LEMMA SpecReadyStep ==
  ASSUME TypeInv, FileInv, NEW p \in Scripts, SpecReady(p)
  PROVE  FileInv' /\ RegFrame
<1> DEFINE s == script[p].src
           n == row[s].folder
<1>1. /\ script'[p].pc = "idle" /\ script[p].pc = "spec_ready" /\ s \in Sources
      /\ \A q \in Scripts : q # p => script'[q] = script[q]
  BY EndsFrame DEF SpecReady, TypeInv, Steps
<1>2. row[s] # NoRow BY <1>1 DEF TypeInv, ScriptsHaveRows, Needing
<1>3. "SPEC_READY" \in Stages BY DEF Stages
<1>4. /\ RowsForRegister /\ again \subseteq again' /\ row'[s].folder = n
      /\ \A t \in Sources : t # s => row'[t] = row[t]
  BY <1>1, <1>2, <1>3, StageFrame, StageTyped DEF SpecReady
<1>5. UNCHANGED <<folder, hyp, taken>> /\ spoilt' = Settled(p, s, n) BY DEF SpecReady
<1>6. RegFrame BY <1>1, <1>4, <1>5 DEF RegFrame, ScriptsForRegister
<1>7. s \notin spoilt => folder[n].spec = "filled"
  BY <1>1 DEF FileInv, Knows, KnowsSpec, Files
<1>8. n \in Names BY <1>1, <1>2, SlugTyped DEF TypeInv
<1>9. row[s].folder = n OBVIOUS
<1> HIDE DEF s, n
<1> QED BY <1>1, <1>2, <1>4, <1>5, <1>6, <1>7, <1>8, <1>9, SettledStep

LEMMA ToldStep ==
  ASSUME TypeInv, FileInv, NEW p \in Scripts, SetThesisIdentity(p)
  PROVE  FileInv' /\ RegFrame
<1> DEFINE s == script[p].src
           n == script[p].name
           w == row[s]
           v == [w EXCEPT !.thesis = n, !.folder = n]
<1>1. /\ script'[p].pc = "idle" /\ script[p].pc = "rename" /\ s \in Sources /\ n \in Names
      /\ \A q \in Scripts : q # p => script'[q] = script[q]
  BY EndsFrame DEF SetThesisIdentity, TypeInv, Steps
<1>2. row \in [Sources -> Rows \cup {NoRow}] BY IntakeParts DEF TypeInv
<1>3. w # NoRow /\ w \in Rows BY <1>1, <1>2 DEF TypeInv, ScriptsHaveRows, Needing
<1>4. row' = [row EXCEPT ![s] = v] BY <1>1, <1>2, <1>3 DEF SetThesisIdentity
<1>5. UNCHANGED <<folder, hyp, taken, again>> /\ spoilt' = Settled(p, s, n)
  BY DEF SetThesisIdentity
<1>6. s \notin spoilt => row[s].folder = n /\ (w.stage = "SPEC_READY" => folder[n].spec = "filled")
  <2>1. s \notin spoilt => row[s].folder = n BY <1>1 DEF FileInv, Knows, KnowsFolder
  <2>2. s \notin spoilt /\ w.stage = "SPEC_READY" => folder[row[s].folder].spec = "filled"
    BY <1>1, <1>3 DEF FileInv, SpecReadyHasSpec, Files
  <2> QED BY <2>1, <2>2
<1>7. row[s] = w OBVIOUS
<1> HIDE DEF s, n, w
<1>8. v # NoRow /\ v.stage = w.stage /\ v.folder = n
  <2>1. w \in Rows /\ n \in Names BY <1>1, <1>3
  <2> QED BY <2>1, IntakeAssumption DEF Rows
<1> HIDE DEF v
<1>9. \A t \in Sources : row'[t] = IF t = s THEN v ELSE row[t] BY <1>1, <1>2, <1>4
<1>10. RegFrame BY <1>1, <1>3, <1>5, <1>7, <1>8, <1>9 DEF RegFrame, RowsForRegister, ScriptsForRegister
<1> QED BY <1>1, <1>3, <1>5, <1>6, <1>7, <1>8, <1>9, <1>10, SettledStep

LEMMA RenameStep ==
  ASSUME TypeInv, FileInv, NEW p \in Scripts, NEW k \in Names, NEW s \in BySlug(k), NEW n \in Names,
         AssignRename(p, s, n)
  PROVE  FileInv' /\ RegFrame
<1> DEFINE old == row[s].folder
<1>1. s \in Sources /\ row[s] # NoRow /\ old \in Names
  BY NamedTyped, SlugTyped DEF TypeInv
<1>2. folder \in [Names -> Folders] /\ NoFolder.spec = "none"
  BY IntakeParts DEF TypeInv, NoFolder
<1>3. /\ script'[p].pc = "rename" /\ script'[p].src = s /\ script'[p].name = n
      /\ script[p].pc = "idle" /\ \A q \in Scripts : q # p => script'[q] = script[q]
  <2>1. Starts(p, "rename", s, n, 1) /\ "rename" \in Steps BY DEF AssignRename, Steps
  <2> QED BY <1>1, <2>1, StartsFrame DEF TypeInv
<1>4. /\ UNCHANGED <<row, hyp, taken, again>> /\ spoilt \subseteq spoilt'
      /\ n # old => /\ folder[n] = NoFolder
                    /\ \A t \in Sources : row[t] # NoRow /\ row[t].folder = old => t \in spoilt'
  BY DEF AssignRename
<1>5. \A m \in Names : m # old /\ folder[m].spec = "filled" => folder'[m].spec = "filled"
  BY <1>1, <1>2, <1>4 DEF AssignRename
<1>6. n = old => folder' = folder BY DEF AssignRename
<1>7. RegFrame BY <1>3, <1>4 DEF RegFrame, RowsForRegister, ScriptsForRegister
<1>0. row[s].folder = old OBVIOUS
<1> HIDE DEF old
\* A row that still has a filled spec, and is not spoilt, has another folder.
<1>8. ASSUME NEW t \in Sources, row[t] # NoRow, t \notin spoilt', Files(t).spec = "filled"
      PROVE  Files(t)'.spec = "filled"
  <2>1. row[t].folder \in Names BY <1>8, SlugTyped DEF TypeInv
  <2>2. CASE n = old BY <1>4, <1>6, <1>8, <2>2 DEF Files
  <2>3. CASE n # old
    <3>1. row[t].folder # old BY <1>4, <1>8, <2>3
    <3> QED BY <1>4, <1>5, <1>8, <2>1, <3>1 DEF Files
  <2> QED BY <2>2, <2>3
<1>9. SpecReadyHasSpec' BY <1>4, <1>8 DEF FileInv, SpecReadyHasSpec
<1>10. ASSUME NEW q \in Scripts PROVE Knows(q)'
  <2>1. CASE q = p
    <3>1. s \notin spoilt' => n = old BY <1>0, <1>1, <1>4
    <3> QED BY <1>0, <1>3, <1>4, <2>1, <3>1 DEF Knows, KnowsFolder, KnowsSpec
  <2>2. CASE q # p
    <3>1. script'[q] = script[q] /\ Knows(q) BY <1>3, <2>2 DEF FileInv
    <3>2. KnowsFolder(q)' BY <1>4, <3>1 DEF Knows, KnowsFolder
    <3>3. script[q].pc = "spec_ready" => script[q].src \in Sources /\ row[script[q].src] # NoRow
      BY WorksOn DEF TypeInv, ScriptsHaveRows, Needing, Steps
    <3>4. KnowsSpec(q)' BY <1>4, <1>8, <3>1, <3>3 DEF Knows, KnowsSpec
    <3> QED BY <3>2, <3>4 DEF Knows
  <2> QED BY <2>1, <2>2
<1> QED BY <1>7, <1>9, <1>10 DEF FileInv

-------------------------------------------------------------------------------
\* The steps of a registration.
LEMMA RegisterStep ==
  ASSUME TypeInv, RegInv, NEW p \in Scripts, NEW s \in Sources, RegisterFromIngestion(p, s)
  PROVE  FileFrame /\ RegInv'
<1> DEFINE n == SlugOf(s)
<1>1. row[s] # NoRow /\ row[s].stage = "SPEC_READY" BY BatchTyped DEF RegisterFromIngestion
<1>2. n \in Names BY <1>1, SlugTyped DEF TypeInv
<1>3. Starts(p, "add", s, n, 0) /\ "add" \in Steps BY DEF RegisterFromIngestion, Steps
<1>4. UNCHANGED <<row, folder, hyp, taken, spoilt>> /\ again \subseteq again'
  BY DEF RegisterFromIngestion, store
<1>5. s \notin again' => \A q \in Scripts : ~Registers(q, s)
  BY DEF RegisterFromIngestion, Registering, Registers
<1> HIDE DEF n
<1>6. /\ script'[p].pc = "add" /\ script'[p].src = s /\ script[p].pc = "idle"
      /\ \A q \in Scripts : q # p => script'[q] = script[q]
  BY <1>2, <1>3, StartsFrame DEF TypeInv
<1>7. FileFrame BY <1>4, <1>6 DEF FileFrame, RowsForFiles, Knows, KnowsFolder, KnowsSpec
<1>8. AddedFirst' BY <1>4, <1>6 DEF RegInv, AddedFirst, Registered
<1>9. Once'
  <2> SUFFICES ASSUME NEW t \in Sources, t \notin again'
      PROVE OneAtIt(t)' /\ (Registered(t)' => NoneBefore(t)' /\ IsTold(t)')
    BY DEF Once
  <2>1. OneAtIt(t) /\ (Registered(t) => NoneBefore(t) /\ IsTold(t)) BY <1>4 DEF RegInv, Once
  <2>2. \A q \in Scripts : q # p /\ Registers(q, t)' => Registers(q, t)
    BY <1>6 DEF Registers
  <2>3. OneAtIt(t)'
    <3>1. CASE t = s BY <1>5, <2>2, <3>1 DEF OneAtIt
    <3>2. CASE t # s
      <4>1. ~Registers(p, t)' BY <1>6, <3>2 DEF Registers
      <4> QED BY <2>1, <2>2, <4>1 DEF OneAtIt
    <3> QED BY <3>1, <3>2
  <2>4. Registered(t)' => NoneBefore(t)' /\ IsTold(t)'
    <3> SUFFICES ASSUME Registered(t) PROVE NoneBefore(t)' /\ IsTold(t)'
      BY <1>4 DEF Registered
    <3>1. t # s BY <1>1, <1>5, <2>1 DEF Registers, IsTold
    <3>2. NoneBefore(t)' BY <1>6, <2>1, <3>1 DEF NoneBefore
    <3>3. IsTold(t)' BY <1>4, <1>6, <2>1 DEF IsTold
    <3> QED BY <3>2, <3>3
  <2> QED BY <2>3, <2>4
<1> QED BY <1>7, <1>8, <1>9 DEF RegInv

LEMMA AddStep ==
  ASSUME TypeInv, RegInv, NEW p \in Scripts, DiscoverAdd(p)
  PROVE  FileFrame /\ RegInv'
<1> DEFINE s == script[p].src
           n == script[p].name
<1>1. /\ script'[p].pc = "advance" /\ script[p].pc = "add" /\ script'[p].src = s
      /\ s \in Sources /\ n \in Names
      /\ \A q \in Scripts : q # p => script'[q] = script[q]
  BY GoesFrame DEF DiscoverAdd, TypeInv, Steps
<1>2. /\ hyp'[n] # NoHyp /\ hyp'[n].src = s
      /\ \A m \in Names : m # n => hyp'[m] = hyp[m]
      /\ taken \subseteq taken'
      /\ \A t \in Sources : hyp[n] # NoHyp /\ hyp[n].src = t /\ t # s => t \in taken'
  <2>1. AddHypothesis(n, s, FALSE) BY DEF DiscoverAdd
  <2>2. IntakeTypeOK /\ s \in Sources \cup {NoSource} /\ n \in Names BY <1>1 DEF TypeInv
  <2> HIDE DEF s, n
  <2> QED BY <2>1, <2>2, AddTyped
<1>3. UNCHANGED <<row, folder, spoilt, again>> BY DEF DiscoverAdd
<1>4. Registers(p, s) BY <1>1 DEF Registers
<1>40. script[p].src = s OBVIOUS
<1> HIDE DEF s, n
<1>5. FileFrame BY <1>1, <1>3 DEF FileFrame, RowsForFiles, Knows, KnowsFolder, KnowsSpec
<1>6. AddedFirst'
  <2> SUFFICES ASSUME NEW q \in Scripts, script'[q].pc = "advance"
      PROVE script'[q].src \in taken' \/ Registered(script[q].src)'
    BY DEF AddedFirst
  <2>1. CASE q = p BY <1>1, <1>2, <2>1 DEF Registered
  <2>2. CASE q # p
    <3>1. script'[q] = script[q] BY <1>1, <2>2
    <3>2. PICK t \in Sources : t = script[q].src BY <3>1, WorksOn DEF TypeInv, Steps
    <3>3. t \in taken \/ Registered(t) BY <3>1, <3>2 DEF RegInv, AddedFirst
    <3>4. CASE t \in taken BY <1>2, <3>1, <3>2, <3>4
    <3>5. ASSUME NEW m \in Names, hyp[m] # NoHyp, hyp[m].src = t PROVE t \in taken' \/ Registered(t)'
      <4>1. CASE m # n BY <1>2, <3>5, <4>1 DEF Registered
      <4>2. CASE m = n /\ t = s BY <1>1, <1>2, <4>2 DEF Registered
      <4>3. CASE m = n /\ t # s BY <1>2, <3>5, <4>3
      <4> QED BY <4>1, <4>2, <4>3
    <3>6. t \in taken' \/ Registered(t)' BY <1>2, <3>3, <3>5 DEF Registered
    <3> QED BY <3>1, <3>2, <3>6
  <2> QED BY <2>1, <2>2
<1>7. Once'
  <2> SUFFICES ASSUME NEW t \in Sources, t \notin again
      PROVE OneAtIt(t)' /\ (Registered(t)' => NoneBefore(t)' /\ IsTold(t)')
    BY <1>3 DEF Once
  <2>1. OneAtIt(t) /\ (Registered(t) => NoneBefore(t) /\ IsTold(t)) BY DEF RegInv, Once
  <2>2. \A q \in Scripts : Registers(q, t)' => Registers(q, t)
    BY <1>1, <1>40 DEF Registers
  <2>3. OneAtIt(t)' BY <2>1, <2>2 DEF OneAtIt
  <2>4. CASE t = s
    <3>1. \A q \in Scripts : q # p => ~Registers(q, t) BY <1>4, <2>1, <2>4 DEF OneAtIt
    <3>2. NoneBefore(t)' BY <1>1, <3>1 DEF NoneBefore, Registers
    <3>3. IsTold(t)' BY <1>1, <2>4 DEF IsTold
    <3> QED BY <2>3, <3>2, <3>3
  <2>5. CASE t # s
    <3>1. Registered(t)' => Registered(t) BY <1>2, <2>5 DEF Registered
    <3>2. NoneBefore(t) => NoneBefore(t)' BY <1>1 DEF NoneBefore
    <3>3. IsTold(t) => IsTold(t)' BY <1>1, <1>3, <1>40, <2>5 DEF IsTold
    <3> QED BY <2>1, <2>3, <3>1, <3>2, <3>3
  <2> QED BY <2>4, <2>5
<1> QED BY <1>5, <1>6, <1>7 DEF RegInv

LEMMA AdvanceStep ==
  ASSUME TypeInv, RegInv, NEW p \in Scripts, DiscoverAdvance(p)
  PROVE  FileFrame /\ RegInv'
<1> DEFINE s == script[p].src
<1>1. /\ script'[p].pc = "idle" /\ script[p].pc = "advance" /\ s \in Sources
      /\ \A q \in Scripts : q # p => script'[q] = script[q]
  BY EndsFrame DEF DiscoverAdvance, Advances, TypeInv, Steps
<1>2. row[s] # NoRow BY <1>1 DEF TypeInv, ScriptsHaveRows, Needing
<1>3. /\ RowsForRegister /\ RowsForFiles /\ again \subseteq again'
      /\ row'[s] # NoRow /\ row'[s].stage = "DISCOVERED"
  BY <1>1, <1>2, StageFrame, StageTyped DEF DiscoverAdvance, Advances, Stages
<1>4. UNCHANGED <<folder, hyp, taken, spoilt>> BY DEF DiscoverAdvance, Advances
<1>5. FileFrame BY <1>1, <1>3, <1>4 DEF FileFrame, Knows, KnowsFolder, KnowsSpec
<1>6. RegInv' BY <1>1, <1>3, <1>4, EndStep
<1> QED BY <1>5, <1>6

LEMMA DeathStep ==
  ASSUME TypeInv, RegInv, NEW p \in Scripts, ScriptDies(p)
  PROVE  FileFrame /\ RegInv'
<1> DEFINE s == script[p].src
<1>1. PICK pc \in Steps : At(p, pc) BY IntakeParts DEF ScriptDies, TypeInv, At, Works
<1>2. /\ script'[p].pc = "idle" /\ s \in Sources
      /\ \A q \in Scripts : q # p => script'[q] = script[q]
  BY <1>1, EndsFrame DEF ScriptDies, TypeInv
<1>3. UNCHANGED <<row, folder, hyp, taken, spoilt>> /\ again \subseteq again'
      /\ (script[p].pc = "advance" => s \in again')
  BY DEF ScriptDies, store, At
<1>4. RowsForRegister BY <1>3 DEF RowsForRegister
<1>5. FileFrame BY <1>2, <1>3 DEF FileFrame, RowsForFiles, Knows, KnowsFolder, KnowsSpec
<1>6. RegInv' BY <1>2, <1>3, <1>4, EndStep
<1> QED BY <1>5, <1>6

LEMMA CandidateStep ==
  ASSUME TypeInv, RegInv, NEW p \in Scripts, CandidateAdd(p)
  PROVE  FileFrame /\ RegInv'
<1> DEFINE s == script[p].src
           n == script[p].name
<1>1. {"candidate", "move"} \subseteq Steps /\ "move" \notin Loud BY DEF Steps, Loud
<1>2. Quiet BY <1>1, QuietGoes DEF CandidateAdd
<1>3. s \in Sources /\ n \in Names BY <1>1, GoesFrame DEF CandidateAdd, TypeInv
<1>4. /\ AddHypothesis(n, s, FALSE) /\ again' = again \cup {s}
      /\ UNCHANGED <<row, folder, spoilt>>
  BY DEF CandidateAdd
<1>5. FileFrame BY <1>2, <1>4 DEF FileFrame, RowsForFiles, Quiet
<1>6. {s} = {s} \ {NoSource} BY <1>3, IntakeAssumption
<1> HIDE DEF s, n
<1>7. RegInv' BY <1>2, <1>3, <1>4, <1>6, AddsAgain DEF Quiet
<1> QED BY <1>5, <1>7

-------------------------------------------------------------------------------
IntakeInv == TypeInv /\ FileInv /\ RegInv

LEMMA IntakeStarts == IntakeInit => IntakeInv
<1> SUFFICES ASSUME IntakeInit PROVE IntakeInv OBVIOUS
<1>1. \A p \in Scripts : script[p].pc = "idle" BY DEF IntakeInit, Idle
<1>2. (\A s \in Sources : row[s] = NoRow) /\ \A n \in Names : hyp[n] = NoHyp BY DEF IntakeInit
<1> QED BY <1>1, <1>2, IntakeTypeStarts
        DEF IntakeInv, FileInv, SpecReadyHasSpec, Knows, KnowsFolder, KnowsSpec,
            RegInv, AddedFirst, Once, OneAtIt, Registered, Registers

LEMMA IntakeSteps == IntakeInv /\ [IntakeNext]_intakeVars => IntakeInv'
<1> SUFFICES ASSUME IntakeInv, [IntakeNext]_intakeVars PROVE IntakeInv'
  OBVIOUS
<1>0. TypeInv /\ FileInv /\ RegInv BY DEF IntakeInv
<1>1. TypeInv' BY <1>0, IntakeTypeSteps
<1>2. SUFFICES FileInv' /\ RegInv' BY <1>1 DEF IntakeInv
<1>3. CASE UNCHANGED intakeVars
  <2>1. FileFrame /\ RegFrame
    BY <1>3 DEF intakeVars, FileFrame, RegFrame, RowsForFiles, RowsForRegister, ScriptsForRegister
  <2> QED BY <1>0, <2>1, FileKeeps, RegKeeps
<1>4. ASSUME NEW p \in Scripts, Carries(p) PROVE FileInv' /\ RegInv'
  <2>1. CASE DiscoverAdd(p) \/ DiscoverAdvance(p) \/ CandidateAdd(p)
    BY <1>0, <2>1, AddStep, AdvanceStep, CandidateStep, FileKeeps
  <2>2. CASE SpecWrite(p) \/ SpecReady(p) \/ SetThesisIdentity(p)
    BY <1>0, <2>2, SpecWriteStep, SpecReadyStep, ToldStep, RegKeeps
  <2>3. CASE ~(\/ DiscoverAdd(p) \/ DiscoverAdvance(p) \/ CandidateAdd(p)
               \/ SpecWrite(p) \/ SpecReady(p) \/ SetThesisIdentity(p))
    <3>1. FileFrame /\ RegFrame BY <1>0, <1>4, <2>3, QuietCarry DEF Carries
    <3> QED BY <1>0, <3>1, FileKeeps, RegKeeps
  <2> QED BY <2>1, <2>2, <2>3
<1>5. ASSUME NEW p \in Scripts, NEW n \in Names, NEW s \in BySlug(n), NEW m \in Names,
             AssignRename(p, s, m)
      PROVE  FileInv' /\ RegInv'
  BY <1>0, <1>5, RenameStep, RegKeeps
<1>6. ASSUME NEW p \in Scripts,
             \/ \E s \in Sources : \/ CaptureItem(p, s)
                                   \/ \E f \in BOOLEAN : BuildIntake(p, s, f)
             \/ \E n \in Names : \/ RegisterCandidate(p, n) \/ MigrateMove(p, n) \/ MigrateFlat(p, n)
                                 \/ \E s \in BySlug(n) :
                                      /\ OnSlug(p, s) /\ ~\E m \in Names : AssignRename(p, s, m)
      PROVE  FileInv' /\ RegInv'
  <2>1. FileFrame /\ RegFrame BY <1>0, <1>6, QuietBegin
  <2> QED BY <1>0, <2>1, FileKeeps, RegKeeps
<1>7. ASSUME NEW p \in Scripts, Discovers(p) PROVE FileInv' /\ RegInv'
  BY <1>0, <1>7, RegisterStep, FileKeeps DEF Discovers
<1>8. ASSUME NEW p \in Scripts, ScriptDies(p) PROVE FileInv' /\ RegInv'
  BY <1>0, <1>8, DeathStep, FileKeeps
<1>9. ASSUME NEW n \in Names,
             FillIn(n) \/ \E s \in Urls(n), refs \in BOOLEAN : Propose(n, s, refs)
      PROVE  FileInv' /\ RegInv'
  BY <1>0, <1>9, EditStep, FileKeeps
<1> QED BY <1>3, <1>4, <1>5, <1>6, <1>7, <1>8, <1>9 DEF IntakeNext

LEMMA IntakeInvariant == IntakeSpec => []IntakeInv
<1>1. IntakeInit => IntakeInv BY IntakeStarts
<1>2. IntakeInv /\ [IntakeNext]_intakeVars => IntakeInv' BY IntakeSteps
<1> QED BY <1>1, <1>2, PTL DEF IntakeSpec

\* Every row, folder and hypothesis is one the pipeline can name.
THEOREM IntakeTyped == IntakeSpec => []IntakeTypeOK
<1>1. IntakeInv => IntakeTypeOK BY DEF IntakeInv, TypeInv
<1> QED BY <1>1, IntakeInvariant, PTL

\* A source that the queue offers to discover_strategies.py has a filled spec,
\* unless another script moved or reset its files, however many run at once.
THEOREM ReadySourcesHaveSpecs == IntakeSpec => []SpecReadyHasSpec
<1>1. IntakeInv => SpecReadyHasSpec BY DEF IntakeInv, FileInv
<1> QED BY <1>1, IntakeInvariant, PTL

\* Only the last step of a registration, and the migration of a spec-grade flat
\* file, make a row DISCOVERED.
LEMMA OnlyAdvanceDiscovers ==
  ASSUME TypeInv, IntakeNext, NEW s \in Sources, row[s] # NoRow,
         row[s].stage # "DISCOVERED", row'[s].stage = "DISCOVERED"
  PROVE  \E p \in Scripts : (DiscoverAdvance(p) \/ MigrateDiscovers(p)) /\ script[p].src = s
<1>0. row \in [Sources -> Rows \cup {NoRow}] /\ IntakeTypeOK BY IntakeParts DEF TypeInv
<1>1. row' # row OBVIOUS
<1>2. ASSUME NEW t \in Sources, NEW n \in Names, RecordIntake(t, n) PROVE FALSE
  BY <1>2, RecordTyped
<1>3. ASSUME NEW t \in Sources, row[t] # NoRow, NEW stage \in Stages,
             stage # "DISCOVERED" \/ t # s, AdvanceStage(t, stage)
      PROVE  FALSE
  <2>1. row'[t].stage = stage /\ \A u \in Sources : u # t => row'[u] = row[u]
    BY <1>3, StageTyped
  <2> QED BY <1>3, <2>1
<1>4. ASSUME NEW p \in Scripts, script[p].pc \in Needing
      PROVE  script[p].src \in Sources /\ script[p].name \in Names /\ row[script[p].src] # NoRow
  <2>1. script[p].pc \in Steps BY <1>4 DEF Needing, Steps
  <2> QED BY <1>0, <1>4, <2>1, WorksOn DEF TypeInv, ScriptsHaveRows
<1>5. {"DOSSIER_READY", "MEMO_READY", "SPEC_READY", "DISCOVERED"} \subseteq Stages BY DEF Stages
<1>6. ASSUME NEW p \in Scripts, Carries(p)
      PROVE  (DiscoverAdvance(p) \/ MigrateDiscovers(p)) /\ script[p].src = s
  <2>1. CASE SetThesisIdentity(p)
    <3> DEFINE t == script[p].src
               n == script[p].name
               w == row[t]
               v == [w EXCEPT !.thesis = n, !.folder = n]
    <3>1. t \in Sources /\ w \in Rows /\ n \in Names
      BY <1>0, <1>4, <2>1 DEF SetThesisIdentity, At, Needing
    <3>2. row' = [row EXCEPT ![t] = v] BY <1>0, <2>1, <3>1 DEF SetThesisIdentity
    <3>3. row[t] = w OBVIOUS
    <3> HIDE DEF t, n, w
    <3>4. v # NoRow /\ v.stage = w.stage
      <4>1. w \in Rows /\ n \in Names BY <3>1
      <4> QED BY <4>1, IntakeAssumption DEF Rows
    <3> HIDE DEF v
    <3> QED BY <1>0, <3>1, <3>2, <3>3, <3>4
  <2>2. CASE \/ BuildAdvance(p) \/ MemoStage(p) \/ MemoReady(p) \/ SpecStage(p)
             \/ MigrateAdvance(p) \/ SpecReady(p)
    <3>1. \E stage \in {"DOSSIER_READY", "MEMO_READY", "SPEC_READY"} :
            script[p].pc \in Needing /\ AdvanceStage(script[p].src, stage)
      BY <2>2 DEF BuildAdvance, MemoStage, MemoReady, SpecStage, MigrateAdvance, SpecReady,
                  Advances, At, Needing
    <3> QED BY <1>3, <1>4, <1>5, <3>1
  <2>3. CASE DiscoverAdvance(p) \/ MigrateDiscovers(p)
    <3>1. script[p].pc \in Needing /\ AdvanceStage(script[p].src, "DISCOVERED")
      BY <2>3 DEF DiscoverAdvance, Advances, MigrateDiscovers, At, Needing
    <3> QED BY <1>3, <1>4, <1>5, <2>3, <3>1
  <2>4. CASE CaptureIntake(p) \/ MigrateIntake(p)
    <3>1. RecordIntake(script[p].src, script[p].name) /\ script[p].pc \in Steps
      BY <1>1, <2>4 DEF CaptureIntake, MigrateIntake, At, Steps
    <3> QED BY <1>0, <1>2, <3>1, WorksOn
  <2>5. CASE \/ ArchiveSourceItem(p) \/ CandidateToInbox(p) \/ BuildWrite(p) \/ BuildRead(p)
             \/ MemoWrite(p) \/ SpecWrite(p) \/ DiscoverAdd(p) \/ CandidateAdd(p) \/ MoveInbox(p)
    BY <1>1, <2>5 DEF ArchiveSourceItem, CandidateToInbox, BuildWrite, BuildRead, MemoWrite,
                      SpecWrite, DiscoverAdd, CandidateAdd, MoveInbox, store
  <2> QED BY <1>6, <2>1, <2>2, <2>3, <2>4, <2>5 DEF Carries
<1>7. ASSUME NEW p \in Scripts, NEW t \in Sources, NEW f \in BOOLEAN, BuildIntake(p, t, f) PROVE FALSE
  BY <1>2, <1>7, IntakeAssumption DEF BuildIntake
<1>8. ASSUME NEW p \in Scripts,
             \/ Discovers(p) \/ ScriptDies(p) \/ \E t \in Sources : CaptureItem(p, t)
             \/ \E n \in Names : \/ RegisterCandidate(p, n) \/ MigrateMove(p, n) \/ MigrateFlat(p, n)
                                 \/ \E t \in BySlug(n) : OnSlug(p, t)
      PROVE  FALSE
  BY <1>1, <1>8 DEF Discovers, RegisterFromIngestion, ScriptDies, CaptureItem, RegisterCandidate,
                    MigrateMove, MigrateFlat, OnSlug, FinalizeMemo, FinalizeSpec, ScaffoldMemo,
                    ScaffoldSpec, AssignRename, store
<1>9. ASSUME NEW n \in Names,
             FillIn(n) \/ \E t \in Urls(n), refs \in BOOLEAN : Propose(n, t, refs)
      PROVE  FALSE
  BY <1>1, <1>9 DEF FillIn, Propose
<1> QED BY <1>6, <1>7, <1>8, <1>9 DEF IntakeNext

\* A row is DISCOVERED only after its hypothesis was written, whichever script
\* dies and however many register at once, but for the migration of a flat file.
THEOREM DiscoveredAreRegistered == IntakeSpec => DiscoveredIsRegistered
<1>1. ASSUME IntakeInv, [IntakeNext]_intakeVars, NEW s \in Sources, row[s] # NoRow,
             row[s].stage # "DISCOVERED", row'[s].stage = "DISCOVERED"
      PROVE  \/ s \in taken
             \/ \E n \in Names : hyp'[n] # NoHyp /\ hyp'[n].src = s
             \/ \E p \in Scripts : At(p, "legacy_stage") /\ script[p].src = s
  <2>0. TypeInv /\ RegInv BY <1>1 DEF IntakeInv
  <2>1. IntakeNext BY <1>1 DEF intakeVars
  <2>2. PICK p \in Scripts : (DiscoverAdvance(p) \/ MigrateDiscovers(p)) /\ script[p].src = s
    BY <1>1, <2>0, <2>1, OnlyAdvanceDiscovers
  <2>3. CASE DiscoverAdvance(p)
    BY <2>0, <2>2, <2>3 DEF DiscoverAdvance, Advances, At, RegInv, AddedFirst, Registered
  <2>4. CASE MigrateDiscovers(p) BY <2>2, <2>4 DEF MigrateDiscovers
  <2> QED BY <2>2, <2>3, <2>4
<1>2. IntakeInv /\ [IntakeNext]_intakeVars =>
        \A s \in Sources :
          row[s] # NoRow /\ row[s].stage # "DISCOVERED" /\ row'[s].stage = "DISCOVERED"
            => \/ s \in taken
               \/ \E n \in Names : hyp'[n] # NoHyp /\ hyp'[n].src = s
               \/ \E p \in Scripts : At(p, "legacy_stage") /\ script[p].src = s
  BY <1>1
<1> QED BY <1>2, IntakeInvariant, PTL DEF IntakeSpec, DiscoveredIsRegistered

\* References that code generation wrote are lost only to another source, to a
\* source registered again, or to a file proposed without them, however the
\* scripts interleave.
THEOREM ReferencesAreKept == IntakeSpec => RefsKept
<1>1. ASSUME IntakeInv, [IntakeNext]_intakeVars, NEW n \in Names, hyp[n] # NoHyp, hyp[n].refs,
             ~hyp'[n].refs
      PROVE  \/ hyp'[n].src # hyp[n].src \/ hyp[n].src \in again'
             \/ Propose(n, hyp'[n].src, FALSE)
  <2>0. TypeInv /\ RegInv /\ IntakeTypeOK BY <1>1 DEF IntakeInv, TypeInv
  <2>1. hyp' # hyp BY <1>1
  <2>2. IntakeNext BY <1>1 DEF intakeVars
  <2>3. hyp \in [Names -> Hyps \cup {NoHyp}] BY <2>0, IntakeParts
  <2>4. ASSUME NEW p \in Scripts, NEW from \in {"add", "candidate"}, NEW pc \in Steps,
               At(p, from), Goes(p, pc), AddHypothesis(script[p].name, script[p].src, FALSE),
               again \subseteq again', from = "candidate" => script[p].src \in again'
        PROVE  hyp'[n].src # hyp[n].src \/ hyp[n].src \in again'
    <3>0. from \in Steps BY DEF Steps
    <3>1. script[p].pc = from /\ script[p].src \in Sources /\ script[p].name \in Names
      BY <2>0, <2>4, <3>0, GoesFrame
    <3>2. /\ hyp'[script[p].name].src = script[p].src
          /\ \A m \in Names : m # script[p].name => hyp'[m] = hyp[m]
      <4> DEFINE s == script[p].src
                 k == script[p].name
      <4>1. s \in Sources \cup {NoSource} /\ k \in Names /\ AddHypothesis(k, s, FALSE)
        BY <2>4, <3>1
      <4> HIDE DEF s, k
      <4>2. hyp'[k].src = s /\ \A m \in Names : m # k => hyp'[m] = hyp[m]
        BY <2>0, <4>1, AddTyped
      <4> QED BY <4>2 DEF s, k
    <3>3. n = script[p].name BY <1>1, <3>2
    <3>4. CASE from = "candidate" BY <2>4, <3>2, <3>3, <3>4
    <3>5. CASE from = "add"
      <4>1. hyp[n].src = script[p].src => hyp[n].src \in again
        BY <1>1, <2>0, <3>1, <3>5 DEF RegInv, Once, Registered, NoneBefore
      <4> QED BY <2>4, <3>2, <3>3, <4>1
    <3> QED BY <3>4, <3>5
  <2>5. ASSUME NEW p \in Scripts, Carries(p)
        PROVE  hyp'[n].src # hyp[n].src \/ hyp[n].src \in again'
    <3>1. CASE DiscoverAdd(p) \/ CandidateAdd(p)
      BY <2>4, <3>1 DEF DiscoverAdd, CandidateAdd, Steps
    <3>2. CASE ~(DiscoverAdd(p) \/ CandidateAdd(p))
      BY <2>1, <2>5, <3>2 DEF Carries, ArchiveSourceItem, CandidateToInbox, CaptureIntake,
         BuildWrite, BuildRead, BuildAdvance, MemoWrite, MemoStage, MemoReady, SpecWrite, SpecStage,
         SpecReady, SetThesisIdentity, DiscoverAdvance, MoveInbox, MigrateIntake, MigrateAdvance,
         MigrateDiscovers, Advances, store
    <3> QED BY <3>1, <3>2
  <2>6. ASSUME NEW m \in Names, NEW s \in Urls(m), NEW refs \in BOOLEAN, Propose(m, s, refs)
        PROVE  Propose(n, hyp'[n].src, FALSE)
    <3>1. s \in Sources \cup {NoSource} BY <2>3, IntakeAssumption DEF Urls, Hyps
    <3>2. /\ hyp'[m].src = s /\ hyp'[m].refs = refs
          /\ \A k \in Names : k # m => hyp'[k] = hyp[k]
      BY <2>0, <2>6, <3>1, AddTyped DEF Propose
    <3>3. n = m BY <1>1, <3>2
    <3>4. refs = FALSE BY <1>1, <3>2, <3>3
    <3> QED BY <2>6, <3>2, <3>3, <3>4
  <2>7. ASSUME NEW p \in Scripts,
               \/ Discovers(p) \/ ScriptDies(p)
               \/ \E s \in Sources : \/ CaptureItem(p, s)
                                     \/ \E f \in BOOLEAN : BuildIntake(p, s, f)
               \/ \E m \in Names : \/ RegisterCandidate(p, m) \/ MigrateMove(p, m)
                                   \/ MigrateFlat(p, m) \/ \E s \in BySlug(m) : OnSlug(p, s)
        PROVE  FALSE
    BY <2>1, <2>7 DEF Discovers, RegisterFromIngestion, ScriptDies, CaptureItem, BuildIntake,
         RegisterCandidate, MigrateMove, MigrateFlat, OnSlug, FinalizeMemo, FinalizeSpec,
         ScaffoldMemo, ScaffoldSpec, AssignRename, store
  <2>8. ASSUME NEW m \in Names, FillIn(m) PROVE FALSE
    BY <2>1, <2>8 DEF FillIn
  <2> QED BY <2>2, <2>5, <2>6, <2>7, <2>8 DEF IntakeNext
<1>2. IntakeInv /\ [IntakeNext]_intakeVars =>
        \A n \in Names : hyp[n] # NoHyp /\ hyp[n].refs /\ ~hyp'[n].refs
                           => \/ hyp'[n].src # hyp[n].src \/ hyp[n].src \in again'
                              \/ Propose(n, hyp'[n].src, FALSE)
  BY <1>1
<1> QED BY <1>2, IntakeInvariant, PTL DEF IntakeSpec, RefsKept

-------------------------------------------------------------------------------
(* Research *)

\* A run of the whole is a run of each component: the one that runs takes its
\* own steps, and the others stutter.
LEMMA RunsOfEach ==
  ResearchSpec => /\ BtSpec /\ HlSpec /\ InSpec /\ HhSpec
                  /\ OptSpec /\ CcSpec /\ IntakeSpec /\ BookSpec
<1>1. ResearchInit => /\ BtInit /\ HlInit /\ InInit /\ HhInit
                      /\ OptInit /\ CcInit /\ IntakeInit /\ BookInit
  BY DEF ResearchInit
<1>2. ASSUME [ResearchNext]_researchVars
      PROVE  /\ [BtNext]_btVars /\ [HlNext]_hlVars /\ [InNext]_inVars /\ [HhNext]_hhVars
             /\ [OptNext]_optVars /\ [CcNext]_ccVars /\ [IntakeNext]_intakeVars
             /\ [BookNext]_bookVars
  <2>1. CASE Bt BY <2>1 DEF Bt
  <2>2. CASE Hl BY <2>2 DEF Hl
  <2>3. CASE In BY <2>3 DEF In
  <2>4. CASE Hh BY <2>4 DEF Hh
  <2>5. CASE Opt BY <2>5 DEF Opt
  <2>6. CASE Cc BY <2>6 DEF Cc
  <2>7. CASE Queues BY <2>7 DEF Queues
  <2>8. CASE Book BY <2>8 DEF Book
  <2>9. CASE UNCHANGED researchVars BY <2>9 DEF researchVars
  <2> QED BY <1>2, <2>1, <2>2, <2>3, <2>4, <2>5, <2>6, <2>7, <2>8, <2>9 DEF ResearchNext
<1> QED
  BY <1>1, <1>2, PTL DEF ResearchSpec, BtSpec, HlSpec, InSpec, HhSpec, OptSpec, CcSpec,
     IntakeSpec, BookSpec

\* In every state of the whole each component's type predicate holds; what it
\* names, and what it leaves to the component's other invariants, it says itself.
THEOREM ResearchTyped == ResearchSpec => []ResearchTypeOK
  BY RunsOfEach, BacktestTyped, HlBacktestTyped, IngestTyped, HistoryTyped, OptTyped,
     CcTypeCorrect, IntakeTyped, BookTyped, PTL
     DEF ResearchTypeOK

\* What the research side promises of its results: each component's safety
\* property, at any moment of a run of the whole.
ResearchSafe ==
  /\ SeriesIsTerminal /\ CoinsAddUp /\ TradesComplete /\ WalkComplete
  /\ ReadyRanEverywhere /\ SpecReadyHasSpec /\ ReportedIsCash /\ HaltIsEarned

\* It keeps every one of them: the prices of a backtest agree, a download that
\* ended is complete, a configuration that is ready ran everywhere, a ready
\* source has its spec, the paper book reports its cash, and a slug is halted
\* for a loss or under the global kill switch.
THEOREM ResearchIsSafe == ResearchSpec => []ResearchSafe
  BY RunsOfEach, SeriesAgree, CoinsAreAdded, TradesAreComplete, WalksAreComplete,
     ReadyRan, ReadySourcesHaveSpecs, SummaryIsCash, HaltsAreEarned, PTL
     DEF ResearchSafe

\* Nor does a step of the whole break what a step of a component may not: a
\* job that succeeds has committed, a source becomes discovered only when it
\* is registered, and references are kept.
THEOREM ResearchStepsAreSafe ==
  ResearchSpec => SuccessIsCommitted /\ DiscoveredIsRegistered /\ RefsKept
  BY RunsOfEach, SuccessMeansCommitted, DiscoveredAreRegistered, ReferencesAreKept, Zenon
===============================================================================
