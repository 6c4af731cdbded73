------------------------------- MODULE CronCommit -----------------------------
(* How the scheduled jobs put the files they wrote under version control      *)
(* (hermes_remaining_crons.py, commit_repo_changes.py): each job compares the *)
(* files under its paths before and after its work, stages all of them when   *)
(* one is new, and commits and pushes the index, which all jobs share.        *)
EXTENDS Naturals

CONSTANTS
  Captures, Inbox,              \* files a job may write under each of
  Hypotheses, Outputs, Reports  \* the directories of research/

VARIABLES
  disk,    \* files written
  index,   \* files staged or tracked
  head,    \* files committed
  cron     \* of each job: pc, files before and after its work, last result
ccVars == <<disk, index, head, cron>>

Crons == {"capture", "discover", "optimize", "summary"}
Under(c) == CASE c = "capture" -> Captures \union Inbox
              [] c = "discover" -> Inbox \union Hypotheses
              [] c = "optimize" -> Outputs \union Hypotheses
              [] c = "summary" -> Reports
\* .gitignore names them, and no job passes --force
Ignored == Captures \union Inbox
CommitPaths(c) == Under(c) \intersect disk

Idling == [pc |-> "idle", before |-> {}, seen |-> {}, said |-> "none"]
CcInit == /\ disk = {} /\ index = {} /\ head = {} /\ cron = [c \in Crons |-> Idling]

CronGoes(c, pc) == cron' = [cron EXCEPT ![c].pc = pc]
Says(c, result) == cron' = [cron EXCEPT ![c] = [Idling EXCEPT !.said = result]]

\* _snapshot_files before the work
CronBegins(c) == /\ cron[c].pc = "idle"
                 /\ cron' = [cron EXCEPT ![c].pc = "works", ![c].said = "none",
                                         ![c].before = CommitPaths(c)]
                 /\ UNCHANGED <<disk, index, head>>
Writes(c, f) == /\ cron[c].pc = "works" /\ disk' = disk \union {f}
                /\ UNCHANGED <<index, head, cron>>
\* an error, or a count or a state that does not verify, ends the run uncommitted
CronFails(c) == /\ cron[c].pc = "works" /\ Says(c, "failed")
                /\ UNCHANGED <<disk, index, head>>

\* _autocommit_new_files
CronCollects(c) ==
  /\ cron[c].pc = "works"
  /\ IF CommitPaths(c) \subseteq cron[c].before THEN Says(c, "ok")
     ELSE cron' = [cron EXCEPT ![c].pc = "adds", ![c].seen = CommitPaths(c)]
  /\ UNCHANGED <<disk, index, head>>

\* git add -A: it stages what it may and still fails on an ignored path
Staged(c) == CommitPaths(c) \ Ignored
GitAddNewOnly(c) ==
  /\ cron[c].pc = "adds" /\ index' = index \union (Staged(c) \ cron[c].before)
  /\ IF Under(c) \intersect Ignored # {} THEN Says(c, "failed") ELSE CronGoes(c, "diffs")
  /\ UNCHANGED <<disk, head>>
GitAdd(c) ==
  /\ cron[c].pc = "adds" /\ index' = index \union Staged(c)
  /\ IF Under(c) \intersect Ignored # {} THEN Says(c, "failed") ELSE CronGoes(c, "diffs")
  /\ UNCHANGED <<disk, head>>
\* another git holds the index
GitLocked(c) == /\ cron[c].pc \in {"adds", "commits"} /\ Says(c, "failed")
                /\ UNCHANGED <<disk, index, head>>
GitDiff(c) ==
  /\ cron[c].pc = "diffs"
  /\ IF index \intersect Under(c) \subseteq head THEN Says(c, "ok")
     ELSE CronGoes(c, "commits")
  /\ UNCHANGED <<disk, index, head>>
\* A git diff that fails prints nothing, its code is not looked at, and the run
\* reports success: kept apart here as "undiffed".
GitDiffFails(c) == /\ cron[c].pc = "diffs" /\ Says(c, "undiffed")
                   /\ UNCHANGED <<disk, index, head>>
\* git commit takes the whole index
GitCommit(c) ==
  /\ cron[c].pc = "commits" /\ head' = index
  /\ IF index = head THEN Says(c, "failed") ELSE CronGoes(c, "pushes")
  /\ UNCHANGED <<disk, index>>
GitPush(c) == /\ cron[c].pc = "pushes" /\ \E r \in {"ok", "failed"} : Says(c, r)
              /\ UNCHANGED <<disk, index, head>>

Cron(c) ==
  \/ CronBegins(c) \/ CronFails(c) \/ CronCollects(c) \/ GitLocked(c)
  \/ \E f \in Under(c) \ disk : Writes(c, f)
  \/ GitAdd(c) \/ GitDiff(c) \/ GitDiffFails(c) \/ GitCommit(c) \/ GitPush(c)
cron_research_capture == Cron("capture")
cron_research_discover == Cron("discover")
cron_research_optimize_queue == Cron("optimize")
cron_paper_summary == Cron("summary")
CcNext == \/ cron_research_capture \/ cron_research_discover
          \/ cron_research_optimize_queue \/ cron_paper_summary
CcSpec == CcInit /\ [][CcNext]_ccVars

-------------------------------------------------------------------------------
\* Shape of the state; what is committed was staged, what is staged was written.
CcTypeOK == /\ \A c \in Crons :
                 cron[c].pc \in {"idle", "works", "adds", "diffs", "commits", "pushes"}
            /\ head \subseteq index /\ index \subseteq disk

\* A job that found new files and then reports success, and whose git diff did
\* not fail unnoticed, has every file it found under its paths in the
\* repository, also those an earlier run wrote and failed to commit, and
\* whichever job's commit took them.
SuccessIsCommitted ==
  [][\A c \in Crons :
       cron[c].pc \notin {"idle", "works"} /\ cron'[c].said = "ok"
         => cron[c].seen \subseteq head']_ccVars
===============================================================================
