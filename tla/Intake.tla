-------------------------------- MODULE Intake --------------------------------
(* The research pipeline, from a source's url to a PROPOSED hypothesis:       *)
(* agent/source_capture.py archives it and drops a file into manual_inbox,   *)
(* agent/ingestion.py keeps one row per url, and build_source_dossier.py,    *)
(* distill_source_material.py, assign_thesis_name.py, write_hypothesis_spec  *)
(* .py and discovery.register_from_ingestion carry the row from CAPTURED to  *)
(* DISCOVERED.  Each script reads, writes files and writes the database in   *)
(* turn; others run, and it may die, between two of these steps.  No script  *)
(* writes the stages REJECTED_SOURCE and SHELVED_SOURCE; a row's status says *)
(* nothing its stage does not, where a script reads it.                      *)
EXTENDS Naturals, Sequences, FiniteSets

CONSTANTS
  Sources,     \* urls
  Names,       \* slugs; folders, inbox files and hypotheses are named by them
  CaptureSlug, \* [Sources -> Names]: slug of a source's title
  MaxPerRun,   \* --max-per-run of discover_strategies.py
  Scripts,     \* slots, numbered, for scripts that run at the same time
  FileUrls,    \* urls that files written by hand may name, or NoSource
  Legacy,      \* flat files that research/hypotheses holds at the start
  MaxOdd,      \* bound: how often a script begins while another works, a script
               \* dies, --force is given, a folder is renamed, the legacy inbox or
               \* the migration is used, or propose_hypothesis.py is run otherwise
               \* than after code generation
  NoSource, NoName, NoRow, NoHyp, NoFlat

Stages == {"CAPTURED", "DOSSIER_READY", "MEMO_READY", "SPEC_READY", "DISCOVERED"}
Rows == [stage : Stages, slug : Names, thesis : Names \cup {NoName}, folder : Names]
Hyps == [src : Sources \cup {NoSource}, refs : BOOLEAN]
Flats == [src : Sources, spec : BOOLEAN]

ASSUME IntakeAssumption == /\ CaptureSlug \in [Sources -> Names]
                           /\ MaxPerRun \in Nat \ {0} /\ MaxOdd \in Nat /\ Scripts \subseteq Nat
                           /\ FileUrls \subseteq Sources \cup {NoSource}
                           /\ NoSource \notin Sources /\ NoName \notin Names
                           /\ NoRow \notin Rows /\ NoHyp \notin Hyps
                           /\ Legacy \in [Names -> Flats \cup {NoFlat}] /\ NoFlat \notin Flats

VARIABLES
  archived, \* sources whose raw capture is on disk
  inbox,    \* inbox[n]: the source whose file manual_inbox/n.md is
  row,      \* row[s]: its ingestion_items row; order: rows by created_at
  order,
  folder,   \* folder[n]: what research/hypotheses/n holds
  flat,     \* flat[n]: the file research/hypotheses/n.md, spec-grade or not
  hyp,      \* hyp[n]: the hypotheses row n
  taken,    \* history: sources whose hypothesis another source replaced
  script,   \* script[p]: where script p is and what it works on
  spoilt,   \* history: sources whose files another script moved or reset
  again,    \* history: sources that may be registered a second time
  odd       \* counter for MaxOdd

intakeVars == <<archived, inbox, row, order, folder, flat, hyp, taken, script,
                spoilt, again, odd>>
store == <<archived, inbox, row, order, folder, flat, hyp, taken>>

Drafts == {"none", "todo", "filled"}
Folders == [dossier : BOOLEAN, memo : Drafts, spec : Drafts]
NoFolder == [dossier |-> FALSE, memo |-> "none", spec |-> "none"]
Idle == [pc |-> "idle", src |-> NoSource, name |-> NoName]
Steps == {"archive", "inbox", "intake", "dossier", "built", "captured",
          "memo", "memo_row", "memo_stage", "memo_ready",
          "spec", "spec_row", "spec_stage", "spec_ready", "rename", "add", "advance",
          "candidate", "move", "migrate", "migrated", "legacy", "legacy_stage"}

IntakeInit ==
  /\ archived = {}
  /\ inbox = [n \in Names |-> NoSource]
  /\ row = [s \in Sources |-> NoRow]
  /\ order = <<>>
  /\ folder = [n \in Names |-> NoFolder] /\ flat = Legacy
  /\ hyp = [n \in Names |-> NoHyp]
  /\ script = [p \in Scripts |-> Idle]
  /\ taken = {} /\ spoilt = {} /\ again = {} /\ odd = 0

Odd(k) == odd' = odd + k /\ odd' <= MaxOdd
Forced(force) == IF force THEN 1 ELSE 0

(* A script begins in the first slot that is idle, unusual or not, beside    *)
(* those that are at work.                                                   *)
Starts(p, pc, s, n, unusual) ==
  /\ script[p] = Idle /\ \A q \in Scripts : q < p => script[q] # Idle
  /\ script' = [script EXCEPT ![p] = [pc |-> pc, src |-> s, name |-> n]]
  /\ Odd(unusual + Cardinality({q \in Scripts : script[q] # Idle}))
At(p, pc) == script[p].pc = pc
Goes(p, pc) == script' = [script EXCEPT ![p].pc = pc]
Ends(p) == script' = [script EXCEPT ![p] = Idle]

-----------------------------------------------------------------------------
(* The two tables.                                                           *)

(* record_intake: a url that has a row keeps it as it is.                    *)
RecordIntake(s, n) ==
  IF row[s] # NoRow
  THEN UNCHANGED <<row, order>>
  ELSE /\ row' = [row EXCEPT ![s] = [stage |-> "CAPTURED", slug |-> n,
                                     thesis |-> NoName, folder |-> n]]
       /\ order' = Append(order, s)

(* advance_stage looks at the old stage for its event only: it also goes     *)
(* back.                                                                     *)
AdvanceStage(s, stage) ==
  /\ row' = [row EXCEPT ![s].stage = stage]
  /\ again' = IF row[s].stage = "DISCOVERED" THEN again \cup {s} ELSE again

(* get_by_slug: a row whose thesis slug it is, or else whose capture slug.   *)
BySlug(n) ==
  LET named == {s \in Sources : row[s] # NoRow /\ row[s].thesis = n}
  IN  IF named # {} THEN named
      ELSE {s \in Sources : row[s] # NoRow /\ row[s].slug = n}

SlugOf(s) == IF row[s].thesis # NoName THEN row[s].thesis ELSE row[s].slug
Files(s) == folder[row[s].folder]

(* already_seen *)
AlreadySeen(s) == \E n \in Names : hyp[n] # NoHyp /\ hyp[n].src = s

(* lifecycle.add_hypothesis: an existing row keeps its state, and its url    *)
(* and strategy references are replaced by what the caller gives.            *)
AddHypothesis(n, s, refs) ==
  /\ hyp' = [hyp EXCEPT ![n] = [src |-> s, refs |-> refs]]
  /\ taken' = IF hyp[n] # NoHyp /\ hyp[n].src # s
              THEN taken \cup ({hyp[n].src} \ {NoSource}) ELSE taken

(* The last step of several scripts.                                         *)
Advances(p, pc, stage) ==
  /\ At(p, pc) /\ Ends(p)
  /\ AdvanceStage(script[p].src, stage)
  /\ UNCHANGED <<archived, inbox, order, folder, flat, hyp, taken, spoilt, odd>>

-----------------------------------------------------------------------------
(* Capture: cron_capture, the link dropbox and ingest_link.py.               *)

CaptureItem(p, s) ==
  /\ ~AlreadySeen(s) /\ s \notin archived
  /\ \A n \in Names : inbox[n] # s
  /\ Starts(p, "archive", s, CaptureSlug[s], 0)
  /\ UNCHANGED <<store, spoilt, again>>

ArchiveSourceItem(p) ==
  /\ At(p, "archive") /\ Goes(p, "inbox")
  /\ archived' = archived \cup {script[p].src}
  /\ UNCHANGED <<inbox, row, order, folder, flat, hyp, taken, spoilt, again, odd>>

(* candidate_to_inbox_md: a file of the same slug is replaced.               *)
CandidateToInbox(p) ==
  /\ At(p, "inbox") /\ Goes(p, "intake")
  /\ inbox' = [inbox EXCEPT ![script[p].name] = script[p].src]
  /\ UNCHANGED <<archived, row, order, folder, flat, hyp, taken, spoilt, again, odd>>

(* "non-fatal best-effort"                                                   *)
CaptureIntake(p) ==
  /\ At(p, "intake") /\ Ends(p)
  /\ RecordIntake(script[p].src, script[p].name) \/ UNCHANGED <<row, order>>
  /\ UNCHANGED <<archived, inbox, folder, flat, hyp, taken, spoilt, again, odd>>

-----------------------------------------------------------------------------
(* build_source_dossier.py on a raw capture.                                 *)

BuildIntake(p, s, force) ==
  /\ s \in archived
  /\ RecordIntake(s, CaptureSlug[s])
  /\ IF folder[CaptureSlug[s]].dossier /\ ~force
     THEN script[p] = Idle /\ UNCHANGED <<script, odd>>
     ELSE Starts(p, "dossier", s, CaptureSlug[s], Forced(force))
  /\ UNCHANGED <<archived, inbox, folder, flat, hyp, taken, spoilt, again>>

BuildWrite(p) ==
  /\ At(p, "dossier") /\ Goes(p, "built")
  /\ folder' = [folder EXCEPT ![script[p].name].dossier = TRUE]
  /\ UNCHANGED <<archived, inbox, row, order, flat, hyp, taken, spoilt, again, odd>>

(* The row is read again, and told if it was CAPTURED then.                  *)
BuildRead(p) ==
  /\ At(p, "built")
  /\ IF row[script[p].src].stage = "CAPTURED" THEN Goes(p, "captured") ELSE Ends(p)
  /\ UNCHANGED <<store, spoilt, again, odd>>

BuildAdvance(p) == Advances(p, "captured", "DOSSIER_READY")

-----------------------------------------------------------------------------
(* distill_source_material.py and write_hypothesis_spec.py: scaffold, edit,  *)
(* finalize.  A file that is there is kept unless --force.  The row and the  *)
(* files are read first; the file is written, and the stage set, by what was *)
(* read.                                                                     *)

ScaffoldMemo(p, s, force) ==
  /\ Files(s).dossier
  /\ Files(s).memo = "none" \/ force
  /\ Starts(p, IF row[s].stage = "DOSSIER_READY" THEN "memo_row" ELSE "memo",
            s, row[s].folder, Forced(force))
  /\ UNCHANGED <<store, spoilt, again>>

(* The folder is made when it is gone.                                       *)
MemoWrite(p) ==
  /\ \/ At(p, "memo") /\ Ends(p)
     \/ At(p, "memo_row") /\ Goes(p, "memo_stage")
  /\ folder' = [folder EXCEPT ![script[p].name].memo = "todo"]
  /\ UNCHANGED <<archived, inbox, row, order, flat, hyp, taken, spoilt, again, odd>>

MemoStage(p) == Advances(p, "memo_stage", "DOSSIER_READY")

FinalizeMemo(p, s) ==
  /\ Files(s).dossier /\ Files(s).memo = "filled"
  /\ Starts(p, "memo_ready", s, row[s].folder, 0)
  /\ UNCHANGED <<store, spoilt, again>>

MemoReady(p) == Advances(p, "memo_ready", "MEMO_READY")

ScaffoldSpec(p, s, force) ==
  /\ Files(s).memo # "none"
  /\ Files(s).spec = "none" \/ force
  /\ Starts(p, IF row[s].stage \in {"MEMO_READY", "DOSSIER_READY"} THEN "spec_row" ELSE "spec",
            s, row[s].folder, Forced(force))
  /\ UNCHANGED <<store, spoilt, again>>

(* A spec that is reset is spoilt for every row of the folder; one whose     *)
(* folder is gone cannot be written, and the script ends.                    *)
SpecWrite(p) ==
  LET n == script[p].name
  IN  /\ At(p, "spec") \/ At(p, "spec_row")
      /\ IF folder[n] = NoFolder
         THEN Ends(p) /\ UNCHANGED <<folder, spoilt>>
         ELSE /\ IF At(p, "spec") THEN Ends(p) ELSE Goes(p, "spec_stage")
              /\ folder' = [folder EXCEPT ![n].spec = "todo"]
              /\ spoilt' = IF folder[n].spec # "filled" THEN spoilt
                           ELSE spoilt \cup {s \in Sources : row[s] # NoRow /\ row[s].folder = n}
      /\ UNCHANGED <<archived, inbox, row, order, flat, hyp, taken, again, odd>>

SpecStage(p) == Advances(p, "spec_stage", "MEMO_READY")

(* Mutant: the sections are not looked at.                                   *)
FinalizeSpecUnread(p, s) ==
  /\ Files(s).memo # "none" /\ Files(s).spec # "none"
  /\ Starts(p, "spec_ready", s, row[s].folder, 0)
  /\ UNCHANGED <<store, spoilt, again>>

FinalizeSpec(p, s) ==
  /\ Files(s).memo # "none" /\ Files(s).spec = "filled"
  /\ Starts(p, "spec_ready", s, row[s].folder, 0)
  /\ UNCHANGED <<store, spoilt, again>>

(* A source whose row names a folder with a filled spec is whole again,      *)
(* unless another script is about to tell the row its folder.                *)
Settled(p, s, n) ==
  IF /\ folder[n].spec = "filled"
     /\ \A q \in Scripts \ {p} : ~(At(q, "rename") /\ script[q].src = s)
  THEN spoilt \ {s} ELSE spoilt

SpecReady(p) ==
  LET s == script[p].src
  IN  /\ At(p, "spec_ready") /\ Ends(p)
      /\ AdvanceStage(s, "SPEC_READY")
      /\ spoilt' = Settled(p, s, row[s].folder)
      /\ UNCHANGED <<archived, inbox, order, folder, flat, hyp, taken, odd>>

(* Whoever writes the sections the templates leave open.                     *)
FillIn(n) ==
  /\ \/ /\ folder[n].memo = "todo"
        /\ folder' = [folder EXCEPT ![n].memo = "filled"]
     \/ /\ folder[n].spec = "todo"
        /\ folder' = [folder EXCEPT ![n].spec = "filled"]
  /\ UNCHANGED <<archived, inbox, row, order, flat, hyp, taken, script, spoilt, again, odd>>

-----------------------------------------------------------------------------
(* assign_thesis_name.py: the folder is renamed and its frontmatter swept,   *)
(* then the row is told.  Whoever else had the old folder has lost it, and   *)
(* so has the row itself until it is told.                                   *)

AssignRename(p, s, n) ==
  LET old == row[s].folder
  IN  /\ Starts(p, "rename", s, n, 1)
      /\ n # old => folder[n] = NoFolder /\ folder[old] # NoFolder
      /\ folder' = IF n = old THEN folder
                   ELSE [folder EXCEPT ![n] = folder[old], ![old] = NoFolder]
      /\ spoilt' = IF n = old THEN spoilt
                   ELSE spoilt \cup {t \in Sources : row[t] # NoRow /\ row[t].folder = old}
      /\ UNCHANGED <<archived, inbox, row, order, flat, hyp, taken, again>>

SetThesisIdentity(p) ==
  LET s == script[p].src
      n == script[p].name
  IN  /\ At(p, "rename") /\ Ends(p)
      /\ row' = [row EXCEPT ![s].thesis = n, ![s].folder = n]
      /\ spoilt' = Settled(p, s, n)
      /\ UNCHANGED <<archived, inbox, order, folder, flat, hyp, taken, again, odd>>

-----------------------------------------------------------------------------
(* discover_strategies.py.                                                   *)

Queue == {i \in DOMAIN order : row[order[i]].stage = "SPEC_READY"}

(* Mutant: the newest rows.                                                  *)
BatchNewest ==
  {order[i] : i \in {j \in Queue : Cardinality({k \in Queue : k > j}) < MaxPerRun}}
(* The oldest rows; one that fails stays where it is, ahead of the others.   *)
Batch ==
  {order[i] : i \in {j \in Queue : Cardinality({k \in Queue : k < j}) < MaxPerRun}}

(* Mutants: the row is told first; and its stage is not looked at.           *)
RegisterMarksFirst(p, s) ==
  /\ s \in Batch /\ Files(s).spec = "filled"
  /\ Starts(p, "add", s, SlugOf(s), 0)
  /\ AdvanceStage(s, "DISCOVERED")
  /\ UNCHANGED <<archived, inbox, order, folder, flat, hyp, taken, spoilt>>

RegisterAnyStage(p, s) ==
  /\ s \in Batch \/ (row[s] # NoRow /\ row[s].stage = "DISCOVERED")
  /\ Files(s).spec = "filled"
  /\ Starts(p, "add", s, SlugOf(s), 0)
  /\ UNCHANGED <<store, spoilt, again>>

Registering(s) ==
  \E q \in Scripts : script[q].src = s /\ script[q].pc \in {"add", "advance"}

(* register_from_ingestion: the spec must be there and valid.                *)
RegisterFromIngestion(p, s) ==
  /\ s \in Batch
  /\ Files(s).spec = "filled"
  /\ Starts(p, "add", s, SlugOf(s), 0)
  /\ again' = IF Registering(s) THEN again \cup {s} ELSE again
  /\ UNCHANGED <<store, spoilt>>

DiscoverAdd(p) ==
  /\ At(p, "add") /\ Goes(p, "advance")
  /\ AddHypothesis(script[p].name, script[p].src, FALSE)
  /\ UNCHANGED <<archived, inbox, row, order, folder, flat, spoilt, again, odd>>

DiscoverAdvance(p) == Advances(p, "advance", "DISCOVERED")

(* --legacy-inbox, and ingest_link.py --discover: register_candidate writes  *)
(* a flat file and the hypothesis under the inbox file's slug, then moves    *)
(* whatever file that slug has by now.                                       *)
InboxCandidate(n) == inbox[n] # NoSource /\ ~AlreadySeen(inbox[n])

RegisterCandidate(p, n) ==
  /\ InboxCandidate(n)
  /\ Starts(p, "candidate", inbox[n], n, 1)
  /\ flat' = [flat EXCEPT ![n] = [src |-> inbox[n], spec |-> FALSE]]
  /\ UNCHANGED <<archived, inbox, row, order, folder, hyp, taken, spoilt, again>>

CandidateAdd(p) ==
  /\ At(p, "candidate") /\ Goes(p, "move")
  /\ AddHypothesis(script[p].name, script[p].src, FALSE)
  /\ again' = again \cup {script[p].src}
  /\ UNCHANGED <<archived, inbox, row, order, folder, flat, spoilt, odd>>

MoveInbox(p) ==
  /\ At(p, "move") /\ Ends(p)
  /\ inbox' = [inbox EXCEPT ![script[p].name] = NoSource]
  /\ UNCHANGED <<archived, row, order, folder, flat, hyp, taken, spoilt, again, odd>>

(* What a file n.md may name as its source: the hypothesis's own, or another. *)
Urls(n) == FileUrls \cup (IF hyp[n] = NoHyp THEN {} ELSE {hyp[n].src})

(* propose_hypothesis.py writes the url and the references its file has, or  *)
(* none.  After code generation they are the hypothesis's own and there; any *)
(* other run registers a source that has not come through its row.           *)
Propose(n, s, refs) ==
  /\ AddHypothesis(n, s, refs)
  /\ IF hyp[n] # NoHyp /\ hyp[n].src = s /\ refs
     THEN UNCHANGED <<again, odd>>
     ELSE Odd(1) /\ again' = again \cup ({s} \ {NoSource})
  /\ UNCHANGED <<archived, inbox, row, order, folder, flat, script, spoilt>>

-----------------------------------------------------------------------------
(* migrate_research_layout.py --apply: an inbox file or a flat file becomes  *)
(* the dossier of its folder, and the url's row is set to DOSSIER_READY      *)
(* wherever it was.  A flat file that is spec-grade becomes the spec; its    *)
(* row is set to DISCOVERED, with no hypothesis written, and told its name.  *)

MigrateMove(p, n) ==
  /\ inbox[n] # NoSource /\ ~folder[n].dossier
  /\ Starts(p, "migrate", inbox[n], n, 1)
  /\ inbox' = [inbox EXCEPT ![n] = NoSource]
  /\ folder' = [folder EXCEPT ![n].dossier = TRUE]
  /\ UNCHANGED <<archived, row, order, flat, hyp, taken, spoilt, again>>

MigrateFlat(p, n) ==
  /\ flat[n] # NoFlat
  /\ \/ /\ flat[n].spec /\ folder[n].spec = "none"
        /\ Starts(p, "legacy", flat[n].src, n, 1)
        /\ folder' = [folder EXCEPT ![n].spec = "filled"]
     \/ /\ ~flat[n].spec /\ ~folder[n].dossier
        /\ Starts(p, "migrate", flat[n].src, n, 1)
        /\ folder' = [folder EXCEPT ![n].dossier = TRUE]
  /\ flat' = [flat EXCEPT ![n] = NoFlat]
  /\ UNCHANGED <<archived, inbox, row, order, hyp, taken, spoilt, again>>

MigrateIntake(p) ==
  /\ \/ At(p, "migrate") /\ Goes(p, "migrated")
     \/ At(p, "legacy") /\ Goes(p, "legacy_stage")
  /\ RecordIntake(script[p].src, script[p].name)
  /\ UNCHANGED <<archived, inbox, folder, flat, hyp, taken, spoilt, again, odd>>

MigrateAdvance(p) == Advances(p, "migrated", "DOSSIER_READY")

(* set_thesis_identity follows: the row may lose the folder it named.        *)
MigrateDiscovers(p) ==
  LET s == script[p].src
  IN  /\ At(p, "legacy_stage") /\ Goes(p, "rename")
      /\ AdvanceStage(s, "DISCOVERED")
      /\ spoilt' = IF row[s].folder = script[p].name THEN spoilt ELSE spoilt \cup {s}
      /\ UNCHANGED <<archived, inbox, order, folder, flat, hyp, taken, odd>>

-----------------------------------------------------------------------------
(* A script dies between two steps; one that dies after add_hypothesis and   *)
(* before its row is told leaves a source that is registered again.          *)
ScriptDies(p) ==
  /\ script[p] # Idle /\ Ends(p)
  /\ again' = IF At(p, "advance") THEN again \cup {script[p].src} ELSE again
  /\ Odd(1)
  /\ UNCHANGED <<store, spoilt>>

Carries(p) ==
  \/ ArchiveSourceItem(p) \/ CandidateToInbox(p) \/ CaptureIntake(p)
  \/ BuildWrite(p) \/ BuildRead(p) \/ BuildAdvance(p)
  \/ MemoWrite(p) \/ MemoStage(p) \/ MemoReady(p)
  \/ SpecWrite(p) \/ SpecStage(p) \/ SpecReady(p) \/ SetThesisIdentity(p)
  \/ DiscoverAdd(p) \/ DiscoverAdvance(p) \/ CandidateAdd(p) \/ MoveInbox(p)
  \/ MigrateIntake(p) \/ MigrateAdvance(p) \/ MigrateDiscovers(p)

Discovers(p) == \E s \in Sources : RegisterFromIngestion(p, s)

(* A script that is run on a slug.                                           *)
OnSlug(p, s) ==
  \/ FinalizeMemo(p, s) \/ FinalizeSpec(p, s)
  \/ \E f \in BOOLEAN : ScaffoldMemo(p, s, f) \/ ScaffoldSpec(p, s, f)
  \/ \E m \in Names : AssignRename(p, s, m)

IntakeNext ==
  \/ \E p \in Scripts :
       \/ Carries(p) \/ Discovers(p) \/ ScriptDies(p)
       \/ \E s \in Sources : \/ CaptureItem(p, s)
                             \/ \E f \in BOOLEAN : BuildIntake(p, s, f)
       \/ \E n \in Names : \/ RegisterCandidate(p, n) \/ MigrateMove(p, n) \/ MigrateFlat(p, n)
                           \/ \E s \in BySlug(n) : OnSlug(p, s)
  \/ \E n \in Names : \/ FillIn(n)
                      \/ \E s \in Urls(n), refs \in BOOLEAN : Propose(n, s, refs)

IntakeSpec == IntakeInit /\ [][IntakeNext]_intakeVars

(* cron_discover comes again every night; while scripts are under way, one of *)
(* them goes on.                                                             *)
IntakeFair == /\ WF_intakeVars(\E p \in Scripts : Carries(p))
              /\ SF_intakeVars(\E p \in Scripts : Discovers(p))
IntakeFairSpec == IntakeSpec /\ IntakeFair

-----------------------------------------------------------------------------
(* Properties.                                                               *)

IntakeTypeOK ==
  /\ archived \subseteq Sources /\ taken \subseteq Sources
  /\ spoilt \subseteq Sources /\ again \subseteq Sources
  /\ inbox \in [Names -> Sources \cup {NoSource}]
  /\ row \in [Sources -> Rows \cup {NoRow}]
  /\ order \in Seq(Sources) /\ folder \in [Names -> Folders]
  /\ flat \in [Names -> Flats \cup {NoFlat}] /\ hyp \in [Names -> Hyps \cup {NoHyp}]
  /\ script \in [Scripts -> [pc : Steps, src : Sources, name : Names] \cup {Idle}]

(* What the queue offers to discover_strategies.py can be registered: a      *)
(* SPEC_READY row's folder holds a filled spec, unless another script moved  *)
(* or reset its files or died while it moved them, and nobody finalized a    *)
(* filled spec since.                                                        *)
SpecReadyHasSpec ==
  \A s \in Sources \ spoilt :
    row[s] # NoRow /\ row[s].stage = "SPEC_READY" => Files(s).spec = "filled"

(* A row becomes DISCOVERED only after its hypothesis was written: a crash   *)
(* between the two leaves a source to register again, never one that is done *)
(* and absent, unless another source took its slug, or the migration found a *)
(* flat file of it that is spec-grade.                                       *)
DiscoveredIsRegistered ==
  [][\A s \in Sources :
       row[s] # NoRow /\ row[s].stage # "DISCOVERED" /\ row'[s].stage = "DISCOVERED"
         => \/ s \in taken
            \/ \E n \in Names : hyp'[n] # NoHyp /\ hyp'[n].src = s
            \/ \E p \in Scripts : At(p, "legacy_stage") /\ script[p].src = s]_intakeVars

(* The strategy references code generation wrote are lost only when another  *)
(* source takes the slug; when a source is registered again, because its row *)
(* went back, its first registration died half way, two scripts registered   *)
(* it at once, or it came through the inbox or propose_hypothesis.py first;  *)
(* or when that script is run on a file that has none.                       *)
RefsKept ==
  [][\A n \in Names :
       hyp[n] # NoHyp /\ hyp[n].refs /\ ~hyp'[n].refs
         => \/ hyp'[n].src # hyp[n].src \/ hyp[n].src \in again'
            \/ Propose(n, hyp'[n].src, FALSE)]_intakeVars

(* The oldest ready source, whose files are not spoilt.                       *)
Due(s) == /\ row[s] # NoRow /\ row[s].stage = "SPEC_READY" /\ s \notin spoilt
          /\ \A i, j \in Queue : order[j] = s => j <= i

(* No source is due for ever: it is registered, unless an older one comes    *)
(* before it (for ever, if that one keeps failing) or its files are spoilt.  *)
ReadyIsDiscovered == \A s \in Sources : ~<>[]Due(s)
==============================================================================
