------------------------------ MODULE HaltPath ------------------------------
(* The global halt: risk/kill_switch.py's flag file, the runner processes   *)
(* that read it (runner/live_v2.py, paper_v2.py, generic_paper.py, paper.py, *)
(* hl_v2.py and the superseded live.py with risk/heartbeat.py's watcher),    *)
(* and the operator's scripts/halt_trading.py and reset_kill_switch.py.      *)
(* Processes share nothing but the file.  A step here is one file operation, *)
(* one await, or the code between two of them; a process may die at any.     *)
EXTENDS Naturals, FiniteSets

CONSTANTS
  Runners,   \* processes, each of which runs one runner at a time
  MaxHalts   \* bound: how often the flag file is written

ASSUME HaltAssumption == MaxHalts \in Nat

(* LiveRunner of live_v2.py, PaperRunnerV2, GenericPaperRunner or           *)
(* PaperRunner inside asyncio.run, HyperliquidRunner (which builds no        *)
(* KillSwitch), and LiveRunner of live.py, the one user of HeartbeatWatcher. *)
RunnerKinds == {"live", "paper", "observer", "hl", "legacy"}
Checked == RunnerKinds \ {"hl"}

VARIABLES
  flag,      \* data/.kill_switch exists (its replacement by os.replace is atomic)
  halts,     \* how often it has been written
  role,      \* role[r]: the runner that process r runs, "none" when it is down
  stage,     \* stage[r]: how far runner r has come
  clear,     \* clear[r]: value of halts when r's KillSwitch was built
  blind,     \* history: blind[r]: the flag stood then, but could not be read
  trip,      \* trip[r]: how far r's KillSwitch.trigger has come
  cancelAll, \* cancelAll[r]: the cancel-all that trigger starts
  loop,      \* loop[r]: what asyncio.get_event_loop() gives in r's main thread
  timed,     \* timed[r]: r runs with a timer (--duration-secs)
  watch,     \* watch[r]: the heartbeat task; misses[r]: _consecutive_failures
  misses,
  atVenue,   \* history: a trigger's cancel-all was begun since the last reset
  excused    \* history: since the last reset, or when it came, a trigger was
             \* without its flag before its cancel-all: write failed, or reset

haltVars == <<flag, halts, role, stage, clear, blind, trip, cancelAll, loop, timed,
              watch, misses, atVenue, excused>>

HaltTypeOK ==
  /\ flag \in BOOLEAN /\ atVenue \in BOOLEAN /\ excused \in BOOLEAN
  /\ halts \in 0..MaxHalts
  /\ role \in [Runners -> RunnerKinds \cup {"none"}]
  /\ stage \in [Runners -> {"down", "armed", "built", "running"}]
  /\ clear \in [Runners -> 0..MaxHalts]
  /\ blind \in [Runners -> BOOLEAN]
  /\ trip \in [Runners -> {"no", "memory", "written", "unwritten", "done"}]
  /\ cancelAll \in [Runners -> {"none", "queued", "sent", "failed", "uncalled"}]
  /\ loop \in [Runners -> {"idle", "running", "none"}]
  /\ timed \in [Runners -> BOOLEAN]
  /\ watch \in [Runners -> {"off", "sleeping", "pinging", "over"}]
  /\ misses \in [Runners -> 0..2]

HaltInit ==
  /\ flag = FALSE /\ halts = 0 /\ atVenue = FALSE /\ excused = FALSE
  /\ role = [r \in Runners |-> "none"]
  /\ stage = [r \in Runners |-> "down"]
  /\ clear = [r \in Runners |-> 0]
  /\ blind = [r \in Runners |-> FALSE]
  /\ trip = [r \in Runners |-> "no"]
  /\ cancelAll = [r \in Runners |-> "none"]
  /\ loop = [r \in Runners |-> "idle"]
  /\ timed = [r \in Runners |-> FALSE]
  /\ watch = [r \in Runners |-> "off"]
  /\ misses = [r \in Runners |-> 0]

file == <<flag, halts, excused>>
switch == <<clear, blind, trip, cancelAll, loop>>
heart == <<watch, misses>>

(* A process that ends takes its memory and its tasks with it: a cancel-all  *)
(* that was only queued, or is under way, is never finished.                 *)
Gone(r) ==
  /\ role' = [role EXCEPT ![r] = "none"]
  /\ stage' = [stage EXCEPT ![r] = "down"]
  /\ clear' = [clear EXCEPT ![r] = 0]
  /\ blind' = [blind EXCEPT ![r] = FALSE]
  /\ trip' = [trip EXCEPT ![r] = "no"]
  /\ cancelAll' = [cancelAll EXCEPT ![r] = "none"]
  /\ loop' = [loop EXCEPT ![r] = "idle"]
  /\ timed' = [timed EXCEPT ![r] = FALSE]
  /\ watch' = [watch EXCEPT ![r] = "off"]
  /\ misses' = [misses EXCEPT ![r] = 0]

-----------------------------------------------------------------------------
(* The operator.                                                             *)

(* os.replace of a complete temporary file: the flag is there or it is not.  *)
WriteFlag ==
  /\ halts < MaxHalts
  /\ flag' = TRUE
  /\ halts' = halts + 1

(* read_flag: a file that cannot be read or parsed, or that was emptied or   *)
(* unset by hand, counts as no flag.                                         *)
ReadFlag == {flag, FALSE}

(* scripts/halt_trading.py: writes the flag, whether or not it stands.       *)
HaltScript ==
  /\ WriteFlag
  /\ UNCHANGED <<role, stage, switch, timed, heart, atVenue, excused>>

(* scripts/reset_kill_switch.py --confirm: removes the file, nothing else;   *)
(* a file it cannot read stays.                                              *)
ResetScript ==
  /\ flag
  /\ flag' = FALSE
  /\ atVenue' = FALSE
  /\ excused' = \E r \in Runners : trip[r] \in {"written", "unwritten"}
  /\ UNCHANGED <<halts, role, stage, switch, timed, heart>>

-----------------------------------------------------------------------------
(* Starting a runner: the constructor, then run().  Every gate refuses by    *)
(* raising, which leaves the process down; run() builds the switch first and *)
(* then wires and starts its node, watcher or stream.                        *)

Armed(r, k) ==
  /\ stage[r] = "down"
  /\ role' = [role EXCEPT ![r] = k]
  /\ stage' = [stage EXCEPT ![r] = "armed"]
  /\ timed' \in {[timed EXCEPT ![r] = b] : b \in BOOLEAN}
  /\ UNCHANGED <<file, switch, heart, atVenue>>

(* LiveRunner.__init__ of live_v2.py: the last of its gates reads the flag.  *)
ArmLive(r) == FALSE \in ReadFlag /\ Armed(r, "live")
ArmPaper(r) == Armed(r, "paper")
ArmObserver(r) == Armed(r, "observer")
(* Network, confirmation and keys are looked at, the flag is not.            *)
ArmHl(r) == Armed(r, "hl")
ArmLegacy(r) == Armed(r, "legacy")

(* KillSwitch.__init__ raises when it reads that the flag stands; the        *)
(* Hyperliquid runner builds none.  Mutant: the check is left to the         *)
(* constructors.                                                             *)
Built(r, refused, unread) ==
  /\ stage[r] = "armed"
  /\ IF refused
     THEN Gone(r)
     ELSE /\ stage' = [stage EXCEPT ![r] = "built"]
          /\ clear' = [clear EXCEPT ![r] = halts]
          /\ blind' = [blind EXCEPT ![r] = unread]
          /\ UNCHANGED <<role, trip, cancelAll, loop, timed, heart>>
  /\ UNCHANGED <<file, atVenue>>

BuildSwitchUnchecked(r) == Built(r, FALSE, FALSE)
BuildSwitch(r) ==
  IF role[r] \in Checked
  THEN \E stands \in ReadFlag : Built(r, stands, flag /\ ~stands)
  ELSE Built(r, FALSE, FALSE)

(* asyncio.run, with which the runners prime the venue's equity for the      *)
(* allocator, leaves the main thread without an event loop.                  *)
AfterPriming == "none"

Began(r, l, w) ==
  /\ stage[r] = "built"
  /\ stage' = [stage EXCEPT ![r] = "running"]
  /\ loop' = [loop EXCEPT ![r] = l]
  /\ watch' = [watch EXCEPT ![r] = w]
  /\ UNCHANGED <<file, role, clear, blind, trip, cancelAll, timed, misses, atVenue>>

(* live_v2.py primes if it finds its execution client and a wallet address;  *)
(* otherwise it trades all the same, ungated or with its caps at zero.       *)
RunLive(r) ==
  role[r] = "live" /\ \E l \in {AfterPriming, "idle"} : Began(r, l, "off")
RunPaper(r) ==
  role[r] = "paper" /\ \E l \in {AfterPriming, "idle"} : Began(r, l, "off")
(* generic_paper.py and paper.py run inside asyncio.run: a stream task and,  *)
(* if timed, a timer task.                                                   *)
RunObserver(r) == role[r] = "observer" /\ Began(r, "running", "off")
RunHl(r) == role[r] = "hl" /\ Began(r, "idle", "off")
(* live.py starts the heartbeat watcher and then sleeps for ever.            *)
RunLegacy(r) == role[r] = "legacy" /\ Began(r, "running", "sleeping")

-----------------------------------------------------------------------------
(* Ending it.                                                                *)

Crash(r) ==
  /\ stage[r] # "down"
  /\ Gone(r)
  /\ UNCHANGED <<file, atVenue>>

(* The timer thread calls node.stop(), and node.run() returns; an observer's *)
(* timer task sets _stop, and both its tasks are cancelled.  live.py has no  *)
(* timer.                                                                    *)
TimerStops(r) ==
  /\ stage[r] = "running" /\ timed[r] /\ trip[r] = "no"
  /\ role[r] # "legacy"
  /\ Gone(r)
  /\ UNCHANGED <<file, atVenue>>

(* Ctrl-C: the runner stops its node, or its watcher, and returns.  Nothing  *)
(* is cancelled at the venue and the kill switch is left alone.              *)
Interrupt(r) ==
  /\ stage[r] = "running" /\ trip[r] \in {"no", "done"}
  /\ Gone(r)
  /\ UNCHANGED <<file, atVenue>>

-----------------------------------------------------------------------------
(* KillSwitch.trigger: memory, then the file, then the cancel-all.           *)

InMemory(r) == trip' = [trip EXCEPT ![r] = "memory"]

(* LiveRunner of live_v2.py: node.run() raised.                              *)
NodeFails(r) ==
  /\ role[r] = "live"
  /\ stage[r] = "running" /\ trip[r] = "no"
  /\ InMemory(r)
  /\ UNCHANGED <<file, role, stage, clear, blind, cancelAll, loop, timed, heart, atVenue>>

(* write_flag; what it raises is logged and swallowed.                       *)
Persist(r) ==
  /\ trip[r] = "memory"
  /\ \/ /\ WriteFlag
        /\ trip' = [trip EXCEPT ![r] = "written"]
        /\ excused' = excused
     \/ /\ trip' = [trip EXCEPT ![r] = "unwritten"]
        /\ excused' = TRUE
        /\ UNCHANGED <<flag, halts>>
  /\ UNCHANGED <<role, stage, clear, blind, cancelAll, loop, timed, heart, atVenue>>

(* On a running loop a task is created, on an idle one the call is made here,*)
(* and without one a coroutine function is not called at all.                *)
CancelOn(l) == [running |-> {"queued"}, idle |-> {"sent", "failed"},
                none |-> {"uncalled"}][l]

(* Mutant: the cancel-all before the flag.                                   *)
StartCancelFirst(r) ==
  /\ trip[r] \in {"memory", "written", "unwritten"}
  /\ trip' = [trip EXCEPT ![r] = IF @ = "memory" THEN @ ELSE "done"]
  /\ cancelAll' \in {[cancelAll EXCEPT ![r] = c] : c \in CancelOn(loop[r])}
  /\ atVenue' = TRUE
  /\ UNCHANGED <<file, role, stage, clear, blind, loop, timed, heart>>

StartCancel(r) ==
  /\ trip[r] \in {"written", "unwritten"}
  /\ trip' = [trip EXCEPT ![r] = "done"]
  /\ cancelAll' \in {[cancelAll EXCEPT ![r] = c] : c \in CancelOn(loop[r])}
  /\ atVenue' = TRUE
  /\ UNCHANGED <<file, role, stage, clear, blind, loop, timed, heart>>

(* The queued _async_cancel_all runs; a failing request is logged.           *)
RunCancel(r) ==
  /\ cancelAll[r] = "queued"
  /\ cancelAll' \in {[cancelAll EXCEPT ![r] = c] : c \in {"sent", "failed"}}
  /\ UNCHANGED <<file, role, stage, clear, blind, trip, loop, timed, heart, atVenue>>

(* live_v2.py raises the node's exception again and the process ends.        *)
Reraise(r) ==
  /\ role[r] = "live" /\ stage[r] = "running" /\ trip[r] = "done"
  /\ Gone(r)
  /\ UNCHANGED <<file, atVenue>>

-----------------------------------------------------------------------------
(* HeartbeatWatcher of a legacy runner: sleep, ping, handle the answer.      *)

Ping(r) ==
  /\ watch[r] = "sleeping"
  /\ watch' = [watch EXCEPT ![r] = "pinging"]
  /\ UNCHANGED <<file, role, stage, switch, timed, misses, atVenue>>

Alive(r) ==
  /\ watch[r] = "pinging"
  /\ misses' = [misses EXCEPT ![r] = 0]
  /\ watch' = [watch EXCEPT ![r] = "sleeping"]
  /\ UNCHANGED <<file, role, stage, switch, timed, atVenue>>

(* client.heartbeat returned False, or raised.  The failure that reaches the *)
(* limit ends the loop and calls on_timeout: trigger.                        *)
Missed(r, limit) ==
  /\ watch[r] = "pinging"
  /\ misses' = [misses EXCEPT ![r] = @ + 1]
  /\ IF misses'[r] >= limit
     THEN /\ watch' = [watch EXCEPT ![r] = "over"]
          /\ InMemory(r)
     ELSE /\ watch' = [watch EXCEPT ![r] = "sleeping"]
          /\ trip' = trip
  /\ UNCHANGED <<file, role, stage, clear, blind, cancelAll, loop, timed, atVenue>>

(* Mutant: > for >=.                                                         *)
MissThrice(r) == Missed(r, 3)
Miss(r) == Missed(r, 2)

-----------------------------------------------------------------------------
Own(r) ==
  \/ BuildSwitch(r)
  \/ RunLive(r) \/ RunPaper(r) \/ RunObserver(r) \/ RunHl(r) \/ RunLegacy(r)
  \/ Persist(r) \/ StartCancel(r) \/ RunCancel(r) \/ Reraise(r)
  \/ TimerStops(r)
  \/ Ping(r) \/ Alive(r) \/ Miss(r)

HaltNext ==
  \/ HaltScript \/ ResetScript
  \/ \E r \in Runners : \/ ArmLive(r) \/ ArmPaper(r) \/ ArmObserver(r)
                        \/ ArmHl(r) \/ ArmLegacy(r)
                        \/ Own(r) \/ NodeFails(r)
                        \/ Interrupt(r) \/ Crash(r)

HaltSpec == HaltInit /\ [][HaltNext]_haltVars

(* A process that is up makes its own next step; the operator, a failing     *)
(* node and a crash owe nothing.                                             *)
HaltFair == \A r \in Runners : WF_haltVars(Own(r))
HaltFairSpec == HaltSpec /\ HaltFair

-----------------------------------------------------------------------------
(* Properties.                                                               *)

(* A runner that is past its KillSwitch and finds itself under a standing    *)
(* flag was there before the flag, or read_flag failed it: none slips in     *)
(* between the constructor's look at the file, the operator's halt and run().*)
OldRunnersOnly ==
  flag => \A r \in Runners :
            role[r] \in Checked /\ stage[r] \in {"built", "running"}
              => clear[r] < halts \/ blind[r]

(* Once a trigger has begun its cancel-all the flag stands until a reset,    *)
(* whatever dies in between, or a write failed, or the reset came before the *)
(* cancel-all: the next process is refused.                                  *)
HaltOutlivesCrash == atVenue => flag \/ excused

(* README.md: tripping "from any process halts all paper/live runners on     *)
(* next watcher tick".                                                       *)
HaltStopsRunners ==
  \A r \in Runners :
    (flag /\ stage[r] = "running" /\ role[r] \in {"paper", "live"}) ~>
      (stage[r] = "down" \/ ~flag)
=============================================================================
