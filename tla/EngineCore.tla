----------------------------- MODULE EngineCore -----------------------------
(***************************************************************************)
(* One EngineCore process as the restore patch makes it                    *)
(* (src/vllm_criu/enginecore/lifecycle.py and sockets.py): the main loop,  *)
(* the thread of the process-local restore, the inotify watcher of the     *)
(* request marker, the socket supervisor and the input and output socket   *)
(* loops, across a dump and a CRIU restore after which some of the         *)
(* threads may stay blocked for good.                                      *)
(*                                                                         *)
(* Steps end where the interpreter can switch threads between two accesses *)
(* that matter: at a system call (Path.exists, file writes, sleeps, polls) *)
(* and at calls into the worker.  A test of attributes followed directly   *)
(* by an assignment is one step.                                           *)
(*                                                                         *)
(* Simplifications: the coordinator socket, multimodal and fault-tolerance *)
(* requests and the ENGINE_CORE_DEAD sentinel are left out; a socket loop  *)
(* reads the generation, opens its sockets and publishes them in one step; *)
(* the worker's memory is "loaded", "asleep", or "mapped" without its      *)
(* weights.                                                                *)
(***************************************************************************)
EXTENDS Naturals, FiniteSets

CONSTANTS
  Stucks,     \* the sets of threads a CRIU restore may leave blocked
  MaxLoops,   \* bound on the socket loops of one kind: no more are started
  MaxCycles,  \* bound on suspends
  MayFail     \* what the restore calls may raise

Main == "main"
Restorer == "restorer"
Watcher == "watcher"
Supervisor == "supervisor"
Kinds == {"in", "out"}
Loops == Kinds \X (1..MaxLoops)
Runners == {Main, Restorer}

ASSUME StucksAssumption ==
  Stucks \subseteq SUBSET ({Main, Watcher, Supervisor} \cup Kinds)
ASSUME BoundsAssumption ==
  MaxLoops \in Nat \ {0} /\ MaxCycles \in Nat /\ MayFail \in BOOLEAN

VARIABLES
  phase,    \* what the launcher is doing with this process
  cycles,   \* suspends so far
  stuck,    \* the threads the last CRIU restore left blocked
  blocked,  \* the socket loops it left blocked
  request,  \* .vllm-criu-restore-request exists
  status,   \* .vllm-criu-restore-status
  event,    \* an inotify event waits for the watcher
  signal,   \* SIGUSR1 is pending
  gen,      \* _vllm_criu_reconnect_generation
  restarted,\* _vllm_criu_restarted_generation
  complete, \* _vllm_criu_local_restore_complete
  busy,     \* _vllm_criu_local_restore_in_progress
  started,  \* _vllm_criu_restore_thread_started
  at,       \* positions of the threads that are not socket loops
  supGen,   \* the supervisor's `generation`
  supSeen,  \* the supervisor's `generation_seen`
  clashed,  \* (history) two threads have been in the restore at once
  worker,   \* the worker's memory, distributed state and scheduler
  loopAt,   \* positions of the socket loops
  seen,     \* their `generation_seen`, 0 when it is not used any more
  open,     \* their sockets are open
  owner     \* whose sockets _vllm_criu_{input,output}_sockets holds

launcherVars == <<phase, cycles, stuck, blocked, request>>
markVars     == <<status, event, signal>>
flagVars     == <<complete, busy, started, clashed>>
supVars      == <<supGen, supSeen>>
loopVars     == <<loopAt, seen, open, owner>>
vars == <<launcherVars, markVars, flagVars, supVars, loopVars, gen, restarted,
          at, worker>>

Alive == phase \in {"up", "thawed", "asked", "signalled"}
\* The interpreter runs a pending signal handler before the next bytecode of
\* the main thread.
Runs(t) == Alive /\ t \notin stuck /\ (t = Main => ~signal)
LoopRuns(l) == Alive /\ l \notin blocked

Ready  == [memory |-> "loaded", cleaned |-> FALSE, paused |-> FALSE]
Asleep == [memory |-> "asleep", cleaned |-> TRUE, paused |-> TRUE]

Used(k) == {i \in 1..MaxLoops : loopAt[<<k, i>>] # "none"}
NextLoop(k) == <<k, Cardinality(Used(k)) + 1>>

\* A write to the directory is an event while the watcher has its descriptor
Notify == event' = (at[Watcher] # "ended")

\* patched_init, once the original loops are connected
Init ==
  /\ phase = "up" /\ cycles = 0 /\ stuck = {} /\ blocked = {}
  /\ request = FALSE /\ status = "none" /\ event = FALSE /\ signal = FALSE
  /\ gen = 0 /\ restarted = 0
  /\ complete = FALSE /\ busy = FALSE /\ started = FALSE
  /\ clashed = FALSE
  /\ at = [t \in {Main, Restorer, Watcher, Supervisor} |->
             CASE t = Main -> "hook" [] t = Restorer -> "none"
               [] t = Watcher -> "watch" [] t = Supervisor -> "read"]
  /\ supGen = 0 /\ supSeen = 0
  /\ worker = Ready
  /\ loopAt = [l \in Loops |-> IF l[2] = 1 THEN "serve" ELSE "none"]
  /\ seen = [l \in Loops |-> 0]
  /\ open = [l \in Loops |-> l[2] = 1]
  /\ owner = [k \in Kinds |-> <<k, 1>>]

(***************************************************************************)
(* The launcher, as far as the process sees it                             *)
(***************************************************************************)
\* sleep level 2, checkpoint_prepare and the dump; the main loop served both
\* requests and the output loop sent the answers
Dump ==
  /\ phase = "up" /\ cycles < MaxCycles
  /\ at[Main] = "hook" /\ Main \notin stuck
  /\ phase' = "image" /\ cycles' = cycles + 1
  /\ worker' = Asleep
  /\ UNCHANGED <<stuck, blocked, request, markVars, flagVars, supVars,
                 loopVars, gen, restarted, at>>

\* criu restore: the threads are where they were, some of them for good
Thaw ==
  /\ phase = "image"
  /\ phase' = "thawed"
  /\ \E S \in Stucks :
       /\ stuck' = S \ Kinds
       /\ blocked' = {l \in Loops : l[1] \in S /\ loopAt[l] # "none"}
  /\ status' = "none" /\ event' = FALSE /\ signal' = FALSE
  /\ UNCHANGED <<cycles, request, flagVars, supVars, loopVars, gen, restarted,
                 at, worker>>

MarkRequest ==
  /\ phase = "thawed"
  /\ phase' = "asked" /\ request' = TRUE /\ Notify
  /\ UNCHANGED <<cycles, stuck, blocked, status, signal, flagVars, supVars,
                 loopVars, gen, restarted, at, worker>>

\* reconnect_zmq, then SIGUSR1
SendSignal ==
  /\ phase = "asked"
  /\ phase' = "signalled" /\ signal' = TRUE
  /\ UNCHANGED <<cycles, stuck, blocked, request, status, event, flagVars,
                 supVars, loopVars, gen, restarted, at, worker>>

\* The launcher saw "done", or saw "failed" and kills the tree
EndResume ==
  /\ phase = "signalled"
  /\ status \in {"done", "failed"}
  /\ phase' = IF status = "done" THEN "up" ELSE "killed"
  /\ request' = FALSE
  /\ UNCHANGED <<cycles, stuck, blocked, markVars, flagVars, supVars, loopVars,
                 gen, restarted, at, worker>>

(***************************************************************************)
(* request_reconnect, the SIGUSR1 handler, which runs in the main thread   *)
(***************************************************************************)
\* (variant: the signal stays pending)
HandleSignalAgain ==
  /\ signal /\ Alive /\ Main \notin stuck
  /\ gen' = gen + 1
  /\ open' = [l \in Loops |-> open[l] /\ owner[l[1]] # l]
  /\ UNCHANGED <<launcherVars, markVars, flagVars, supVars, loopAt, seen,
                 owner, restarted, at, worker>>

HandleSignal ==
  /\ signal /\ Alive /\ Main \notin stuck
  /\ signal' = FALSE
  /\ gen' = gen + 1
  /\ open' = [l \in Loops |-> open[l] /\ owner[l[1]] # l]
  /\ UNCHANGED <<launcherVars, status, event, flagVars, supVars, loopAt, seen,
                 owner, restarted, at, worker>>

(***************************************************************************)
(* start_local_restore_thread and start_replacement_threads                *)
(***************************************************************************)
\* (variant: the thread is only started for the first generation)
StartRestoreOnlyAtZero(pos) ==
  IF request /\ ~complete /\ ~busy /\ ~started /\ gen <= 0
    THEN started' = TRUE /\ at' = [pos EXCEPT ![Restorer] = "test"]
    ELSE at' = pos /\ UNCHANGED started

\* at most one restore thread in the life of the process
StartRestore(pos) ==
  IF request /\ ~complete /\ ~busy /\ ~started
    THEN started' = TRUE /\ at' = [pos EXCEPT ![Restorer] = "test"]
    ELSE at' = pos /\ UNCHANGED started

\* the marker stands in for a signal that was not handled
Generation(g) == IF g <= 0 /\ request THEN 1 ELSE g

\* (variant: the generation is noted and no loop is started)
ReplaceNothing(g) ==
  /\ restarted' = Generation(g)
  /\ UNCHANGED loopAt

Replace(g) ==
  IF Generation(g) <= 0 \/ Generation(g) = restarted
    THEN UNCHANGED <<restarted, loopAt>>
    ELSE /\ restarted' = Generation(g)
         /\ loopAt' = [l \in Loops |->
              IF l = NextLoop(l[1]) THEN "build" ELSE loopAt[l]]

(***************************************************************************)
(* watch_restore_marker and supervise_reconnect                            *)
(***************************************************************************)
WatcherWakes ==
  /\ Runs(Watcher) /\ at[Watcher] = "watch" /\ event
  /\ event' = FALSE
  /\ IF request /\ gen <= 0
       THEN gen' = 1 /\ at' = [at EXCEPT ![Watcher] = "start"]
       ELSE UNCHANGED <<gen, at>>
  /\ UNCHANGED <<launcherVars, status, signal, flagVars, supVars, loopVars,
                 restarted, worker>>

WatcherStarts ==
  /\ Runs(Watcher) /\ at[Watcher] = "start"
  /\ StartRestore([at EXCEPT ![Watcher] = "ended"])
  /\ event' = FALSE
  /\ UNCHANGED <<launcherVars, status, signal, complete, busy, clashed, supVars,
                 loopVars, gen, restarted, worker>>

\* Where the supervisor goes with the generation g
SupervisorNext(g) == IF g # supSeen THEN "replace" ELSE "read"

SupervisorReads ==
  /\ Runs(Supervisor) /\ at[Supervisor] = "read"
  /\ supGen' = gen
  /\ StartRestore([at EXCEPT ![Supervisor] =
       IF gen <= 0 /\ request THEN "set" ELSE SupervisorNext(gen)])
  /\ UNCHANGED <<launcherVars, markVars, complete, busy, clashed, supSeen,
                 loopVars, gen, restarted, worker>>

\* what it read may be old by now
SupervisorSets ==
  /\ Runs(Supervisor) /\ at[Supervisor] = "set"
  /\ gen' = 1 /\ supGen' = 1
  /\ StartRestore([at EXCEPT ![Supervisor] = SupervisorNext(1)])
  /\ UNCHANGED <<launcherVars, markVars, complete, busy, clashed, supSeen,
                 loopVars, restarted, worker>>

SupervisorReplaces ==
  /\ Runs(Supervisor) /\ at[Supervisor] = "replace"
  /\ supSeen' = supGen
  /\ Replace(supGen)
  /\ at' = [at EXCEPT ![Supervisor] = "read"]
  /\ UNCHANGED <<launcherVars, markVars, flagVars, supGen, seen, open, owner,
                 gen, worker>>

(***************************************************************************)
(* process_input_queue_with_rehook: replace the loops, run the restore,    *)
(* wait for at most a quarter of a second                                  *)
(***************************************************************************)
MainHooks ==
  /\ Runs(Main) /\ at[Main] = "hook"
  /\ Replace(gen)
  /\ at' = [at EXCEPT ![Main] = "test"]
  /\ UNCHANGED <<launcherVars, markVars, flagVars, supVars, seen, open, owner,
                 gen, worker>>

(***************************************************************************)
(* run_local_restore, in the main thread or in the restore thread          *)
(***************************************************************************)
Leave(r) == IF r = Main THEN "hook" ELSE "ended"
Stays(r) == UNCHANGED <<launcherVars, supVars, loopVars, gen, restarted>>

\* (variant: the restore is not remembered)
RunTestsAfresh(r) ==
  /\ Runs(r) /\ at[r] = "test"
  /\ at' = [at EXCEPT ![r] = IF busy \/ ~request THEN Leave(r) ELSE "enter"]
  /\ Stays(r) /\ UNCHANGED <<markVars, flagVars, worker>>

\* The flags, then restore_marker.exists(), a system call
RunTests(r) ==
  /\ Runs(r) /\ at[r] = "test"
  /\ at' = [at EXCEPT ![r] =
       IF complete \/ busy \/ ~request THEN Leave(r) ELSE "enter"]
  /\ Stays(r) /\ UNCHANGED <<markVars, flagVars, worker>>

Restoring(r) == at[r] \in {"enter", "restore", "reinit", "reload", "wake"}

RunEnters(r) ==
  /\ Runs(r) /\ at[r] = "enter"
  /\ busy' = TRUE
  /\ clashed' = (clashed \/ \E q \in Runners \ {r} : Restoring(q))
  /\ status' = "none"
  /\ at' = [at EXCEPT ![r] = "restore"]
  /\ Stays(r) /\ UNCHANGED <<event, signal, complete, started, worker>>

\* What is raised ends the restore thread, or the main loop and with it the
\* process
Raises(r) ==
  /\ at' = [at EXCEPT ![r] = "ended"]
  /\ phase' = IF r = Main THEN "killed" ELSE phase
  /\ UNCHANGED <<cycles, stuck, blocked, request, signal, complete, started,
                 supVars, loopVars, gen, restarted>>

\* One of the two unlinks raises, before the try: in_progress stays
RunRaises(r) ==
  /\ MayFail
  /\ Runs(r) /\ at[r] = "enter"
  /\ busy' = TRUE
  /\ status' \in {status, "none"}
  /\ Raises(r) /\ UNCHANGED <<event, clashed, worker>>

\* The stages: each writes the status file and then calls the worker
Stages == [restore |-> "reinit", reinit |-> "reload", reload |-> "wake"]

\* (variant: the weights are not reloaded)
WorkerNoReload(stage) ==
  CASE stage = "restore" -> [worker EXCEPT !.cleaned = FALSE]
    [] stage = "reinit"  -> [worker EXCEPT !.memory = "mapped",
                                           !.paused = FALSE]
    [] stage = "reload"  -> worker

WorkerAfter(stage) ==
  CASE stage = "restore" -> [worker EXCEPT !.cleaned = FALSE]
    [] stage = "reinit"  -> [worker EXCEPT !.memory = "mapped",
                                           !.paused = FALSE]
    [] stage = "reload"  -> [worker EXCEPT !.memory = "loaded"]

RunStage(r) ==
  /\ Runs(r) /\ at[r] \in DOMAIN Stages
  /\ status' = "stage" /\ Notify
  /\ worker' = WorkerAfter(at[r])
  /\ at' = [at EXCEPT ![r] = Stages[@]]
  /\ Stays(r) /\ UNCHANGED <<signal, flagVars>>

\* is_sleeping = False; resume_scheduler(); then the status file says "done"
RunFinishes(r) ==
  /\ Runs(r) /\ at[r] = "wake"
  /\ worker' = [worker EXCEPT !.paused = FALSE]
  /\ status' = "done" /\ Notify
  /\ complete' = TRUE /\ busy' = FALSE
  /\ at' = [at EXCEPT ![r] = Leave(r)]
  /\ Stays(r) /\ UNCHANGED <<signal, started, clashed>>

\* A stage raises, with its call of the worker done or not
RunFails(r) ==
  /\ MayFail
  /\ Runs(r) /\ at[r] \in DOMAIN Stages \cup {"wake"}
  /\ status' = "failed" /\ Notify
  /\ busy' = FALSE
  /\ worker' \in {worker} \cup
                  {WorkerAfter(p) : p \in {at[r]} \cap DOMAIN Stages}
  /\ Raises(r) /\ UNCHANGED clashed

(***************************************************************************)
(* _input_sockets and _output_sockets                                      *)
(***************************************************************************)
LoopSays(l, p) == loopAt' = [loopAt EXCEPT ![l] = p]
Forgets(l) == /\ seen' = [seen EXCEPT ![l] = 0]
              /\ open' = [open EXCEPT ![l] = FALSE]

Keeps == UNCHANGED <<launcherVars, markVars, flagVars, supVars, restarted, at,
                     worker>>

\* the sockets are opened and published for the signal handler
Build(l) ==
  /\ LoopRuns(l) /\ loopAt[l] = "build"
  /\ seen' = [seen EXCEPT ![l] = gen]
  /\ open' = [open EXCEPT ![l] = TRUE]
  /\ owner' = [owner EXCEPT ![l[1]] = l]
  /\ LoopSays(l, "serve")
  /\ Keeps /\ UNCHANGED gen

\* The generation has changed, or the poll raises ZMQError on closed sockets:
\* leave the ExitStack and start over, for ever
Rebuild(l) ==
  /\ LoopRuns(l) /\ loopAt[l] = "serve"
  /\ seen[l] # gen \/ (l[1] = "in" /\ ~open[l])
  /\ LoopSays(l, "build") /\ Forgets(l)
  /\ Keeps /\ UNCHANGED <<owner, gen>>

\* The sockets were closed before the loop sent READY, between its poll() and
\* recv(), or between its get() and send(): what raises there is not caught
LoopDies(l) ==
  /\ LoopRuns(l) /\ loopAt[l] = "serve" /\ ~open[l]
  /\ LoopSays(l, "dead") /\ Forgets(l)
  /\ Keeps /\ UNCHANGED <<owner, gen>>

\* restore_marker.exists() holds for an input loop of generation 0 ...
InputSeesMarker(l) ==
  /\ LoopRuns(l) /\ l[1] = "in" /\ loopAt[l] = "serve"
  /\ seen[l] = gen /\ gen <= 0 /\ request
  /\ LoopSays(l, "trigger")
  /\ Keeps /\ UNCHANGED <<seen, open, owner, gen>>

\* ... which sets the generation to 1, whatever it has become
InputTriggers(l) ==
  /\ LoopRuns(l) /\ loopAt[l] = "trigger"
  /\ gen' = 1
  /\ LoopSays(l, "build") /\ Forgets(l)
  /\ Keeps /\ UNCHANGED owner

Launcher == Dump \/ Thaw \/ MarkRequest \/ SendSignal \/ EndResume
RunStep(r) == RunTests(r) \/ RunEnters(r) \/ RunRaises(r) \/ RunStage(r)
                \/ RunFinishes(r) \/ RunFails(r)
WatcherStep == WatcherWakes \/ WatcherStarts
SupervisorStep == SupervisorReads \/ SupervisorSets \/ SupervisorReplaces
InputStep(l) == InputSeesMarker(l) \/ InputTriggers(l)
LoopStep(l) == Build(l) \/ Rebuild(l) \/ InputStep(l)

Next ==
  \/ Launcher
  \/ HandleSignal \/ MainHooks
  \/ \E r \in Runners : RunStep(r)
  \/ WatcherStep \/ SupervisorStep
  \/ \E l \in Loops : LoopStep(l) \/ LoopDies(l)

Spec == Init /\ [][Next]_vars

\* Every thread that is not blocked runs (of the socket loops of a kind, one at
\* least); the launcher goes through with the resume it has begun.
Fairness ==
  /\ WF_vars(MarkRequest \/ SendSignal \/ EndResume)
  /\ WF_vars(HandleSignal)
  /\ WF_vars(MainHooks \/ RunStep(Main))
  /\ WF_vars(RunStep(Restorer))
  /\ WF_vars(WatcherStep) /\ WF_vars(SupervisorStep)
  /\ \A k \in Kinds : WF_vars(\E i \in 1..MaxLoops : LoopStep(<<k, i>>))

FairSpec == Spec /\ Fairness

(***************************************************************************)
(* Properties                                                              *)
(***************************************************************************)
Positions == {"none", "hook", "test", "enter", "restore", "reinit", "reload",
              "wake", "ended", "watch", "start", "read", "set", "replace"}
LoopPositions == {"none", "build", "serve", "trigger", "dead"}

\* Every variable has its type.
TypeOK ==
  /\ phase \in {"up", "image", "thawed", "asked", "signalled", "killed"}
  /\ cycles \in 0..MaxCycles
  /\ stuck \subseteq {Main, Watcher, Supervisor} /\ blocked \subseteq Loops
  /\ request \in BOOLEAN /\ event \in BOOLEAN /\ signal \in BOOLEAN
  /\ status \in {"none", "stage", "done", "failed"}
  \* the marker counts for one generation, every resume signals one more
  /\ gen \in 0..(cycles + 1) /\ restarted \in 0..(cycles + 1)
  /\ supGen \in 0..(cycles + 1) /\ supSeen \in 0..(cycles + 1)
  /\ complete \in BOOLEAN /\ busy \in BOOLEAN /\ started \in BOOLEAN
  /\ at \in [{Main, Restorer, Watcher, Supervisor} -> Positions]
  /\ worker \in [memory : {"loaded", "asleep", "mapped"}, cleaned : BOOLEAN,
                 paused : BOOLEAN]
  /\ clashed \in BOOLEAN
  /\ loopAt \in [Loops -> LoopPositions]
  /\ seen \in [Loops -> Nat]
  /\ open \in [Loops -> BOOLEAN]
  /\ owner \in [Kinds -> Loops]

\* The status file says "done" only of a worker that is back, whatever failed
\* before, however late the main loop came and whichever threads are blocked:
\* unless two threads have run the restore at once (RestoredOnce).
DoneMeansRecovered ==
  status = "done" /\ Alive /\ ~clashed => worker = Ready

\* The answer stands, with the same exception: a main loop that comes by after
\* the restore, before the launcher has read the answer and removed its
\* request, does not start over.
AnswerStands ==
  [][Alive /\ status = "done"
       => status' = "done" \/ phase' # phase \/ clashed']_vars

\* The process-local restore is idempotent: the thread that was started for it
\* and the main loop's hook never both run it.
RestoredOnce == ~(Restoring(Main) /\ Restoring(Restorer))

\* An unlink has failed in the restore, which keeps everyone out for good.
Barred == busy /\ \A r \in Runners : ~Restoring(r)

\* Once the launcher has asked, the restore is answered, although any of the
\* threads stay blocked.  Two exceptions: the unlink before it failed; or both
\* the main loop and the supervisor stay blocked, since the watcher starts the
\* restore only if it comes before the input loop (lifecycle.py:424).
RestoreAnswered ==
  phase = "asked" ~> \/ status \in {"done", "failed"} \/ ~Alive
                     \/ Barred
                     \/ {Main, Supervisor} \subseteq stuck

Serves(l) == /\ l \notin blocked /\ loopAt[l] = "serve"
             /\ open[l] /\ seen[l] = gen

\* A loop has died, or is an output loop that will with its next output: its
\* sockets were closed, and the generation has been taken back since.
Lost(l) == \/ loopAt[l] = "dead"
           \/ l[1] = "out" /\ loopAt[l] = "serve" /\ ~open[l] /\ seen[l] = gen

\* After a restore a loop of each kind comes to serve the current generation:
\* blocked loops are replaced, closed sockets rebuilt.  A loop that uses its
\* sockets just when the signal handler has closed them dies of it, and nothing
\* replaces it within its generation.  Nothing replaces any loop where both
\* the supervisor and the main loop are blocked.
SocketsFollow ==
  phase = "asked" ~>
    \/ \A k \in Kinds : \E i \in 1..MaxLoops :
         Serves(<<k, i>>) \/ Lost(<<k, i>>)
    \/ ~Alive
    \/ {Main, Supervisor} \subseteq stuck
=============================================================================
