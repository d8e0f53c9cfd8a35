------------------------------ MODULE Launcher ------------------------------
(***************************************************************************)
(* The launcher process (src/vllm_criu/launcher.py): one HTTP control      *)
(* server whose handler threads suspend (checkpoint_vllm) and resume       *)
(* (restore_vllm) a vLLM process tree with cuda-checkpoint and CRIU, the   *)
(* main thread that boots it, and the reaper threads that wait for vLLM to *)
(* exit.  A step of a thread is the code between two points at which       *)
(* another actor (a thread, a process, the container) can interfere.       *)
(*                                                                         *)
(* Simplifications.                                                        *)
(*  - A vLLM process tree (root, API server, EngineCore) is one element of *)
(*    Trees: it lives and dies as a whole.  An exited tree is a "zombie"   *)
(*    until some waitpid() of the launcher reaps it.                       *)
(*  - VLLM_LIFECYCLE_ENGINECORE_PATCH is on and the resource trackers are  *)
(*    terminated (the default).                                            *)
(*  - A tree that was signalled ("stopping", "abandoned") serves no API    *)
(*    call any more and exits in its own time.                             *)
(*  - An unlink that raises has removed nothing.                           *)
(*  - A failed "criu restore" leaves no process behind, and a failed       *)
(*    "criu dump" leaves the tree running.                                 *)
(*  - "failed" and "stopped", the two states a reaper may set, are one     *)
(*    state, "stopped".                                                    *)
(***************************************************************************)
EXTENDS Naturals, FiniteSets

CONSTANTS
  Handlers,       \* threads of the ThreadingHTTPServer
  Main,           \* the main thread
  NoThread,
  Lost,           \* owner of a lock that nobody will release
  Trees,          \* vLLM process trees (a tree keeps its pids through CRIU)
  NoTree,
  SleepBeforeDump,\* checkpoint_sleep_level # 0
  FallbackFresh,  \* restore_fallback_fresh
  ResumeOnStart,  \* resume_on_start
  Stray,          \* clients post whatever the reported state is
  Faults,         \* the kinds of failure that may occur
  MaxCrashes      \* bound on container restarts

FaultKinds == {"cmd", "api", "disk", "die", "timeout", "engine", "signal"}

ASSUME ThreadsAssumption ==
  /\ Main \notin Handlers
  /\ NoThread \notin Handlers \cup {Main}
  /\ Lost \notin Handlers \cup {Main, NoThread}

ASSUME TreesAssumption == NoTree \notin Trees

ASSUME SettingsAssumption ==
  /\ SleepBeforeDump \in BOOLEAN
  /\ FallbackFresh \in BOOLEAN
  /\ ResumeOnStart \in BOOLEAN
  /\ Stray \in BOOLEAN
  /\ Faults \subseteq FaultKinds
  /\ MaxCrashes \in Nat

VARIABLES
  state,      \* the global `state`
  lock,       \* owner of operation_lock, NoThread or Lost
  pc,         \* pc[t]: where thread t is
  opTree,     \* root_pid of the suspend, or restored_pid of the resume
  cudaSaved,  \* cuda_checkpointed
  handle,     \* the tree vllm_process refers to
  restored,   \* vllm_process is a _RestoredProcess, not a Popen
  tree,       \* tree[t]: "live", "stopping" (signalled), "abandoned" (told to
              \* exit by a fallback that gave up), "zombie" or "gone"
  cuda,       \* cuda[t]: "running", "locked" or "checkpointed"
  engine,     \* engine[t]: what the memory of the EngineCore of t says
  slot,       \* the tree whose image is in checkpoint_dir
  torn,       \* the image in checkpoint_dir has lost some files
  saved,      \* the EngineCore memory in the image
  staged,     \* the staging directory: "none", "partial" or "full"
  archive,    \* the image last moved to *.stale-failed-*
  request,    \* .vllm-criu-restore-request exists
  pending,    \* .vllm-criu-restore-pending exists
  status,     \* .vllm-criu-restore-status: "none", "stage", "done", "failed"
  reapers,    \* the running reap_vllm threads
  crashes     \* container restarts so far

launcherVars == <<state, lock, pc>>
opVars       == <<opTree, cudaSaved>>
handleVars   == <<handle, restored>>
treeVars     == <<tree, cuda, engine>>
imageVars    == <<slot, torn, saved, staged, archive>>
markerVars   == <<request, pending, status>>
diskVars     == <<imageVars, markerVars>>
restVars     == <<reapers, crashes>>
\* everything but pc, and everything but state, lock and pc
stillVars    == <<opVars, handleVars, treeVars, diskVars, restVars>>
quietVars    == <<state, lock, stillVars>>
vars == <<launcherVars, stillVars>>

Threads == Handlers \cup {Main}

\* Positions of a suspend and of a resume at which the operation lock is held.
SuspendAt == {"s_check", "s_find", "s_sleep", "s_prepare", "s_trackers",
              "s_lock", "s_save", "s_dump", "s_publish", "s_commit", "s_done",
              "s_except", "s_rollback", "s_wake", "s_reset", "s_raise"}
ResumeAt  == {"r_check", "r_tools", "r_criu", "r_find", "r_cuda", "r_marker",
              "r_ready", "r_handshake", "r_local", "r_remove", "r_removed",
              "r_running", "r_done",
              "r_except", "r_archive", "r_start", "r_wait", "r_giveup",
              "r_raise"}
Replies   == {"ok", "error", "busy"}
BootAt    == {"m_boot", "m_start", "m_reap"}
Positions == SuspendAt \cup ResumeAt \cup Replies \cup BootAt
               \cup {"idle", "serving", "exited"}
TreeStates == {"live", "stopping", "abandoned", "zombie", "gone"}

States == {"starting", "running", "checkpointing", "checkpointed",
           "restoring", "stopped"}

\* What a dump keeps of the EngineCore: the device memory is asleep, the
\* worker was prepared, and how far the process-local restore has come.
Engines == [asleep : BOOLEAN, prepared : BOOLEAN,
            local : {"none", "busy", "failed", "again", "done"}]
FreshEngine == [asleep |-> FALSE, prepared |-> FALSE, local |-> "none"]

Reapers == [at : {"wait", "read", "set"}, tree : Trees, restored : BOOLEAN]

Fault(f) == f \in Faults
Goto(t, p) == pc' = [pc EXCEPT ![t] = p]
Live(x) == x \in Trees /\ tree[x] = "live"
\* The trees that run and were not given up by a fallback, and those that were
Up      == {x \in Trees : tree[x] \in {"live", "stopping"}}
Leaving == {x \in Trees : tree[x] = "abandoned"}
\* /proc/<pid> exists: also for a zombie
InProc(x) == x \in Trees /\ tree[x] # "gone"

\* process_tree.reap_children: waitpid(-1, WNOHANG) until nothing is left
Reaped(tr) == [x \in Trees |-> IF tr[x] = "zombie" THEN "gone" ELSE tr[x]]

(***************************************************************************)
(* main() and start_vllm()                                                 *)
(***************************************************************************)
Init ==
  /\ state = "starting"
  /\ lock = NoThread
  /\ pc = [t \in Threads |-> IF t = Main THEN "m_boot" ELSE "idle"]
  /\ opTree = NoTree /\ cudaSaved = FALSE
  /\ handle = NoTree /\ restored = FALSE
  /\ tree = [x \in Trees |-> "gone"]
  /\ cuda = [x \in Trees |-> "running"]
  /\ engine = [x \in Trees |-> FreshEngine]
  /\ slot = NoTree /\ torn = FALSE /\ saved = FreshEngine
  /\ staged = "none" /\ archive = NoTree
  /\ request = FALSE /\ pending = FALSE /\ status = "none"
  /\ reapers = {} /\ crashes = 0

\* A process gets new pids: a name no image, operation or thread refers to
\* (which of these names does not matter).  The names of exited trees are used
\* again, so that Trees can be a small set.
Unused == {x \in Trees : /\ tree[x] \in {"gone", "zombie"}
                         /\ x \notin {slot, archive, opTree}
                         /\ \A r \in reapers : r.tree # x}
NewTree == CHOOSE x \in Unused : TRUE

\* start_vllm: Popen, publish the handle, report "running" at once
StartVllm ==
  /\ Unused # {}
  /\ tree' = [tree EXCEPT ![NewTree] = "live"]
  /\ cuda' = [cuda EXCEPT ![NewTree] = "running"]
  /\ engine' = [engine EXCEPT ![NewTree] = FreshEngine]
  /\ handle' = NewTree
  /\ restored' = FALSE
  /\ state' = "running"

\* The markers main() removes before anything is started
BootMarkers == request' = FALSE /\ status' = "none" /\ UNCHANGED pending

Boot ==
  /\ pc[Main] = "m_boot"
  /\ BootMarkers
  /\ IF ResumeOnStart /\ slot # NoTree
       THEN /\ state' = "checkpointed"
            /\ lock' = Main
            /\ Goto(Main, "r_check")
       ELSE /\ Goto(Main, "m_start")
            /\ UNCHANGED <<state, lock>>
  /\ UNCHANGED <<opVars, handleVars, treeVars, imageVars, restVars>>

BootStarts ==
  /\ pc[Main] = "m_start"
  /\ StartVllm
  /\ Goto(Main, "m_reap")
  /\ UNCHANGED <<lock, opVars, diskVars, restVars>>

\* A marker that cannot be removed or a vLLM that cannot be started ends main()
\* and with it the launcher
BootFails ==
  /\ \/ pc[Main] = "m_boot" /\ Fault("disk")
     \/ pc[Main] = "m_start" /\ Fault("cmd")
  /\ Goto(Main, "exited")
  /\ UNCHANGED quietVars

\* Thread(target=reap_vllm).start(): the new thread reads vllm_process first
SpawnReaper(x, isRestored) ==
  reapers' = reapers \cup
    {[at |-> "wait", tree |-> x, restored |-> isRestored]}

BootServes ==
  /\ pc[Main] = "m_reap"
  /\ SpawnReaper(handle, restored)
  /\ Goto(Main, "serving")
  /\ UNCHANGED <<state, lock, opVars, handleVars, treeVars, diskVars, crashes>>

(***************************************************************************)
(* The control API.  Clients that are not stray look at the reported state *)
(* before they post.                                                       *)
(***************************************************************************)
Accept(h) == pc[h] = "idle" /\ pc[Main] = "serving"
MaySuspend == Stray \/ state = "running"
MayResume  == Stray \/ state = "checkpointed"

\* (variant: the acquire stands inside the try, whose finally releases)
BusyReleases(h) ==
  /\ Accept(h) /\ (MaySuspend \/ MayResume)
  /\ lock # NoThread
  /\ lock' = NoThread
  /\ Goto(h, "busy")
  /\ UNCHANGED <<state, stillVars>>

\* operation_lock.acquire(blocking=False) fails outside the try: nothing is
\* reset and nothing is released
Busy(h) ==
  /\ Accept(h) /\ (MaySuspend \/ MayResume)
  /\ lock # NoThread
  /\ Goto(h, "busy")
  /\ UNCHANGED quietVars

Begin(h, p) ==
  /\ Accept(h)
  /\ lock = NoThread
  /\ lock' = h
  /\ Goto(h, p)
  /\ UNCHANGED <<state, stillVars>>

Suspend(h) == MaySuspend /\ Begin(h, "s_check")
Resume(h)  == MayResume  /\ Begin(h, "r_check")

\* send_json: the operation has ended, the reply says how
Reply(h) ==
  /\ pc[h] \in Replies
  /\ Goto(h, "idle")
  /\ UNCHANGED quietVars

\* The steps that only need the tree to answer: find_engine on both paths,
\* api.ready, and reconnect_zmq + SIGUSR1 + wait_for_enginecore_ready
Answered == [s_find |-> "s_sleep", r_find |-> "r_cuda",
             r_ready |-> "r_handshake", r_handshake |-> "r_local"]
Ask(t) ==
  /\ pc[t] \in DOMAIN Answered
  /\ Live(opTree)
  /\ Goto(t, Answered[pc[t]])
  /\ UNCHANGED quietVars

(***************************************************************************)
(* checkpoint_vllm()                                                       *)
(***************************************************************************)
\* vllm_process.poll() is None: a Popen reaps its own zombie, while a
\* _RestoredProcess takes any /proc entry for life
PollsAlive == IF restored THEN InProc(handle)
              ELSE handle \in Up \cup Leaving
Polled == IF ~restored /\ handle \in Trees /\ tree[handle] = "zombie"
            THEN [tree EXCEPT ![handle] = "gone"] ELSE tree

SuspendChecks(t) ==
  /\ pc[t] = "s_check"
  /\ PollsAlive
  /\ slot = NoTree
  /\ staged' = "partial"
  /\ opTree' = handle
  /\ Goto(t, "s_find")
  /\ UNCHANGED <<state, lock, cudaSaved, handleVars, treeVars, slot, torn,
                 saved, archive, markerVars, restVars>>

SuspendRefused(t) ==
  /\ pc[t] = "s_check"
  /\ ~PollsAlive \/ slot # NoTree \/ Fault("disk")
  /\ tree' = Polled
  /\ Goto(t, "s_except")
  /\ UNCHANGED <<state, lock, opVars, handleVars, cuda, engine, diskVars,
                 restVars>>

\* api.sleep_level, when a sleep level is configured
SleepEffect == engine' = IF SleepBeforeDump
                           THEN [engine EXCEPT ![opTree].asleep = TRUE]
                           ELSE engine
Sleep(t) ==
  /\ pc[t] = "s_sleep"
  /\ Live(opTree)
  /\ SleepEffect
  /\ Goto(t, "s_prepare")
  /\ UNCHANGED <<state, lock, opVars, handleVars, tree, cuda, diskVars,
                 restVars>>

\* The request timed out at the launcher and yet reached the engine
SleepTimesOut(t) ==
  /\ pc[t] = "s_sleep"
  /\ SleepBeforeDump /\ Fault("timeout")
  /\ Live(opTree)
  /\ SleepEffect
  /\ Goto(t, "s_except")
  /\ UNCHANGED <<state, lock, opVars, handleVars, tree, cuda, diskVars,
                 restVars>>

PrepareEffect == engine' = [engine EXCEPT ![opTree].prepared = TRUE]
Prepare(t) ==
  /\ pc[t] = "s_prepare"
  /\ Live(opTree)
  /\ PrepareEffect
  /\ Goto(t, "s_trackers")
  /\ UNCHANGED <<state, lock, opVars, handleVars, tree, cuda, diskVars,
                 restVars>>

\* terminate_resource_trackers ends with reap_children()
TerminateTrackers(t) ==
  /\ pc[t] = "s_trackers"
  /\ tree' = Reaped(tree)
  /\ Goto(t, "s_lock")
  /\ UNCHANGED <<state, lock, opVars, handleVars, cuda, engine, diskVars,
                 restVars>>

CudaLock(t) ==
  /\ pc[t] = "s_lock"
  /\ Live(opTree)
  /\ cuda[opTree] = "running"
  /\ cuda' = [cuda EXCEPT ![opTree] = "locked"]
  /\ Goto(t, "s_save")
  /\ UNCHANGED <<state, lock, opVars, handleVars, tree, engine, diskVars,
                 restVars>>

\* cuda.checkpoint; cuda_checkpointed = True; set_state("checkpointing")
CudaSave(t) ==
  /\ pc[t] = "s_save"
  /\ Live(opTree)
  /\ cuda' = [cuda EXCEPT ![opTree] = "checkpointed"]
  /\ cudaSaved' = TRUE
  /\ state' = "checkpointing"
  /\ Goto(t, "s_dump")
  /\ UNCHANGED <<lock, opTree, handleVars, tree, engine, diskVars, restVars>>

\* criu dump writes the image and kills the tree
CriuDump(t) ==
  /\ pc[t] = "s_dump"
  /\ Live(opTree)
  /\ staged' = "full"
  /\ saved' = engine[opTree]
  /\ tree' = [tree EXCEPT ![opTree] = "zombie"]
  /\ Goto(t, "s_publish")
  /\ UNCHANGED <<state, lock, opVars, handleVars, cuda, engine, slot, torn,
                 archive, markerVars, restVars>>

\* staging_dir.replace(checkpoint_dir)
Publish(t) ==
  /\ pc[t] = "s_publish"
  /\ slot' = opTree
  /\ torn' = FALSE
  /\ staged' = "none"
  /\ Goto(t, "s_commit")
  /\ UNCHANGED <<state, lock, opVars, handleVars, treeVars, saved, archive,
                 markerVars, restVars>>

Commit(t) ==
  /\ pc[t] = "s_commit"
  /\ tree' = Reaped(tree)
  /\ state' = "checkpointed"
  /\ Goto(t, "s_done")
  /\ UNCHANGED <<lock, opVars, handleVars, cuda, engine, diskVars, restVars>>

\* Why the step at position p of a suspend raises
SuspendFault(p) ==
  \/ p \in {"s_find", "s_sleep", "s_prepare", "s_lock", "s_save", "s_dump"}
       /\ ~Live(opTree)
  \/ p \in {"s_sleep", "s_prepare"} /\ (Fault("api") \/ Fault("timeout"))
  \/ p \in {"s_lock", "s_save", "s_dump"} /\ Fault("cmd")
  \/ p = "s_lock" /\ cuda[opTree] # "running"
  \/ p = "s_publish" /\ Fault("disk")

SuspendThrows(t) ==
  /\ pc[t] \in SuspendAt
  /\ SuspendFault(pc[t])
  /\ Goto(t, "s_except")
  /\ UNCHANGED quietVars

\* except Exception: remove the staging directory, then roll back what
\* cuda_checkpointed says was saved.  An rmtree that raises skips all of that;
\* what it leaves of the directory is never looked at again.
SuspendCleansUp(t) ==
  /\ pc[t] = "s_except"
  /\ staged' = "none"
  /\ \/ Goto(t, IF cudaSaved THEN "s_rollback" ELSE "s_reset")
     \/ opTree # NoTree /\ Fault("disk") /\ Goto(t, "s_raise")
  /\ UNCHANGED <<state, lock, opVars, handleVars, treeVars, slot, torn, saved,
                 archive, markerVars, restVars>>

\* cuda.rollback: does nothing without a process and swallows its failures
Rollback(t) ==
  /\ pc[t] = "s_rollback"
  /\ \/ /\ Live(opTree)
        /\ cuda' = [cuda EXCEPT ![opTree] = "running"]
     \/ /\ ~Live(opTree) \/ Fault("cmd")
        /\ UNCHANGED cuda
  /\ Goto(t, "s_wake")
  /\ UNCHANGED <<state, lock, opVars, handleVars, tree, engine, diskVars,
                 restVars>>

\* api.wake_level2: fails when the engine cannot run; the failure is logged
WakeLevel2(t) ==
  /\ pc[t] = "s_wake"
  /\ \/ /\ Live(opTree) /\ cuda[opTree] = "running"
        /\ engine' = [engine EXCEPT ![opTree].asleep = FALSE]
     \/ /\ ~Live(opTree) \/ cuda[opTree] # "running" \/ Fault("api")
        /\ UNCHANGED engine
  /\ Goto(t, "s_reset")
  /\ UNCHANGED <<state, lock, opVars, handleVars, tree, cuda, diskVars,
                 restVars>>

SuspendResets(t) ==
  /\ pc[t] = "s_reset"
  /\ state' = "running"
  /\ Goto(t, "s_raise")
  /\ UNCHANGED <<lock, stillVars>>

\* finally: operation_lock.release()
SuspendFinally(t) ==
  /\ pc[t] \in {"s_done", "s_raise"}
  /\ lock' = NoThread
  /\ opTree' = NoTree /\ cudaSaved' = FALSE
  /\ Goto(t, IF pc[t] = "s_done" THEN "ok" ELSE "error")
  /\ UNCHANGED <<state, handleVars, treeVars, diskVars, restVars>>

(***************************************************************************)
(* restore_vllm()                                                          *)
(***************************************************************************)
\* (variant: the status file of an earlier resume stays)
ResumeMarkersKeepStatus ==
  request' = FALSE /\ pending' = FALSE /\ UNCHANGED status

\* The markers a resume removes before it begins
ResumeMarkers == request' = FALSE /\ pending' = FALSE /\ status' = "none"

ResumeChecks(t) ==
  /\ pc[t] = "r_check"
  /\ slot # NoTree
  /\ ResumeMarkers
  /\ state' = "restoring"
  /\ Goto(t, "r_tools")
  /\ UNCHANGED <<lock, opVars, handleVars, treeVars, imageVars, restVars>>

\* checkpoint_tools(); restore_pending.touch()
MarkPending(t) ==
  /\ pc[t] = "r_tools"
  /\ pending' = TRUE
  /\ Goto(t, "r_criu")
  /\ UNCHANGED <<state, lock, opVars, handleVars, treeVars, imageVars, request,
                 status, restVars>>

\* CRIU needs every file of the image and the pids of the dumped tree.  A
\* Popen.wait() on the old process has returned by the time its pid is free.
PidsFree(x) ==
  /\ tree[x] = "gone"
  /\ [at |-> "wait", tree |-> x, restored |-> FALSE] \notin reapers

\* (variant: the image is deleted as soon as CRIU has used it)
CriuRestoreConsumes(t) ==
  /\ pc[t] = "r_criu"
  /\ ~torn
  /\ PidsFree(slot)
  /\ opTree' = slot
  /\ slot' = NoTree
  /\ tree' = [tree EXCEPT ![slot] = "live"]
  /\ engine' = [engine EXCEPT ![slot] = saved]
  /\ cuda' = [cuda EXCEPT ![slot] = "checkpointed"]
  /\ Goto(t, "r_find")
  /\ UNCHANGED <<state, lock, cudaSaved, handleVars, torn, saved, staged,
                 archive, markerVars, restVars>>

\* criu restore: the tree is back with the memory of the image, its CUDA state
\* restored by CRIU's plugin or still to be restored
CriuRestore(t) ==
  /\ pc[t] = "r_criu"
  /\ ~torn
  /\ PidsFree(slot)
  /\ opTree' = slot
  /\ tree' = [tree EXCEPT ![slot] = "live"]
  /\ engine' = [engine EXCEPT ![slot] = saved]
  /\ \E c \in {"checkpointed", "running"} : cuda' = [cuda EXCEPT ![slot] = c]
  /\ Goto(t, "r_find")
  /\ UNCHANGED <<state, lock, cudaSaved, handleVars, diskVars, restVars>>

\* cuda.restore_if_needed: a process reported as running may reject the
\* restore, any other must be restored and unlocked
CudaRestore(t) ==
  /\ pc[t] = "r_cuda"
  /\ Live(opTree)
  /\ cuda' = [cuda EXCEPT ![opTree] = "running"]
  /\ Goto(t, "r_marker")
  /\ UNCHANGED <<state, lock, opVars, handleVars, tree, engine, diskVars,
                 restVars>>

MarkRequest(t) ==
  /\ pc[t] = "r_marker"
  /\ request' = TRUE
  /\ Goto(t, "r_ready")
  /\ UNCHANGED <<state, lock, opVars, handleVars, treeVars, imageVars, pending,
                 status, restVars>>

\* (variant: any status file ends the wait)
LocalRestoreAnyStatus == SleepBeforeDump => status # "none"

\* _wait_for_enginecore_local_restore is over
LocalRestoreSeen == SleepBeforeDump => status = "done"

\* ... and the restored root becomes vllm_process
Adopt(t) ==
  /\ pc[t] = "r_local"
  /\ LocalRestoreSeen
  /\ handle' = opTree
  /\ restored' = TRUE
  /\ Goto(t, "r_remove")
  /\ UNCHANGED <<state, lock, opVars, treeVars, diskVars, restVars>>

\* shutil.rmtree(checkpoint_dir): not atomic
RemoveBegins(t) ==
  /\ pc[t] = "r_remove"
  /\ torn' = TRUE
  /\ Goto(t, "r_removed")
  /\ UNCHANGED <<state, lock, opVars, handleVars, treeVars, slot, saved,
                 staged, archive, markerVars, restVars>>

RemoveEnds(t) ==
  /\ pc[t] = "r_removed"
  /\ slot' = NoTree /\ torn' = FALSE
  /\ Goto(t, "r_running")
  /\ UNCHANGED <<state, lock, opVars, handleVars, treeVars, saved, staged,
                 archive, markerVars, restVars>>

ResumeCommits(t) ==
  /\ pc[t] = "r_running"
  /\ state' = "running"
  /\ SpawnReaper(opTree, TRUE)
  /\ Goto(t, "r_done")
  /\ UNCHANGED <<lock, opVars, handleVars, treeVars, diskVars, crashes>>

\* The engine will not write "done" any more: it is no longer there, or it
\* holds that its local restore was complete before the request came
EngineStuck(x) ==
  \/ ~Live(x)
  \/ engine[x].local = "done" /\ status # "done"

\* (variant: the local restore is awaited without a deadline)
ResumeFaultNoDeadline(p) ==
  \/ p = "r_check" /\ slot = NoTree
  \/ p \in {"r_tools", "r_criu", "r_cuda"} /\ Fault("cmd")
  \/ p \in {"r_tools", "r_marker", "r_remove", "r_removed"} /\ Fault("disk")
  \/ p = "r_criu" /\ (torn \/ tree[slot] # "gone")
  \/ p \in {"r_find", "r_cuda", "r_ready", "r_handshake"} /\ ~Live(opTree)
  \/ p = "r_local" /\ SleepBeforeDump /\ status = "failed"

\* Why the step at position p of a resume raises
ResumeFault(p) ==
  \/ p = "r_check" /\ slot = NoTree
  \/ p \in {"r_tools", "r_criu", "r_cuda"} /\ Fault("cmd")
  \/ /\ p \in {"r_check", "r_tools", "r_marker", "r_remove", "r_removed"}
     /\ Fault("disk")
  \/ p = "r_criu" /\ (torn \/ tree[slot] # "gone")
  \/ p \in {"r_find", "r_cuda", "r_ready", "r_handshake"} /\ ~Live(opTree)
  \/ p = "r_handshake" /\ Fault("api")
  \/ p \in {"r_ready", "r_handshake"} /\ Fault("timeout")
  \/ /\ p = "r_local" /\ SleepBeforeDump /\ status # "done"
     /\ status = "failed" \/ EngineStuck(opTree) \/ Fault("timeout")

ResumeThrows(t) ==
  /\ pc[t] \in ResumeAt
  /\ ResumeFault(pc[t])
  /\ Goto(t, "r_except")
  /\ UNCHANGED quietVars

\* (variant: the fallback starts in front of the request marker)
FallbackMarkersKept == UNCHANGED <<request, status>>

\* What the except clause removes before a fresh process may start
FallbackMarkers == IF FallbackFresh
                     THEN request' = FALSE /\ status' = "none"
                     ELSE UNCHANGED <<request, status>>

\* (variant: the half-restored tree is left alone)
LeaveRestored == tree' = Reaped(tree)

\* terminate_tree sends SIGKILL; reap_children does not wait for the death
TerminateRestored ==
  \/ /\ InProc(opTree)
     /\ tree' = Reaped([tree EXCEPT ![opTree] = "zombie"])
  \/ /\ InProc(opTree)
     /\ tree' = [Reaped(tree) EXCEPT ![opTree] = "zombie"]
  \/ /\ ~InProc(opTree)
     /\ tree' = Reaped(tree)

\* An unlink of the handler that raises skips the fallback and the state
FallbackMarkersFail ==
  /\ FallbackFresh /\ Fault("disk")
  /\ request' \in {request, FALSE}
  /\ UNCHANGED status

ResumeCleansUp(t) ==
  /\ pc[t] = "r_except"
  /\ TerminateRestored
  /\ \/ /\ FallbackMarkers
        /\ Goto(t, IF FallbackFresh THEN "r_archive" ELSE "r_giveup")
     \/ FallbackMarkersFail /\ Goto(t, "r_raise")
  /\ UNCHANGED <<state, lock, opVars, handleVars, cuda, engine, imageVars,
                 pending, restVars>>

\* _archive_failed_checkpoint: nothing to do for a missing or empty slot
ArchiveFailed(t) ==
  /\ pc[t] = "r_archive"
  /\ IF slot = NoTree
       THEN UNCHANGED <<slot, torn, archive>>
       ELSE archive' = slot /\ slot' = NoTree /\ torn' = FALSE
  /\ Goto(t, "r_start")
  /\ UNCHANGED <<state, lock, opVars, handleVars, treeVars, saved, staged,
                 markerVars, restVars>>

FallbackStarts(t) ==
  /\ pc[t] = "r_start"
  /\ StartVllm
  /\ Goto(t, "r_wait")
  /\ UNCHANGED <<lock, opVars, diskVars, restVars>>

FallbackReady(t) ==
  /\ pc[t] = "r_wait"
  /\ Live(handle)
  /\ state' = "running"
  /\ Goto(t, "r_done")
  /\ UNCHANGED <<lock, stillVars>>

\* The fresh process did not answer in fallback_timeout: SIGTERM, no wait
FallbackTimesOut(t) ==
  /\ pc[t] = "r_wait"
  /\ Fault("timeout") \/ ~Live(handle)
  /\ tree' = [x \in Trees |-> IF x = handle /\ x \in Up THEN "abandoned"
                                                        ELSE tree[x]]
  /\ Goto(t, "r_giveup")
  /\ UNCHANGED <<state, lock, opVars, handleVars, cuda, engine, diskVars,
                 restVars>>

\* _archive_failed_checkpoint or start_vllm raised: logged
FallbackFails(t) ==
  /\ \/ pc[t] = "r_archive" /\ Fault("disk")
     \/ pc[t] = "r_start" /\ Fault("cmd")
  /\ Goto(t, "r_giveup")
  /\ UNCHANGED quietVars

\* (variants: the state after a failed resume)
ResumeGivesUpRunning(t) ==
  /\ pc[t] = "r_giveup"
  /\ state' = "running"
  /\ Goto(t, "r_raise")
  /\ UNCHANGED <<lock, stillVars>>
ResumeGivesUpFailed(t) ==
  /\ pc[t] = "r_giveup"
  /\ state' = "failed"
  /\ Goto(t, "r_raise")
  /\ UNCHANGED <<lock, stillVars>>

ResumeGivesUp(t) ==
  /\ pc[t] = "r_giveup"
  /\ state' = "checkpointed"
  /\ Goto(t, "r_raise")
  /\ UNCHANGED <<lock, stillVars>>

\* (variant: only the pending marker is removed)
FinallyMarkersKeepRequest == pending' = FALSE /\ UNCHANGED <<request, status>>

\* (variant: the pending marker is left for the monitors)
FinallyMarkersKeepPending == request' = FALSE /\ UNCHANGED <<pending, status>>

\* finally: remove both markers, release the lock.  In main() an exception
\* makes a fresh process start.
FinallyMarkers == request' = FALSE /\ pending' = FALSE /\ UNCHANGED status
\* (variant: main() does not catch the exception of restore_vllm)
OutcomeUncaught(t, ok) == IF ok THEN (IF t = Main THEN "m_reap" ELSE "ok")
                                ELSE "error"
Outcome(t, ok) == IF t = Main THEN (IF ok THEN "m_reap" ELSE "m_start")
                              ELSE (IF ok THEN "ok" ELSE "error")

ResumeFinally(t) ==
  /\ pc[t] \in {"r_done", "r_raise"}
  /\ FinallyMarkers
  /\ lock' = NoThread
  /\ opTree' = NoTree /\ cudaSaved' = FALSE
  /\ Goto(t, Outcome(t, pc[t] = "r_done"))
  /\ UNCHANGED <<state, handleVars, treeVars, imageVars, restVars>>

\* An unlink of the finally raised: the lock, which would be released after
\* it, stays held by a thread that has left, and main() takes even a resume
\* that succeeded for a failed one
ResumeLosesLock(t) ==
  /\ pc[t] \in {"r_done", "r_raise"}
  /\ Fault("disk")
  /\ request' \in {request, FALSE}
  /\ lock' = Lost
  /\ opTree' = NoTree /\ cudaSaved' = FALSE
  /\ Goto(t, Outcome(t, FALSE))
  /\ UNCHANGED <<state, handleVars, treeVars, imageVars, pending, status,
                 restVars>>

(***************************************************************************)
(* reap_vllm(): one thread per started or restored process                 *)
(***************************************************************************)
Becomes(r, p) == reapers' = (reapers \ {r}) \cup {[r EXCEPT !.at = p]}

\* Popen.wait() reaps its child; _RestoredProcess.wait() polls /proc
ReaperWaits(r) ==
  /\ r.at = "wait"
  /\ tree[r.tree] \in (IF r.restored THEN {"gone"} ELSE {"zombie", "gone"})
  /\ tree' = [tree EXCEPT ![r.tree] = "gone"]
  /\ Becomes(r, "read")
  /\ UNCHANGED <<launcherVars, opVars, handleVars, cuda, engine, diskVars,
                 crashes>>

ExpectedExit == {"checkpointing", "checkpointed", "restoring"}

ReaperReads(r) ==
  /\ r.at = "read"
  /\ IF state \in ExpectedExit THEN reapers' = reapers \ {r}
                               ELSE Becomes(r, "set")
  /\ UNCHANGED <<launcherVars, opVars, handleVars, treeVars, diskVars,
                 crashes>>

ReaperSets(r) ==
  /\ r.at = "set"
  /\ state' = "stopped"
  /\ reapers' = reapers \ {r}
  /\ UNCHANGED <<lock, pc, opVars, handleVars, treeVars, diskVars, crashes>>

(***************************************************************************)
(* The process-local restore of the EngineCore (lifecycle.py), as far as   *)
(* the launcher can see it: it reads the request marker and writes the     *)
(* status file.                                                            *)
(***************************************************************************)
LocalBegins == [none |-> "busy", failed |-> "again"]

EngineRestoreBegins(x) ==
  /\ Live(x) /\ request
  /\ engine[x].local \in {"none", "failed"}
  /\ engine' = [engine EXCEPT ![x].local = LocalBegins[@]]
  /\ status' = "stage"
  /\ UNCHANGED <<launcherVars, opVars, handleVars, tree, cuda, imageVars,
                 request, pending, restVars>>

EngineRestoreDone(x) ==
  /\ Live(x) /\ cuda[x] = "running"
  /\ engine[x].local \in {"busy", "again"}
  /\ engine' = [engine EXCEPT ![x] =
                  [asleep |-> FALSE, prepared |-> FALSE, local |-> "done"]]
  /\ status' = "done"
  /\ UNCHANGED <<launcherVars, opVars, handleVars, tree, cuda, imageVars,
                 request, pending, restVars>>

\* The exception ends the restore thread, after which the main loop may try
\* again, or it ends the main loop and with it the EngineCore
EngineRestoreFails(x) ==
  /\ Fault("engine")
  /\ Live(x)
  /\ engine[x].local \in {"busy", "again"}
  /\ status' = "failed"
  /\ engine' = [engine EXCEPT ![x].local = "failed"]
  /\ \/ engine[x].local = "busy" /\ UNCHANGED tree
     \/ tree' = [tree EXCEPT ![x] = "zombie"]
  /\ UNCHANGED <<launcherVars, opVars, handleVars, cuda, imageVars, request,
                 pending, restVars>>

(***************************************************************************)
(* What the world does                                                     *)
(***************************************************************************)
TreeDies(x) ==
  /\ tree[x] = "live" /\ Fault("die")
  /\ tree' = [tree EXCEPT ![x] = "zombie"]
  /\ UNCHANGED <<launcherVars, opVars, handleVars, cuda, engine, diskVars,
                 restVars>>

TreeStops(x) ==
  /\ tree[x] \in {"stopping", "abandoned"}
  /\ tree' = [tree EXCEPT ![x] = "zombie"]
  /\ UNCHANGED <<launcherVars, opVars, handleVars, cuda, engine, diskVars,
                 restVars>>

\* forward_signal: only a Popen has send_signal
ForwardSignal ==
  /\ Fault("signal")
  /\ ~restored /\ Live(handle)
  /\ tree' = [tree EXCEPT ![handle] = "stopping"]
  /\ UNCHANGED <<launcherVars, opVars, handleVars, cuda, engine, diskVars,
                 restVars>>

\* The container is killed and started again: only the disk survives
Crash ==
  /\ crashes < MaxCrashes
  /\ crashes' = crashes + 1
  /\ state' = "starting"
  /\ lock' = NoThread
  /\ pc' = [t \in Threads |-> IF t = Main THEN "m_boot" ELSE "idle"]
  /\ opTree' = NoTree /\ cudaSaved' = FALSE
  /\ handle' = NoTree /\ restored' = FALSE
  /\ tree' = [x \in Trees |-> "gone"]
  /\ cuda' = [x \in Trees |-> "running"]
  /\ engine' = [x \in Trees |-> FreshEngine]
  /\ staged' = "none"
  /\ reapers' = {}
  /\ UNCHANGED <<slot, torn, saved, archive, markerVars>>

SuspendStep(t) ==
  \/ SuspendChecks(t) \/ SuspendRefused(t) \/ Sleep(t)
  \/ SleepTimesOut(t) \/ Prepare(t) \/ TerminateTrackers(t) \/ CudaLock(t)
  \/ CudaSave(t) \/ CriuDump(t) \/ Publish(t) \/ Commit(t)
  \/ SuspendThrows(t) \/ SuspendCleansUp(t) \/ Rollback(t) \/ WakeLevel2(t)
  \/ SuspendResets(t) \/ SuspendFinally(t)

ResumeStep(t) ==
  \/ ResumeChecks(t) \/ MarkPending(t) \/ CriuRestore(t)
  \/ CudaRestore(t) \/ MarkRequest(t)
  \/ Adopt(t) \/ RemoveBegins(t) \/ RemoveEnds(t) \/ ResumeCommits(t)
  \/ ResumeThrows(t) \/ ResumeCleansUp(t) \/ ArchiveFailed(t)
  \/ FallbackStarts(t) \/ FallbackReady(t) \/ FallbackTimesOut(t)
  \/ FallbackFails(t) \/ ResumeGivesUp(t) \/ ResumeFinally(t)
  \/ ResumeLosesLock(t)

Request(h) == Suspend(h) \/ Resume(h) \/ Busy(h)
BootStep == Boot \/ BootStarts \/ BootServes \/ BootFails
ReaperStep(r) == ReaperWaits(r) \/ ReaperReads(r) \/ ReaperSets(r)
EngineStep(x) ==
  EngineRestoreBegins(x) \/ EngineRestoreDone(x) \/ EngineRestoreFails(x)
World == (\E x \in Trees : TreeDies(x) \/ TreeStops(x)) \/ ForwardSignal
           \/ Crash

Next ==
  \/ BootStep
  \/ \E h \in Handlers : Request(h) \/ Reply(h) \/ SuspendStep(h)
  \/ \E t \in Threads : Ask(t) \/ ResumeStep(t)
  \/ \E r \in reapers : ReaperStep(r)
  \/ \E x \in Trees : EngineStep(x)
  \/ World

Spec == Init /\ [][Next]_vars

\* The scheduler runs every thread that can run, the launcher's and the
\* engine's; nobody owes a request, a failure or a crash.
Fairness ==
  /\ WF_vars(BootStep)
  /\ \A h \in Handlers : WF_vars(Ask(h) \/ SuspendStep(h) \/ Reply(h))
  /\ \A t \in Threads : WF_vars(Ask(t) \/ ResumeStep(t))
  /\ \A x \in Trees : /\ WF_vars(EngineRestoreBegins(x))
                      /\ WF_vars(EngineRestoreDone(x))
                      /\ WF_vars(TreeStops(x))
  /\ WF_vars(\E r \in reapers : ReaperStep(r))

FairSpec == Spec /\ Fairness

(***************************************************************************)
(* Properties                                                              *)
(***************************************************************************)
\* Every variable has its type.
LauncherOK == /\ state \in States
              /\ lock \in Threads \cup {NoThread, Lost}
              /\ pc \in [Threads -> Positions]
OpOK       == opTree \in Trees \cup {NoTree} /\ cudaSaved \in BOOLEAN
HandleOK   == handle \in Trees \cup {NoTree} /\ restored \in BOOLEAN
TreeOK     == /\ tree \in [Trees -> TreeStates]
              /\ cuda \in [Trees -> {"running", "locked", "checkpointed"}]
              /\ engine \in [Trees -> Engines]
ImageOK    == /\ slot \in Trees \cup {NoTree} /\ torn \in BOOLEAN
              /\ saved \in Engines
              /\ staged \in {"none", "partial", "full"}
              /\ archive \in Trees \cup {NoTree}
MarkerOK   == /\ request \in BOOLEAN /\ pending \in BOOLEAN
              /\ status \in {"none", "stage", "done", "failed"}
RestOK     == reapers \subseteq Reapers /\ crashes \in Nat
TypeOK == /\ LauncherOK /\ OpOK /\ HandleOK /\ TreeOK
          /\ ImageOK /\ MarkerOK /\ RestOK

InOp(t) == pc[t] \in SuspendAt \cup ResumeAt
AtRest == lock = NoThread /\ pc[Main] = "serving"

\* At most one operation runs and the owner of operation_lock runs it: every
\* path out of it, also each exception's, releases the lock.  The one that does
\* not is a finally whose unlink raises: the lock is then Lost, held by no
\* operation and for ever, and nobody is ever let in again.
LockOwned == \A t \in Threads : InOp(t) <=> lock = t

\* The request marker, which makes an EngineCore run its restore, exists only
\* within a resume, on the disk after a crash and until main() has removed it,
\* and where the finally could not remove it, which loses the lock as well.
RequestScoped ==
  request => \/ pc[Main] \in {"m_boot", "exited"} \/ lock = Lost
             \/ \E t \in Threads : lock = t /\ pc[t] \in ResumeAt

\* A process started afresh never comes up in front of a request marker: it
\* would run the restore-only worker bootstrap while its model is resident
\* (launcher.py:428-433, 567-569).  main() does start one in front of a marker
\* that the finally of its resume could not remove; the lock is Lost then.
FreshSeesNoRequest ==
  [][\A x \in Trees : tree[x] # "live" /\ tree'[x] = "live" /\ x # slot
        => ~request' \/ lock = Lost]_vars

\* An image leaves the checkpoint directory only for the archive, or once the
\* process restored from it is the one vllm_process names and its engine is
\* awake again: never while it is the only good copy of the service.
ImageKept ==
  [][slot # NoTree /\ slot' # slot
       => /\ slot' = NoTree
          /\ \/ archive' = slot
              \/ /\ handle = slot
                 /\ SleepBeforeDump => ~engine[slot].asleep]_vars

\* Between operations no image coexists with the process it was taken from:
\* resuming it would run the same pids, sockets and device memory twice.
ImageOrProcess ==
  lock \notin Threads /\ slot # NoTree => slot \notin Up \cup Leaving

\* An image is only published of an engine that is prepared, and asleep when a
\* sleep level is set: no late recovery of an earlier resume has undone it.
ImageQuiesced ==
  slot # NoTree => saved.prepared /\ (SleepBeforeDump => saved.asleep)

\* When clients heed the reported state, two vLLM trees never run side by
\* side, a tree that was signalled and has not exited included: there is device
\* memory for one.  Two exceptions.  The process of a fallback that gave up is
\* told to exit and nobody waits for it (launcher.py:459): the next fallback or
\* main() may start another beside it.  And when the finally of a boot's resume
\* cannot remove a marker, main() starts one beside the tree it has restored.
OneTree == lock # Lost => Cardinality(Up) <= 1

\* When clients heed the reported state and nothing crashes, the launcher does
\* not say "running" while an image, which only a resume can bring back, waits
\* in the checkpoint directory.
ImageNotHidden == AtRest /\ slot # NoTree => state # "running"

\* "checkpointed" tells the guard that the next request must restore the image:
\* there has to be one, and a whole one.  The exception is an image whose
\* process was already adopted when its removal failed (launcher.py:417): the
\* handler kills that process and reports what is left of the image.
CheckpointedHasImage ==
  AtRest /\ state = "checkpointed"
    => slot # NoTree /\ (torn => restored /\ handle = slot)

\* A restore in which nothing fails brings the same process back: it starts no
\* fresh one and puts no image aside.
RestoreKeepsProcess == archive = NoTree

\* The pending marker, which keeps the liveness monitors of vLLM quiet, is gone
\* after a resume, however it ended.  (A container killed within a resume
\* leaves it, and main() does not remove it; so does a finally that loses the
\* lock.)
PendingScoped == AtRest /\ crashes = 0 => ~pending

\* A suspend that fails leaves the live engine as it was: awake, unlocked and
\* not prepared for a dump.
FailedSuspendHarmless ==
  \A t \in Handlers : pc[t] = "s_raise" /\ Live(handle)
    => cuda[handle] = "running" /\ engine[handle] = FreshEngine

\* A successful resume reports an engine that has undone its preparation.
ResumedEngineRecovered ==
  \A t \in Threads : pc[t] = "r_done" /\ restored /\ Live(handle)
    => ~engine[handle].prepared

\* The launcher, seen from outside, is module Lifecycle: one process or its
\* image, never both outside a resume, and a second process only beside one
\* that was told to leave or after the lock was lost.
L == INSTANCE Lifecycle WITH
       op      <- IF lock = NoThread THEN "none"
                  ELSE IF lock = Lost THEN "lost"
                  ELSE IF pc[lock] \in SuspendAt THEN "suspend" ELSE "resume",
       running <- Up,
       leaving <- Leaving,
       image   <- slot

\* Every step of the launcher, also after a failure or a crash, is a step of
\* the abstract lifecycle: provided that its clients heed the state.
ImplementsLifecycle == L!Spec

\* Every suspend and resume ends, whichever command or engine restore fails in
\* it and whichever deadline passes.
OperationsEnd == \A t \in Threads : InOp(t) ~> ~InOp(t)

\* However a crash has left the disk, the launcher comes to serve again after
\* it was started, unless not even a fresh vLLM can be started, which ends it.
ComesToServe ==
  (pc[Main] # "serving") ~> (pc[Main] \in {"serving", "exited"})

=============================================================================
